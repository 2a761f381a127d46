SPECIFICATION Spec
CONSTANTS
    Runs = {1, 2, 3}
    HostOf <- SameHost
    Pids = {1, 2}
    InputsOf <- AllPlain
    Strides = {NoCode}
    MayCrash = {1, 2}
    Axes = 2
    HalfRange = 8
    Shapes = {"s", "t"}
    FloatOf <- MCFloatOf
    WholeDoubles <- MCWholeDoubles
    A = A
    B = B
    C = C
    D = D
    Wkts <- MCWkts
    WktEpsg <- MCWktEpsg
    Registry <- MCRegistry
    NoWkt = NoWkt
    NoGeo = NoGeo
    NoExtras = NoExtras
    NoCode = NoCode
    Headroom = 10
    MaxCode = 12
INVARIANTS OutputOwn CleanedUp
PROPERTY NeverPulled
