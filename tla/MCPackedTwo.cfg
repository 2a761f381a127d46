SPECIFICATION Spec
CONSTANTS
  t1 = t1
  t2 = t2
  p1 = p1
  p2 = p2
  none = none
  some = some
  Threads = {t1, t2}
  Keys = {k1, k2}
  Values = {none, some}
  Empty = none
  PointCount <- MCPointCount
  Size <- MCSize
  Packs = {p1, p2}
  PackOf <- TwoPacks
  MaxUnits = 1
PROPERTIES
  ImplementsNodeStore
