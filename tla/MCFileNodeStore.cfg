SPECIFICATION Spec
CONSTANTS
  none = none
  short = short
  long = long
  Threads = {t1, t2}
  Keys = {k1, k2}
  Values = {none, short, long}
  Empty = none
  PointCount <- MCPointCount
  Size <- MCSize
  MaxWrites = 3
PROPERTIES
  ImplementsNodeStore
