\* Two BUY legs sent one after the other, as BinaryArbStrategy sends them.
SPECIFICATION CapSpec
CONSTANTS
  Orders = {o1, o2}
  i1 = i1
  i2 = i2
  Instruments = {i1, i2}
  Caps = {2}
  MaxQty = 2
  MaxOpen = 2
  ReadsMayFail = FALSE
  OrderShapes <- ArbLegs
  NoShape = NoShape
CHECK_DEADLOCK FALSE
INVARIANT
  ExposureWithinCap
