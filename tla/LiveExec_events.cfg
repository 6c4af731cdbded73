\* The wiring of factory.py: the user channel is never started.
SPECIFICATION LiveSpec
CONSTANTS
  LiveOrders = {o1}
  UserChannel = FALSE
  StatusNamesOrder = FALSE
CHECK_DEADLOCK FALSE
PROPERTY
  ImplementsOrderLife
