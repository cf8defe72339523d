SPECIFICATION Spec
CONSTANTS
  Tabs = {2}
  None = None
  MaxPairs = 3
  MaxLogouts = 1
PROPERTIES
  SignedOutStaysOut
CHECK_DEADLOCK FALSE
