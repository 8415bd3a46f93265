SPECIFICATION ConnectionSpec
CONSTANTS
  Requests <- Six
  Key <- Chains
  Free = "free"
  MaxTasks = 3
  MaxOut = 2
  MaxPanics = 1
  Callers = {"caller", "keepalive"}
  Keepalive = "keepalive"
  MaxCalls = 1
  MaxLinks = 2
  None = None
  TRIES = 2
  MaxOutputs = 2
  MaxUpsets = 2
  MaxOthers = 1
CHECK_DEADLOCK FALSE
INVARIANTS WireOrder TwiceOnTwoLinks 
PROPERTIES ImplementsSerial Answers  LossNoticed ScreenSettles
