SPECIFICATION LinkSpec
CONSTANTS
  Callers = {"caller", "keepalive"}
  Keepalive = "keepalive"
  MaxCalls = 1
  MaxLinks = 3
CHECK_DEADLOCK FALSE
INVARIANTS OneSocket
