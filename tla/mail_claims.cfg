SPECIFICATION Spec
CONSTANTS
  w1 = w1
  Worker = worker
  NoMsg = nomsg
  Msgs = {1}
  Windows = {w1}
  Forcers = {f1}
  To <- OneWindow
  Class <- OperatorClass
  PageLimit = 2
  MaxCrashes = 1
  MaxFaults = 1
  MaxSpawns = 1
INVARIANTS MailInv AtMostOnce InputKeepsClaim
PROPERTIES ImplementsLedger
