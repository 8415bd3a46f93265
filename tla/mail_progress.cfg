SPECIFICATION FairSpec
CONSTANTS
  w1 = w1
  Worker = worker
  NoMsg = nomsg
  Msgs = {1, 2}
  Windows = {w1}
  Forcers = {}
  To <- OneWindow
  Class <- MixedClass
  PageLimit = 2
  MaxCrashes = 0
  MaxFaults = 1
  MaxSpawns = 0
 
PROPERTIES OnePerSweep 
