SPECIFICATION SessionsSpec
CONSTANTS
  safe = safe
  risky = risky
  edit = edit
  Dialogs = {safe, risky, edit}
  Summary <- Distinct
  Approved = {edit}
  Ruled = {safe}
  None = None
  HumanToo = FALSE
  Supervised = {TRUE, FALSE}
  MaxRaised = 4
  MaxToggles = 0
  MaxCrashes = 0
  MaxFaults = 2
  Daemons = {d1, d2}
  Home = d1
  Nobody = Nobody
  RUNNING_GRACE = 3
  MaxSpawns = 2
  MaxMoves = 1
  MaxProbes = 1
  MaxLosses = 1
INVARIANTS   LossAlerted
PROPERTIES Answered OrphanReapedPart
