SPECIFICATION Spec
CONSTANTS
  safe = safe
  risky = risky
  edit = edit
  Dialogs = {safe}
  Summary <- Distinct
  Approved = {}
  Ruled = {safe}
  None = None
  HumanToo = FALSE
  Supervised = {FALSE}
  MaxRaised = 1
  MaxToggles = 1
  MaxCrashes = 0
  MaxFaults = 0
INVARIANTS NeverBoth
