SPECIFICATION FairSpec
CONSTANTS
  Readers = {r1, r2}
  r1 = r1
  r2 = r2
  Fresh = {r2}
  None = None
  MaxChanges = 2
  MaxPane = 1
INVARIANTS SeesChanges
PROPERTIES CallsEnd ImplementsReads
