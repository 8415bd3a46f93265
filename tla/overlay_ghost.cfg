SPECIFICATION Spec
CONSTANTS
  Readers = {r1, r2}
  r1 = r1
  r2 = r2
  Fresh = {}
  None = None
  MaxChanges = 0
  MaxPane = 1
INVARIANTS AnswerSeen
