SPECIFICATION Spec
CONSTANTS
  Calls = {c1, c2}
  c1 = c1
  c2 = c2
  NoCall = NoCall
  MaxCrashes = 1
INVARIANTS
  ResumeFinds
CHECK_DEADLOCK FALSE
