SPECIFICATION LiveSpec
CONSTANTS
  None = None
  Worker = Worker
  Rules = {r1}
  Accounts = {a1}
  Callers = {u1}
  Editors = {e1}
  Horizon = 4
  MaxCatchUp = 2
  Forms <- ScheduleForms
  MaxEdits = 0
  MaxRestarts = 1
INVARIANT NoGaps
PROPERTY DueIsServed
CHECK_DEADLOCK FALSE
