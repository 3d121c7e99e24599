SPECIFICATION Spec
CONSTANTS
  None = None
  Worker = Worker
  Rules = {r1}
  Accounts = {a1}
  Callers = {u1}
  Editors = {e1}
  Horizon = 2
  MaxCatchUp = 2
  Forms <- EditForms
  MaxEdits = 1
  MaxRestarts = 0
INVARIANT NoReplay
CHECK_DEADLOCK FALSE
