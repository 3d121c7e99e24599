SPECIFICATION Spec
CONSTANTS
  None = None
  Worker = Worker
  Rules = {r1}
  Accounts = {a1, a2}
  Callers = {u1}
  Editors = {e1}
  Horizon = 3
  MaxCatchUp = 2
  Forms <- EditForms
  MaxEdits = 1
  MaxRestarts = 1
SYMMETRY Symmetry
INVARIANT OncePerDay
INVARIANT CountIsExact
PROPERTY OnlyIntoLiveAccounts
CHECK_DEADLOCK FALSE
