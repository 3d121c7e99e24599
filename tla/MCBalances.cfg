SPECIFICATION RaceSpec
CONSTANTS
  o1 = o1
  o2 = o2
  a1 = a1
  a2 = a2
  a3 = a3
  None = None
  Orgs = {o1, o2}
  Accounts = {a1, a2, a3}
  Txs = {t1}
  Workers = {w1, w2}
  Cards = {}
  Owner <- TwoOrgs
  Forms <- MovementForms
  Counts = {1}
  InitialCents = {5}
  Operations = {"insert", "update", "settle", "bulkSettle", "bulkUnsettle", "delete", "openAccount", "editAccount", "deleteAccount", "purge"}
SYMMETRY TenantSymmetry
INVARIANT ReferencesStored
INVARIANT AccountsOfSameOrg
INVARIANT MoneyIsConserved
PROPERTY TenantIsolation
CHECK_DEADLOCK FALSE
