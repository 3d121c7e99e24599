SPECIFICATION Spec
CONSTANTS
  o1 = o1
  c1 = c1
  None = None
  Orgs = {o1}
  Accounts = {a1, a2}
  Txs = {t1, t2}
  Workers = {w1}
  Cards = {c1}
  Owner <- OneOrg
  Forms <- SerialForms
  Counts = {1, 2}
  InitialCents = {0, 5}
  Operations = {"insert", "deleteGroup", "update", "settle", "bulkSettle", "bulkUnsettle", "payInvoice", "unpayInvoice", "delete", "openAccount", "editAccount", "deleteAccount", "purge"}
SYMMETRY SerialSymmetry
INVARIANT NoOrphans
INVARIANT GroupIsWhole
PROPERTY ParcelsSumToPurchase
PROPERTY KeepsPromise
CHECK_DEADLOCK FALSE
