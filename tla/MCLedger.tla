----------------------------- MODULE MCLedger -----------------------------
(* An instance of Ledger for TLC: one organization, one request at a time. *)
EXTENDS LedgerRefines, TLC

CONSTANTS o1, c1

SerialSymmetry == Permutations(Accounts) \cup Permutations(Txs)

OneOrg == [a \in Accounts |-> o1]

Entry(type, account, dest, amount, paid, card, cycle) ==
    [type |-> type, account |-> account, dest |-> dest, amount |-> amount,
     paid |-> paid, card |-> card, cycle |-> cycle]

\* Without the bodies the first check refuses; two amounts, and a purchase of
\* three cents, which two parcels do not divide evenly.
SerialForms ==
    {Entry(type, a, None, 2, paid, None, 0) :
        type \in {"income", "expense"}, a \in Accounts, paid \in BOOLEAN}
    \cup {Entry("transfer", a, d, 1, paid, None, 0) :
             a \in Accounts, d \in Accounts, paid \in BOOLEAN}
    \cup {Entry("expense", a, None, 3, FALSE, c1, 1) : a \in Accounts}
=============================================================================
