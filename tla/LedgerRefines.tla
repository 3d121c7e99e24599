--------------------------- MODULE LedgerRefines ---------------------------
(***************************************************************************)
(* Ledger seen through what the user can observe: the live rows.           *)
(***************************************************************************)
EXTENDS Ledger

Gone == {"deleted", "purged"}

Promise == INSTANCE LedgerPromise WITH
    open   <- {a \in Accounts : acctState[a] = "live"},
    closed <- {a \in Accounts : acctState[a] \in Gone},
    book   <- [t \in Txs |-> IF txState[t] = "live" THEN row[t] ELSE None],
    erased <- {t \in Txs : txState[t] \in Gone}

\* When requests do not overlap, the handlers keep the promise: reading,
\* checking and writing in separate statements is then as good as doing all of
\* it at once, and the retention purge cannot be noticed.
KeepsPromise == Promise!Spec
=============================================================================
