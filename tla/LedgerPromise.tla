--------------------------- MODULE LedgerPromise ---------------------------
(***************************************************************************)
(* What the ledger promises its users, without requests or soft deletion:  *)
(* an account is opened once and closed once, only when no entry names it; *)
(* entries are recorded, amended and erased on open accounts, and an       *)
(* erased entry never returns.                                             *)
(***************************************************************************)
CONSTANTS Accounts, Txs, None

VARIABLES
    open,    \* the accounts the user sees
    closed,  \* the accounts the user has deleted
    book,    \* the entry under each id, or None
    erased   \* the entries the user has deleted

promise == <<open, closed, book, erased>>

Names(e) == {e.account, e.dest} \ {None}

Init == open = {} /\ closed = {} /\ book = [t \in Txs |-> None] /\ erased = {}

OpenAccount ==
    /\ \E a \in Accounts \ (open \cup closed) : open' = open \cup {a}
    /\ UNCHANGED <<closed, book, erased>>

CloseAccount ==
    /\ \E a \in open :
           /\ \A t \in Txs : book[t] # None => a \notin Names(book[t])
           /\ open' = open \ {a}
           /\ closed' = closed \cup {a}
    /\ UNCHANGED <<book, erased>>

\* Ids not used so far become entries, all at once.
Record ==
    /\ \E ids \in SUBSET Txs :
           /\ \A t \in ids : book[t] = None /\ t \notin erased /\ book'[t] # None
           /\ \A t \in ids : Names(book'[t]) \subseteq open
           /\ \A t \in Txs \ ids : book'[t] = book[t]
    /\ UNCHANGED <<open, closed, erased>>

\* Existing entries get other contents.
Amend ==
    /\ \E ids \in SUBSET {t \in Txs : book[t] # None} :
           /\ \A t \in ids : book'[t] # None /\ Names(book'[t]) \subseteq open
           /\ \A t \in Txs \ ids : book'[t] = book[t]
    /\ UNCHANGED <<open, closed, erased>>

Erase ==
    /\ \E ids \in SUBSET {t \in Txs : book[t] # None} :
           /\ book' = [t \in Txs |-> IF t \in ids THEN None ELSE book[t]]
           /\ erased' = erased \cup ids
    /\ UNCHANGED <<open, closed>>

Next == OpenAccount \/ CloseAccount \/ Record \/ Amend \/ Erase

Spec == Init /\ [][Next]_promise
=============================================================================
