----------------------------- MODULE MCBalances -----------------------------
(* An instance of Ledger and Balances for TLC: two tenants whose requests    *)
(* overlap, and the balances that are read meanwhile.                        *)
EXTENDS Balances, TLC

CONSTANTS o1, o2, a1, a2, a3

TenantSymmetry == Permutations({a1, a2}) \cup Permutations(Workers) \cup Permutations(Txs)

TwoOrgs == (a1 :> o1) @@ (a2 :> o1) @@ (a3 :> o2)

Entries(types, dests) ==
    {[type |-> type, account |-> a, dest |-> d, amount |-> 1, paid |-> paid,
      card |-> None, cycle |-> 0] :
        type \in types, a \in Accounts, d \in dests, paid \in BOOLEAN}

\* Every type between the accounts, unit amounts; a destination is also sent
\* with an expense, which has no use for it, and a transfer may lack one.
MovementForms ==
    Entries({"expense", "transfer"}, Accounts \cup {None}) \cup Entries({"income"}, {None})

\* The balances read are those of the tenant with two accounts, before the other
\* has any, and meanwhile one request is under way: the queries see what is
\* stored and not what is about to be written.  When they are read only another
\* read follows, since what requests do then they also do before any read.
OneRequest ==
    /\ Cardinality({w \in Workers : ~Idle(w)}) <= 1
    /\ \A w \in Workers : ~Idle(w) => requests[w].org = o1

RaceNext ==
    \/ ListAccounts(o1) /\ acctState[a3] = "absent" /\ OneRequest
    \/ SumBooked \/ SumInbound \/ FailRead
    \/ (report # None => report.stage # "done") /\ Meanwhile /\ (report # None => OneRequest')

RaceSpec == BalancesInit /\ [][RaceNext]_balanceVars
=============================================================================
