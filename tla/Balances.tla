------------------------------ MODULE Balances ------------------------------
(***************************************************************************)
(* AccountRepository.Balances over the ledger: the account balances that   *)
(* the account, dashboard, report and forecast services show.  It is three *)
(* queries with no transaction around them, each of which sees what is     *)
(* stored when it runs: the listed accounts, the settled rows summed under *)
(* the account they are booked on, and the settled transfers summed under  *)
(* their destination.  Requests write between them.                        *)
(*                                                                         *)
(* One reader is enough, since a read changes nothing another would see.   *)
(***************************************************************************)
EXTENDS Ledger

VARIABLE report     \* the read under way, or the last one that finished

balanceVars == <<vars, report>>

-----------------------------------------------------------------------------
PaidTxs(o) == {t \in Txs : LiveTx(o, t) /\ row[t].paid}

Listed(o) == {a \in Accounts : LiveAccount(o, a)}

PaidTransfers(o) == {t \in PaidTxs(o) : row[t].type = "transfer"}

\* What the settled rows booked on the account bring it.
Booked(o, a) ==
    LET booked(types) == {t \in PaidTxs(o) : row[t].account = a /\ row[t].type \in types}
    IN  SumOf(booked({"income"})) - SumOf(booked({"expense", "transfer"}))

\* Mutant: transfers that are not settled yet arrive all the same.
InboundUnsettled(o, a) ==
    SumOf({t \in Txs : LiveTx(o, t) /\ row[t].type = "transfer" /\ row[t].dest = a})

Inbound(o, a) == SumOf({t \in PaidTransfers(o) : row[t].dest = a})

Net(o) == SumOf({t \in PaidTxs(o) : row[t].type = "income"})
          - SumOf({t \in PaidTxs(o) : row[t].type = "expense"})

\* The settled transfers of an organization and what each moves, which both
\* sums read.
Moving(o) == [t \in PaidTransfers(o) |-> row[t].amount]

-----------------------------------------------------------------------------
(***************************************************************************)
(* The three queries.  The map starts with the listed accounts and gains   *)
(* an entry for any other account a settled row names; an account without  *)
(* an entry counts as 0 here.  net is what the organization had earned     *)
(* when its rows were booked, and torn is TRUE once its settled transfers  *)
(* have changed between the two sums: both are history.                    *)
(***************************************************************************)
ListAccounts(o) ==
    /\ report # None => report.stage = "done"
    /\ report' = [stage |-> "listed", org |-> o,
                  map |-> [a \in Accounts |-> IF a \in Listed(o) THEN initial[a] ELSE 0],
                  start |-> SumFunctionOnSet(initial, Listed(o)),
                  net |-> 0, torn |-> FALSE]
    /\ UNCHANGED vars

SumBooked ==
    /\ report # None /\ report.stage = "listed"
    /\ report' = [report EXCEPT
                    !.stage = "booked",
                    !.map = [a \in Accounts |-> report.map[a] + Booked(report.org, a)],
                    !.net = Net(report.org)]
    /\ UNCHANGED vars

SumInbound ==
    /\ report # None /\ report.stage = "booked"
    /\ report' = [report EXCEPT
                    !.stage = "done",
                    !.map = [a \in Accounts |-> report.map[a] + Inbound(report.org, a)]]
    /\ UNCHANGED vars

\* A query that fails ends the read.
FailRead ==
    /\ report # None /\ report.stage # "done"
    /\ report' = None
    /\ UNCHANGED vars

BetweenSums(o) == report # None /\ report.stage = "booked" /\ report.org = o

Meanwhile ==
    /\ Next
    /\ report' = IF \E o \in Orgs : BetweenSums(o) /\ Moving(o)' # Moving(o)
                 THEN [report EXCEPT !.torn = TRUE] ELSE report

-----------------------------------------------------------------------------
BalancesInit == Init /\ report = None

BalancesNext ==
    \/ \E o \in Orgs : ListAccounts(o)
    \/ SumBooked \/ SumInbound \/ FailRead
    \/ Meanwhile

BalancesSpec == BalancesInit /\ [][BalancesNext]_balanceVars

-----------------------------------------------------------------------------
Report == [stage : {"listed", "booked", "done"}, org : Orgs,
           map : [Accounts -> Int], start : Int, net : Int, torn : BOOLEAN]

\* The balances a read returns add up to the initial balances it listed plus
\* what the organization had earned minus what it had spent: a transfer leaves
\* one account and reaches another, whatever else was written between the
\* queries, unless a settled transfer came, went or changed between the sum of
\* what leaves and the sum of what arrives.
MoneyIsConserved ==
    report # None /\ report.stage = "done" /\ ~report.torn =>
        SumFunction(report.map) = report.start + report.net
=============================================================================
