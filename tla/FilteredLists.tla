--------------------------- MODULE FilteredLists ---------------------------
(***************************************************************************)
(* The pages whose list is read by filter and by page: transactions, bills *)
(* to pay and to receive, budgets by month, the audit log, the users and   *)
(* organizations of the administration, reports and the forecast.          *)
(*                                                                         *)
(* Each choice of filters and page is a query of its own in the cache.     *)
(* While it has no answer yet the page goes on showing the previous one    *)
(* (keepPreviousData), rows, buttons and page numbers included; when it    *)
(* fails the page shows an empty list.                                     *)
(*                                                                         *)
(* The filters are one choice, between all the rows and some of them.  A   *)
(* row is on or off: a bill due or paid, a user enabled or disabled.       *)
(***************************************************************************)
EXTENDS Frontend, DataHooks, Naturals, FiniteSets

CONSTANTS
    Error,     \* the query failed
    ListRows,  \* ids of rows, numbers: lists are in their order
    Some,      \* the rows the narrower filter finds
    Fixed,     \* users the administration cannot disable
    Group,     \* the rows a removal of "all the parcels" removes
    PerPage,
    MaxMoves,  \* bound: changes of the filters or the page
    MaxChanges \* bound: requests of one visit

ASSUME ListsAssumption ==
    /\ ListRows \subseteq Nat \ {0} /\ IsFiniteSet(ListRows) /\ ListRows # {}
    /\ Some \subseteq ListRows /\ Fixed \subseteq ListRows
    /\ Group \in [ListRows -> SUBSET ListRows] /\ \A r \in ListRows : r \in Group[r]
    /\ PerPage \in Nat \ {0} /\ MaxMoves \in Nat /\ MaxChanges \in Nat

Filters == {"all", "some"}

Keys == Filters \X (1..Cardinality(ListRows))

PageOfRows ==
    [choice : Filters, page : 1..Cardinality(ListRows),
     rows : UNION {[S -> {"on", "off"}] : S \in SUBSET ListRows},
     pages : 0..Cardinality(ListRows)]

ASSUME AnswersAssumption ==
    None \notin PageOfRows /\ Error \notin PageOfRows \cup {None}

-----------------------------------------------------------------------------
(***************************************************************************)
(* The pages: the family of queries they read and the hooks they write     *)
(* with, who sees them, who may write, whether the filter is on the rows'  *)
(* state, whether the list has pages and whether their buttons wait for    *)
(* the fetch, whether rows can be ticked, and what a row offers.           *)
(***************************************************************************)
Everyone == {"admin", "viewer", "super"}

ReadOnly(family, viewers, byState, paged, waits) ==
    [reads |-> family, hooks |-> <<>>, viewers |-> viewers, writers |-> {},
     byState |-> byState, paged |-> paged, waits |-> waits, ticks |-> FALSE,
     buttons |-> [r \in ListRows |-> [on |-> {}, off |-> {}]]]

\* handleDelete: one parcel, or all of them, as two confirmations ask.
TransactionsPage ==
    [ReadOnly("transactions", Everyone, FALSE, TRUE, FALSE)
        EXCEPT !.hooks = TransactionHooks, !.writers = {"admin"}, !.ticks = TRUE,
               !.buttons = [r \in ListRows |->
                   [s \in {"on", "off"} |->
                       {"removeOne"} \cup {b \in {"removeAll"} : Group[r] # {r}}]]]

\* A paid bill is unsettled; one that is due opens a dialog, in CatalogPages,
\* whose answer is that of a settlement.
BillsView ==
    [ReadOnly("payables", Everyone, TRUE, TRUE, FALSE)
        EXCEPT !.hooks = TransactionHooks, !.writers = {"admin"},
               !.buttons = [r \in ListRows |-> [on |-> {"settle"}, off |-> {"unsettle"}]]]

BudgetsPage ==
    [ReadOnly("budgets", Everyone, FALSE, FALSE, FALSE)
        EXCEPT !.hooks = BudgetHooks, !.writers = {"admin"},
               !.buttons = [r \in ListRows |-> [s \in {"on", "off"} |-> {"removeOne"}]]]

\* Super-admins have no such button; the others are asked to confirm.
AdminUsersPage ==
    [ReadOnly("admin", {"super"}, FALSE, TRUE, TRUE)
        EXCEPT !.hooks = AdminHooks, !.writers = {"super"},
               !.buttons = [r \in ListRows |->
                   IF r \in Fixed THEN [on |-> {}, off |-> {}]
                   ELSE [on |-> {"disable"}, off |-> {"enable"}]]]

AdminOrganizationsPage == ReadOnly("admin", {"super"}, FALSE, TRUE, TRUE)
AuditPage == ReadOnly("audit", {"admin"}, FALSE, TRUE, TRUE)
ReportsPage == ReadOnly("report-summary", Everyone, FALSE, FALSE, FALSE)
ForecastPage == ReadOnly("forecast", Everyone, FALSE, FALSE, FALSE)

ListPage ==
    [transactions |-> TransactionsPage, bills |-> BillsView, budgets |-> BudgetsPage,
     users |-> AdminUsersPage, organizations |-> AdminOrganizationsPage,
     audit |-> AuditPage, reports |-> ReportsPage, forecast |-> ForecastPage]

\* The searches of the administration, and their debounce.
Searched == {"users", "organizations"}

-----------------------------------------------------------------------------
VARIABLES
    list, viewer, \* which page is shown, to whom
    state,        \* each row: on, off or gone
    choice,       \* filters
    number,       \* filters.page
    answers,      \* the answer of each query, None or Error
    fetching,     \* the queries under way
    previous,     \* what the page last showed
    selected,     \* the rows ticked
    bulk,         \* the bulk dialog: its operation, and whether it is filled in
    changes,      \* requests under way
    moves, changesSent,
    seen,         \* history: the rows that these filters and this page have
                  \* answered with since they were chosen
    early         \* history: the rows ticked before their first answer,
                  \* on what the page showed before

listsVars == <<list, viewer, state, choice, number, answers, fetching, previous,
               selected, bulk, changes, moves, changesSent, seen, early>>

ListShape == ListPage[list]

Matches(c, r) ==
    /\ state[r] # "gone"
    /\ c = "some" => IF ListShape.byState THEN state[r] = "on" ELSE r \in Some

Matching(c) == {r \in ListRows : Matches(c, r)}

\* The pages of a list that is not paged are one.
Size == IF ListShape.paged THEN PerPage ELSE Cardinality(ListRows)

\* The server's answer; page n may be past the end.
Read(c, n) ==
    LET Rank(r) == Cardinality({s \in Matching(c) : s <= r})
        here == {r \in Matching(c) : (n - 1) * Size < Rank(r) /\ Rank(r) <= n * Size}
    IN  [choice |-> c, page |-> n, rows |-> [r \in here |-> state[r]],
         pages |-> (Cardinality(Matching(c)) + Size - 1) \div Size]

Key == <<choice, number>>

HasData(c) == c \notin {None, Error}

(***************************************************************************)
(* data: the answer of the query, nothing when it failed, and as long as   *)
(* it has none what the page showed before.                                *)
(***************************************************************************)
Nothing == [choice |-> "all", page |-> 1, rows |-> <<>>, pages |-> 1]

ShownFor(c, old) ==
    IF c = Error THEN Nothing
    ELSE IF c # None THEN c
    ELSE IF old # None THEN old ELSE Nothing

Shown == ShownFor(answers[Key], previous)

Visible == DOMAIN Shown.rows

AnsweredRows(c) == IF HasData(c) THEN DOMAIN c.rows ELSE {}

-----------------------------------------------------------------------------
\* Mutant: the ticks stay when the filters or the page change.
ResetTicks(old) == selected' = old
\* The effect on [filters].
ClearSelection(old) == selected' = {}

(***************************************************************************)
(* The page reads another query: it is fetched when it has no answer, and  *)
(* when the one it has is older than half a minute.                        *)
(***************************************************************************)
Go(c, n, alsoFetched) ==
    /\ moves < MaxMoves
    /\ moves' = moves + 1
    /\ choice' = c
    /\ number' = n
    /\ \E more \in SUBSET {<<c, n>>} :
          /\ ~HasData(answers[<<c, n>>]) => more # {}
          /\ fetching' = fetching \cup more \cup alsoFetched
    \* a failed query is fetched anew when the page comes back to it
    /\ answers' = [answers EXCEPT ![<<c, n>>] = IF @ = Error THEN None ELSE @]
    /\ previous' = IF HasData(answers[<<c, n>>]) THEN answers[<<c, n>>] ELSE previous
    /\ ClearSelection(selected)
    /\ seen' = AnsweredRows(answers[<<c, n>>])
    /\ early' = {}
    /\ UNCHANGED <<list, viewer, state, bulk, changes, changesSent>>

(***************************************************************************)
(* updateFilter sets page 1 with the filter.  The searches set it in an    *)
(* effect, after a render that asks for the old page of the new search.    *)
(***************************************************************************)
UpdateFilter ==
    /\ bulk = None
    /\ \E c \in Filters \ {choice} :
          Go(c, 1, IF list \in Searched /\ ~HasData(answers[<<c, number>>])
                   THEN {<<c, number>>} ELSE {})

\* Previous and next, of the page shown: not offered with an empty list.
Turn(n) ==
    /\ bulk = None /\ ListShape.paged /\ Visible # {}
    /\ n \in 1..Shown.pages
    /\ ListShape.waits => Key \notin fetching
    /\ Go(choice, n, {})

Store(key) == [answers EXCEPT ![key] = Read(key[1], key[2])]

QueryAnswers(key) ==
    /\ fetching' = fetching \ {key}
    /\ answers' = Store(key)
    /\ previous' = IF HasData(answers'[Key]) THEN answers'[Key] ELSE previous
    /\ seen' = seen \cup AnsweredRows(answers'[Key])
    /\ UNCHANGED <<list, viewer, state, choice, number, selected, bulk, changes,
                   moves, changesSent, early>>

\* After its retries.  An answer that was there stays.
QueryFails(key) ==
    /\ fetching' = fetching \ {key}
    /\ answers' = IF HasData(answers[key]) THEN answers ELSE [answers EXCEPT ![key] = Error]
    /\ UNCHANGED <<list, viewer, state, choice, number, previous, selected, bulk,
                   changes, moves, changesSent, seen, early>>

-----------------------------------------------------------------------------
MayWrite == viewer \in ListShape.writers

Toggle(rows) ==
    /\ bulk = None /\ ListShape.ticks /\ MayWrite
    /\ selected' = rows
    /\ early' = IF HasData(answers[Key]) THEN early ELSE early \cup rows
    /\ UNCHANGED <<list, viewer, state, choice, number, answers, fetching, previous,
                   bulk, changes, moves, changesSent, seen>>

ToggleOne(r) ==
    /\ r \in Visible
    /\ Toggle(IF r \in selected THEN selected \ {r} ELSE selected \cup {r})

ToggleAll == Visible # {} /\ Toggle(IF Visible \subseteq selected THEN {} ELSE Visible)

ClearTicks == selected # {} /\ Toggle({})

ChangePending(op) == \E q \in changes : q.op = op

SendChange(op, rows) ==
    /\ changesSent < MaxChanges
    /\ changesSent' = changesSent + 1
    /\ changes' = {[q EXCEPT !.last = @ /\ q.op # op] : q \in changes}
                \cup {[op |-> op, rows |-> rows, last |-> TRUE, id |-> changesSent]}
    /\ UNCHANGED <<list, viewer, state, choice, number, answers, fetching, previous,
                   selected, bulk, moves, seen, early>>

\* The buttons of a row; undoing a settlement waits for the same bill's, while it
\* is the last that was sent.
ClickListRow(r) ==
    /\ bulk = None /\ MayWrite /\ r \in Visible
    /\ \E op \in ListShape.buttons[r][Shown.rows[r]] :
          /\ op = "unsettle" => ~\E q \in changes : q.op = op /\ q.rows = {r} /\ q.last
          /\ SendChange(op, IF op = "removeAll" THEN Group[r] ELSE {r})

\* The bar is there while rows are ticked; its buttons wait for their own.
BulkDelete ==
    /\ bulk = None /\ MayWrite /\ selected # {}
    /\ ~ChangePending("bulkDelete")
    /\ SendChange("bulkDelete", selected)

OpenBulk(op) ==
    /\ bulk = None /\ MayWrite /\ selected # {}
    /\ ~ChangePending(op)
    /\ bulk' = [op |-> op, ready |-> (op = "bulkSettle")]
    /\ UNCHANGED <<list, viewer, state, choice, number, answers, fetching, previous,
                   selected, changes, moves, changesSent, seen, early>>

\* A category is chosen; the account and the date of a settlement may stay.
FillBulk ==
    /\ bulk # None /\ bulk' = [bulk EXCEPT !.ready = TRUE]
    /\ UNCHANGED <<list, viewer, state, choice, number, answers, fetching, previous,
                   selected, changes, moves, changesSent, seen, early>>

\* The button cancel waits for the request, Escape and the cross do not.
CloseBulk ==
    /\ bulk # None /\ bulk' = None
    /\ UNCHANGED <<list, viewer, state, choice, number, answers, fetching, previous,
                   selected, changes, moves, changesSent, seen, early>>

BulkSettleModal == bulk.op = "bulkSettle"
BulkCategorizeModal == bulk.op = "bulkCategorize" /\ bulk.ready

ConfirmBulk ==
    /\ bulk # None
    /\ BulkSettleModal \/ BulkCategorizeModal
    /\ ~ChangePending(bulk.op)
    /\ SendChange(bulk.op, selected)

-----------------------------------------------------------------------------
Hook(op) == IF op \in {"removeOne", "removeAll"} THEN "remove" ELSE op

After(op) ==
    CASE op \in {"removeOne", "removeAll", "bulkDelete"} -> "gone"
      [] op \in {"settle", "bulkSettle", "disable"} -> "off"
      [] op \in {"unsettle", "enable"} -> "on"

\* Rows that are gone are left alone.
Changed(q) ==
    IF q.op = "bulkCategorize" THEN state
    ELSE [r \in ListRows |-> IF r \in q.rows /\ state[r] # "gone" THEN After(q.op)
                         ELSE state[r]]

(***************************************************************************)
(* onSuccess: the page's query is fetched again when the hook invalidates  *)
(* its family; a bulk operation closes its dialog and clears whatever is   *)
(* ticked by then.                                                         *)
(***************************************************************************)
ChangeSucceeds(q) ==
    /\ changes' = changes \ {q}
    /\ state' = Changed(q)
    /\ fetching' = IF ListShape.reads \in ListShape.hooks[Hook(q.op)]
                   THEN fetching \cup {Key} ELSE fetching
    /\ selected' = IF q.op \in {"bulkDelete", "bulkSettle", "bulkCategorize"}
                   THEN {} ELSE selected
    /\ bulk' = IF bulk # None /\ bulk.op = q.op THEN None ELSE bulk
    /\ UNCHANGED <<list, viewer, choice, number, answers, previous, moves,
                   changesSent, seen, early>>

\* A toast; the request may have been applied and its answer lost.
ChangeFails(q) ==
    /\ changes' = changes \ {q}
    /\ state' \in {state, Changed(q)}
    /\ UNCHANGED <<list, viewer, choice, number, answers, fetching, previous,
                   selected, bulk, moves, changesSent, seen, early>>

-----------------------------------------------------------------------------
ListsInit ==
    /\ list \in DOMAIN ListPage
    /\ viewer \in ListPage[list].viewers
    /\ state = [r \in ListRows |-> "on"]
    /\ choice = "all"
    /\ number = 1
    /\ answers = [k \in Keys |-> None]
    /\ fetching = {<<"all", 1>>}
    /\ previous = None
    /\ selected = {}
    /\ bulk = None
    /\ changes = {}
    /\ moves = 0
    /\ changesSent = 0
    /\ seen = {}
    /\ early = {}

ListsNext ==
    \/ UpdateFilter
    \/ \E n \in {Shown.page - 1, Shown.page + 1} : Turn(n)
    \/ \E key \in fetching : QueryAnswers(key) \/ QueryFails(key)
    \/ \E r \in ListRows : ToggleOne(r) \/ ClickListRow(r)
    \/ ToggleAll \/ ClearTicks \/ BulkDelete
    \/ \E op \in {"bulkSettle", "bulkCategorize"} : OpenBulk(op)
    \/ FillBulk \/ CloseBulk \/ ConfirmBulk
    \/ \E q \in changes : ChangeSucceeds(q) \/ ChangeFails(q)

ListsSpec == ListsInit /\ [][ListsNext]_listsVars

-----------------------------------------------------------------------------
ListsTypeOK ==
    /\ list \in DOMAIN ListPage /\ viewer \in ListShape.viewers
    /\ state \in [ListRows -> {"on", "off", "gone"}]
    /\ Key \in Keys /\ fetching \subseteq Keys
    /\ answers \in [Keys -> PageOfRows \cup {None, Error}]
    /\ previous \in PageOfRows \cup {None}
    /\ UNION {selected, seen, early} \subseteq ListRows
    /\ moves \in 0..MaxMoves /\ changesSent \in 0..MaxChanges

(***************************************************************************)
(* The list and its ticks are those of the filters.  Once their query is   *)
(* not under way, what the page shows is the answer to these filters and   *)
(* this page, not the previous ones.  And a bulk operation is asked for    *)
(* rows that these filters and this page have answered with, in their last *)
(* answer or an earlier one, or that were ticked while the page still      *)
(* showed the previous rows: what was ticked before the filters changed    *)
(* never lingers on to be deleted with the rest.                           *)
(***************************************************************************)
ListOfTheFilters ==
    /\ Key \notin fetching => Shown = Nothing \/ <<Shown.choice, Shown.page>> = Key
    /\ selected \subseteq seen \cup early
=============================================================================
