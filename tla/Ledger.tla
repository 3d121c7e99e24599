------------------------------- MODULE Ledger -------------------------------
(***************************************************************************)
(* The accounts and transactions of finance.sh under concurrent API        *)
(* requests (transaction_service.go, account_service.go, the invoice       *)
(* handlers of credit_card_service.go, the repositories below them and the *)
(* retention purge of jobs.go).                                            *)
(*                                                                         *)
(* A handler reads rows, validates, and then writes with one statement; no *)
(* database transaction spans the two.  A request is therefore two steps:  *)
(* a step that reads and remembers what it will write in requests[w], and  *)
(* a step that writes it, later, whatever has happened in between.         *)
(*                                                                         *)
(* Names, categories, contacts, tags, notes and due dates are left out: no *)
(* guard of these handlers but the ownership checks depends on them.       *)
(***************************************************************************)
EXTENDS Integers, FiniteSets, Functions

CONSTANTS
    Orgs,          \* organizations (tenants)
    Accounts,      \* ids a new account may get (fresh UUIDs)
    Txs,           \* ids a new transaction may get (fresh UUIDs)
    Workers,       \* requests the server may be handling at one time
    Cards,         \* credit cards
    Owner,         \* the organization each account id is created in
    Forms,         \* the transaction request bodies the clients send
    Counts,        \* installment counts the clients ask for; 1 is a plain entry
    InitialCents,  \* initial balances the clients enter
    Operations,    \* the kinds of request the clients send
    None           \* an absent optional value

Types == {"income", "expense", "transfer"}

Kinds == {"insert", "update", "settle", "bulkSettle", "bulkUnsettle",
          "payInvoice", "unpayInvoice", "delete", "deleteGroup",
          "openAccount", "editAccount", "deleteAccount", "purge"}

Form == [type : Types, account : Accounts, dest : Accounts \cup {None},
         amount : Nat \ {0}, paid : BOOLEAN,
         card : Cards \cup {None}, cycle : Nat]

ASSUME NoneAssumption  == None \notin Accounts \cup Txs \cup Cards
ASSUME OwnerAssumption == Owner \in [Accounts -> Orgs]
ASSUME FiniteAssumption == IsFiniteSet(Txs) /\ IsFiniteSet(Accounts)
ASSUME InputAssumption == /\ Forms \subseteq Form
                          /\ Counts \subseteq Nat \ {0}
                          /\ InitialCents \subseteq Int
                          /\ Operations \subseteq Kinds

VARIABLES
    acctState,  \* per account id: absent, live, deleted (soft) or purged
    initial,    \* per account id: its initial balance, in cents
    txState,    \* per transaction id: absent, live, deleted (soft) or purged
    row,        \* per transaction id: the columns of the stored row
    requests    \* per worker: the write it is about to issue

vars == <<acctState, initial, txState, row, requests>>

States == {"absent", "live", "deleted", "purged"}

\* cycle is the reference month of the card invoice the date falls in, as a
\* month index; 0 when the entry is not on a card.
Row == [org : Orgs, type : Types, account : Accounts,
        dest : Accounts \cup {None}, amount : Nat \ {0},
        paid : BOOLEAN, dated : BOOLEAN,
        card : Cards \cup {None}, cycle : Nat,
        group : Txs \cup {None}, number : Nat, total : Nat]

ASSUME NoneIsNoRow == None \notin Row

-----------------------------------------------------------------------------
(***************************************************************************)
(* What the handlers read.  Every query adds organization_id and, for a    *)
(* soft-deletable entity, deleted_at IS NULL.                              *)
(***************************************************************************)
Idle(w) == requests[w] = None

Writing(w, kind) == requests[w] # None /\ requests[w].kind = kind

LiveAccount(o, a) == acctState[a] = "live" /\ Owner[a] = o

LiveTx(o, t) == txState[t] = "live" /\ row[t].org = o

\* Stored is physical existence, which is all a foreign key asks for.
Stored(a) == acctState[a] \in {"live", "deleted"}

ForeignKeysHold(r) == Stored(r.account) /\ (r.dest # None => Stored(r.dest))

\* Mutant: the transfers into the account are not counted.
CountByAccountSourceOnly(o, a) ==
    Cardinality({t \in Txs : LiveTx(o, t) /\ row[t].account = a})

CountByAccount(o, a) ==
    Cardinality({t \in Txs : LiveTx(o, t) /\ a \in {row[t].account, row[t].dest}})

ListByCard(o, c) == {t \in Txs : LiveTx(o, t) /\ row[t].card = c}

\* The ids a request writes rows for.
Given(rows) == {t \in Txs : rows[t] # None}

\* Ids already drawn by a request that has not inserted its rows yet are not
\* drawn twice: they are random UUIDs.
Drawn == UNION {IF Writing(w, "insert") THEN Given(requests[w].rows) ELSE {} : w \in Workers}

Fresh == {t \in Txs : txState[t] = "absent" /\ t \notin Drawn}

-----------------------------------------------------------------------------
(***************************************************************************)
(* buildEntity: the references are checked, a transfer needs a destination *)
(* other than the source, anything else loses its destination, and the     *)
(* payment date follows the paid flag.                                     *)
(***************************************************************************)
\* Mutant: the destination is looked up without the organization filter.
AcceptsForeignDestination(o, f) ==
    /\ LiveAccount(o, f.account)
    /\ f.type = "transfer" => /\ f.dest \notin {None, f.account}
                              /\ acctState[f.dest] = "live"

\* Mutant: the destination is not looked up.
AcceptsUnknownDestination(o, f) ==
    /\ LiveAccount(o, f.account)
    /\ f.type = "transfer" => f.dest \notin {None, f.account}

Accepts(o, f) ==
    /\ LiveAccount(o, f.account)
    /\ f.type = "transfer" =>
           /\ f.dest \notin {None, f.account}
           /\ LiveAccount(o, f.dest)

BuildEntity(o, old, f) ==
    [old EXCEPT !.org = o, !.type = f.type, !.account = f.account,
                !.dest = IF f.type = "transfer" THEN f.dest ELSE None,
                !.amount = f.amount, !.paid = f.paid, !.dated = f.paid,
                !.card = f.card,
                !.cycle = IF f.card = None THEN 0 ELSE f.cycle]

Template(o, f) ==
    BuildEntity(o, [org |-> o, type |-> f.type, account |-> f.account,
                    dest |-> None, amount |-> f.amount, paid |-> FALSE,
                    dated |-> FALSE, card |-> None, cycle |-> 0,
                    group |-> None, number |-> 0, total |-> 0], f)

(***************************************************************************)
(* createInstallmentGroup: n unpaid parcels that share a group; the first  *)
(* one carries the remainder of the division.  The group is named by the   *)
(* id of its first parcel.  A parcel is dated i - 1 months after the       *)
(* purchase, which is the invoice i - 1 months later or, when the day is   *)
(* clamped to a short month, the one before (Invoices has the rule).       *)
(***************************************************************************)
\* Mutant: the remainder of the division is lost.
ParcelAmountTruncated(amount, n, i) == amount \div n

ParcelAmount(amount, n, i) ==
    LET per == amount \div n
    IN  IF i = 1 THEN per + (amount - per * n) ELSE per

ParcelCycle(tmpl, i, clamped) ==
    IF tmpl.card = None THEN 0
    ELSE tmpl.cycle + i - 1 - (IF i \in clamped THEN 1 ELSE 0)

Parcel(tmpl, group, n, i, cycle) ==
    [tmpl EXCEPT !.amount = ParcelAmount(tmpl.amount, n, i),
                 !.paid = FALSE, !.dated = FALSE, !.cycle = cycle,
                 !.group = group, !.number = i, !.total = n]

-----------------------------------------------------------------------------
(***************************************************************************)
(* The requests, up to the point where they write.                         *)
(***************************************************************************)
Begin(w, kind, request) ==
    /\ Idle(w)
    /\ kind \in Operations
    /\ requests' = [requests EXCEPT ![w] = request]
    /\ UNCHANGED <<acctState, initial, txState, row>>

\* Create without installments: POST /transactions.
Create(w, o, f) ==
    /\ 1 \in Counts
    /\ Accepts(o, f)
    /\ \E t \in Fresh :
           Begin(w, "insert",
                 [kind |-> "insert", org |-> o,
                  rows |-> [x \in Txs |-> IF x = t THEN Template(o, f) ELSE None]])

\* Create with installments.  ids lists the fresh ids in parcel order, clamped
\* the parcels whose day was clamped into an earlier invoice.
CreateInstallmentGroup(w, o, f, n) ==
    /\ n > 1
    /\ Accepts(o, f)
    /\ f.amount >= n
    /\ \E ids \in [1..n -> Fresh],
          clamped \in SUBSET (IF f.card = None THEN {} ELSE 2..n) :
           /\ \A i, j \in 1..n : ids[i] = ids[j] => i = j
           /\ Begin(w, "insert",
                    [kind |-> "insert", org |-> o,
                     rows |-> [t \in Txs |->
                         IF \E i \in 1..n : ids[i] = t
                         THEN LET i == CHOOSE k \in 1..n : ids[k] = t
                              IN  Parcel(Template(o, f), ids[1], n, i,
                                         ParcelCycle(Template(o, f), i, clamped))
                         ELSE None]])

\* Update reads the whole row, changes it in memory and writes all of it back.
Update(w, o, t, f) ==
    /\ LiveTx(o, t)
    /\ Accepts(o, f)
    /\ Begin(w, "update", [kind |-> "save", org |-> o, id |-> t,
                           row |-> BuildEntity(o, row[t], f)])

Settle(w, o, t, target) ==
    /\ LiveTx(o, t)
    /\ target # None => LiveAccount(o, target)
    /\ Begin(w, "settle",
             [kind |-> "save", org |-> o, id |-> t,
              row |-> [row[t] EXCEPT !.paid = TRUE, !.dated = TRUE,
                                     !.account = IF target = None
                                                 THEN @ ELSE target]])

Unsettle(w, o, t) ==
    /\ LiveTx(o, t)
    /\ Begin(w, "settle",
             [kind |-> "save", org |-> o, id |-> t,
              row |-> [row[t] EXCEPT !.paid = FALSE, !.dated = FALSE]])

\* The bulk handlers take ids from the client, so an id of another tenant may
\* be among them; only the WHERE clause of the write filters them.
BulkSettle(w, o, ids, target) ==
    /\ target # None => LiveAccount(o, target)
    /\ Begin(w, "bulkSettle", [kind |-> "settle", org |-> o, ids |-> ids,
                               account |-> target])

BulkUnsettle(w, o, ids) ==
    Begin(w, "bulkUnsettle", [kind |-> "unsettle", org |-> o, ids |-> ids])

\* The rows of the invoice are read here, every one of them whether paid or
\* not and whatever its type, and settled by id in the write.
PayInvoice(w, o, c, cycle, target) ==
    /\ LiveAccount(o, target)
    /\ LET ids == {t \in ListByCard(o, c) : row[t].cycle = cycle}
       IN  /\ ids # {}
           /\ Begin(w, "payInvoice", [kind |-> "settle", org |-> o, ids |-> ids,
                                      account |-> target])

UnpayInvoice(w, o, c, cycle) ==
    LET ids == {t \in ListByCard(o, c) : row[t].cycle = cycle}
    IN  /\ ids # {}
        /\ Begin(w, "unpayInvoice", [kind |-> "unsettle", org |-> o, ids |-> ids])

\* Delete and BulkDelete: one statement, nothing read before it.
Delete(w, o, ids) ==
    Begin(w, "delete", [kind |-> "delete", org |-> o, ids |-> ids])

\* DeleteScoped with scope=all: the row is read for its group.
DeleteScoped(w, o, t) ==
    /\ LiveTx(o, t)
    /\ row[t].group # None
    /\ Begin(w, "deleteGroup", [kind |-> "deleteGroup", org |-> o,
                                group |-> row[t].group])

OpenAccount(w, o, a, cents) ==
    /\ Owner[a] = o
    /\ acctState[a] = "absent"
    /\ ~ \E v \in Workers : Writing(v, "openAccount") /\ requests[v].id = a
    /\ Begin(w, "openAccount", [kind |-> "openAccount", org |-> o, id |-> a,
                                initial |-> cents])

EditAccount(w, o, a, cents) ==
    /\ LiveAccount(o, a)
    /\ Begin(w, "editAccount", [kind |-> "saveAccount", org |-> o, id |-> a,
                                initial |-> cents])

\* Deletion is refused while live entries name the account on either side.
DeleteAccount(w, o, a) ==
    /\ CountByAccount(o, a) = 0
    /\ Begin(w, "deleteAccount", [kind |-> "deleteAccount", org |-> o, id |-> a])

-----------------------------------------------------------------------------
(***************************************************************************)
(* The writes.  Each is one statement, or one database transaction, and    *)
(* frees its worker.                                                       *)
(***************************************************************************)
Done(w) == requests' = [requests EXCEPT ![w] = None]

\* Mutant: the parcels are inserted without a database transaction, and the
\* process may stop half way.
InsertRowsPartly(w) ==
    /\ Writing(w, "insert")
    /\ \E done \in SUBSET Given(requests[w].rows) :
           /\ txState' = [t \in Txs |-> IF t \in done THEN "live" ELSE txState[t]]
           /\ row' = [t \in Txs |-> IF t \in done THEN requests[w].rows[t] ELSE row[t]]
    /\ Done(w)
    /\ UNCHANGED <<acctState, initial>>

\* Create and CreateMany: the rows of a request appear all at once.
InsertRows(w) ==
    /\ Writing(w, "insert")
    /\ \A t \in Given(requests[w].rows) : ForeignKeysHold(requests[w].rows[t])
    /\ txState' = [t \in Txs |-> IF t \in Given(requests[w].rows)
                                 THEN "live" ELSE txState[t]]
    /\ row' = [t \in Txs |-> IF t \in Given(requests[w].rows)
                             THEN requests[w].rows[t] ELSE row[t]]
    /\ Done(w)
    /\ UNCHANGED <<acctState, initial>>

\* Save: UPDATE of every column; when no live row matches, GORM falls back to
\* INSERT ... ON CONFLICT DO UPDATE with deleted_at NULL.  Either way the row
\* ends up live with the columns the handler held.
SaveRow(w) ==
    /\ Writing(w, "save")
    /\ ForeignKeysHold(requests[w].row)
    /\ txState' = [txState EXCEPT ![requests[w].id] = "live"]
    /\ row' = [row EXCEPT ![requests[w].id] = requests[w].row]
    /\ Done(w)
    /\ UNCHANGED <<acctState, initial>>

\* Mutant: the organization is missing from the WHERE clause.
SelectedAnywhere(w) == {t \in Txs : t \in requests[w].ids /\ txState[t] = "live"}

\* The rows the WHERE clause of a bulk write selects.
Selected(w) == {t \in Txs : t \in requests[w].ids /\ LiveTx(requests[w].org, t)}

SettleRows(w) ==
    /\ Writing(w, "settle")
    /\ requests[w].account # None => Stored(requests[w].account)
    /\ row' = [t \in Txs |->
                 IF t \notin Selected(w) THEN row[t]
                 ELSE [row[t] EXCEPT !.paid = TRUE, !.dated = TRUE,
                                     !.account = IF requests[w].account = None
                                                 THEN @ ELSE requests[w].account]]
    /\ Done(w)
    /\ UNCHANGED <<acctState, initial, txState>>

UnsettleRows(w) ==
    /\ Writing(w, "unsettle")
    /\ row' = [t \in Txs |->
                 IF t \notin Selected(w) THEN row[t]
                 ELSE [row[t] EXCEPT !.paid = FALSE, !.dated = FALSE]]
    /\ Done(w)
    /\ UNCHANGED <<acctState, initial, txState>>

DeleteRows(w) ==
    /\ Writing(w, "delete")
    /\ txState' = [t \in Txs |-> IF t \in Selected(w)
                                 THEN "deleted" ELSE txState[t]]
    /\ Done(w)
    /\ UNCHANGED <<acctState, initial, row>>

DeleteInstallmentGroup(w) ==
    /\ Writing(w, "deleteGroup")
    /\ txState' = [t \in Txs |->
                     IF /\ LiveTx(requests[w].org, t)
                        /\ row[t].group = requests[w].group
                     THEN "deleted" ELSE txState[t]]
    /\ Done(w)
    /\ UNCHANGED <<acctState, initial, row>>

InsertAccount(w) ==
    /\ Writing(w, "openAccount")
    /\ acctState' = [acctState EXCEPT ![requests[w].id] = "live"]
    /\ initial' = [initial EXCEPT ![requests[w].id] = requests[w].initial]
    /\ Done(w)
    /\ UNCHANGED <<txState, row>>

\* Save again, with the same fall-back.
SaveAccount(w) ==
    /\ Writing(w, "saveAccount")
    /\ acctState' = [acctState EXCEPT ![requests[w].id] = "live"]
    /\ initial' = [initial EXCEPT ![requests[w].id] = requests[w].initial]
    /\ Done(w)
    /\ UNCHANGED <<txState, row>>

\* The entries are not counted again.
SoftDeleteAccount(w) ==
    /\ Writing(w, "deleteAccount")
    /\ LiveAccount(requests[w].org, requests[w].id)
    /\ acctState' = [acctState EXCEPT ![requests[w].id] = "deleted"]
    /\ Done(w)
    /\ UNCHANGED <<initial, txState, row>>

\* A request may fail at its write: a row that is gone, a foreign key, a lost
\* connection, or the process going down with everything it held in memory.
Fail(w) ==
    /\ ~Idle(w)
    /\ Done(w)
    /\ UNCHANGED <<acctState, initial, txState, row>>

-----------------------------------------------------------------------------
(***************************************************************************)
(* PurgeSoftDeleted: per table, one statement that removes the rows whose  *)
(* deletion is older than the cutoff.  Any set of deleted rows may be the  *)
(* old ones.  A row that a foreign key still needs fails the whole         *)
(* statement, which then removes nothing.                                  *)
(***************************************************************************)
PurgeTransactions(old) ==
    /\ "purge" \in Operations
    /\ old # {}
    /\ \A t \in old : txState[t] = "deleted"
    /\ txState' = [t \in Txs |-> IF t \in old THEN "purged" ELSE txState[t]]
    /\ row' = [t \in Txs |-> IF t \in old THEN None ELSE row[t]]
    /\ UNCHANGED <<acctState, initial, requests>>

\* Mutant: there is no foreign key on the destination account.
PurgeAccountsSourceKeyOnly(old) ==
    /\ "purge" \in Operations
    /\ old # {}
    /\ \A a \in old : acctState[a] = "deleted"
    /\ \A t \in Txs : row[t] # None => row[t].account \notin old
    /\ acctState' = [a \in Accounts |-> IF a \in old THEN "purged"
                                        ELSE acctState[a]]
    /\ initial' = [a \in Accounts |-> IF a \in old THEN 0 ELSE initial[a]]
    /\ UNCHANGED <<txState, row, requests>>

PurgeAccounts(old) ==
    /\ "purge" \in Operations
    /\ old # {}
    /\ \A a \in old : acctState[a] = "deleted"
    /\ \A t \in Txs : row[t] # None => {row[t].account, row[t].dest} \cap old = {}
    /\ acctState' = [a \in Accounts |-> IF a \in old THEN "purged"
                                        ELSE acctState[a]]
    /\ initial' = [a \in Accounts |-> IF a \in old THEN 0 ELSE initial[a]]
    /\ UNCHANGED <<txState, row, requests>>

-----------------------------------------------------------------------------
Init ==
    /\ acctState = [a \in Accounts |-> "absent"]
    /\ initial = [a \in Accounts |-> 0]
    /\ txState = [t \in Txs |-> "absent"]
    /\ row = [t \in Txs |-> None]
    /\ requests = [w \in Workers |-> None]

TransactionRequest(w, o) ==
    \/ \E f \in Forms : Create(w, o, f)
    \/ \E f \in Forms, n \in Counts : CreateInstallmentGroup(w, o, f, n)
    \/ \E t \in Txs, f \in Forms : Update(w, o, t, f)
    \/ \E t \in Txs, target \in Accounts \cup {None} : Settle(w, o, t, target)
    \/ \E t \in Txs : Unsettle(w, o, t)
    \/ \E ids \in SUBSET Txs \ {{}}, target \in Accounts \cup {None} :
           BulkSettle(w, o, ids, target)
    \/ \E ids \in SUBSET Txs \ {{}} : BulkUnsettle(w, o, ids)
    \/ \E c \in Cards, t \in Txs, target \in Accounts :
           row[t] # None /\ PayInvoice(w, o, c, row[t].cycle, target)
    \/ \E c \in Cards, t \in Txs :
           row[t] # None /\ UnpayInvoice(w, o, c, row[t].cycle)
    \/ \E ids \in SUBSET Txs \ {{}} : Delete(w, o, ids)
    \/ \E t \in Txs : DeleteScoped(w, o, t)

AccountRequest(w, o) ==
    \/ \E a \in Accounts, cents \in InitialCents : OpenAccount(w, o, a, cents)
    \/ \E a \in Accounts, cents \in InitialCents : EditAccount(w, o, a, cents)
    \/ \E a \in Accounts : DeleteAccount(w, o, a)

Write(w) ==
    \/ InsertRows(w) \/ SaveRow(w) \/ SettleRows(w) \/ UnsettleRows(w)
    \/ DeleteRows(w) \/ DeleteInstallmentGroup(w)
    \/ InsertAccount(w) \/ SaveAccount(w) \/ SoftDeleteAccount(w)
    \/ Fail(w)

Next ==
    \/ \E w \in Workers, o \in Orgs : TransactionRequest(w, o)
    \/ \E w \in Workers, o \in Orgs : AccountRequest(w, o)
    \/ \E w \in Workers : Write(w)
    \/ \E old \in SUBSET Txs : PurgeTransactions(old)
    \/ \E old \in SUBSET Accounts : PurgeAccounts(old)

Spec == Init /\ [][Next]_vars

-----------------------------------------------------------------------------
\* Stored rows, of any soft-delete state.
StoredTxs == {t \in Txs : row[t] # None}

SumOf(S) == SumFunctionOnSet([t \in StoredTxs |-> row[t].amount], S)

Request ==
    [kind : {"insert"}, org : Orgs, rows : [Txs -> Row \cup {None}]]
    \cup [kind : {"save"}, org : Orgs, id : Txs, row : Row]
    \cup [kind : {"settle"}, org : Orgs, ids : SUBSET Txs,
          account : Accounts \cup {None}]
    \cup [kind : {"unsettle", "delete"}, org : Orgs, ids : SUBSET Txs]
    \cup [kind : {"deleteGroup"}, org : Orgs, group : Txs]
    \cup [kind : {"openAccount", "saveAccount"}, org : Orgs, id : Accounts,
          initial : Int]
    \cup [kind : {"deleteAccount"}, org : Orgs, id : Accounts]

\* The shape of the state: a row is stored exactly while its transaction is
\* live or soft-deleted, and a pending request holds the columns it will write.
TypeOK ==
    /\ acctState \in [Accounts -> States]
    /\ initial \in [Accounts -> Int]
    /\ txState \in [Txs -> States]
    /\ row \in [Txs -> Row \cup {None}]
    /\ \A t \in Txs : row[t] # None <=> txState[t] \in {"live", "deleted"}
    /\ requests \in [Workers -> Request \cup {None}]

\* Only a transfer names a destination account, and every transfer does: the
\* balance of an account adds inbound transfers by that column alone.
TransferHasDestination ==
    \A t \in StoredTxs : row[t].type = "transfer" <=> row[t].dest # None

\* The payment date follows the paid flag through every interleaving of edits,
\* settlements and bulk settlements, although two of them may write stale rows.
PaidIffDated == \A t \in StoredTxs : row[t].paid <=> row[t].dated

\* No stored row, soft-deleted ones included, names an account the retention
\* purge has removed.
ReferencesStored ==
    \A t \in StoredTxs : \A a \in {row[t].account, row[t].dest} \ {None} :
        acctState[a] \in {"live", "deleted"}

\* A transaction's accounts belong to the transaction's organization.
AccountsOfSameOrg ==
    \A t \in StoredTxs :
        /\ Owner[row[t].account] = row[t].org
        /\ row[t].dest # None => Owner[row[t].dest] = row[t].org

\* A write issued for one organization changes no row of another one, not even
\* when the client's id list names rows of other tenants.
TenantIsolation ==
    [][\A w \in Workers :
         (~Idle(w) /\ requests'[w] = None) =>
             /\ \A t \in Txs : txState'[t] # txState[t] \/ row'[t] # row[t] =>
                    /\ row'[t].org = requests[w].org
                    /\ row[t] # None => row[t].org = requests[w].org
             /\ \A a \in Accounts :
                    acctState'[a] # acctState[a] \/ initial'[a] # initial[a] =>
                    Owner[a] = requests[w].org]_vars

\* The rows an installment purchase left in the table, soft-deleted ones
\* included, are its parcels, one per number; what is missing was purged.
Parcels(g) == {t \in StoredTxs : row[t].group = g}

Purged == {t \in Txs : txState[t] = "purged"}

GroupIsWhole ==
    \A g \in Txs : \A t \in Parcels(g) :
        /\ \A p \in Parcels(g) \ {t} : row[p].number # row[t].number
        /\ row[t].number \in 1..row[t].total
        /\ Cardinality(Parcels(g)) + Cardinality(Purged) >= row[t].total

\* The parcels a purchase is stored as are those of one body a client may have
\* sent, and add up to its price, to the cent.
ParcelsSumToPurchase ==
    [][\A g \in Txs : Parcels(g) = {} /\ Parcels(g)' # {} =>
          \E f \in Forms :
              /\ f.amount = SumOf(Parcels(g))'
              /\ \A t \in Parcels(g)' :
                     /\ row'[t].type = f.type /\ row'[t].account = f.account
                     /\ row'[t].card = f.card]_vars

\* A live entry's accounts are live: an account that backs entries cannot be
\* deleted.
NoOrphans ==
    \A t \in Txs : txState[t] = "live" =>
        /\ acctState[row[t].account] = "live"
        /\ row[t].dest # None => acctState[row[t].dest] = "live"

=============================================================================
