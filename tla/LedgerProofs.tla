---------------------------- MODULE LedgerProofs ----------------------------
(***************************************************************************)
(* Theorems about Ledger.  The invariants of the stored rows are not       *)
(* inductive by themselves: a handler writes back what it read before, so  *)
(* the same facts must hold of the rows the pending requests carry.  What  *)
(* the handlers promise (LedgerRefines) holds for requests one at a time;  *)
(* the balances add up, by the facts about sums in Sums, for any.          *)
(***************************************************************************)
EXTENDS LedgerRefines, Balances, Sums, FunctionTheorems, FiniteSetTheorems, TLAPS

\* What every row satisfies, stored or about to be.
WellFormed(r) ==
    /\ r.type = "transfer" <=> r.dest # None
    /\ r.paid <=> r.dated
    /\ Owner[r.account] = r.org
    /\ r.dest # None => Owner[r.dest] = r.org

StoredWellFormed == \A t \in Txs : row[t] # None => WellFormed(row[t])

PendingWellFormed ==
    \A w \in Workers : requests[w] # None =>
        /\ requests[w].kind = "insert" =>
               \A t \in Txs : requests[w].rows[t] # None =>
                   WellFormed(requests[w].rows[t])
        /\ requests[w].kind = "save" => WellFormed(requests[w].row)
        /\ requests[w].kind = "settle" /\ requests[w].account # None =>
               Owner[requests[w].account] = requests[w].org

\* Every stored row satisfies its foreign keys.
StoredKeysHold == \A t \in StoredTxs : ForeignKeysHold(row[t])

LedgerInv == TypeOK /\ StoredWellFormed /\ PendingWellFormed /\ StoredKeysHold

-----------------------------------------------------------------------------
(* The operators the requests are built from. *)

LEMMA BuildEntityIsRow ==
    ASSUME NEW o \in Orgs, NEW old \in Row, NEW f \in Form, Accepts(o, f)
    PROVE  BuildEntity(o, old, f) \in Row /\ WellFormed(BuildEntity(o, old, f))
  BY NoneAssumption DEF BuildEntity, Row, Form, Accepts, WellFormed, LiveAccount, Types

LEMMA TemplateIsRow ==
    ASSUME NEW o \in Orgs, NEW f \in Form, Accepts(o, f)
    PROVE  Template(o, f) \in Row /\ WellFormed(Template(o, f))
<1> DEFINE blank == [org |-> o, type |-> f.type, account |-> f.account,
                     dest |-> None, amount |-> f.amount, paid |-> FALSE,
                     dated |-> FALSE, card |-> None, cycle |-> 0,
                     group |-> None, number |-> 0, total |-> 0]
<1>1. blank \in Row
  BY DEF Row, Form
<1> QED  BY <1>1, BuildEntityIsRow DEF Template

\* No parcel of a purchase that is worth at least one cent per parcel is free.
LEMMA ParcelAmountPositive ==
    ASSUME NEW amount \in Nat, NEW n \in Nat \ {0}, amount >= n, NEW i \in 1..n
    PROVE  ParcelAmount(amount, n, i) \in Nat \ {0}
<1> DEFINE per == amount \div n
<1>1. per \in Int /\ amount = n * per + (amount % n) /\ amount % n \in 0..(n-1)
  OBVIOUS
<1>2. per >= 1
  <2>1. SUFFICES ASSUME per <= 0 PROVE FALSE
    BY <1>1
  <2>2. n * per <= 0
    BY <1>1, <2>1
  <2> QED  BY <1>1, <2>2
<1>3. amount - per * n = amount % n
  BY <1>1
<1> QED  BY <1>1, <1>2, <1>3 DEF ParcelAmount

LEMMA ParcelIsRow ==
    ASSUME NEW tmpl \in Row, WellFormed(tmpl),
           NEW n \in Nat \ {0}, tmpl.amount >= n, NEW group \in Txs,
           NEW i \in 1..n, NEW cycle \in Nat
    PROVE  /\ Parcel(tmpl, group, n, i, cycle) \in Row
           /\ WellFormed(Parcel(tmpl, group, n, i, cycle))
<1>1. ParcelAmount(tmpl.amount, n, i) \in Nat \ {0}
  BY ParcelAmountPositive DEF Row
<1>2. i \in Nat
  OBVIOUS
<1> QED  BY <1>1, <1>2 DEF Parcel, Row, WellFormed

LEMMA ParcelCycleIsNat ==
    ASSUME NEW tmpl \in Row, NEW n \in Nat \ {0}, NEW i \in 1..n,
           NEW clamped \in SUBSET (IF tmpl.card = None THEN {} ELSE 2..n)
    PROVE  ParcelCycle(tmpl, i, clamped) \in Nat
  BY DEF ParcelCycle, Row

-----------------------------------------------------------------------------
(* The invariant. *)

LEMMA InitEstablishesInv == Init => LedgerInv
  BY NoneIsNoRow DEF Init, LedgerInv, TypeOK, States, StoredWellFormed, PendingWellFormed,
     StoredKeysHold, StoredTxs

\* A step that only changes which write a worker holds keeps the invariant when
\* the new write is well formed.
LEMMA BeginKeepsInv ==
    ASSUME LedgerInv, NEW w \in Workers, NEW kind, NEW request \in Request,
           Begin(w, kind, request),
           request.kind = "insert" =>
               \A t \in Txs : request.rows[t] # None => WellFormed(request.rows[t]),
           request.kind = "save" => WellFormed(request.row),
           request.kind = "settle" /\ request.account # None =>
               Owner[request.account] = request.org
    PROVE  LedgerInv'
<1>1. TypeOK'
  BY DEF LedgerInv, TypeOK, Begin
<1>2. StoredWellFormed' /\ StoredKeysHold'
  BY DEF LedgerInv, StoredWellFormed, StoredKeysHold, StoredTxs, Begin,
         WellFormed, ForeignKeysHold, Stored
<1>3. PendingWellFormed'
  BY DEF LedgerInv, TypeOK, PendingWellFormed, Begin, WellFormed
<1> QED  BY <1>1, <1>2, <1>3 DEF LedgerInv

LEMMA CreateKeepsInv ==
    ASSUME LedgerInv, NEW w \in Workers, NEW o \in Orgs, NEW f \in Forms,
           Create(w, o, f)
    PROVE  LedgerInv'
<1>1. f \in Form
  BY InputAssumption
<1>2. PICK t \in Fresh :
        Begin(w, "insert", [kind |-> "insert", org |-> o,
              rows |-> [x \in Txs |-> IF x = t THEN Template(o, f) ELSE None]])
  BY DEF Create
<1> DEFINE rows == [x \in Txs |-> IF x = t THEN Template(o, f) ELSE None]
           request == [kind |-> "insert", org |-> o, rows |-> rows]
<1>3. Template(o, f) \in Row /\ WellFormed(Template(o, f))
  BY <1>1, TemplateIsRow DEF Create
<1>4. rows \in [Txs -> Row \cup {None}]
  BY <1>3
<1>5. request \in Request
  BY <1>4 DEF Request
<1>6. \A x \in Txs : rows[x] # None => WellFormed(rows[x])
  BY <1>3
<1> HIDE DEF rows
<1> QED  BY <1>2, <1>5, <1>6, BeginKeepsInv DEF rows

LEMMA CreateInstallmentGroupKeepsInv ==
    ASSUME LedgerInv, NEW w \in Workers, NEW o \in Orgs, NEW f \in Forms,
           NEW n \in Counts, CreateInstallmentGroup(w, o, f, n)
    PROVE  LedgerInv'
<1>1. f \in Form /\ n \in Nat \ {0} /\ n > 1
  BY InputAssumption DEF CreateInstallmentGroup
<1> DEFINE tmpl == Template(o, f)
           at(ids, t) == CHOOSE k \in 1..n : ids[k] = t
           rows(ids, clamped) ==
             [t \in Txs |->
                IF \E i \in 1..n : ids[i] = t
                THEN LET i == CHOOSE k \in 1..n : ids[k] = t
                     IN  Parcel(tmpl, ids[1], n, i, ParcelCycle(tmpl, i, clamped))
                ELSE None]
<1>2. PICK ids \in [1..n -> Fresh],
           clamped \in SUBSET (IF f.card = None THEN {} ELSE 2..n) :
        Begin(w, "insert", [kind |-> "insert", org |-> o,
                            rows |-> rows(ids, clamped)])
  BY DEF CreateInstallmentGroup
<1>3. tmpl \in Row /\ WellFormed(tmpl)
  BY <1>1, TemplateIsRow DEF CreateInstallmentGroup
<1>4. tmpl.amount = f.amount /\ tmpl.card = f.card /\ f.amount >= n
  BY <1>1 DEF Template, BuildEntity, CreateInstallmentGroup
<1>5. ids \in [1..n -> Txs] /\ ids[1] \in Txs
  BY <1>1, <1>2 DEF Fresh
<1> HIDE DEF tmpl
<1>6. ASSUME NEW i \in 1..n
      PROVE  LET p == Parcel(tmpl, ids[1], n, i, ParcelCycle(tmpl, i, clamped))
             IN  p \in Row /\ WellFormed(p)
  <2>1. ParcelCycle(tmpl, i, clamped) \in Nat
    BY <1>1, <1>2, <1>3, <1>4, ParcelCycleIsNat
  <2> QED  BY <1>1, <1>3, <1>4, <1>5, <2>1, ParcelIsRow
<1>7. ASSUME NEW t \in Txs, \E i \in 1..n : ids[i] = t
      PROVE  at(ids, t) \in 1..n
  BY <1>7
<1>8. ASSUME NEW t \in Txs, rows(ids, clamped)[t] # None
      PROVE  rows(ids, clamped)[t] \in Row /\ WellFormed(rows(ids, clamped)[t])
  BY <1>6, <1>7, <1>8
<1>9. rows(ids, clamped) \in [Txs -> Row \cup {None}]
  BY <1>6, <1>7
<1> DEFINE request == [kind |-> "insert", org |-> o, rows |-> rows(ids, clamped)]
<1> HIDE DEF rows
<1>10. request \in Request
  BY <1>9 DEF Request
<1> QED  BY <1>2, <1>8, <1>10, BeginKeepsInv

\* A live row has the columns of a row.
LEMMA LiveTxIsRow ==
    ASSUME LedgerInv, NEW o \in Orgs, NEW t \in Txs, LiveTx(o, t)
    PROVE  row[t] \in Row /\ WellFormed(row[t]) /\ row[t].org = o
  BY DEF LedgerInv, TypeOK, StoredWellFormed, LiveTx

LEMMA SaveRequestKeepsInv ==
    ASSUME LedgerInv, NEW w \in Workers, NEW o \in Orgs, NEW t \in Txs,
           NEW kind, NEW r \in Row, WellFormed(r),
           Begin(w, kind, [kind |-> "save", org |-> o, id |-> t, row |-> r])
    PROVE  LedgerInv'
<1>1. [kind |-> "save", org |-> o, id |-> t, row |-> r] \in Request
  BY DEF Request
<1> QED  BY <1>1, BeginKeepsInv

LEMMA UpdateKeepsInv ==
    ASSUME LedgerInv, NEW w \in Workers, NEW o \in Orgs, NEW t \in Txs,
           NEW f \in Forms, Update(w, o, t, f)
    PROVE  LedgerInv'
<1>1. f \in Form /\ LiveTx(o, t) /\ Accepts(o, f)
  BY InputAssumption DEF Update
<1>2. BuildEntity(o, row[t], f) \in Row /\ WellFormed(BuildEntity(o, row[t], f))
  BY <1>1, LiveTxIsRow, BuildEntityIsRow
<1> QED  BY <1>2, SaveRequestKeepsInv DEF Update

LEMMA SettleKeepsInv ==
    ASSUME LedgerInv, NEW w \in Workers, NEW o \in Orgs, NEW t \in Txs,
           NEW target \in Accounts \cup {None}, Settle(w, o, t, target)
    PROVE  LedgerInv'
<1> DEFINE r == [row[t] EXCEPT !.paid = TRUE, !.dated = TRUE,
                               !.account = IF target = None THEN @ ELSE target]
<1>1. row[t] \in Row /\ WellFormed(row[t]) /\ row[t].org = o
  BY LiveTxIsRow DEF Settle
<1>2. r \in Row
  BY <1>1, NoneAssumption DEF Row
<1>3. WellFormed(r)
  BY <1>1, NoneAssumption DEF Row, WellFormed, Settle, LiveAccount
<1>4. Begin(w, "settle", [kind |-> "save", org |-> o, id |-> t, row |-> r])
  BY DEF Settle
<1> HIDE DEF r
<1> QED  BY <1>2, <1>3, <1>4, SaveRequestKeepsInv

LEMMA UnsettleKeepsInv ==
    ASSUME LedgerInv, NEW w \in Workers, NEW o \in Orgs, NEW t \in Txs,
           Unsettle(w, o, t)
    PROVE  LedgerInv'
<1> DEFINE r == [row[t] EXCEPT !.paid = FALSE, !.dated = FALSE]
<1>1. row[t] \in Row /\ WellFormed(row[t])
  BY LiveTxIsRow DEF Unsettle
<1>2. r \in Row /\ WellFormed(r)
  BY <1>1 DEF Row, WellFormed
<1>3. Begin(w, "settle", [kind |-> "save", org |-> o, id |-> t, row |-> r])
  BY DEF Unsettle
<1> HIDE DEF r
<1> QED  BY <1>2, <1>3, SaveRequestKeepsInv

\* The requests that carry no row.
LEMMA BulkRequestKeepsInv ==
    ASSUME LedgerInv, NEW w \in Workers, NEW o \in Orgs, NEW kind,
           NEW ids \in SUBSET Txs, NEW target \in Accounts \cup {None},
           target # None => Owner[target] = o,
           \/ Begin(w, kind, [kind |-> "settle", org |-> o, ids |-> ids,
                              account |-> target])
           \/ Begin(w, kind, [kind |-> "unsettle", org |-> o, ids |-> ids])
           \/ Begin(w, kind, [kind |-> "delete", org |-> o, ids |-> ids])
    PROVE  LedgerInv'
<1>1. [kind |-> "settle", org |-> o, ids |-> ids, account |-> target] \in Request
  BY DEF Request
<1>2. [kind |-> "unsettle", org |-> o, ids |-> ids] \in Request
  BY DEF Request
<1>3. [kind |-> "delete", org |-> o, ids |-> ids] \in Request
  BY DEF Request
<1>4. CASE Begin(w, kind, [kind |-> "settle", org |-> o, ids |-> ids,
                           account |-> target])
  BY <1>1, <1>4, BeginKeepsInv
<1>5. CASE Begin(w, kind, [kind |-> "unsettle", org |-> o, ids |-> ids])
  BY <1>2, <1>5, BeginKeepsInv
<1>6. CASE Begin(w, kind, [kind |-> "delete", org |-> o, ids |-> ids])
  BY <1>3, <1>6, BeginKeepsInv
<1> QED  BY <1>4, <1>5, <1>6

LEMMA TransactionRequestKeepsInv ==
    ASSUME LedgerInv, NEW w \in Workers, NEW o \in Orgs, TransactionRequest(w, o)
    PROVE  LedgerInv'
<1>1. ASSUME NEW f \in Forms, Create(w, o, f) PROVE LedgerInv'
  BY <1>1, CreateKeepsInv
<1>2. ASSUME NEW f \in Forms, NEW n \in Counts, CreateInstallmentGroup(w, o, f, n)
      PROVE  LedgerInv'
  BY <1>2, CreateInstallmentGroupKeepsInv
<1>3. ASSUME NEW t \in Txs, NEW f \in Forms, Update(w, o, t, f) PROVE LedgerInv'
  BY <1>3, UpdateKeepsInv
<1>4. ASSUME NEW t \in Txs, NEW target \in Accounts \cup {None},
             Settle(w, o, t, target)
      PROVE  LedgerInv'
  BY <1>4, SettleKeepsInv
<1>5. ASSUME NEW t \in Txs, Unsettle(w, o, t) PROVE LedgerInv'
  BY <1>5, UnsettleKeepsInv
<1>6. ASSUME NEW ids \in SUBSET Txs, NEW target \in Accounts \cup {None},
             BulkSettle(w, o, ids, target)
      PROVE  LedgerInv'
  BY <1>6, BulkRequestKeepsInv DEF BulkSettle, LiveAccount
<1>7. ASSUME NEW ids \in SUBSET Txs, BulkUnsettle(w, o, ids) PROVE LedgerInv'
  BY <1>7, BulkRequestKeepsInv DEF BulkUnsettle
<1>8. ASSUME NEW c \in Cards, NEW cycle, NEW target \in Accounts,
             PayInvoice(w, o, c, cycle, target)
      PROVE  LedgerInv'
  <2> DEFINE ids == {t \in ListByCard(o, c) : row[t].cycle = cycle}
  <2>1. ids \in SUBSET Txs
    BY DEF ListByCard
  <2>2. Begin(w, "payInvoice", [kind |-> "settle", org |-> o, ids |-> ids,
                                account |-> target]) /\ Owner[target] = o
    BY <1>8 DEF PayInvoice, LiveAccount
  <2> HIDE DEF ids
  <2> QED  BY <2>1, <2>2, BulkRequestKeepsInv
<1>9. ASSUME NEW c \in Cards, NEW cycle, UnpayInvoice(w, o, c, cycle)
      PROVE  LedgerInv'
  <2> DEFINE ids == {t \in ListByCard(o, c) : row[t].cycle = cycle}
  <2>1. ids \in SUBSET Txs
    BY DEF ListByCard
  <2>2. Begin(w, "unpayInvoice", [kind |-> "unsettle", org |-> o, ids |-> ids])
    BY <1>9 DEF UnpayInvoice
  <2> HIDE DEF ids
  <2> QED  BY <2>1, <2>2, BulkRequestKeepsInv
<1>10. ASSUME NEW ids \in SUBSET Txs, Delete(w, o, ids) PROVE LedgerInv'
  BY <1>10, BulkRequestKeepsInv DEF Delete
<1>11. ASSUME NEW t \in Txs, DeleteScoped(w, o, t) PROVE LedgerInv'
  <2>1. row[t].group \in Txs
    BY <1>11, LiveTxIsRow DEF DeleteScoped, Row
  <2>2. [kind |-> "deleteGroup", org |-> o, group |-> row[t].group] \in Request
    BY <2>1 DEF Request
  <2> QED  BY <1>11, <2>2, BeginKeepsInv DEF DeleteScoped
<1> QED
  BY <1>1, <1>2, <1>3, <1>4, <1>5, <1>6, <1>7, <1>8, <1>9, <1>10, <1>11
  DEF TransactionRequest

LEMMA AccountRequestKeepsInv ==
    ASSUME LedgerInv, NEW w \in Workers, NEW o \in Orgs, AccountRequest(w, o)
    PROVE  LedgerInv'
<1>1. ASSUME NEW a \in Accounts, NEW cents \in InitialCents,
             OpenAccount(w, o, a, cents) \/ EditAccount(w, o, a, cents)
      PROVE  LedgerInv'
  <2>1. cents \in Int
    BY InputAssumption
  <2>2. [kind |-> "openAccount", org |-> o, id |-> a, initial |-> cents] \in Request
    BY <2>1 DEF Request
  <2>3. [kind |-> "saveAccount", org |-> o, id |-> a, initial |-> cents] \in Request
    BY <2>1 DEF Request
  <2>4. CASE OpenAccount(w, o, a, cents)
    BY <2>2, <2>4, BeginKeepsInv DEF OpenAccount
  <2>5. CASE EditAccount(w, o, a, cents)
    BY <2>3, <2>5, BeginKeepsInv DEF EditAccount
  <2> QED  BY <1>1, <2>4, <2>5
<1>2. ASSUME NEW a \in Accounts, DeleteAccount(w, o, a) PROVE LedgerInv'
  <2>1. [kind |-> "deleteAccount", org |-> o, id |-> a] \in Request
    BY DEF Request
  <2> QED  BY <1>2, <2>1, BeginKeepsInv DEF DeleteAccount
<1> QED  BY <1>1, <1>2 DEF AccountRequest

-----------------------------------------------------------------------------
(* The writes. *)

LEMMA DoneKeepsRequests ==
    ASSUME LedgerInv, NEW w \in Workers, Done(w)
    PROVE  /\ requests' \in [Workers -> Request \cup {None}]
           /\ PendingWellFormed'
  BY DEF LedgerInv, TypeOK, PendingWellFormed, Done, WellFormed

\* What the columns of a pending request are, by kind.
LEMMA PendingTypes ==
    ASSUME LedgerInv, NEW w \in Workers, requests[w] # None
    PROVE  /\ requests[w].kind = "insert" =>
                  /\ requests[w].rows \in [Txs -> Row \cup {None}]
                  /\ \A t \in Txs : requests[w].rows[t] # None =>
                        WellFormed(requests[w].rows[t])
           /\ requests[w].kind = "save" =>
                  /\ requests[w].id \in Txs /\ requests[w].row \in Row
                  /\ WellFormed(requests[w].row)
           /\ requests[w].kind = "settle" =>
                  /\ requests[w].org \in Orgs
                  /\ requests[w].account \in Accounts \cup {None}
                  /\ requests[w].account # None =>
                        Owner[requests[w].account] = requests[w].org
           /\ requests[w].kind \in {"openAccount", "saveAccount"} =>
                  requests[w].id \in Accounts /\ requests[w].initial \in Int
           /\ requests[w].kind = "deleteAccount" => requests[w].id \in Accounts
<1>1. requests[w] \in Request
  BY DEF LedgerInv, TypeOK
<1> QED  BY <1>1 DEF Request, LedgerInv, PendingWellFormed

LEMMA InsertRowsKeepsInv ==
    ASSUME LedgerInv, NEW w \in Workers, InsertRows(w)
    PROVE  LedgerInv'
<1> DEFINE rows == requests[w].rows
<1>1. /\ rows \in [Txs -> Row \cup {None}]
      /\ \A t \in Txs : rows[t] # None => WellFormed(rows[t])
  BY PendingTypes DEF InsertRows, Writing
<1> HIDE DEF rows
<1>2. /\ \A t \in Txs : rows[t] # None => ForeignKeysHold(rows[t])
      /\ txState' = [t \in Txs |-> IF rows[t] # None THEN "live" ELSE txState[t]]
      /\ row' = [t \in Txs |-> IF rows[t] # None THEN rows[t] ELSE row[t]]
      /\ Done(w) /\ UNCHANGED <<acctState, initial>>
  BY DEF InsertRows, Given, rows
<1>3. TypeOK'
  BY <1>1, <1>2, DoneKeepsRequests DEF LedgerInv, TypeOK, States
<1>4. StoredWellFormed'
  BY <1>1, <1>2 DEF LedgerInv, StoredWellFormed, WellFormed
<1>5. StoredKeysHold'
  BY <1>1, <1>2 DEF LedgerInv, StoredKeysHold, StoredTxs, ForeignKeysHold, Stored
<1> QED  BY <1>2, <1>3, <1>4, <1>5, DoneKeepsRequests DEF LedgerInv

LEMMA SaveRowKeepsInv ==
    ASSUME LedgerInv, NEW w \in Workers, SaveRow(w)
    PROVE  LedgerInv'
<1> DEFINE r == requests[w].row
           id == requests[w].id
<1>1. r \in Row /\ WellFormed(r) /\ id \in Txs /\ r # None
  BY PendingTypes, NoneIsNoRow DEF SaveRow, Writing
<1>2. /\ ForeignKeysHold(r)
      /\ txState' = [txState EXCEPT ![id] = "live"]
      /\ row' = [row EXCEPT ![id] = r]
      /\ Done(w) /\ UNCHANGED <<acctState, initial>>
  BY DEF SaveRow
<1> HIDE DEF r, id
<1>3. TypeOK'
  BY <1>1, <1>2, DoneKeepsRequests DEF LedgerInv, TypeOK, States
<1>4. StoredWellFormed'
  BY <1>1, <1>2 DEF LedgerInv, TypeOK, StoredWellFormed, WellFormed
<1>5. StoredKeysHold'
  BY <1>1, <1>2 DEF LedgerInv, TypeOK, StoredKeysHold, StoredTxs, ForeignKeysHold, Stored
<1> QED  BY <1>2, <1>3, <1>4, <1>5, DoneKeepsRequests DEF LedgerInv

LEMMA SettleRowsKeepsInv ==
    ASSUME LedgerInv, NEW w \in Workers, SettleRows(w)
    PROVE  LedgerInv'
<1> DEFINE account == requests[w].account
           settled(t) == [row[t] EXCEPT !.paid = TRUE, !.dated = TRUE,
                            !.account = IF account = None THEN @ ELSE account]
<1>1. /\ account \in Accounts \cup {None}
      /\ account # None => Owner[account] = requests[w].org /\ Stored(account)
  BY PendingTypes DEF SettleRows, Writing
<1>2. /\ row' = [t \in Txs |-> IF t \notin Selected(w) THEN row[t] ELSE settled(t)]
      /\ Done(w) /\ UNCHANGED <<acctState, initial, txState>>
  BY DEF SettleRows
<1>3. ASSUME NEW t \in Selected(w)
      PROVE  /\ t \in Txs /\ row[t] # None /\ settled(t) # None
             /\ settled(t) \in Row /\ WellFormed(settled(t))
             /\ ForeignKeysHold(settled(t))
  <2>1. t \in Txs /\ LiveTx(requests[w].org, t)
    BY DEF Selected
  <2>2. row[t] # None /\ row[t] \in Row /\ WellFormed(row[t])
        /\ row[t].org = requests[w].org /\ ForeignKeysHold(row[t])
    BY <2>1 DEF LedgerInv, TypeOK, StoredWellFormed, StoredKeysHold, StoredTxs, LiveTx
  <2>3. settled(t) \in Row
    BY <1>1, <2>2, NoneAssumption DEF Row
  <2>4. WellFormed(settled(t))
    BY <1>1, <2>2, NoneAssumption DEF Row, WellFormed
  <2>5. ForeignKeysHold(settled(t))
    BY <1>1, <2>2 DEF Row, ForeignKeysHold
  <2> QED  BY <2>1, <2>2, <2>3, <2>4, <2>5, NoneIsNoRow
<1> HIDE DEF account, settled
<1>4. TypeOK'
  BY <1>2, <1>3, DoneKeepsRequests DEF LedgerInv, TypeOK
<1>5. StoredWellFormed'
  BY <1>2, <1>3 DEF LedgerInv, StoredWellFormed, WellFormed
<1>6. StoredKeysHold'
  BY <1>2, <1>3 DEF LedgerInv, StoredKeysHold, StoredTxs, ForeignKeysHold, Stored
<1> QED  BY <1>2, <1>4, <1>5, <1>6, DoneKeepsRequests DEF LedgerInv

LEMMA UnsettleRowsKeepsInv ==
    ASSUME LedgerInv, NEW w \in Workers, UnsettleRows(w)
    PROVE  LedgerInv'
<1> DEFINE open(t) == [row[t] EXCEPT !.paid = FALSE, !.dated = FALSE]
<1>1. /\ row' = [t \in Txs |-> IF t \notin Selected(w) THEN row[t] ELSE open(t)]
      /\ Done(w) /\ UNCHANGED <<acctState, initial, txState>>
  BY DEF UnsettleRows
<1>2. ASSUME NEW t \in Selected(w)
      PROVE  /\ t \in Txs /\ row[t] # None /\ open(t) # None
             /\ open(t) \in Row /\ WellFormed(open(t)) /\ ForeignKeysHold(open(t))
  <2>1. t \in Txs /\ LiveTx(requests[w].org, t)
    BY DEF Selected
  <2>2. row[t] # None /\ row[t] \in Row /\ WellFormed(row[t]) /\ ForeignKeysHold(row[t])
    BY <2>1 DEF LedgerInv, TypeOK, StoredWellFormed, StoredKeysHold, StoredTxs, LiveTx
  <2>3. open(t) \in Row /\ WellFormed(open(t)) /\ ForeignKeysHold(open(t))
    BY <2>2 DEF Row, WellFormed, ForeignKeysHold
  <2> QED  BY <2>1, <2>2, <2>3, NoneIsNoRow
<1> HIDE DEF open
<1>3. TypeOK'
  BY <1>1, <1>2, DoneKeepsRequests DEF LedgerInv, TypeOK
<1>4. StoredWellFormed'
  BY <1>1, <1>2 DEF LedgerInv, StoredWellFormed, WellFormed
<1>5. StoredKeysHold'
  BY <1>1, <1>2 DEF LedgerInv, StoredKeysHold, StoredTxs, ForeignKeysHold, Stored
<1> QED  BY <1>1, <1>3, <1>4, <1>5, DoneKeepsRequests DEF LedgerInv

\* Soft deletions change no column, and a live row that is deleted stays stored.
LEMMA SoftDeletionKeepsInv ==
    ASSUME LedgerInv, NEW w \in Workers, DeleteRows(w) \/ DeleteInstallmentGroup(w)
    PROVE  LedgerInv'
<1>1. /\ txState' \in [Txs -> States]
      /\ \A t \in Txs : \/ txState'[t] = txState[t]
                        \/ txState[t] = "live" /\ txState'[t] = "deleted"
      /\ Done(w) /\ UNCHANGED <<acctState, initial, row>>
  BY DEF LedgerInv, TypeOK, States, DeleteRows, DeleteInstallmentGroup, Selected, LiveTx
<1>2. TypeOK'
  BY <1>1, DoneKeepsRequests DEF LedgerInv, TypeOK
<1>3. StoredWellFormed' /\ StoredKeysHold'
  BY <1>1 DEF LedgerInv, StoredWellFormed, WellFormed, StoredKeysHold, StoredTxs,
              ForeignKeysHold, Stored
<1> QED  BY <1>1, <1>2, <1>3, DoneKeepsRequests DEF LedgerInv

\* No write to an account makes a stored one disappear.
LEMMA AccountWriteKeepsInv ==
    ASSUME LedgerInv, NEW w \in Workers,
           InsertAccount(w) \/ SaveAccount(w) \/ SoftDeleteAccount(w) \/ Fail(w)
    PROVE  LedgerInv'
<1>1. /\ acctState' \in [Accounts -> States]
      /\ initial' \in [Accounts -> Int]
      /\ \A a \in Accounts : Stored(a) => Stored(a)'
      /\ Done(w) /\ UNCHANGED <<txState, row>>
  <2>1. CASE InsertAccount(w) \/ SaveAccount(w)
    <3>1. requests[w].id \in Accounts /\ requests[w].initial \in Int
      BY <2>1, PendingTypes DEF InsertAccount, SaveAccount, Writing
    <3>2. ASSUME NEW a \in Accounts, Stored(a) PROVE Stored(a)'
      BY <2>1, <3>1, <3>2 DEF InsertAccount, SaveAccount, Stored, LedgerInv, TypeOK
    <3> QED  BY <2>1, <3>1, <3>2 DEF InsertAccount, SaveAccount, LedgerInv, TypeOK, States
  <2>2. CASE SoftDeleteAccount(w)
    <3>1. requests[w].id \in Accounts
      BY <2>2, PendingTypes DEF SoftDeleteAccount, Writing
    <3> QED  BY <2>2, <3>1 DEF SoftDeleteAccount, LiveAccount, Stored, LedgerInv,
                                TypeOK, States
  <2>3. CASE Fail(w)
    BY <2>3 DEF Fail, Stored, LedgerInv, TypeOK
  <2> QED  BY <2>1, <2>2, <2>3
<1>2. TypeOK'
  BY <1>1, DoneKeepsRequests DEF LedgerInv, TypeOK
<1>3. StoredWellFormed'
  BY <1>1 DEF LedgerInv, StoredWellFormed, WellFormed
<1>4. StoredKeysHold'
  BY <1>1 DEF LedgerInv, TypeOK, Row, StoredKeysHold, StoredTxs, ForeignKeysHold
<1> QED  BY <1>1, <1>2, <1>3, <1>4, DoneKeepsRequests DEF LedgerInv

LEMMA PurgeTransactionsKeepsInv ==
    ASSUME LedgerInv, NEW old \in SUBSET Txs, PurgeTransactions(old)
    PROVE  LedgerInv'
<1>1. TypeOK'
  BY DEF LedgerInv, TypeOK, States, PurgeTransactions
<1>2. StoredWellFormed' /\ StoredKeysHold' /\ PendingWellFormed'
  BY DEF LedgerInv, TypeOK, StoredWellFormed, WellFormed, StoredKeysHold, StoredTxs,
         ForeignKeysHold, Stored, PendingWellFormed, PurgeTransactions
<1> QED  BY <1>1, <1>2 DEF LedgerInv

LEMMA PurgeAccountsKeepsInv ==
    ASSUME LedgerInv, NEW old \in SUBSET Accounts, PurgeAccounts(old)
    PROVE  LedgerInv'
<1>1. TypeOK'
  BY DEF LedgerInv, TypeOK, States, PurgeAccounts
<1>2. StoredWellFormed' /\ PendingWellFormed'
  BY DEF LedgerInv, StoredWellFormed, WellFormed, PendingWellFormed, PurgeAccounts
<1>3. StoredKeysHold'
  <2> SUFFICES ASSUME NEW t \in Txs, row[t] # None
               PROVE  ForeignKeysHold(row[t])'
    BY DEF StoredKeysHold, StoredTxs, PurgeAccounts
  <2>1. /\ ForeignKeysHold(row[t]) /\ row[t] \in Row
        /\ row[t].account \notin old /\ row[t].dest \notin old
    BY DEF LedgerInv, TypeOK, StoredKeysHold, StoredTxs, PurgeAccounts
  <2> QED  BY <2>1 DEF ForeignKeysHold, Stored, PurgeAccounts, Row
<1> QED  BY <1>1, <1>2, <1>3 DEF LedgerInv

LEMMA NextKeepsInv == LedgerInv /\ [Next]_vars => LedgerInv'
<1> SUFFICES ASSUME LedgerInv, [Next]_vars PROVE LedgerInv'
  OBVIOUS
<1>1. ASSUME NEW w \in Workers, NEW o \in Orgs, TransactionRequest(w, o)
      PROVE  LedgerInv'
  BY <1>1, TransactionRequestKeepsInv
<1>2. ASSUME NEW w \in Workers, NEW o \in Orgs, AccountRequest(w, o)
      PROVE  LedgerInv'
  BY <1>2, AccountRequestKeepsInv
<1>3. ASSUME NEW w \in Workers, Write(w) PROVE LedgerInv'
  BY <1>3, InsertRowsKeepsInv, SaveRowKeepsInv, SettleRowsKeepsInv,
     UnsettleRowsKeepsInv, SoftDeletionKeepsInv, AccountWriteKeepsInv DEF Write
<1>4. ASSUME NEW old \in SUBSET Txs, PurgeTransactions(old) PROVE LedgerInv'
  BY <1>4, PurgeTransactionsKeepsInv
<1>5. ASSUME NEW old \in SUBSET Accounts, PurgeAccounts(old) PROVE LedgerInv'
  BY <1>5, PurgeAccountsKeepsInv
<1>6. CASE UNCHANGED vars
  BY <1>6 DEF vars, LedgerInv, TypeOK, StoredWellFormed, PendingWellFormed, WellFormed,
              StoredKeysHold, StoredTxs, ForeignKeysHold, Stored
<1> QED  BY <1>1, <1>2, <1>3, <1>4, <1>5, <1>6 DEF Next

THEOREM LedgerInvariant == Spec => []LedgerInv
  BY InitEstablishesInv, NextKeepsInv, PTL DEF Spec

-----------------------------------------------------------------------------
(* What follows for every set of organizations, accounts and requests. *)

\* The state keeps its shape.
THEOREM LedgerTypes == Spec => []TypeOK
<1>1. LedgerInv => TypeOK
  BY DEF LedgerInv
<1> QED  BY <1>1, LedgerInvariant, PTL

\* A transfer always names its destination and nothing else ever does.
THEOREM TransfersHaveDestinations == Spec => []TransferHasDestination
<1>1. LedgerInv => TransferHasDestination
  BY DEF LedgerInv, StoredWellFormed, WellFormed, TransferHasDestination, StoredTxs
<1> QED  BY <1>1, LedgerInvariant, PTL

\* The payment date follows the paid flag whatever requests interleave.
THEOREM PaidRowsAreDated == Spec => []PaidIffDated
<1>1. LedgerInv => PaidIffDated
  BY DEF LedgerInv, StoredWellFormed, WellFormed, PaidIffDated, StoredTxs
<1> QED  BY <1>1, LedgerInvariant, PTL

\* No stored transaction names a purged account, although handlers write rows
\* whose accounts they checked long before.
THEOREM StoredReferencesHold == Spec => []ReferencesStored
<1>1. LedgerInv => ReferencesStored
  BY DEF LedgerInv, StoredKeysHold, ReferencesStored, StoredTxs, ForeignKeysHold, Stored
<1> QED  BY <1>1, LedgerInvariant, PTL

\* Transactions only ever name accounts of their own organization.
THEOREM AccountsStayInOrg == Spec => []AccountsOfSameOrg
<1>1. LedgerInv => AccountsOfSameOrg
  BY DEF LedgerInv, StoredWellFormed, WellFormed, AccountsOfSameOrg, StoredTxs
<1> QED  BY <1>1, LedgerInvariant, PTL

-----------------------------------------------------------------------------
(***************************************************************************)
(* What a row keeps for good: its organization and its place in a group.   *)
(* No handler changes them, so they belong to the id, and the table of     *)
(* them (born) outlives the row, which may be purged while a request still *)
(* holds a copy and writes it back.                                        *)
(***************************************************************************)
Known(t) == txState[t] # "absent"

SamePlace(r, s) ==
    r.org = s.org /\ r.group = s.group /\ r.number = s.number /\ r.total = s.total

\* A set of rows that are whole groups, one row per number.
WholeGroups(ids, rows) ==
    \A t \in ids : rows[t].group # None =>
        /\ rows[t].group \in ids
        /\ rows[t].number \in 1..rows[t].total
        /\ \A p \in ids \ {t} : rows[p].group = rows[t].group =>
               rows[p].number # rows[t].number
        /\ \A k \in 1..rows[t].total :
               \E p \in ids : rows[p].group = rows[t].group /\ rows[p].number = k

Born(born) ==
    /\ born \in [Txs -> Row \cup {None}]
    /\ \A t \in Txs : Known(t) <=> born[t] # None
    /\ \A t \in Txs : row[t] # None => SamePlace(row[t], born[t])
    /\ WholeGroups({t \in Txs : Known(t)}, born)

\* Requests write rows of their own organization: new ids, or ids known by the
\* same place.
RequestOfItsOrg(born, w) ==
    /\ requests[w].kind = "insert" =>
           /\ \A t \in Given(requests[w].rows) :
                  ~Known(t) /\ requests[w].rows[t].org = requests[w].org
           /\ WholeGroups(Given(requests[w].rows), requests[w].rows)
           /\ \A v \in Workers \ {w} : Writing(v, "insert") =>
                  Given(requests[v].rows) \cap Given(requests[w].rows) = {}
    /\ requests[w].kind = "save" =>
           /\ Known(requests[w].id)
           /\ SamePlace(requests[w].row, born[requests[w].id])
           /\ requests[w].row.org = requests[w].org
    /\ requests[w].kind \in {"openAccount", "saveAccount"} =>
           Owner[requests[w].id] = requests[w].org

PlaceInv(born) ==
    Born(born) /\ \A w \in Workers : requests[w] # None => RequestOfItsOrg(born, w)

PlacesKept == \E born : PlaceInv(born)

LEMMA InitPlaces == Init => PlaceInv([t \in Txs |-> None])
  BY DEF Init, PlaceInv, Born, Known, WholeGroups

\* A request that stays under way stays what it was.
LEMMA RequestStays ==
    ASSUME NEW born, NEW b, NEW v \in Workers, RequestOfItsOrg(born, v),
           requests'[v] = requests[v],
           requests[v].kind = "insert" =>
               /\ \A t \in Given(requests[v].rows) : ~Known(t)'
               /\ \A u \in Workers \ {v} : Writing(u, "insert")' =>
                      Given(requests'[u].rows) \cap Given(requests[v].rows) = {},
           requests[v].kind = "save" =>
               Known(requests[v].id)' /\ b[requests[v].id] = born[requests[v].id]
    PROVE  RequestOfItsOrg(b, v)'
<1>1. Given(requests[v].rows)' = Given(requests[v].rows)
  BY DEF Given
<1>2. ASSUME requests[v].kind = "insert"
      PROVE  WholeGroups(Given(requests[v].rows), requests[v].rows)'
  BY <1>1, <1>2 DEF WholeGroups, RequestOfItsOrg
<1>3. ASSUME requests[v].kind = "insert", NEW u \in Workers \ {v}, Writing(u, "insert")'
      PROVE  (Given(requests[u].rows) \cap Given(requests[v].rows) = {})'
  BY <1>1, <1>3 DEF Given
<1>4. ASSUME requests[v].kind = "insert", NEW t \in Given(requests[v].rows)
      PROVE  (~Known(t) /\ requests[v].rows[t].org = requests[v].org)'
  BY <1>4 DEF RequestOfItsOrg
<1>5. ASSUME requests[v].kind = "save"
      PROVE  (/\ Known(requests[v].id)
              /\ SamePlace(requests[v].row, b[requests[v].id])
              /\ requests[v].row.org = requests[v].org)'
  BY <1>5 DEF RequestOfItsOrg, SamePlace, Known
<1>6. ASSUME requests[v].kind \in {"openAccount", "saveAccount"}
      PROVE  (Owner[requests[v].id] = requests[v].org)'
  BY <1>6 DEF RequestOfItsOrg
<1> QED  BY <1>1, <1>2, <1>3, <1>4, <1>5, <1>6 DEF RequestOfItsOrg

\* Taking a request on, of any kind, moves no row.
LEMMA BeginKeepsPlaces ==
    ASSUME LedgerInv, NEW born, PlaceInv(born), NEW w \in Workers, NEW kind, NEW request,
           Begin(w, kind, request), RequestOfItsOrg(born, w)'
    PROVE  PlaceInv(born)'
<1>1. Born(born)' /\ \A t \in Txs : Known(t)' = Known(t)
  BY DEF PlaceInv, Born, Known, SamePlace, WholeGroups, Begin
<1>2. requests' = [requests EXCEPT ![w] = request]
  BY DEF Begin
<1>3. ASSUME NEW v \in Workers, v # w, requests'[v] # None
      PROVE  RequestOfItsOrg(born, v)'
  <2>1. requests'[v] = requests[v] /\ RequestOfItsOrg(born, v)
    BY <1>2, <1>3 DEF LedgerInv, TypeOK, PlaceInv
  <2>2. ASSUME requests'[v].kind = "insert", Writing(w, "insert")'
        PROVE  Given(requests'[w].rows) \cap Given(requests'[v].rows) = {}
    <3>1. requests'[w].kind = "insert" /\ Writing(v, "insert")'
      BY <1>3, <2>2 DEF Writing
    <3> QED  BY <1>3, <3>1 DEF RequestOfItsOrg
  <2>3. ASSUME NEW u \in Workers \ {v}, u # w
        PROVE  requests'[u] = requests[u]
    BY <1>2, <2>3 DEF LedgerInv, TypeOK
  <2>4. ASSUME requests[v].kind = "insert"
        PROVE  \A u \in Workers \ {v} : Writing(u, "insert")' =>
                   Given(requests'[u].rows) \cap Given(requests[v].rows) = {}
    BY <1>3, <2>1, <2>2, <2>3, <2>4 DEF RequestOfItsOrg, Writing
  <2>5. ASSUME requests[v].kind = "save"
        PROVE  requests[v].id \in Txs
    BY <1>3, <2>1, <2>5, PendingTypes
  <2> QED  BY <1>1, <2>1, <2>4, <2>5, RequestStays DEF RequestOfItsOrg, Given
<1> QED  BY <1>1, <1>3 DEF PlaceInv

\* A write that draws no new id and keeps every row in its place.
LEMMA DoneKeepsPlaces ==
    ASSUME LedgerInv, NEW born, PlaceInv(born), NEW w \in Workers, Done(w),
           \A t \in Txs : Known(t)' <=> Known(t),
           \A t \in Txs : row'[t] # None => SamePlace(row'[t], born[t])
    PROVE  PlaceInv(born)'
<1>1. Born(born)'
  <2>1. {t \in Txs : Known(t)}' = {t \in Txs : Known(t)}
    OBVIOUS
  <2> QED  BY <2>1 DEF PlaceInv, Born, SamePlace, WholeGroups
<1>2. ASSUME NEW v \in Workers, requests'[v] # None
      PROVE  RequestOfItsOrg(born, v)'
  <2>1. v # w /\ requests'[v] = requests[v] /\ RequestOfItsOrg(born, v)
    BY <1>2 DEF Done, LedgerInv, TypeOK, PlaceInv
  <2>2. ASSUME NEW u \in Workers
        PROVE  requests'[u] = None \/ requests'[u] = requests[u]
    BY DEF Done, LedgerInv, TypeOK
  <2>3. ASSUME requests[v].kind = "insert"
        PROVE  \A u \in Workers \ {v} : Writing(u, "insert")' =>
                   Given(requests'[u].rows) \cap Given(requests[v].rows) = {}
    BY <2>1, <2>2, <2>3 DEF RequestOfItsOrg, Writing
  <2>4. ASSUME requests[v].kind = "save"
        PROVE  requests[v].id \in Txs
    BY <1>2, <2>1, <2>4, PendingTypes
  <2> QED  BY <2>1, <2>3, <2>4, RequestStays DEF RequestOfItsOrg, Given
<1> QED  BY <1>1, <1>2 DEF PlaceInv

LEMMA InsertRowsKeepsPlaces ==
    ASSUME LedgerInv, NEW born, PlaceInv(born), NEW w \in Workers, InsertRows(w)
    PROVE  \E b : PlaceInv(b)'
<1> DEFINE rows == requests[w].rows
           ids == Given(rows)
<1>0. PICK b : b = [t \in Txs |-> IF t \in ids THEN rows[t] ELSE born[t]]
  OBVIOUS
<1>1. /\ rows \in [Txs -> Row \cup {None}]
      /\ requests[w] # None /\ requests[w].kind = "insert"
  BY PendingTypes DEF InsertRows, Writing
<1>2. /\ \A t \in ids : t \in Txs /\ ~Known(t) /\ rows[t] # None /\ rows[t] \in Row
      /\ WholeGroups(ids, rows)
  BY <1>1 DEF PlaceInv, RequestOfItsOrg, Given
<1>3. /\ row' = [t \in Txs |-> IF t \in ids THEN rows[t] ELSE row[t]]
      /\ \A t \in Txs : Known(t)' <=> (Known(t) \/ t \in ids)
  BY DEF InsertRows, Known
<1>4. Done(w)
  BY DEF InsertRows
<1>a. Born(born)
  BY DEF PlaceInv
<1>b. ids = {t \in Txs : rows[t] # None}
  BY DEF Given
<1> HIDE DEF rows, ids
<1>5. Born(b)'
  <2>1. b \in [Txs -> Row \cup {None}]
    BY <1>0, <1>2, <1>a DEF Born
  <2>2. \A t \in Txs : Known(t)' <=> b[t] # None
    BY <1>0, <1>2, <1>3, <1>a DEF Born
  <2>3. \A t \in Txs : row'[t] # None => SamePlace(row'[t], b[t])
    BY <1>0, <1>3, <1>a DEF Born, SamePlace
  <2> DEFINE known == {t \in Txs : Known(t)}
             later == {t \in Txs : Known(t)'}
  <2>4. ASSUME NEW t \in later, b[t].group # None
        PROVE  /\ b[t].group \in later
               /\ b[t].number \in 1..b[t].total
               /\ \A p \in later \ {t} : b[p].group = b[t].group =>
                      b[p].number # b[t].number
               /\ \A k \in 1..b[t].total :
                      \E p \in later : b[p].group = b[t].group /\ b[p].number = k
    <3>1. known \cap ids = {} /\ later = known \cup ids
      BY <1>2, <1>3
    <3>2. CASE t \in ids
      <4>1. /\ b[t] = rows[t] /\ rows[t].group \in ids
            /\ rows[t].number \in 1..rows[t].total
            /\ \A p \in ids \ {t} : rows[p].group = rows[t].group =>
                   rows[p].number # rows[t].number
            /\ \A k \in 1..rows[t].total :
                   \E p \in ids : rows[p].group = rows[t].group /\ rows[p].number = k
        BY <1>0, <1>2, <2>4, <3>2 DEF WholeGroups
      <4>2. ASSUME NEW p \in known PROVE b[p].group # b[t].group
        <5>1. b[p] = born[p] /\ (born[p].group = None \/ born[p].group \in known)
          BY <1>0, <1>2, <1>a, <4>2, <3>1 DEF Born, WholeGroups
        <5> QED  BY <4>1, <5>1, <3>1, <2>4
      <4>3. \A p \in ids : b[p] = rows[p]
        BY <1>0, <1>2
      <4> QED  BY <3>1, <4>1, <4>2, <4>3
    <3>3. CASE t \in known
      <4>1. /\ b[t] = born[t] /\ born[t].group \in known
            /\ born[t].number \in 1..born[t].total
            /\ \A p \in known \ {t} : born[p].group = born[t].group =>
                   born[p].number # born[t].number
            /\ \A k \in 1..born[t].total :
                   \E p \in known : born[p].group = born[t].group /\ born[p].number = k
        BY <1>0, <1>2, <1>a, <2>4, <3>3 DEF Born, WholeGroups
      <4>2. ASSUME NEW p \in ids PROVE b[p].group # b[t].group
        <5>1. b[p] = rows[p] /\ (rows[p].group = None \/ rows[p].group \in ids)
          BY <1>0, <1>2, <4>2 DEF WholeGroups
        <5> QED  BY <4>1, <5>1, <3>1, <2>4
      <4>3. \A p \in known : b[p] = born[p]
        BY <1>0, <1>2
      <4> QED  BY <3>1, <4>1, <4>2, <4>3
    <3> QED  BY <3>1, <3>2, <3>3
  <2>5. WholeGroups({t \in Txs : Known(t)}, b)'
    BY <2>4 DEF WholeGroups
  <2> QED  BY <2>1, <2>2, <2>3, <2>5 DEF Born
<1>6. ASSUME NEW v \in Workers, requests'[v] # None
      PROVE  RequestOfItsOrg(b, v)'
  <2>1. v # w /\ requests'[v] = requests[v] /\ RequestOfItsOrg(born, v)
    BY <1>4, <1>6 DEF Done, LedgerInv, TypeOK, PlaceInv
  <2>2. ASSUME NEW u \in Workers
        PROVE  requests'[u] = None \/ requests'[u] = requests[u]
    BY <1>4 DEF Done, LedgerInv, TypeOK
  <2>3. ASSUME requests[v].kind = "insert"
        PROVE  Given(requests[v].rows) \cap ids = {}
    BY <2>1, <2>3, <1>1 DEF RequestOfItsOrg, Writing, ids, rows
  <2>4. ASSUME requests[v].kind = "save"
        PROVE  requests[v].id \in Txs /\ b[requests[v].id] = born[requests[v].id]
    <3>1. requests[v].id \in Txs /\ Known(requests[v].id)
      BY <1>6, <2>1, <2>4, PendingTypes DEF RequestOfItsOrg
    <3> QED  BY <1>0, <1>2, <3>1
  <2>5. ASSUME requests[v].kind = "insert"
        PROVE  /\ \A t \in Given(requests[v].rows) : ~Known(t)'
               /\ \A u \in Workers \ {v} : Writing(u, "insert")' =>
                      Given(requests'[u].rows) \cap Given(requests[v].rows) = {}
    <3>1. \A t \in Given(requests[v].rows) : t \in Txs /\ ~Known(t) /\ t \notin ids
      BY <2>1, <2>3, <2>5 DEF RequestOfItsOrg, Given
    <3>2. \A u \in Workers \ {v} : Writing(u, "insert")' =>
              Writing(u, "insert") /\ requests'[u] = requests[u]
      BY <2>2 DEF Writing
    <3>3. \A u \in Workers \ {v} : Writing(u, "insert") =>
              Given(requests[u].rows) \cap Given(requests[v].rows) = {}
      BY <2>1, <2>5 DEF RequestOfItsOrg
    <3>4. \A t \in Given(requests[v].rows) : ~Known(t)'
      BY <1>3, <3>1
    <3> QED  BY <3>2, <3>3, <3>4
  <2>6. ASSUME requests[v].kind = "save" PROVE Known(requests[v].id)'
    BY <1>3, <2>1, <2>4, <2>6 DEF RequestOfItsOrg
  <2> QED  BY <2>1, <2>4, <2>5, <2>6, RequestStays
<1> QED  BY <1>5, <1>6 DEF PlaceInv

\* The other writes change no organization, group or number, and purges forget
\* rows but not ids.
LEMMA WriteKeepsPlaces ==
    ASSUME LedgerInv, NEW born, PlaceInv(born), NEW w \in Workers, Write(w),
           ~InsertRows(w)
    PROVE  PlaceInv(born)'
<1>0. Born(born)
  BY DEF PlaceInv
<1>1. CASE SaveRow(w)
  <2> DEFINE r == requests[w].row
             id == requests[w].id
  <2>1. /\ id \in Txs /\ r \in Row /\ requests[w].kind = "save" /\ requests[w] # None
        /\ Known(id) /\ SamePlace(r, born[id])
    BY <1>1, PendingTypes DEF SaveRow, Writing, PlaceInv, RequestOfItsOrg
  <2>2. /\ txState' = [txState EXCEPT ![id] = "live"]
        /\ row' = [row EXCEPT ![id] = r] /\ Done(w)
    BY <1>1 DEF SaveRow
  <2> HIDE DEF r, id
  <2>3. \A t \in Txs : Known(t)' <=> Known(t)
    BY <2>1, <2>2 DEF Known, LedgerInv, TypeOK
  <2>4. \A t \in Txs : row'[t] # None => SamePlace(row'[t], born[t])
    BY <1>0, <2>1, <2>2 DEF LedgerInv, TypeOK, Born
  <2> QED  BY <2>2, <2>3, <2>4, DoneKeepsPlaces
<1>2. CASE SettleRows(w) \/ UnsettleRows(w)
  <2>1. Done(w) /\ \A t \in Txs : Known(t)' <=> Known(t)
    BY <1>2 DEF SettleRows, UnsettleRows, Known
  <2>2. ASSUME NEW t \in Txs, row'[t] # None
        PROVE  SamePlace(row'[t], born[t])
    <3>1. CASE t \notin Selected(w)
      BY <1>0, <1>2, <2>2, <3>1 DEF SettleRows, UnsettleRows, Born
    <3>2. CASE t \in Selected(w)
      <4>1. row[t] # None /\ row[t] \in Row /\ SamePlace(row[t], born[t])
        BY <1>0, <3>2 DEF Selected, LiveTx, LedgerInv, TypeOK, Born
      <4>2. CASE SettleRows(w)
        <5>1. row'[t] = [row[t] EXCEPT !.paid = TRUE, !.dated = TRUE,
                                       !.account = IF requests[w].account = None
                                                   THEN @ ELSE requests[w].account]
          BY <3>2, <4>2 DEF SettleRows
        <5> QED  BY <4>1, <5>1 DEF SamePlace, Row
      <4>3. CASE UnsettleRows(w)
        <5>1. row'[t] = [row[t] EXCEPT !.paid = FALSE, !.dated = FALSE]
          BY <3>2, <4>3 DEF UnsettleRows
        <5> QED  BY <4>1, <5>1 DEF SamePlace, Row
      <4> QED  BY <1>2, <4>2, <4>3
    <3> QED  BY <3>1, <3>2
  <2> QED  BY <2>1, <2>2, DoneKeepsPlaces
<1>3. CASE DeleteRows(w) \/ DeleteInstallmentGroup(w)
  <2>1. /\ Done(w) /\ row' = row
        /\ \A t \in Txs : Known(t)' <=> Known(t)
    BY <1>3 DEF DeleteRows, DeleteInstallmentGroup, Known, Selected, LiveTx
  <2> QED  BY <1>0, <2>1, DoneKeepsPlaces DEF Born
<1>4. CASE InsertAccount(w) \/ SaveAccount(w) \/ SoftDeleteAccount(w) \/ Fail(w)
  <2>1. Done(w) /\ row' = row /\ \A t \in Txs : Known(t)' <=> Known(t)
    BY <1>4 DEF InsertAccount, SaveAccount, SoftDeleteAccount, Fail, Known
  <2> QED  BY <1>0, <2>1, DoneKeepsPlaces DEF Born
<1> QED  BY <1>1, <1>2, <1>3, <1>4 DEF Write

LEMMA PurgeKeepsPlaces ==
    ASSUME LedgerInv, NEW born, PlaceInv(born),
           \/ \E old \in SUBSET Txs : PurgeTransactions(old)
           \/ \E old \in SUBSET Accounts : PurgeAccounts(old)
    PROVE  PlaceInv(born)'
<1>1. /\ requests' = requests
      /\ \A t \in Txs : Known(t)' <=> Known(t)
      /\ \A t \in Txs : row'[t] \in {row[t], None}
  BY DEF PurgeTransactions, PurgeAccounts, Known
<1>2. Born(born)'
  <2>1. {t \in Txs : Known(t)}' = {t \in Txs : Known(t)}
    BY <1>1
  <2> QED  BY <1>1, <2>1 DEF PlaceInv, Born, SamePlace, WholeGroups
<1>3. ASSUME NEW v \in Workers, requests'[v] # None
      PROVE  RequestOfItsOrg(born, v)'
  <2>1. requests'[v] = requests[v] /\ RequestOfItsOrg(born, v)
    BY <1>1, <1>3 DEF PlaceInv
  <2>2. ASSUME requests[v].kind = "insert"
        PROVE  \A u \in Workers \ {v} : Writing(u, "insert")' =>
                   Given(requests'[u].rows) \cap Given(requests[v].rows) = {}
    BY <1>1, <2>1, <2>2 DEF RequestOfItsOrg, Writing
  <2>3. ASSUME requests[v].kind = "save" PROVE requests[v].id \in Txs
    BY <1>3, <2>1, <2>3, PendingTypes
  <2> QED  BY <1>1, <2>1, <2>2, <2>3, RequestStays DEF RequestOfItsOrg, Given
<1> QED  BY <1>2, <1>3 DEF PlaceInv

-----------------------------------------------------------------------------
(* The requests, again: what each is about to write is in its place. *)

\* The ids of two inserts under way are disjoint, being fresh when drawn.
LEMMA FreshIsUndrawn ==
    ASSUME NEW t \in Fresh
    PROVE  /\ t \in Txs /\ ~Known(t)
           /\ \A v \in Workers : Writing(v, "insert") => t \notin Given(requests[v].rows)
<1>1. t \in Txs /\ txState[t] = "absent" /\ t \notin Drawn
  BY DEF Fresh
<1>2. ASSUME NEW v \in Workers, Writing(v, "insert") PROVE t \notin Given(requests[v].rows)
  BY <1>1, <1>2 DEF Drawn
<1> QED  BY <1>1, <1>2 DEF Known

LEMMA InsertRequestKeepsPlaces ==
    ASSUME LedgerInv, NEW born, PlaceInv(born), NEW w \in Workers, NEW kind, NEW o,
           NEW rows, Given(rows) \subseteq Fresh, WholeGroups(Given(rows), rows),
           \A t \in Given(rows) : rows[t].org = o,
           Begin(w, kind, [kind |-> "insert", org |-> o, rows |-> rows])
    PROVE  PlaceInv(born)'
<1> DEFINE request == [kind |-> "insert", org |-> o, rows |-> rows]
<1>1. /\ Idle(w) /\ requests' = [requests EXCEPT ![w] = request]
      /\ UNCHANGED txState
  BY DEF Begin
<1>2. requests'[w] = request
  BY <1>1 DEF LedgerInv, TypeOK
<1>3. ASSUME NEW v \in Workers \ {w}, Writing(v, "insert")'
      PROVE  Given(requests'[v].rows) \cap Given(rows) = {}
  <2>1. requests'[v] = requests[v] /\ Writing(v, "insert")
    BY <1>1, <1>3 DEF LedgerInv, TypeOK, Writing
  <2> QED  BY <2>1, FreshIsUndrawn
<1>4. \A t \in Given(rows) : ~Known(t)'
  BY <1>1, FreshIsUndrawn DEF Known
<1>5. RequestOfItsOrg(born, w)'
  <2>1. requests'[w].kind = "insert" /\ requests'[w].rows = rows /\ requests'[w].org = o
    BY <1>2
  <2>2. WholeGroups(Given(requests[w].rows), requests[w].rows)'
    BY <2>1 DEF WholeGroups, Given
  <2>3. Given(requests[w].rows)' = Given(rows)
    BY <2>1 DEF Given
  <2> HIDE DEF request
  <2> QED  BY <1>3, <1>4, <2>1, <2>2, <2>3 DEF RequestOfItsOrg
<1> QED  BY <1>5, BeginKeepsPlaces

LEMMA TemplateIsAlone ==
    ASSUME NEW o, NEW f
    PROVE  Template(o, f).org = o /\ Template(o, f).group = None
  BY DEF Template, BuildEntity

LEMMA CreateKeepsPlaces ==
    ASSUME LedgerInv, NEW born, PlaceInv(born), NEW w \in Workers, NEW o \in Orgs,
           NEW f \in Forms, Create(w, o, f)
    PROVE  PlaceInv(born)'
<1>1. PICK t \in Fresh :
        Begin(w, "insert", [kind |-> "insert", org |-> o,
              rows |-> [x \in Txs |-> IF x = t THEN Template(o, f) ELSE None]])
  BY DEF Create
<1> DEFINE rows == [x \in Txs |-> IF x = t THEN Template(o, f) ELSE None]
<1>2. \A x \in Given(rows) : x = t /\ rows[x] = Template(o, f)
  BY DEF Given
<1> HIDE DEF rows
<1>3. Given(rows) \subseteq Fresh /\ \A x \in Given(rows) : rows[x].org = o
  BY <1>2, TemplateIsAlone
<1>4. WholeGroups(Given(rows), rows)
  BY <1>2, TemplateIsAlone DEF WholeGroups
<1> QED  BY <1>1, <1>3, <1>4, InsertRequestKeepsPlaces DEF rows

\* The parcels of a purchase are numbered through.
LEMMA CreateInstallmentGroupKeepsPlaces ==
    ASSUME LedgerInv, NEW born, PlaceInv(born), NEW w \in Workers, NEW o \in Orgs,
           NEW f \in Forms, NEW n \in Counts, CreateInstallmentGroup(w, o, f, n)
    PROVE  PlaceInv(born)'
<1>1. f \in Form /\ n \in Nat \ {0} /\ n > 1
  BY InputAssumption DEF CreateInstallmentGroup
<1> DEFINE tmpl == Template(o, f)
           rows(ids, clamped) ==
             [t \in Txs |->
                IF \E i \in 1..n : ids[i] = t
                THEN LET i == CHOOSE k \in 1..n : ids[k] = t
                     IN  Parcel(tmpl, ids[1], n, i, ParcelCycle(tmpl, i, clamped))
                ELSE None]
<1>2. PICK ids \in [1..n -> Fresh],
           clamped \in SUBSET (IF f.card = None THEN {} ELSE 2..n) :
        /\ \A i, j \in 1..n : ids[i] = ids[j] => i = j
        /\ Begin(w, "insert", [kind |-> "insert", org |-> o,
                               rows |-> rows(ids, clamped)])
  BY DEF CreateInstallmentGroup
<1>3. PICK r : r = rows(ids, clamped)
  OBVIOUS
<1>4. /\ tmpl \in Row /\ WellFormed(tmpl) /\ tmpl.org = o
      /\ tmpl.amount >= n /\ tmpl.card = f.card
  <2>1. tmpl.amount = f.amount /\ tmpl.card = f.card
    BY <1>1 DEF Template, BuildEntity
  <2> QED  BY <1>1, <2>1, TemplateIsRow, TemplateIsAlone DEF CreateInstallmentGroup
<1>5. ids \in [1..n -> Txs] /\ \A i \in 1..n : ids[i] \in Fresh /\ ids[i] \in Txs
  BY <1>2 DEF Fresh
<1> HIDE DEF tmpl
<1>6. ASSUME NEW i \in 1..n
      PROVE  /\ r[ids[i]].org = o /\ r[ids[i]].group = ids[1]
             /\ r[ids[i]].number = i /\ r[ids[i]].total = n /\ r[ids[i]] # None
  <2>1. (CHOOSE k \in 1..n : ids[k] = ids[i]) = i
    BY <1>2
  <2>2. r[ids[i]] = Parcel(tmpl, ids[1], n, i, ParcelCycle(tmpl, i, clamped))
    BY <1>3, <1>5, <2>1
  <2>3. ParcelCycle(tmpl, i, clamped) \in Nat /\ ids[1] \in Txs
    BY <1>1, <1>2, <1>4, <1>5, ParcelCycleIsNat
  <2>4. r[ids[i]] # None
    BY <1>1, <1>4, <2>2, <2>3, ParcelIsRow, NoneIsNoRow
  <2> QED  BY <1>4, <2>2, <2>4 DEF Parcel, Row
<1>7. \A t \in Given(r) : \E i \in 1..n : t = ids[i]
  BY <1>3 DEF Given
<1>8. \A i \in 1..n : ids[i] \in Given(r)
  BY <1>5, <1>6 DEF Given
<1>9. WholeGroups(Given(r), r)
  <2> SUFFICES ASSUME NEW t \in Given(r)
               PROVE  /\ r[t].group \in Given(r)
                      /\ r[t].number \in 1..r[t].total
                      /\ \A p \in Given(r) \ {t} : r[p].number # r[t].number
                      /\ \A k \in 1..r[t].total :
                             \E p \in Given(r) : r[p].group = r[t].group /\ r[p].number = k
    BY DEF WholeGroups
  <2>1. 1 \in 1..n
    BY <1>1
  <2> QED  BY <1>6, <1>7, <1>8, <2>1
<1>10. Given(r) \subseteq Fresh /\ \A t \in Given(r) : r[t].org = o
  BY <1>5, <1>6, <1>7
<1> HIDE DEF rows
<1> QED  BY <1>2, <1>3, <1>9, <1>10, InsertRequestKeepsPlaces

\* A request that draws no ids.
LEMMA OtherRequestKeepsPlaces ==
    ASSUME LedgerInv, NEW born, PlaceInv(born), NEW w \in Workers, NEW kind, NEW request,
           Begin(w, kind, request), request.kind # "insert",
           request.kind = "save" =>
               /\ request.id \in Txs /\ Known(request.id)
               /\ SamePlace(request.row, born[request.id])
               /\ request.row.org = request.org,
           request.kind \in {"openAccount", "saveAccount"} =>
               Owner[request.id] = request.org
    PROVE  PlaceInv(born)'
<1>1. requests'[w] = request /\ UNCHANGED txState
  BY DEF Begin, LedgerInv, TypeOK
<1>2. RequestOfItsOrg(born, w)'
  BY <1>1 DEF RequestOfItsOrg, Known, SamePlace
<1> QED  BY <1>2, BeginKeepsPlaces

LEMMA SaveRequestKeepsPlaces ==
    ASSUME LedgerInv, NEW born, PlaceInv(born), NEW w \in Workers, NEW o \in Orgs,
           NEW t \in Txs, LiveTx(o, t), NEW kind, NEW r, SamePlace(r, row[t]),
           Begin(w, kind, [kind |-> "save", org |-> o, id |-> t, row |-> r])
    PROVE  PlaceInv(born)'
<1>1. Known(t) /\ row[t] # None /\ row[t].org = o
  BY DEF LiveTx, Known, LedgerInv, TypeOK
<1>2. SamePlace(r, born[t]) /\ r.org = o
  BY <1>1 DEF PlaceInv, Born, SamePlace
<1> QED  BY <1>1, <1>2, OtherRequestKeepsPlaces

LEMMA TransactionRequestKeepsPlaces ==
    ASSUME LedgerInv, NEW born, PlaceInv(born), NEW w \in Workers, NEW o \in Orgs,
           TransactionRequest(w, o)
    PROVE  PlaceInv(born)'
<1>1. ASSUME NEW f \in Forms, Create(w, o, f) PROVE PlaceInv(born)'
  BY <1>1, CreateKeepsPlaces
<1>2. ASSUME NEW f \in Forms, NEW n \in Counts, CreateInstallmentGroup(w, o, f, n)
      PROVE  PlaceInv(born)'
  BY <1>2, CreateInstallmentGroupKeepsPlaces
<1>3. ASSUME NEW t \in Txs, NEW f \in Forms, Update(w, o, t, f) PROVE PlaceInv(born)'
  <2>1. LiveTx(o, t) /\ row[t] \in Row /\ row[t].org = o
    BY <1>3, LiveTxIsRow DEF Update
  <2>2. SamePlace(BuildEntity(o, row[t], f), row[t])
    BY <2>1 DEF BuildEntity, SamePlace, Row
  <2> QED  BY <1>3, <2>1, <2>2, SaveRequestKeepsPlaces DEF Update
<1>4. ASSUME NEW t \in Txs, NEW target \in Accounts \cup {None}, Settle(w, o, t, target)
      PROVE  PlaceInv(born)'
  <2> DEFINE r == [row[t] EXCEPT !.paid = TRUE, !.dated = TRUE,
                                 !.account = IF target = None THEN @ ELSE target]
  <2>1. LiveTx(o, t) /\ row[t] \in Row
    BY <1>4, LiveTxIsRow DEF Settle
  <2>2. SamePlace(r, row[t])
    BY <2>1 DEF SamePlace, Row
  <2>3. Begin(w, "settle", [kind |-> "save", org |-> o, id |-> t, row |-> r])
    BY <1>4 DEF Settle
  <2> HIDE DEF r
  <2> QED  BY <2>1, <2>2, <2>3, SaveRequestKeepsPlaces
<1>5. ASSUME NEW t \in Txs, Unsettle(w, o, t) PROVE PlaceInv(born)'
  <2> DEFINE r == [row[t] EXCEPT !.paid = FALSE, !.dated = FALSE]
  <2>1. LiveTx(o, t) /\ row[t] \in Row
    BY <1>5, LiveTxIsRow DEF Unsettle
  <2>2. SamePlace(r, row[t])
    BY <2>1 DEF SamePlace, Row
  <2>3. Begin(w, "settle", [kind |-> "save", org |-> o, id |-> t, row |-> r])
    BY <1>5 DEF Unsettle
  <2> HIDE DEF r
  <2> QED  BY <2>1, <2>2, <2>3, SaveRequestKeepsPlaces
<1>6. ASSUME NEW ids, NEW target, BulkSettle(w, o, ids, target) PROVE PlaceInv(born)'
  BY <1>6, OtherRequestKeepsPlaces DEF BulkSettle
<1>7. ASSUME NEW ids, BulkUnsettle(w, o, ids) PROVE PlaceInv(born)'
  BY <1>7, OtherRequestKeepsPlaces DEF BulkUnsettle
<1>8. ASSUME NEW c, NEW cycle, NEW target, PayInvoice(w, o, c, cycle, target)
      PROVE  PlaceInv(born)'
  BY <1>8, OtherRequestKeepsPlaces DEF PayInvoice
<1>9. ASSUME NEW c, NEW cycle, UnpayInvoice(w, o, c, cycle) PROVE PlaceInv(born)'
  BY <1>9, OtherRequestKeepsPlaces DEF UnpayInvoice
<1>10. ASSUME NEW ids, Delete(w, o, ids) PROVE PlaceInv(born)'
  BY <1>10, OtherRequestKeepsPlaces DEF Delete
<1>11. ASSUME NEW t, DeleteScoped(w, o, t) PROVE PlaceInv(born)'
  BY <1>11, OtherRequestKeepsPlaces DEF DeleteScoped
<1> QED
  BY <1>1, <1>2, <1>3, <1>4, <1>5, <1>6, <1>7, <1>8, <1>9, <1>10, <1>11
  DEF TransactionRequest

LEMMA AccountRequestKeepsPlaces ==
    ASSUME LedgerInv, NEW born, PlaceInv(born), NEW w \in Workers, NEW o \in Orgs,
           AccountRequest(w, o)
    PROVE  PlaceInv(born)'
<1>1. ASSUME NEW a, NEW cents, OpenAccount(w, o, a, cents) PROVE PlaceInv(born)'
  BY <1>1, OtherRequestKeepsPlaces DEF OpenAccount
<1>2. ASSUME NEW a, NEW cents, EditAccount(w, o, a, cents) PROVE PlaceInv(born)'
  BY <1>2, OtherRequestKeepsPlaces DEF EditAccount, LiveAccount
<1>3. ASSUME NEW a, DeleteAccount(w, o, a) PROVE PlaceInv(born)'
  BY <1>3, OtherRequestKeepsPlaces DEF DeleteAccount
<1> QED  BY <1>1, <1>2, <1>3 DEF AccountRequest

LEMMA NextKeepsPlaces ==
    LedgerInv /\ PlacesKept /\ [Next]_vars => PlacesKept'
<1> SUFFICES ASSUME LedgerInv, NEW born, PlaceInv(born), [Next]_vars
             PROVE  \E b : PlaceInv(b)'
  BY DEF PlacesKept
<1>1. ASSUME NEW w \in Workers, NEW o \in Orgs, TransactionRequest(w, o)
      PROVE  PlaceInv(born)'
  BY <1>1, TransactionRequestKeepsPlaces
<1>2. ASSUME NEW w \in Workers, NEW o \in Orgs, AccountRequest(w, o)
      PROVE  PlaceInv(born)'
  BY <1>2, AccountRequestKeepsPlaces
<1>3. ASSUME NEW w \in Workers, InsertRows(w) PROVE \E b : PlaceInv(b)'
  BY <1>3, InsertRowsKeepsPlaces
<1>4. ASSUME NEW w \in Workers, Write(w), ~InsertRows(w) PROVE PlaceInv(born)'
  BY <1>4, WriteKeepsPlaces
<1>5. CASE \/ \E old \in SUBSET Txs : PurgeTransactions(old)
           \/ \E old \in SUBSET Accounts : PurgeAccounts(old)
  BY <1>5, PurgeKeepsPlaces
<1>6. CASE UNCHANGED vars
  <2>1. Born(born)'
    BY <1>6 DEF vars, PlaceInv, Born, Known, SamePlace, WholeGroups
  <2>2. requests' = requests /\ txState' = txState
    BY <1>6 DEF vars
  <2>3. ASSUME NEW v \in Workers, requests'[v] # None PROVE RequestOfItsOrg(born, v)'
    <3>1. RequestOfItsOrg(born, v)
      BY <2>2, <2>3 DEF PlaceInv
    <3> QED  BY <2>2, <3>1, RequestStays DEF RequestOfItsOrg, Writing, Known
  <2> QED  BY <2>1, <2>3 DEF PlaceInv
<1> QED  BY <1>1, <1>2, <1>3, <1>4, <1>5, <1>6 DEF Next

THEOREM PlacesAreKept == Spec => []PlacesKept
<1>1. Init => PlacesKept
  BY InitPlaces DEF PlacesKept
<1> QED  BY <1>1, NextKeepsPlaces, LedgerInvariant, PTL DEF Spec

-----------------------------------------------------------------------------
LEMMA WriteIsIsolated ==
    ASSUME LedgerInv, NEW born, PlaceInv(born), [Next]_vars,
           NEW w \in Workers, requests[w] # None, requests'[w] = None
    PROVE  /\ \A t \in Txs : txState'[t] # txState[t] \/ row'[t] # row[t] =>
                  /\ row'[t].org = requests[w].org
                  /\ row[t] # None => row[t].org = requests[w].org
           /\ \A a \in Accounts :
                  acctState'[a] # acctState[a] \/ initial'[a] # initial[a] =>
                  Owner[a] = requests[w].org
<1>0. RequestOfItsOrg(born, w) /\ Born(born)
  BY DEF PlaceInv
<1>1. Write(w)
  <2>1. ASSUME NEW v \in Workers, NEW o \in Orgs,
               TransactionRequest(v, o) \/ AccountRequest(v, o)
        PROVE  FALSE
    <3>1. Idle(v) /\ \E r : requests' = [requests EXCEPT ![v] = r]
      BY <2>1 DEF TransactionRequest, AccountRequest, Begin, Create,
         CreateInstallmentGroup, Update, Settle, Unsettle, BulkSettle, BulkUnsettle,
         PayInvoice, UnpayInvoice, Delete, DeleteScoped, OpenAccount, EditAccount,
         DeleteAccount
    <3> QED  BY <3>1 DEF Idle, LedgerInv, TypeOK
  <2>2. ASSUME NEW v \in Workers, Write(v) PROVE v = w
    <3>1. Done(v)
      BY <2>2 DEF Write, InsertRows, SaveRow, SettleRows, UnsettleRows, DeleteRows,
         DeleteInstallmentGroup, InsertAccount, SaveAccount, SoftDeleteAccount, Fail
    <3> QED  BY <3>1 DEF Done, LedgerInv, TypeOK
  <2> QED  BY <2>1, <2>2 DEF Next, vars, PurgeTransactions, PurgeAccounts
<1>2. CASE InsertRows(w)
  <2> DEFINE rows == requests[w].rows
  <2>1. \A t \in Given(rows) : rows[t].org = requests[w].org /\ ~Known(t)
    BY <1>0, <1>2 DEF InsertRows, Writing, RequestOfItsOrg
  <2>2. /\ row' = [t \in Txs |-> IF t \in Given(rows) THEN rows[t] ELSE row[t]]
        /\ txState' = [t \in Txs |-> IF t \in Given(rows) THEN "live" ELSE txState[t]]
        /\ UNCHANGED <<acctState, initial>>
    BY <1>2 DEF InsertRows
  <2> HIDE DEF rows
  <2>3. \A t \in Given(rows) : row[t] = None
    BY <2>1 DEF Known, LedgerInv, TypeOK, Given
  <2> QED  BY <2>1, <2>2, <2>3 DEF LedgerInv, TypeOK
<1>3. CASE SaveRow(w)
  <2> DEFINE id == requests[w].id
             r == requests[w].row
  <2>1. id \in Txs /\ SamePlace(r, born[id]) /\ r.org = requests[w].org
    BY <1>0, <1>3, PendingTypes DEF SaveRow, Writing, RequestOfItsOrg
  <2>2. /\ txState' = [txState EXCEPT ![id] = "live"] /\ row' = [row EXCEPT ![id] = r]
        /\ UNCHANGED <<acctState, initial>>
    BY <1>3 DEF SaveRow
  <2> HIDE DEF id, r
  <2>3. row[id] # None => row[id].org = requests[w].org
    BY <1>0, <2>1 DEF Born, SamePlace
  <2> QED  BY <2>1, <2>2, <2>3 DEF LedgerInv, TypeOK
<1>4. CASE SettleRows(w) \/ UnsettleRows(w)
  <2>1. UNCHANGED <<acctState, initial, txState>>
    BY <1>4 DEF SettleRows, UnsettleRows
  <2>2. ASSUME NEW t \in Txs, row'[t] # row[t]
        PROVE  row[t].org = requests[w].org /\ row'[t].org = requests[w].org
    <3>1. t \in Selected(w) /\ row[t] \in Row /\ row[t].org = requests[w].org
      BY <1>4, <2>2 DEF SettleRows, UnsettleRows, Selected, LiveTx, LedgerInv, TypeOK
    <3>2. CASE SettleRows(w)
      <4>1. row'[t] = [row[t] EXCEPT !.paid = TRUE, !.dated = TRUE,
                                     !.account = IF requests[w].account = None
                                                 THEN @ ELSE requests[w].account]
        BY <3>1, <3>2 DEF SettleRows
      <4> QED  BY <3>1, <4>1 DEF Row
    <3>3. CASE UnsettleRows(w)
      <4>1. row'[t] = [row[t] EXCEPT !.paid = FALSE, !.dated = FALSE]
        BY <3>1, <3>3 DEF UnsettleRows
      <4> QED  BY <3>1, <4>1 DEF Row
    <3> QED  BY <1>4, <3>2, <3>3
  <2> QED  BY <2>1, <2>2
<1>5. CASE DeleteRows(w) \/ DeleteInstallmentGroup(w)
  <2>1. UNCHANGED <<acctState, initial, row>>
    BY <1>5 DEF DeleteRows, DeleteInstallmentGroup
  <2>2. ASSUME NEW t \in Txs, txState'[t] # txState[t]
        PROVE  row[t].org = requests[w].org
    BY <1>5, <2>2 DEF DeleteRows, DeleteInstallmentGroup, Selected, LiveTx
  <2> QED  BY <2>1, <2>2
<1>6. CASE InsertAccount(w) \/ SaveAccount(w) \/ SoftDeleteAccount(w) \/ Fail(w)
  <2>1. UNCHANGED <<txState, row>>
    BY <1>6 DEF InsertAccount, SaveAccount, SoftDeleteAccount, Fail
  <2>2. CASE Fail(w)
    BY <2>2 DEF Fail
  <2>3. CASE ~Fail(w)
    <3>1. /\ requests[w].id \in Accounts /\ Owner[requests[w].id] = requests[w].org
      BY <1>0, <1>6, <2>3, PendingTypes DEF InsertAccount, SaveAccount, Writing,
         SoftDeleteAccount, LiveAccount, RequestOfItsOrg
    <3>2. \A a \in Accounts \ {requests[w].id} :
             acctState'[a] = acctState[a] /\ initial'[a] = initial[a]
      BY <1>6, <2>3 DEF InsertAccount, SaveAccount, SoftDeleteAccount, LedgerInv, TypeOK
    <3> QED  BY <2>1, <3>1, <3>2
  <2> QED  BY <2>1, <2>2, <2>3
<1> QED  BY <1>1, <1>2, <1>3, <1>4, <1>5, <1>6 DEF Write

\* No request changes a row or an account of another organization, whatever ids
\* its client sent and however stale the row that it writes back.
THEOREM TenantsAreIsolated == Spec => TenantIsolation
<1> DEFINE Isolated ==
      \A w \in Workers :
         (~Idle(w) /\ requests'[w] = None) =>
             /\ \A t \in Txs : txState'[t] # txState[t] \/ row'[t] # row[t] =>
                    /\ row'[t].org = requests[w].org
                    /\ row[t] # None => row[t].org = requests[w].org
             /\ \A a \in Accounts :
                    acctState'[a] # acctState[a] \/ initial'[a] # initial[a] =>
                    Owner[a] = requests[w].org
<1>1. LedgerInv /\ PlacesKept /\ [Next]_vars => [Isolated]_vars
  BY WriteIsIsolated DEF PlacesKept, Idle
<1> QED  BY <1>1, PlacesAreKept, LedgerInvariant, PTL DEF Spec, TenantIsolation

-----------------------------------------------------------------------------
\* As many rows as numbers, when each number from 1 to n is some row's.
LEMMA AtLeastAsMany ==
    ASSUME NEW S, IsFiniteSet(S), NEW n \in Nat, NEW num,
           \A k \in 1..n : \E p \in S : num[p] = k
    PROVE  Cardinality(S) >= n
<1> DEFINE f == [k \in 1..n |-> CHOOSE p \in S : num[p] = k]
<1>1. f \in Injection(1..n, S)
  <2>1. ASSUME NEW k \in 1..n PROVE f[k] \in S /\ num[f[k]] = k
    BY <2>1
  <2>2. f \in [1..n -> S]
    BY <2>1
  <2> HIDE DEF f
  <2> QED  BY <2>1, <2>2 DEF Injection, IsInjective
<1>2. Cardinality(1..n) = n
  BY FS_Interval
<1>3. Cardinality(1..n) <= Cardinality(S)
  BY <1>1, FS_Injection
<1> QED  BY <1>2, <1>3, FS_CardinalityType

\* An instalment purchase is never left incomplete: what is missing of a group
\* was purged, whatever was settled, edited, deleted or written back.
THEOREM PurchasesStayWhole == Spec => []GroupIsWhole
<1>1. ASSUME LedgerInv, NEW born, Born(born)
      PROVE  GroupIsWhole
  <2> SUFFICES ASSUME NEW g \in Txs, NEW t \in Parcels(g)
               PROVE  /\ \A p \in Parcels(g) \ {t} : row[p].number # row[t].number
                      /\ row[t].number \in 1..row[t].total
                      /\ Cardinality(Parcels(g)) + Cardinality(Purged) >= row[t].total
    BY DEF GroupIsWhole
  <2>1. g # None
    BY NoneAssumption
  <2>2. ASSUME NEW p \in Parcels(g)
        PROVE  /\ p \in Txs /\ Known(p) /\ row[p] # None /\ SamePlace(row[p], born[p])
               /\ row[p].group = g /\ born[p].group = g /\ born[p].number = row[p].number
    BY <1>1, <2>2 DEF Parcels, StoredTxs, Born, SamePlace, LedgerInv, TypeOK, Known
  <2>3. /\ born[t].number \in 1..born[t].total
        /\ \A p \in Txs : Known(p) /\ p # t /\ born[p].group = g =>
               born[p].number # born[t].number
        /\ \A k \in 1..born[t].total :
               \E p \in Txs : Known(p) /\ born[p].group = g /\ born[p].number = k
    BY <1>1, <2>1, <2>2 DEF Born, WholeGroups
  <2>4. \A p \in Parcels(g) \ {t} : row[p].number # row[t].number
    BY <2>2, <2>3
  <2>5. row[t].total = born[t].total /\ row[t].total \in Nat
    BY <1>1, <2>2 DEF SamePlace, LedgerInv, TypeOK, Row
  <2> DEFINE num == [p \in Txs |-> born[p].number]
             S == Parcels(g) \cup Purged
  <2>6. ASSUME NEW k \in 1..born[t].total PROVE \E p \in S : num[p] = k
    <3>1. PICK p \in Txs : Known(p) /\ born[p].group = g /\ born[p].number = k
      BY <2>3
    <3>2. CASE row[p] # None
      <4>1. p \in Parcels(g)
        BY <1>1, <3>1, <3>2 DEF Parcels, StoredTxs, Born, SamePlace
      <4> QED  BY <3>1, <4>1
    <3>3. CASE row[p] = None
      <4>1. p \in Purged
        BY <1>1, <3>1, <3>3 DEF Purged, Known, LedgerInv, TypeOK, States
      <4> QED  BY <3>1, <4>1
    <3> QED  BY <3>2, <3>3
  <2>7. IsFiniteSet(Parcels(g)) /\ IsFiniteSet(Purged)
    BY FiniteAssumption, FS_Subset DEF Parcels, StoredTxs, Purged
  <2>8. /\ IsFiniteSet(S)
        /\ Cardinality(S) = Cardinality(Parcels(g)) + Cardinality(Purged)
                            - Cardinality(Parcels(g) \cap Purged)
    BY <2>7, FS_Union
  <2> HIDE DEF S, num
  <2>9. Cardinality(S) >= born[t].total
    BY <2>5, <2>6, <2>8, AtLeastAsMany
  <2>10. /\ Cardinality(Parcels(g)) \in Nat /\ Cardinality(Purged) \in Nat
         /\ Cardinality(Parcels(g) \cap Purged) \in Nat
    BY <2>7, FS_CardinalityType, FS_Intersection
  <2>11. Cardinality(Parcels(g)) + Cardinality(Purged) >= row[t].total
    BY <2>5, <2>8, <2>9, <2>10
  <2> QED  BY <2>2, <2>3, <2>4, <2>5, <2>11
<1>2. LedgerInv /\ PlacesKept => GroupIsWhole
  BY <1>1 DEF PlacesKept, PlaceInv
<1> QED  BY <1>2, PlacesAreKept, LedgerInvariant, PTL

-----------------------------------------------------------------------------
(***************************************************************************)
(* One request at a time: what a handler checked still holds when it       *)
(* writes.  With a second request in between it may not, and both facts    *)
(* below fail.                                                             *)
(***************************************************************************)
OneAtATime == \A v, w \in Workers : v = w

OnLiveAccounts(r) ==
    acctState[r.account] = "live" /\ (r.dest # None => acctState[r.dest] = "live")

StillChecked(w) ==
    /\ requests[w].kind = "insert" =>
           \A t \in Given(requests[w].rows) :
               ~Known(t) /\ OnLiveAccounts(requests[w].rows[t])
    /\ requests[w].kind = "save" =>
           txState[requests[w].id] = "live" /\ OnLiveAccounts(requests[w].row)
    /\ requests[w].kind = "settle" /\ requests[w].account # None =>
           acctState[requests[w].account] = "live"
    /\ requests[w].kind = "openAccount" => acctState[requests[w].id] = "absent"
    /\ requests[w].kind = "saveAccount" => acctState[requests[w].id] = "live"
    /\ requests[w].kind = "deleteAccount" /\ Owner[requests[w].id] = requests[w].org =>
           \A t \in Txs : txState[t] = "live" =>
               requests[w].id \notin {row[t].account, row[t].dest}

SerialInv == NoOrphans /\ \A w \in Workers : requests[w] # None => StillChecked(w)

\* A handler's checks are about the state it read.
LEMMA BeginKeepsSerial ==
    ASSUME LedgerInv, SerialInv, OneAtATime, NEW w \in Workers, NEW kind, NEW request,
           Begin(w, kind, request), StillChecked(w)'
    PROVE  SerialInv'
<1>1. NoOrphans'
  BY DEF SerialInv, NoOrphans, Begin
<1> QED  BY <1>1 DEF SerialInv, OneAtATime

LEMMA InsertRequestIsChecked ==
    ASSUME LedgerInv, SerialInv, OneAtATime, NEW w \in Workers, NEW kind, NEW o, NEW rows,
           \A t \in Given(rows) : ~Known(t) /\ OnLiveAccounts(rows[t]),
           Begin(w, kind, [kind |-> "insert", org |-> o, rows |-> rows])
    PROVE  SerialInv'
<1>1. /\ requests'[w] = [kind |-> "insert", org |-> o, rows |-> rows]
      /\ UNCHANGED <<acctState, txState>>
  BY DEF Begin, LedgerInv, TypeOK
<1>2. Given(requests[w].rows)' = Given(rows)
  BY <1>1 DEF Given
<1>3. StillChecked(w)'
  BY <1>1, <1>2 DEF StillChecked, Known, OnLiveAccounts
<1> QED  BY <1>3, BeginKeepsSerial

LEMMA OtherRequestIsChecked ==
    ASSUME LedgerInv, SerialInv, OneAtATime, NEW w \in Workers, NEW kind, NEW request,
           Begin(w, kind, request), request.kind # "insert",
           request.kind = "save" =>
               txState[request.id] = "live" /\ OnLiveAccounts(request.row),
           request.kind = "settle" /\ request.account # None =>
               acctState[request.account] = "live",
           request.kind = "openAccount" => acctState[request.id] = "absent",
           request.kind = "saveAccount" => acctState[request.id] = "live",
           request.kind = "deleteAccount" /\ Owner[request.id] = request.org =>
               \A t \in Txs : txState[t] = "live" =>
                   request.id \notin {row[t].account, row[t].dest}
    PROVE  SerialInv'
<1>1. requests'[w] = request /\ UNCHANGED <<acctState, txState, row>>
  BY DEF Begin, LedgerInv, TypeOK
<1>2. StillChecked(w)'
  BY <1>1 DEF StillChecked, OnLiveAccounts
<1> QED  BY <1>2, BeginKeepsSerial

LEMMA TemplateOnLiveAccounts ==
    ASSUME NEW o, NEW f \in Form, NEW old \in Row, Accepts(o, f)
    PROVE  /\ OnLiveAccounts(Template(o, f))
           /\ OnLiveAccounts(BuildEntity(o, old, f))
<1>1. /\ BuildEntity(o, old, f).account = f.account
      /\ BuildEntity(o, old, f).dest = IF f.type = "transfer" THEN f.dest ELSE None
  BY DEF BuildEntity, Row
<1>2. /\ Template(o, f).account = f.account
      /\ Template(o, f).dest = IF f.type = "transfer" THEN f.dest ELSE None
  BY DEF Template, BuildEntity
<1> QED  BY <1>1, <1>2 DEF OnLiveAccounts, Accepts, LiveAccount

LEMMA CreateIsChecked ==
    ASSUME LedgerInv, SerialInv, OneAtATime, NEW w \in Workers, NEW o \in Orgs,
           NEW f \in Forms, Create(w, o, f)
    PROVE  SerialInv'
<1>1. PICK t \in Fresh :
        Begin(w, "insert", [kind |-> "insert", org |-> o,
              rows |-> [x \in Txs |-> IF x = t THEN Template(o, f) ELSE None]])
  BY DEF Create
<1> DEFINE rows == [x \in Txs |-> IF x = t THEN Template(o, f) ELSE None]
<1>2. \A x \in Given(rows) : x = t /\ rows[x] = Template(o, f)
  BY DEF Given
<1>3. ~Known(t)
  BY FreshIsUndrawn
<1>4. OnLiveAccounts(Template(o, f))
  <2>1. f \in Form /\ Accepts(o, f)
    BY InputAssumption DEF Create
  <2> QED  BY <2>1, TemplateIsRow, TemplateOnLiveAccounts
<1> HIDE DEF rows
<1> QED  BY <1>1, <1>2, <1>3, <1>4, InsertRequestIsChecked DEF rows

LEMMA CreateInstallmentGroupIsChecked ==
    ASSUME LedgerInv, SerialInv, OneAtATime, NEW w \in Workers, NEW o \in Orgs,
           NEW f \in Forms, NEW n \in Counts, CreateInstallmentGroup(w, o, f, n)
    PROVE  SerialInv'
<1> DEFINE tmpl == Template(o, f)
           rows(ids, clamped) ==
             [t \in Txs |->
                IF \E i \in 1..n : ids[i] = t
                THEN LET i == CHOOSE k \in 1..n : ids[k] = t
                     IN  Parcel(tmpl, ids[1], n, i, ParcelCycle(tmpl, i, clamped))
                ELSE None]
<1>1. PICK ids \in [1..n -> Fresh],
           clamped \in SUBSET (IF f.card = None THEN {} ELSE 2..n) :
        Begin(w, "insert", [kind |-> "insert", org |-> o, rows |-> rows(ids, clamped)])
  BY DEF CreateInstallmentGroup
<1>2. tmpl \in Row /\ OnLiveAccounts(tmpl)
  <2>1. f \in Form /\ Accepts(o, f)
    BY InputAssumption DEF CreateInstallmentGroup
  <2> QED  BY <2>1, TemplateIsRow, TemplateOnLiveAccounts
<1> HIDE DEF tmpl
<1>3. ASSUME NEW t \in Given(rows(ids, clamped))
      PROVE  ~Known(t) /\ OnLiveAccounts(rows(ids, clamped)[t])
  <2>1. t \in Txs /\ \E i \in 1..n : ids[i] = t
    BY <1>3 DEF Given
  <2>2. ~Known(t)
    BY <2>1, <1>1, FreshIsUndrawn
  <2>3. \E i, c : rows(ids, clamped)[t] = Parcel(tmpl, ids[1], n, i, c)
    BY <2>1
  <2>4. \A i, c : OnLiveAccounts(Parcel(tmpl, ids[1], n, i, c))
    BY <1>2 DEF Parcel, OnLiveAccounts, Row
  <2> QED  BY <2>2, <2>3, <2>4
<1> HIDE DEF rows
<1> QED  BY <1>1, <1>3, InsertRequestIsChecked

LEMMA RequestIsChecked ==
    ASSUME LedgerInv, SerialInv, OneAtATime, NEW w \in Workers, NEW o \in Orgs,
           TransactionRequest(w, o) \/ AccountRequest(w, o)
    PROVE  SerialInv'
\* A live row's accounts are live, and are its only ones.
<1>0. ASSUME NEW t \in Txs, LiveTx(o, t)
      PROVE  row[t] \in Row /\ txState[t] = "live" /\ OnLiveAccounts(row[t])
  BY <1>0, LiveTxIsRow DEF LiveTx, SerialInv, NoOrphans, OnLiveAccounts
<1>1. ASSUME NEW f \in Forms, Create(w, o, f) PROVE SerialInv'
  BY <1>1, CreateIsChecked
<1>2. ASSUME NEW f \in Forms, NEW n \in Counts, CreateInstallmentGroup(w, o, f, n)
      PROVE  SerialInv'
  BY <1>2, CreateInstallmentGroupIsChecked
<1>3. ASSUME NEW t \in Txs, NEW f \in Forms, Update(w, o, t, f) PROVE SerialInv'
  <2>1. /\ row[t] \in Row /\ txState[t] = "live"
        /\ OnLiveAccounts(BuildEntity(o, row[t], f))
    BY <1>0, <1>3, TemplateOnLiveAccounts, InputAssumption DEF Update
  <2> QED  BY <1>3, <2>1, OtherRequestIsChecked DEF Update
<1>4. ASSUME NEW t \in Txs, NEW target \in Accounts \cup {None}, Settle(w, o, t, target)
      PROVE  SerialInv'
  <2> DEFINE r == [row[t] EXCEPT !.paid = TRUE, !.dated = TRUE,
                                 !.account = IF target = None THEN @ ELSE target]
  <2>1. /\ row[t] \in Row /\ txState[t] = "live" /\ OnLiveAccounts(row[t])
        /\ target # None => acctState[target] = "live"
    BY <1>0, <1>4 DEF Settle, LiveAccount
  <2>2. OnLiveAccounts(r)
    BY <2>1 DEF OnLiveAccounts, Row
  <2>3. Begin(w, "settle", [kind |-> "save", org |-> o, id |-> t, row |-> r])
    BY <1>4 DEF Settle
  <2> HIDE DEF r
  <2> QED  BY <2>1, <2>2, <2>3, OtherRequestIsChecked
<1>5. ASSUME NEW t \in Txs, Unsettle(w, o, t) PROVE SerialInv'
  <2> DEFINE r == [row[t] EXCEPT !.paid = FALSE, !.dated = FALSE]
  <2>1. row[t] \in Row /\ txState[t] = "live" /\ OnLiveAccounts(row[t])
    BY <1>0, <1>5 DEF Unsettle
  <2>2. OnLiveAccounts(r)
    BY <2>1 DEF OnLiveAccounts, Row
  <2>3. Begin(w, "settle", [kind |-> "save", org |-> o, id |-> t, row |-> r])
    BY <1>5 DEF Unsettle
  <2> HIDE DEF r
  <2> QED  BY <2>1, <2>2, <2>3, OtherRequestIsChecked
<1>6. ASSUME NEW ids, NEW target, BulkSettle(w, o, ids, target) PROVE SerialInv'
  BY <1>6, OtherRequestIsChecked DEF BulkSettle, LiveAccount
<1>7. ASSUME NEW ids, BulkUnsettle(w, o, ids) \/ Delete(w, o, ids) PROVE SerialInv'
  BY <1>7, OtherRequestIsChecked DEF BulkUnsettle, Delete
<1>8. ASSUME NEW c, NEW cycle, NEW target, PayInvoice(w, o, c, cycle, target)
      PROVE  SerialInv'
  BY <1>8, OtherRequestIsChecked DEF PayInvoice, LiveAccount
<1>9. ASSUME NEW c, NEW cycle, UnpayInvoice(w, o, c, cycle) PROVE SerialInv'
  BY <1>9, OtherRequestIsChecked DEF UnpayInvoice
<1>10. ASSUME NEW t, DeleteScoped(w, o, t) PROVE SerialInv'
  BY <1>10, OtherRequestIsChecked DEF DeleteScoped
<1>11. ASSUME NEW a, NEW cents, OpenAccount(w, o, a, cents) \/ EditAccount(w, o, a, cents)
       PROVE  SerialInv'
  BY <1>11, OtherRequestIsChecked DEF OpenAccount, EditAccount, LiveAccount
<1>12. ASSUME NEW a \in Accounts, DeleteAccount(w, o, a) PROVE SerialInv'
  <2> DEFINE named == {t \in Txs : LiveTx(o, t) /\ a \in {row[t].account, row[t].dest}}
  <2>1. named = {}
    <3>1. IsFiniteSet(named)
      BY FiniteAssumption, FS_Subset
    <3> QED  BY <1>12, <3>1, FS_EmptySet DEF DeleteAccount, CountByAccount
  <2>2. ASSUME Owner[a] = o, NEW t \in Txs, txState[t] = "live"
        PROVE  a \notin {row[t].account, row[t].dest}
    <3>1. row[t] # None /\ row[t] \in Row /\ WellFormed(row[t])
      BY <2>2 DEF LedgerInv, TypeOK, StoredWellFormed
    <3>2. CASE LiveTx(o, t)
      BY <2>1, <3>2
    <3>3. CASE ~LiveTx(o, t)
      BY <1>12, <2>2, <3>1, <3>3, NoneAssumption, OwnerAssumption
      DEF LiveTx, WellFormed, Row, LedgerInv, TypeOK
    <3> QED  BY <3>2, <3>3
  <2> HIDE DEF named
  <2> QED  BY <1>12, <2>2, OtherRequestIsChecked DEF DeleteAccount
<1> QED
  BY <1>1, <1>2, <1>3, <1>4, <1>5, <1>6, <1>7, <1>8, <1>9, <1>10, <1>11, <1>12
  DEF TransactionRequest, AccountRequest

\* The only request ends with its write, so that NoOrphans is all there is to
\* keep; and the write is a step of the promise.
LEMMA DoneEndsAll ==
    ASSUME LedgerInv, OneAtATime, NEW w \in Workers, Done(w), NoOrphans'
    PROVE  SerialInv'
  BY DEF SerialInv, OneAtATime, Done, LedgerInv, TypeOK

Kept == SerialInv' /\ [Promise!Next]_(Promise!promise)

\* What the promise's book holds is the live rows, and no live row is None.
LEMMA BookOfLive ==
    ASSUME LedgerInv, NEW t \in Txs
    PROVE  /\ txState[t] = "live" => row[t] # None /\ row[t] \in Row
           /\ (IF txState[t] = "live" THEN row[t] ELSE None) # None <=> txState[t] = "live"
  BY DEF LedgerInv, TypeOK

LEMMA NamesOnLiveAccounts ==
    ASSUME NEW r \in Row, OnLiveAccounts(r)
    PROVE  Promise!Names(r) \subseteq {a \in Accounts : acctState[a] = "live"}
  BY DEF OnLiveAccounts, Row, Promise!Names

LEMMA InsertRowsKept ==
    ASSUME LedgerInv, SerialInv, OneAtATime, NEW w \in Workers, InsertRows(w)
    PROVE  Kept
<1> DEFINE rows == requests[w].rows
           ids == Given(rows)
<1>1. /\ rows \in [Txs -> Row \cup {None}] /\ requests[w].kind = "insert"
      /\ requests[w] # None
  BY PendingTypes DEF InsertRows, Writing
<1>2. \A t \in ids : /\ t \in Txs /\ rows[t] # None /\ rows[t] \in Row
                     /\ txState[t] = "absent" /\ OnLiveAccounts(rows[t])
  BY <1>1 DEF SerialInv, StillChecked, Given, Known
<1>3. /\ txState' = [t \in Txs |-> IF t \in ids THEN "live" ELSE txState[t]]
      /\ row' = [t \in Txs |-> IF t \in ids THEN rows[t] ELSE row[t]]
      /\ Done(w) /\ UNCHANGED <<acctState, initial>>
  BY DEF InsertRows
<1> HIDE DEF rows, ids
<1>4. NoOrphans'
  BY <1>2, <1>3 DEF SerialInv, NoOrphans, OnLiveAccounts
<1> DEFINE B == [t \in Txs |-> IF txState[t] = "live" THEN row[t] ELSE None]
           E == {t \in Txs : txState[t] \in Gone}
           O == {a \in Accounts : acctState[a] = "live"}
           C == {a \in Accounts : acctState[a] \in Gone}
<1>5. O' = O /\ C' = C
  BY <1>3
<1>6. E' = E
  BY <1>2, <1>3 DEF Gone
<1>7. \A t \in ids : B[t] = None /\ t \notin E /\ B'[t] = rows[t] /\ rows[t] # None
  BY <1>2, <1>3 DEF Gone
<1>8. \A t \in ids : Promise!Names(rows[t]) \subseteq O
  BY <1>2, NamesOnLiveAccounts
<1>9. \A t \in Txs \ ids : B'[t] = B[t]
  BY <1>3
<1>10. ids \in SUBSET Txs
  BY <1>2
<1>11. Promise!Record
  <2> HIDE DEF O, C, E, B
  <2>1. \E s \in SUBSET Txs :
           /\ \A t \in s : B[t] = None /\ t \notin E /\ B'[t] # None
           /\ \A t \in s : Promise!Names(B'[t]) \subseteq O
           /\ \A t \in Txs \ s : B'[t] = B[t]
    BY <1>7, <1>8, <1>9, <1>10
  <2> QED  BY <1>5, <1>6, <2>1 DEF Promise!Record, B, O, E, C
<1> QED  BY <1>3, <1>4, <1>11, DoneEndsAll DEF Kept, Promise!Next

\* Changes of live rows that leave them live, on live accounts.
LEMMA AmendKept ==
    ASSUME LedgerInv, LedgerInv', SerialInv, OneAtATime, NEW w \in Workers, Done(w),
           UNCHANGED <<acctState, txState>>, NEW ids \in SUBSET Txs,
           \A t \in ids : txState[t] = "live" /\ OnLiveAccounts(row'[t]),
           \A t \in Txs \ ids : row'[t] = row[t]
    PROVE  Kept
<1> DEFINE B == [t \in Txs |-> IF txState[t] = "live" THEN row[t] ELSE None]
           E == {t \in Txs : txState[t] \in Gone}
           O == {a \in Accounts : acctState[a] = "live"}
           C == {a \in Accounts : acctState[a] \in Gone}
<1>1. O' = O /\ C' = C /\ E' = E
  OBVIOUS
<1>2. NoOrphans'
  BY DEF SerialInv, NoOrphans, OnLiveAccounts
<1>3. \A t \in ids : B[t] # None /\ B'[t] = row'[t] /\ row'[t] # None /\ row'[t] \in Row
  BY DEF LedgerInv, TypeOK
<1>4. \A t \in ids : Promise!Names(row'[t]) \subseteq O
  BY <1>3, NamesOnLiveAccounts
<1>5. \A t \in Txs \ ids : B'[t] = B[t]
  OBVIOUS
<1>6. Promise!Amend
  <2> HIDE DEF O, C, E, B
  <2>1. \E s \in SUBSET {t \in Txs : B[t] # None} :
           /\ \A t \in s : B'[t] # None /\ Promise!Names(B'[t]) \subseteq O
           /\ \A t \in Txs \ s : B'[t] = B[t]
    BY <1>3, <1>4, <1>5
  <2> QED  BY <1>1, <2>1 DEF Promise!Amend, B, O, E, C
<1> QED  BY <1>2, <1>6, DoneEndsAll DEF Kept, Promise!Next

LEMMA SaveRowKept ==
    ASSUME LedgerInv, LedgerInv', SerialInv, OneAtATime, NEW w \in Workers, SaveRow(w)
    PROVE  Kept
<1> DEFINE r == requests[w].row
           id == requests[w].id
<1>1. id \in Txs /\ txState[id] = "live" /\ OnLiveAccounts(r)
  BY PendingTypes DEF SaveRow, Writing, SerialInv, StillChecked
<1>2. /\ txState' = [txState EXCEPT ![id] = "live"] /\ row' = [row EXCEPT ![id] = r]
      /\ Done(w) /\ UNCHANGED <<acctState, initial>>
  BY DEF SaveRow
<1> HIDE DEF r, id
<1>3. txState' = txState /\ row'[id] = r /\ \A t \in Txs \ {id} : row'[t] = row[t]
  BY <1>1, <1>2 DEF LedgerInv, TypeOK
<1>4. /\ {id} \in SUBSET Txs
      /\ \A t \in {id} : txState[t] = "live" /\ OnLiveAccounts(row'[t])
  BY <1>1, <1>3
<1> QED  BY <1>2, <1>3, <1>4, AmendKept

LEMMA SettleRowsKept ==
    ASSUME LedgerInv, LedgerInv', SerialInv, OneAtATime, NEW w \in Workers,
           SettleRows(w) \/ UnsettleRows(w)
    PROVE  Kept
<1>1. /\ Done(w) /\ UNCHANGED <<acctState, txState>>
      /\ \A t \in Txs \ Selected(w) : row'[t] = row[t]
  BY DEF SettleRows, UnsettleRows
<1>2. ASSUME NEW t \in Selected(w)
      PROVE  txState[t] = "live" /\ OnLiveAccounts(row'[t])
  <2>1. /\ t \in Txs /\ txState[t] = "live" /\ row[t] \in Row /\ OnLiveAccounts(row[t])
    BY <1>2 DEF Selected, LiveTx, LedgerInv, TypeOK, SerialInv, NoOrphans, OnLiveAccounts
  <2>2. CASE SettleRows(w)
    <3> DEFINE account == requests[w].account
    <3>1. account # None => acctState[account] = "live"
      BY <2>2 DEF SettleRows, Writing, SerialInv, StillChecked
    <3>2. row'[t] = [row[t] EXCEPT !.paid = TRUE, !.dated = TRUE,
                                   !.account = IF account = None THEN @ ELSE account]
      BY <1>2, <2>1, <2>2 DEF SettleRows
    <3> HIDE DEF account
    <3> QED  BY <2>1, <3>1, <3>2 DEF OnLiveAccounts, Row
  <2>3. CASE UnsettleRows(w)
    <3>1. row'[t] = [row[t] EXCEPT !.paid = FALSE, !.dated = FALSE]
      BY <1>2, <2>1, <2>3 DEF UnsettleRows
    <3> QED  BY <2>1, <3>1 DEF OnLiveAccounts, Row
  <2> QED  BY <2>1, <2>2, <2>3
<1>3. Selected(w) \in SUBSET Txs
  BY DEF Selected
<1> QED  BY <1>1, <1>2, <1>3, AmendKept

LEMMA DeleteKept ==
    ASSUME LedgerInv, SerialInv, OneAtATime, NEW w \in Workers,
           DeleteRows(w) \/ DeleteInstallmentGroup(w)
    PROVE  Kept
<1>1. PICK ids \in SUBSET Txs :
        /\ \A t \in ids : txState[t] = "live"
        /\ txState' = [t \in Txs |-> IF t \in ids THEN "deleted" ELSE txState[t]]
  <2>1. CASE DeleteRows(w)
    <3>1. Selected(w) \in SUBSET Txs /\ \A t \in Selected(w) : txState[t] = "live"
      BY DEF Selected, LiveTx
    <3> QED  BY <2>1, <3>1 DEF DeleteRows
  <2>2. CASE DeleteInstallmentGroup(w)
    <3> DEFINE s == {t \in Txs : LiveTx(requests[w].org, t)
                                 /\ row[t].group = requests[w].group}
    <3>1. \A t \in s : txState[t] = "live"
      BY DEF LiveTx
    <3>2. txState' = [t \in Txs |-> IF t \in s THEN "deleted" ELSE txState[t]]
      BY <2>2 DEF DeleteInstallmentGroup
    <3> QED  BY <3>1, <3>2
  <2> QED  BY <2>1, <2>2
<1>2. Done(w) /\ UNCHANGED <<acctState, initial, row>>
  BY DEF DeleteRows, DeleteInstallmentGroup
<1> DEFINE B == [t \in Txs |-> IF txState[t] = "live" THEN row[t] ELSE None]
           E == {t \in Txs : txState[t] \in Gone}
           O == {a \in Accounts : acctState[a] = "live"}
           C == {a \in Accounts : acctState[a] \in Gone}
<1>3. O' = O /\ C' = C
  BY <1>2
<1>4. NoOrphans'
  BY <1>1, <1>2 DEF SerialInv, NoOrphans
<1>5. E' = E \cup ids
  BY <1>1 DEF Gone
<1>6. B' = [t \in Txs |-> IF t \in ids THEN None ELSE B[t]]
  BY <1>1, <1>2
<1>7. ids \in SUBSET {t \in Txs : B[t] # None}
  BY <1>1 DEF LedgerInv, TypeOK
<1>8. Promise!Erase
  <2> HIDE DEF O, C, E, B
  <2>1. \E s \in SUBSET {t \in Txs : B[t] # None} :
           /\ B' = [t \in Txs |-> IF t \in s THEN None ELSE B[t]]
           /\ E' = E \cup s
    BY <1>5, <1>6, <1>7
  <2> QED  BY <1>3, <2>1 DEF Promise!Erase, B, O, E, C
<1> QED  BY <1>2, <1>4, <1>8, DoneEndsAll DEF Kept, Promise!Next

LEMMA AccountWriteKept ==
    ASSUME LedgerInv, SerialInv, OneAtATime, NEW w \in Workers,
           InsertAccount(w) \/ SaveAccount(w) \/ SoftDeleteAccount(w) \/ Fail(w)
    PROVE  Kept
<1> DEFINE B == [t \in Txs |-> IF txState[t] = "live" THEN row[t] ELSE None]
           E == {t \in Txs : txState[t] \in Gone}
           O == {a \in Accounts : acctState[a] = "live"}
           C == {a \in Accounts : acctState[a] \in Gone}
           id == requests[w].id
<1>1. /\ Done(w) /\ UNCHANGED <<txState, row>>
      /\ B' = B /\ E' = E
  BY DEF InsertAccount, SaveAccount, SoftDeleteAccount, Fail
<1>2. CASE InsertAccount(w)
  <2>1. /\ id \in Accounts /\ acctState[id] = "absent"
        /\ acctState' = [acctState EXCEPT ![id] = "live"]
    BY <1>2, PendingTypes DEF InsertAccount, Writing, SerialInv, StillChecked
  <2> HIDE DEF id
  <2>2. NoOrphans'
    BY <1>1, <2>1 DEF SerialInv, NoOrphans, LedgerInv, TypeOK
  <2>3. id \in Accounts \ (O \cup C) /\ O' = O \cup {id} /\ C' = C
    BY <2>1 DEF LedgerInv, TypeOK, Gone
  <2>4. Promise!OpenAccount
    BY <1>1, <2>3 DEF Promise!OpenAccount
  <2> QED  BY <1>1, <2>2, <2>4, DoneEndsAll DEF Kept, Promise!Next
<1>3. CASE SaveAccount(w)
  <2>1. /\ id \in Accounts /\ acctState[id] = "live"
        /\ acctState' = [acctState EXCEPT ![id] = "live"]
    BY <1>3, PendingTypes DEF SaveAccount, Writing, SerialInv, StillChecked
  <2>2. acctState' = acctState
    BY <2>1 DEF LedgerInv, TypeOK
  <2>3. NoOrphans'
    BY <1>1, <2>2 DEF SerialInv, NoOrphans
  <2> QED  BY <1>1, <2>2, <2>3, DoneEndsAll DEF Kept, Promise!promise
<1>4. CASE SoftDeleteAccount(w)
  <2>1. /\ id \in Accounts /\ acctState[id] = "live"
        /\ acctState' = [acctState EXCEPT ![id] = "deleted"]
        /\ \A t \in Txs : txState[t] = "live" => id \notin {row[t].account, row[t].dest}
    BY <1>4, PendingTypes DEF SoftDeleteAccount, LiveAccount, Writing, SerialInv,
                              StillChecked
  <2> HIDE DEF id
  <2>2. NoOrphans'
    BY <1>1, <2>1 DEF SerialInv, NoOrphans, LedgerInv, TypeOK
  <2>3. id \in O /\ O' = O \ {id} /\ C' = C \cup {id}
    BY <2>1 DEF LedgerInv, TypeOK, Gone
  <2>4. ASSUME NEW t \in Txs, B[t] # None PROVE id \notin Promise!Names(B[t])
    BY <2>1, <2>4 DEF Promise!Names
  <2>5. Promise!CloseAccount
    BY <1>1, <2>3, <2>4 DEF Promise!CloseAccount
  <2> QED  BY <1>1, <2>2, <2>5, DoneEndsAll DEF Kept, Promise!Next
<1>5. CASE Fail(w)
  <2>1. acctState' = acctState
    BY <1>5 DEF Fail
  <2>2. NoOrphans'
    BY <1>1, <2>1 DEF SerialInv, NoOrphans
  <2> QED  BY <1>1, <2>1, <2>2, DoneEndsAll DEF Kept, Promise!promise
<1> QED  BY <1>2, <1>3, <1>4, <1>5

\* Nobody sees the retention purge.
LEMMA PurgeKept ==
    ASSUME LedgerInv, SerialInv, OneAtATime,
           \/ \E old \in SUBSET Txs : PurgeTransactions(old)
           \/ \E old \in SUBSET Accounts : PurgeAccounts(old)
    PROVE  Kept
<1>1. /\ requests' = requests
      /\ \A t \in Txs : \/ txState'[t] = txState[t] /\ row'[t] = row[t]
                        \/ txState[t] = "deleted" /\ txState'[t] = "purged"
      /\ \A a \in Accounts : \/ acctState'[a] = acctState[a]
                             \/ acctState[a] = "deleted" /\ acctState'[a] = "purged"
  BY DEF PurgeTransactions, PurgeAccounts
<1>2. NoOrphans'
  <2> SUFFICES ASSUME NEW t \in Txs, txState'[t] = "live"
               PROVE  /\ acctState'[row'[t].account] = "live"
                      /\ row'[t].dest # None => acctState'[row'[t].dest] = "live"
    BY DEF NoOrphans
  <2>1. row'[t] = row[t] /\ row[t] \in Row /\ OnLiveAccounts(row[t])
    BY <1>1, BookOfLive DEF SerialInv, NoOrphans, OnLiveAccounts
  <2> QED  BY <1>1, <2>1 DEF OnLiveAccounts, Row
<1>3. ASSUME NEW w \in Workers, requests'[w] # None PROVE StillChecked(w)'
  <2>1. requests'[w] = requests[w] /\ StillChecked(w) /\ requests[w] # None
    BY <1>1, <1>3 DEF SerialInv
  <2>2. /\ requests[w].kind = "insert" =>
               \A t \in Txs : requests[w].rows[t] \in Row \cup {None}
        /\ requests[w].kind = "save" => requests[w].id \in Txs /\ requests[w].row \in Row
        /\ requests[w].kind = "settle" => requests[w].account \in Accounts \cup {None}
        /\ requests[w].kind \in {"openAccount", "saveAccount"} => requests[w].id \in Accounts
    BY <2>1, PendingTypes
  <2>3. ASSUME NEW r \in Row, OnLiveAccounts(r) PROVE OnLiveAccounts(r)'
    BY <1>1, <2>3 DEF OnLiveAccounts, Row
  <2>4. ASSUME requests[w].kind = "insert", NEW t \in Given(requests[w].rows)
        PROVE  ~Known(t)' /\ OnLiveAccounts(requests[w].rows[t])'
    <3>1. t \in Txs /\ requests[w].rows[t] \in Row /\ ~Known(t)
          /\ OnLiveAccounts(requests[w].rows[t])
      BY <2>1, <2>2, <2>4 DEF Given, StillChecked
    <3>2. ~Known(t)'
      BY <1>1, <3>1 DEF Known
    <3>3. PICK r \in Row : r = requests[w].rows[t]
      BY <3>1
    <3>4. OnLiveAccounts(r)'
      BY <2>3, <3>1, <3>3
    <3> QED  BY <2>1, <3>2, <3>3, <3>4 DEF OnLiveAccounts
  <2>5. ASSUME requests[w].kind = "save"
        PROVE  (txState[requests[w].id] = "live" /\ OnLiveAccounts(requests[w].row))'
    <3>1. PICK r \in Row : r = requests[w].row
      BY <2>2, <2>5
    <3>2. OnLiveAccounts(r)'
      BY <2>1, <2>3, <2>5, <3>1 DEF StillChecked
    <3>3. txState'[requests[w].id] = "live"
      BY <1>1, <2>1, <2>2, <2>5 DEF StillChecked
    <3> QED  BY <2>1, <3>1, <3>2, <3>3 DEF OnLiveAccounts
  <2>6. (/\ requests[w].kind = "settle" /\ requests[w].account # None =>
                acctState[requests[w].account] = "live"
         /\ requests[w].kind = "openAccount" => acctState[requests[w].id] = "absent"
         /\ requests[w].kind = "saveAccount" => acctState[requests[w].id] = "live")'
    BY <1>1, <2>1, <2>2 DEF StillChecked
  <2>7. ASSUME requests[w].kind = "deleteAccount",
               Owner[requests[w].id] = requests[w].org, NEW t \in Txs, txState'[t] = "live"
        PROVE  requests[w].id \notin {row'[t].account, row'[t].dest}
    BY <1>1, <2>1, <2>7 DEF StillChecked
  <2>8. Given(requests[w].rows)' = Given(requests[w].rows)
    BY <2>1 DEF Given
  <2> QED  BY <2>1, <2>4, <2>5, <2>6, <2>7, <2>8 DEF StillChecked
<1>4. UNCHANGED Promise!promise
  BY <1>1 DEF Promise!promise, Gone
<1> QED  BY <1>2, <1>3, <1>4 DEF Kept, SerialInv

LEMMA BeginStutters ==
    ASSUME NEW w \in Workers, NEW o \in Orgs,
           TransactionRequest(w, o) \/ AccountRequest(w, o)
    PROVE  UNCHANGED Promise!promise
<1>1. UNCHANGED <<acctState, txState, row>>
  BY DEF TransactionRequest, AccountRequest, Begin, Create,
     CreateInstallmentGroup, Update, Settle, Unsettle, BulkSettle, BulkUnsettle,
     PayInvoice, UnpayInvoice, Delete, DeleteScoped, OpenAccount, EditAccount,
     DeleteAccount
<1> QED  BY <1>1 DEF Promise!promise

LEMMA NextIsKept ==
    OneAtATime /\ LedgerInv /\ LedgerInv' /\ SerialInv /\ [Next]_vars => Kept
<1> SUFFICES ASSUME OneAtATime, LedgerInv, LedgerInv', SerialInv, [Next]_vars PROVE Kept
  OBVIOUS
<1>1. ASSUME NEW w \in Workers, NEW o \in Orgs,
             TransactionRequest(w, o) \/ AccountRequest(w, o)
      PROVE  Kept
  BY <1>1, RequestIsChecked, BeginStutters DEF Kept
<1>2. ASSUME NEW w \in Workers, Write(w) PROVE Kept
  BY <1>2, InsertRowsKept, SaveRowKept, SettleRowsKept, DeleteKept, AccountWriteKept
  DEF Write
<1>3. CASE \/ \E old \in SUBSET Txs : PurgeTransactions(old)
           \/ \E old \in SUBSET Accounts : PurgeAccounts(old)
  BY <1>3, PurgeKept
<1>4. CASE UNCHANGED vars
  <2>1. UNCHANGED Promise!promise
    BY <1>4 DEF vars, Promise!promise
  <2>2. \A w \in Workers : StillChecked(w)' = StillChecked(w)
    BY <1>4 DEF vars, StillChecked, OnLiveAccounts, Known, Given
  <2>3. NoOrphans' = NoOrphans
    BY <1>4 DEF vars, NoOrphans
  <2> QED  BY <1>4, <2>1, <2>2, <2>3 DEF Kept, SerialInv, vars
<1> QED  BY <1>1, <1>2, <1>3, <1>4 DEF Next

LEMMA InitIsSerial == Init => SerialInv /\ Promise!Init
<1> SUFFICES ASSUME Init PROVE SerialInv /\ Promise!Init
  OBVIOUS
<1>1. SerialInv
  BY DEF Init, SerialInv, NoOrphans
<1>2. Promise!Init
  BY DEF Init, Promise!Init, Gone
<1> QED  BY <1>1, <1>2

\* Requests that do not overlap leave no entry on a deleted account.
THEOREM NoEntryIsOrphaned == ASSUME OneAtATime PROVE Spec => []NoOrphans
<1>1. LedgerInv /\ LedgerInv' /\ SerialInv /\ [Next]_vars => SerialInv'
  BY NextIsKept DEF Kept
<1>2. SerialInv => NoOrphans
  BY DEF SerialInv
<1> QED  BY <1>1, <1>2, InitIsSerial, LedgerInvariant, PTL DEF Spec

\* Requests that do not overlap implement the promise: reading, checking and
\* writing in separate statements, soft deletion, GORM's upserts and the purge
\* are then invisible.
THEOREM HandlersKeepThePromise == ASSUME OneAtATime PROVE Spec => KeepsPromise
<1>1. LedgerInv /\ LedgerInv' /\ SerialInv /\ [Next]_vars
        => SerialInv' /\ [Promise!Next]_(Promise!promise)
  BY NextIsKept DEF Kept
<1> QED
  BY <1>1, InitIsSerial, LedgerInvariant, PTL DEF Spec, KeepsPromise, Promise!Spec

-----------------------------------------------------------------------------
(***************************************************************************)
(* Money.  The balances are sums over the settled rows, by account; adding *)
(* them up over the accounts sums each row once under its own account and  *)
(* each transfer once more under its destination, where it cancels.        *)
(***************************************************************************)
LEMMA SettledRowTypes ==
    ASSUME LedgerInv, NEW o \in Orgs
    PROVE  /\ IsFiniteSet(Accounts) /\ IsFiniteSet(PaidTxs(o))
           /\ PaidTxs(o) \subseteq StoredTxs /\ Listed(o) \subseteq Accounts
           /\ \A a \in Accounts : initial[a] \in Int
           /\ \A t \in PaidTxs(o) :
                  /\ t \in Txs /\ row[t].type \in Types /\ row[t].account \in Accounts
                  /\ row[t].type = "transfer" => row[t].dest \in Accounts
                  /\ row[t].amount \in Int
<1>1. IsFiniteSet(Accounts) /\ IsFiniteSet(PaidTxs(o))
  BY FiniteAssumption, FS_Subset DEF PaidTxs
<1>2. PaidTxs(o) \subseteq StoredTxs /\ Listed(o) \subseteq Accounts
  BY DEF PaidTxs, LiveTx, StoredTxs, Listed, LedgerInv, TypeOK
<1>3. \A a \in Accounts : initial[a] \in Int
  BY DEF LedgerInv, TypeOK
<1>4. ASSUME NEW t \in PaidTxs(o)
      PROVE  /\ t \in Txs /\ row[t].type \in Types /\ row[t].account \in Accounts
             /\ row[t].type = "transfer" => row[t].dest \in Accounts
             /\ row[t].amount \in Int
  <2>1. t \in Txs /\ row[t] # None /\ row[t] \in Row
    BY <1>2 DEF StoredTxs, LedgerInv, TypeOK
  <2>2. row[t].type = "transfer" => row[t].dest # None
    BY <2>1 DEF LedgerInv, StoredWellFormed, WellFormed
  <2> QED  BY <2>1, <2>2 DEF Row
<1> QED  BY <1>1, <1>2, <1>3, <1>4

LEMMA SumOfSettled ==
    ASSUME LedgerInv, NEW o \in Orgs, NEW S \in SUBSET PaidTxs(o)
    PROVE  SumOf(S) \in Int
<1>1. IsFiniteSet(S) /\ \A t \in S : [t_1 \in StoredTxs |-> row[t_1].amount][t] \in Int
  BY SettledRowTypes, FS_Subset
<1> QED  BY <1>1, SumIsInt DEF SumOf

\* Booked on the account each of them names, rows add up to themselves.
LEMMA SumOverAccounts ==
    ASSUME LedgerInv, NEW o \in Orgs, NEW S \in SUBSET PaidTxs(o),
           NEW key, \A t \in S : key[t] \in Accounts,
           NEW part, \A a \in Accounts : \A t : t \in part[a] <=> t \in S /\ key[t] = a,
           NEW g, \A a \in Accounts : g[a] = SumOf(part[a])
    PROVE  SumFunctionOnSet(g, Accounts) = SumOf(S)
<1> DEFINE f == [t \in StoredTxs |-> row[t].amount]
<1>1. IsFiniteSet(S) /\ IsFiniteSet(Accounts) /\ \A t \in S : f[t] \in Int
  BY SettledRowTypes, FS_Subset
<1>2. \A a \in Accounts : g[a] = SumFunctionOnSet(f, part[a])
  BY DEF SumOf
<1> HIDE DEF f
<1>3. SumFunctionOnSet(g, Accounts) = SumFunctionOnSet(f, S)
  BY <1>1, <1>2, SumByKey
<1> QED  BY <1>3 DEF SumOf, f

\* Over all accounts, the rows booked on them bring what was earned minus what
\* was spent, minus the settled transfers.
LEMMA BookedAddUp ==
    ASSUME LedgerInv, NEW o \in Orgs
    PROVE  /\ \A a \in Accounts : Booked(o, a) \in Int
           /\ SumFunctionOnSet([a \in Accounts |-> Booked(o, a)], Accounts)
                  = Net(o) - SumOf(PaidTransfers(o))
           /\ Net(o) \in Int /\ SumOf(PaidTransfers(o)) \in Int
<1> DEFINE P == PaidTxs(o)
           Earned == {t \in P : row[t].type = "income"}
           Spent == {t \in P : row[t].type = "expense"}
           Moved == PaidTransfers(o)
           source == [t \in P |-> row[t].account]
           earnedOn == [a \in Accounts |-> {t \in Earned : source[t] = a}]
           leaving == [a \in Accounts |-> {t \in Spent \cup Moved : source[t] = a}]
           in == [a \in Accounts |-> SumOf(earnedOn[a])]
           out == [a \in Accounts |-> SumOf(leaving[a])]
           booked == [a \in Accounts |-> Booked(o, a)]
           Total(g) == SumFunctionOnSet(g, Accounts)
<1>1. IsFiniteSet(Accounts)
  BY SettledRowTypes
<1>2. ASSUME NEW a \in Accounts
      PROVE  /\ in[a] \in Int /\ out[a] \in Int /\ booked[a] \in Int
             /\ in[a] = booked[a] + out[a]
  <2>1. earnedOn[a] \in SUBSET P /\ leaving[a] \in SUBSET P
    BY DEF PaidTransfers
  <2>2. /\ {t \in P : row[t].account = a /\ row[t].type \in {"income"}} = earnedOn[a]
        /\ {t \in P : row[t].account = a /\ row[t].type \in {"expense", "transfer"}} = leaving[a]
    BY DEF PaidTransfers
  <2>3. booked[a] = SumOf(earnedOn[a]) - SumOf(leaving[a])
    BY <2>2 DEF Booked
  <2> HIDE DEF P, earnedOn, leaving, booked
  <2>4. SumOf(earnedOn[a]) \in Int /\ SumOf(leaving[a]) \in Int
    BY <2>1, SumOfSettled DEF P
  <2> QED  BY <2>3, <2>4
<1>3. Total(in) = SumOf(Earned)
  <2>1. Earned \in SUBSET P /\ \A t \in Earned : source[t] \in Accounts
    BY SettledRowTypes
  <2>2. \A a \in Accounts : \A t : t \in earnedOn[a] <=> t \in Earned /\ source[t] = a
    OBVIOUS
  <2>3. \A a \in Accounts : in[a] = SumOf(earnedOn[a])
    OBVIOUS
  <2> HIDE DEF Earned, earnedOn, in, source, P
  <2> QED  BY <2>1, <2>2, <2>3, SumOverAccounts DEF P
<1>4. Total(out) = SumOf(Spent \cup Moved)
  <2> DEFINE Left == Spent \cup Moved
  <2>1. Left \in SUBSET P /\ \A t \in Left : source[t] \in Accounts
    BY SettledRowTypes DEF PaidTransfers
  <2>2. \A a \in Accounts : \A t : t \in leaving[a] <=> t \in Left /\ source[t] = a
    OBVIOUS
  <2>3. \A a \in Accounts : out[a] = SumOf(leaving[a])
    OBVIOUS
  <2> HIDE DEF Left, leaving, out, source, P
  <2>4. Total(out) = SumOf(Left)
    BY <2>1, <2>2, <2>3, SumOverAccounts DEF P
  <2> QED  BY <2>4 DEF Left
<1>5. SumOf(Spent \cup Moved) = SumOf(Spent) + SumOf(Moved)
  <2> DEFINE f == [t \in StoredTxs |-> row[t].amount]
  <2>1. /\ IsFiniteSet(Spent) /\ IsFiniteSet(Moved) /\ Spent \cap Moved = {}
        /\ \A t \in Spent \cup Moved : f[t] \in Int
    BY SettledRowTypes, FS_Subset DEF PaidTransfers
  <2> HIDE DEF Spent, Moved, f
  <2>2. SumFunctionOnSet(f, Spent \cup Moved)
            = SumFunctionOnSet(f, Spent) + SumFunctionOnSet(f, Moved)
    BY <2>1, SumUnion
  <2> QED  BY <2>2 DEF SumOf, f
<1>6. SumOf(Earned) \in Int /\ SumOf(Spent) \in Int /\ SumOf(Moved) \in Int
  <2>1. Earned \in SUBSET P /\ Spent \in SUBSET P /\ Moved \in SUBSET P
    BY DEF PaidTransfers
  <2> HIDE DEF Earned, Spent, Moved
  <2> QED  BY <2>1, SumOfSettled
<1>7. Net(o) = SumOf(Earned) - SumOf(Spent)
  BY DEF Net
<1>8. \A a \in Accounts : booked[a] = Booked(o, a)
  OBVIOUS
<1>9. Total(booked) = Net(o) - SumOf(Moved)
  <2> HIDE DEF in, out, booked, Earned, Spent, Moved
  <2>1. Total(in) = Total(booked) + Total(out)
    BY <1>1, <1>2, SumPlus
  <2>2. Total(booked) \in Int
    BY <1>1, <1>2, SumIsInt
  <2> HIDE DEF Total
  <2> QED  BY <1>3, <1>4, <1>5, <1>6, <1>7, <2>1, <2>2
<1> HIDE DEF in, out, Earned, Spent, Total
<1>10. Net(o) \in Int
  BY <1>6, <1>7
<1>11. \A a \in Accounts : Booked(o, a) \in Int
  <2> HIDE DEF booked
  <2> QED  BY <1>2, <1>8
<1> QED  BY <1>6, <1>9, <1>10, <1>11 DEF Total

\* Over all destinations, the settled transfers arrive.
LEMMA InboundAddUp ==
    ASSUME LedgerInv, NEW o \in Orgs
    PROVE  /\ \A a \in Accounts : Inbound(o, a) \in Int
           /\ SumFunctionOnSet([a \in Accounts |-> Inbound(o, a)], Accounts)
                  = SumOf(PaidTransfers(o))
<1> DEFINE Moved == PaidTransfers(o)
           target == [t \in Moved |-> row[t].dest]
           reaching == [a \in Accounts |-> {t \in Moved : target[t] = a}]
           into == [a \in Accounts |-> Inbound(o, a)]
<1>1. Moved \in SUBSET PaidTxs(o) /\ \A t \in Moved : target[t] \in Accounts
  BY SettledRowTypes DEF PaidTransfers
<1>2. \A a \in Accounts : \A t : t \in reaching[a] <=> t \in Moved /\ target[t] = a
  OBVIOUS
<1>3. \A a \in Accounts : reaching[a] \in SUBSET PaidTxs(o)
  BY <1>1
<1>4. \A a \in Accounts : into[a] = SumOf(reaching[a])
  <2>1. ASSUME NEW a \in Accounts PROVE {t \in Moved : row[t].dest = a} = reaching[a]
    OBVIOUS
  <2> QED  BY <2>1 DEF Inbound
<1>5. \A a \in Accounts : into[a] = Inbound(o, a)
  OBVIOUS
<1> HIDE DEF Moved, target, reaching, into
<1>6. SumFunctionOnSet(into, Accounts) = SumOf(Moved)
  BY <1>1, <1>2, <1>4, SumOverAccounts
<1>7. \A a \in Accounts : into[a] \in Int
  BY <1>3, <1>4, SumOfSettled
<1> QED  BY <1>5, <1>6, <1>7 DEF into, Moved

\* What the two sums need to agree on.
LEMMA MovingGivesTheSum ==
    ASSUME LedgerInv, LedgerInv', NEW o \in Orgs, Moving(o)' = Moving(o)
    PROVE  SumOf(PaidTransfers(o))' = SumOf(PaidTransfers(o))
<1> DEFINE S == PaidTransfers(o)
           f == [t \in StoredTxs |-> row[t].amount]
<1>1. S' = S /\ \A t \in S : row'[t].amount = row[t].amount
  <2>1. DOMAIN Moving(o) = S /\ DOMAIN Moving(o)' = S'
    BY DEF Moving
  <2>2. S' = S
    BY <2>1
  <2>3. ASSUME NEW t \in S PROVE row'[t].amount = row[t].amount
    <3>1. Moving(o)[t] = row[t].amount /\ Moving(o)'[t] = row'[t].amount
      BY <2>2, <2>3 DEF Moving
    <3> QED  BY <3>1
  <2> QED  BY <2>2, <2>3
<1>2. IsFiniteSet(S) /\ S \subseteq StoredTxs /\ \A t \in S : row[t].amount \in Int
  <2>1. S \subseteq PaidTxs(o)
    BY DEF PaidTransfers
  <2> QED  BY <2>1, SettledRowTypes, FS_Subset
<1>3. S' \subseteq StoredTxs'
  BY DEF PaidTransfers, PaidTxs, LiveTx, StoredTxs, LedgerInv, TypeOK
<1>4. \A t \in S : f[t] \in Int /\ f'[t] = f[t]
  BY <1>1, <1>2, <1>3
<1>5. SumOf(S)' = SumFunctionOnSet(f', S') /\ SumOf(S) = SumFunctionOnSet(f, S)
  BY DEF SumOf
<1> HIDE DEF S, f
<1>6. SumFunctionOnSet(f', S) = SumFunctionOnSet(f, S)
  BY <1>2, <1>4, SumSame
<1> QED  BY <1>1, <1>5, <1>6 DEF S

(***************************************************************************)
(* The read.  After the second query the map is short of exactly the       *)
(* settled transfers, as long as those have not changed.                   *)
(***************************************************************************)
MapTotal == SumFunctionOnSet(report.map, Accounts)

ReportInv ==
    report # None =>
        /\ report \in Report
        /\ report.stage = "listed" => MapTotal = report.start
        /\ report.stage = "booked" /\ ~report.torn =>
               MapTotal = report.start + report.net - SumOf(PaidTransfers(report.org))
        /\ report.stage = "done" /\ ~report.torn =>
               MapTotal = report.start + report.net

LEMMA ListAccountsKeepsReport ==
    ASSUME LedgerInv, NEW o \in Orgs, ListAccounts(o)
    PROVE  ReportInv'
<1> DEFINE map == [a \in Accounts |-> IF a \in Listed(o) THEN initial[a] ELSE 0]
<1>1. /\ Listed(o) \in SUBSET Accounts /\ IsFiniteSet(Accounts) /\ IsFiniteSet(Listed(o))
      /\ \A a \in Listed(o) : initial[a] \in Int /\ map[a] = initial[a]
      /\ \A a \in Accounts \ Listed(o) : map[a] = 0
      /\ map \in [Accounts -> Int]
  BY SettledRowTypes, FS_Subset
<1>2. /\ report'.stage = "listed" /\ report'.org = o /\ report'.map = map
      /\ report'.start = SumFunctionOnSet(initial, Listed(o))
      /\ report' = [stage |-> "listed", org |-> o, map |-> map,
                    start |-> SumFunctionOnSet(initial, Listed(o)),
                    net |-> 0, torn |-> FALSE]
  BY DEF ListAccounts
<1> HIDE DEF map
<1>3. SumFunctionOnSet(map, Accounts) = SumFunctionOnSet(initial, Listed(o))
  BY <1>1, SumOverMore
<1>4. SumFunctionOnSet(initial, Listed(o)) \in Int
  BY <1>1, SumIsInt
<1>5. report' \in Report
  BY <1>1, <1>2, <1>4 DEF Report
<1> QED  BY <1>2, <1>3, <1>5 DEF ReportInv, MapTotal

LEMMA SumBookedKeepsReport ==
    ASSUME LedgerInv, ReportInv, SumBooked
    PROVE  ReportInv'
<1> DEFINE o == report.org
           more == [a \in Accounts |-> Booked(o, a)]
           map == [a \in Accounts |-> report.map[a] + Booked(o, a)]
<1>1. /\ report # None /\ report \in Report /\ MapTotal = report.start /\ o \in Orgs
      /\ \A a \in Accounts : report.map[a] \in Int
      /\ report.start \in Int
  BY DEF SumBooked, ReportInv, Report
<1>2. /\ \A a \in Accounts : Booked(o, a) \in Int
      /\ SumFunctionOnSet(more, Accounts) = Net(o) - SumOf(PaidTransfers(o))
      /\ Net(o) \in Int /\ SumOf(PaidTransfers(o)) \in Int
  BY <1>1, BookedAddUp
<1>3. /\ report' = [report EXCEPT !.stage = "booked", !.map = map, !.net = Net(o)]
      /\ UNCHANGED vars
  BY DEF SumBooked
<1>4. /\ \A a \in Accounts : more[a] \in Int /\ map[a] = report.map[a] + more[a]
      /\ map \in [Accounts -> Int]
  BY <1>1, <1>2
<1>5. IsFiniteSet(Accounts)
  BY FiniteAssumption
<1>6. report' \in Report
  <2> HIDE DEF map
  <2> QED  BY <1>1, <1>2, <1>3, <1>4 DEF Report
<1>7. /\ report'.stage = "booked" /\ report'.map = map /\ report'.net = Net(o)
      /\ report'.start = report.start /\ report'.org = o
  <2> HIDE DEF map
  <2> QED  BY <1>1, <1>3 DEF Report
<1> HIDE DEF map, more
<1>8. SumFunctionOnSet(map, Accounts) = MapTotal + SumFunctionOnSet(more, Accounts)
  BY <1>1, <1>4, <1>5, SumPlus DEF MapTotal
<1>9. MapTotal' = report'.start + report'.net - SumOf(PaidTransfers(o))
  BY <1>1, <1>2, <1>7, <1>8 DEF MapTotal
<1>10. SumOf(PaidTransfers(report.org))' = SumOf(PaidTransfers(o))
  BY <1>3, <1>7 DEF vars, SumOf, StoredTxs, PaidTransfers, PaidTxs, LiveTx
<1> QED  BY <1>6, <1>7, <1>9, <1>10 DEF ReportInv

LEMMA SumInboundKeepsReport ==
    ASSUME LedgerInv, ReportInv, SumInbound
    PROVE  ReportInv'
<1> DEFINE o == report.org
           more == [a \in Accounts |-> Inbound(o, a)]
           map == [a \in Accounts |-> report.map[a] + Inbound(o, a)]
<1>1. /\ report # None /\ report \in Report /\ o \in Orgs
      /\ \A a \in Accounts : report.map[a] \in Int
      /\ report.start \in Int /\ report.net \in Int
      /\ ~report.torn => MapTotal = report.start + report.net - SumOf(PaidTransfers(o))
  BY DEF SumInbound, ReportInv, Report
<1>2. /\ \A a \in Accounts : Inbound(o, a) \in Int
      /\ SumFunctionOnSet(more, Accounts) = SumOf(PaidTransfers(o))
      /\ SumOf(PaidTransfers(o)) \in Int
  BY <1>1, InboundAddUp, BookedAddUp
<1>3. report' = [report EXCEPT !.stage = "done", !.map = map]
  BY DEF SumInbound
<1>4. /\ \A a \in Accounts : more[a] \in Int /\ map[a] = report.map[a] + more[a]
      /\ map \in [Accounts -> Int]
  BY <1>1, <1>2
<1>5. IsFiniteSet(Accounts)
  BY FiniteAssumption
<1>6. report' \in Report
  <2> HIDE DEF map
  <2> QED  BY <1>1, <1>3, <1>4 DEF Report
<1>7. /\ report'.stage = "done" /\ report'.map = map /\ report'.net = report.net
      /\ report'.start = report.start /\ report'.torn = report.torn
  <2> HIDE DEF map
  <2> QED  BY <1>1, <1>3 DEF Report
<1> HIDE DEF map, more
<1>8. SumFunctionOnSet(map, Accounts) = MapTotal + SumFunctionOnSet(more, Accounts)
  BY <1>1, <1>4, <1>5, SumPlus DEF MapTotal
<1>9. MapTotal' = MapTotal + SumOf(PaidTransfers(o))
  BY <1>2, <1>7, <1>8 DEF MapTotal
<1> QED  BY <1>1, <1>2, <1>6, <1>7, <1>9 DEF ReportInv

LEMMA MeanwhileKeepsReport ==
    ASSUME LedgerInv, LedgerInv', ReportInv, Meanwhile
    PROVE  ReportInv'
<1>1. CASE \E o \in Orgs : BetweenSums(o) /\ Moving(o)' # Moving(o)
  <2>1. /\ report # None /\ report \in Report /\ report.stage = "booked"
        /\ report' = [report EXCEPT !.torn = TRUE]
    BY <1>1 DEF Meanwhile, BetweenSums, ReportInv
  <2>2. report' \in Report /\ report'.stage = "booked" /\ report'.torn
    BY <2>1 DEF Report
  <2> QED  BY <2>2 DEF ReportInv
<1>2. CASE ~ \E o \in Orgs : BetweenSums(o) /\ Moving(o)' # Moving(o)
  <2>1. report' = report
    BY <1>2 DEF Meanwhile
  <2>2. SUFFICES ASSUME report # None PROVE ReportInv'
    BY <2>1 DEF ReportInv
  <2>3. report.org \in Orgs
    BY <2>2 DEF ReportInv, Report
  <2>4. ASSUME report.stage = "booked"
        PROVE  SumOf(PaidTransfers(report.org))' = SumOf(PaidTransfers(report.org))
    <3>1. PICK o \in Orgs : o = report.org
      BY <2>3
    <3>2. Moving(o)' = Moving(o)
      BY <1>2, <2>2, <2>4, <3>1 DEF BetweenSums
    <3>3. SumOf(PaidTransfers(o))' = SumOf(PaidTransfers(o))
      BY <3>2, MovingGivesTheSum
    <3> QED  BY <2>1, <3>1, <3>3
  <2>5. MapTotal' = MapTotal
    BY <2>1 DEF MapTotal
  <2> QED  BY <2>1, <2>2, <2>4, <2>5 DEF ReportInv
<1> QED  BY <1>1, <1>2

\* A read returns balances that add up to the initial balances plus what was
\* earned minus what was spent, unless a settled transfer changed between its
\* two sums.
THEOREM MoneyIsNeitherMadeNorLost == BalancesSpec => []MoneyIsConserved
<1>1. BalancesInit => Init /\ ReportInv
  BY DEF BalancesInit, ReportInv
<1>2. [BalancesNext]_balanceVars => [Next]_vars
  BY DEF BalancesNext, balanceVars, ListAccounts, SumBooked, SumInbound, FailRead,
     Meanwhile
<1>3. LedgerInv /\ LedgerInv' /\ ReportInv /\ [BalancesNext]_balanceVars => ReportInv'
  <2> SUFFICES ASSUME LedgerInv, LedgerInv', ReportInv, [BalancesNext]_balanceVars
               PROVE  ReportInv'
    OBVIOUS
  <2>1. CASE FailRead
    BY <2>1 DEF FailRead, ReportInv
  <2>2. CASE UNCHANGED balanceVars
    BY <2>2 DEF balanceVars, vars, ReportInv, MapTotal, SumOf, StoredTxs, PaidTransfers,
       PaidTxs, LiveTx
  <2> QED
    BY <2>1, <2>2, ListAccountsKeepsReport, SumBookedKeepsReport,
       SumInboundKeepsReport, MeanwhileKeepsReport
    DEF BalancesNext
<1>4. ReportInv => MoneyIsConserved
  <2> SUFFICES ASSUME ReportInv, report # None, report.stage = "done", ~report.torn
               PROVE  SumFunction(report.map) = report.start + report.net
    BY DEF MoneyIsConserved
  <2>1. DOMAIN report.map = Accounts
    BY DEF ReportInv, Report
  <2>2. SumFunction(report.map) = MapTotal
    BY <2>1 DEF MapTotal, SumFunction, SumFunctionOnSet, FoldFunction
  <2> QED  BY <2>2 DEF ReportInv
<1> QED
  BY <1>1, <1>2, <1>3, <1>4, LedgerInvariant, PTL DEF BalancesSpec, Spec

-----------------------------------------------------------------------------
(***************************************************************************)
(* The parcels of a purchase.  That they add up is a fact about the rows a *)
(* request holds, from the moment it has divided the price; a step that    *)
(* makes a purchase appear is the insertion of those rows, because a row   *)
(* written back otherwise is that of a live entry (one request at a time), *)
(* whose group the table already has.                                      *)
(***************************************************************************)
ParcelsIn(rows, g) == {t \in Given(rows) : rows[t].group = g}

AmountIn(rows) == [t \in Given(rows) |-> rows[t].amount]

SoldAs(rows, ids, f) ==
    /\ f.amount = SumFunctionOnSet(AmountIn(rows), ids)
    /\ \A t \in ids : /\ rows[t].type = f.type /\ rows[t].account = f.account
                      /\ rows[t].card = f.card

AddsUp(rows) ==
    \A g \in Txs : ParcelsIn(rows, g) # {} =>
        \E f \in Forms : SoldAs(rows, ParcelsIn(rows, g), f)

InsertsAddUp == \A w \in Workers : Writing(w, "insert") => AddsUp(requests[w].rows)

\* The first parcel carries what the division leaves.
LEMMA PriceOfParcels ==
    ASSUME NEW amount \in Nat, NEW n \in Nat \ {0}
    PROVE  LET per == amount \div n
           IN  /\ per \in Int
               /\ per + (amount - per * n) + per * (n - 1) = amount
<1> DEFINE per == amount \div n
<1>1. per \in Int
  OBVIOUS
<1> HIDE DEF per
<1>2. per * (n - 1) = per * n - per
  BY <1>1
<1> QED  BY <1>1, <1>2 DEF per

LEMMA CreateInstallmentGroupAddsUp ==
    ASSUME LedgerInv, NEW w \in Workers, NEW o \in Orgs, NEW f \in Forms,
           NEW n \in Counts, CreateInstallmentGroup(w, o, f, n)
    PROVE  \E rows : /\ AddsUp(rows)
                     /\ Begin(w, "insert", [kind |-> "insert", org |-> o, rows |-> rows])
<1>1. f \in Form /\ n \in Nat \ {0} /\ n > 1 /\ f.amount \in Nat
  BY InputAssumption DEF CreateInstallmentGroup, Form
<1> DEFINE tmpl == Template(o, f)
           rows(ids, clamped) ==
             [t \in Txs |->
                IF \E i \in 1..n : ids[i] = t
                THEN LET i == CHOOSE k \in 1..n : ids[k] = t
                     IN  Parcel(tmpl, ids[1], n, i, ParcelCycle(tmpl, i, clamped))
                ELSE None]
<1>2. PICK ids \in [1..n -> Fresh],
           clamped \in SUBSET (IF f.card = None THEN {} ELSE 2..n) :
        /\ \A i, j \in 1..n : ids[i] = ids[j] => i = j
        /\ Begin(w, "insert", [kind |-> "insert", org |-> o,
                               rows |-> rows(ids, clamped)])
  BY DEF CreateInstallmentGroup
<1>3. PICK r : r = rows(ids, clamped)
  OBVIOUS
<1>4. /\ tmpl \in Row /\ WellFormed(tmpl) /\ tmpl.amount = f.amount /\ tmpl.amount >= n
      /\ tmpl.type = f.type /\ tmpl.account = f.account /\ tmpl.card = f.card
  <2>1. /\ tmpl.amount = f.amount /\ tmpl.card = f.card
        /\ tmpl.type = f.type /\ tmpl.account = f.account
    BY <1>1 DEF Template, BuildEntity
  <2> QED  BY <1>1, <2>1, TemplateIsRow DEF CreateInstallmentGroup
<1>5. \A i \in 1..n : ids[i] \in Txs
  BY <1>2 DEF Fresh
<1> HIDE DEF tmpl
<1>6. ASSUME NEW i \in 1..n
      PROVE  /\ r[ids[i]] # None /\ r[ids[i]].group = ids[1]
             /\ r[ids[i]].amount = ParcelAmount(f.amount, n, i)
             /\ r[ids[i]].type = f.type /\ r[ids[i]].account = f.account
             /\ r[ids[i]].card = f.card
  <2>1. (CHOOSE k \in 1..n : ids[k] = ids[i]) = i
    BY <1>2
  <2>2. r[ids[i]] = Parcel(tmpl, ids[1], n, i, ParcelCycle(tmpl, i, clamped))
    BY <1>3, <1>5, <2>1
  <2>3. ParcelCycle(tmpl, i, clamped) \in Nat /\ ids[1] \in Txs
    BY <1>1, <1>2, <1>4, <1>5, ParcelCycleIsNat
  <2>4. r[ids[i]] # None
    BY <1>1, <1>4, <2>2, <2>3, ParcelIsRow, NoneIsNoRow
  <2> QED  BY <1>4, <2>2, <2>4 DEF Parcel, Row
<1>7. \A t \in Given(r) : \E i \in 1..n : t = ids[i]
  BY <1>3 DEF Given
<1>8. \A i \in 1..n : ids[i] \in Given(r)
  BY <1>5, <1>6 DEF Given
<1> HIDE DEF rows
<1> DEFINE S == Given(r)
           a == AmountIn(r)
           per == f.amount \div n
<1>9. IsFiniteSet(S) /\ Cardinality(S) = n
  <2>1. ids \in Bijection(1..n, S)
    <3>1. ids \in [1..n -> S]
      BY <1>2, <1>8
    <3> QED  BY <1>2, <1>7, <3>1, Fun_IsBij
  <2>2. ExistsBijection(1..n, S)
    BY <2>1 DEF ExistsBijection
  <2> QED  BY <1>1, <2>2, FS_NatBijection, FS_CountingElements
<1>10. 1 \in 1..n /\ ids[1] \in S
  BY <1>1, <1>8
<1>11. /\ a[ids[1]] = per + (f.amount - per * n)
       /\ \A t \in S \ {ids[1]} : a[t] = per
  <2>1. ASSUME NEW i \in 1..n PROVE a[ids[i]] = ParcelAmount(f.amount, n, i)
    BY <1>6, <1>8 DEF AmountIn
  <2>2. a[ids[1]] = per + (f.amount - per * n)
    BY <1>10, <2>1 DEF ParcelAmount
  <2>3. ASSUME NEW t \in S \ {ids[1]} PROVE a[t] = per
    <3>1. PICK i \in 1..n : t = ids[i] /\ i # 1
      BY <1>7
    <3> QED  BY <2>1, <3>1 DEF ParcelAmount
  <2> QED  BY <2>2, <2>3
<1>12. per \in Int /\ per + (f.amount - per * n) + per * (n - 1) = f.amount
  BY <1>1, PriceOfParcels
<1>13. SumFunctionOnSet(a, S) = f.amount
  <2> HIDE DEF per, a, S
  <2>1. a[ids[1]] \in Int
    BY <1>1, <1>11, <1>12
  <2>2. SumFunctionOnSet(a, S) = a[ids[1]] + per * (n - 1)
    BY <1>9, <1>10, <1>11, <1>12, <2>1, SumOfEqualButOne
  <2> QED  BY <1>11, <1>12, <2>2
<1>14. ASSUME NEW g \in Txs, ParcelsIn(r, g) # {}
       PROVE  SoldAs(r, ParcelsIn(r, g), f)
  <2>1. ParcelsIn(r, g) = S
    BY <1>6, <1>7, <1>14 DEF ParcelsIn
  <2> QED  BY <1>6, <1>7, <1>13, <2>1 DEF SoldAs
<1>15. AddsUp(r)
  BY <1>14 DEF AddsUp
<1> QED  BY <1>2, <1>3, <1>15

LEMMA CreateAddsUp ==
    ASSUME NEW w \in Workers, NEW o \in Orgs, NEW f \in Forms, Create(w, o, f)
    PROVE  \E rows : /\ AddsUp(rows)
                     /\ Begin(w, "insert", [kind |-> "insert", org |-> o, rows |-> rows])
<1>1. PICK t \in Fresh :
        Begin(w, "insert", [kind |-> "insert", org |-> o,
              rows |-> [x \in Txs |-> IF x = t THEN Template(o, f) ELSE None]])
  BY DEF Create
<1> DEFINE rows == [x \in Txs |-> IF x = t THEN Template(o, f) ELSE None]
<1>2. \A x \in Given(rows) : rows[x].group = None
  BY TemplateIsAlone DEF Given
<1> HIDE DEF rows
<1>3. AddsUp(rows)
  BY <1>2, NoneAssumption DEF AddsUp, ParcelsIn
<1> QED  BY <1>1, <1>3 DEF rows

LEMMA BeginKeepsSums ==
    ASSUME LedgerInv, InsertsAddUp, NEW w \in Workers, NEW kind, NEW request,
           Begin(w, kind, request), request.kind = "insert" => AddsUp(request.rows)
    PROVE  InsertsAddUp'
<1>1. ASSUME NEW v \in Workers, Writing(v, "insert")' PROVE AddsUp(requests'[v].rows)
  BY <1>1 DEF Begin, LedgerInv, TypeOK, InsertsAddUp, Writing
<1> QED  BY <1>1 DEF InsertsAddUp, AddsUp, ParcelsIn, SoldAs, AmountIn, Given

LEMMA OtherStepKeepsSums ==
    ASSUME LedgerInv, InsertsAddUp,
           requests' = requests \/ \E w \in Workers : Done(w)
    PROVE  InsertsAddUp'
<1>1. ASSUME NEW v \in Workers, Writing(v, "insert")' PROVE AddsUp(requests'[v].rows)
  BY <1>1 DEF Done, LedgerInv, TypeOK, InsertsAddUp, Writing
<1> QED  BY <1>1 DEF InsertsAddUp, AddsUp, ParcelsIn, SoldAs, AmountIn, Given

LEMMA TransactionRequestKeepsSums ==
    ASSUME LedgerInv, InsertsAddUp, NEW w \in Workers, NEW o \in Orgs,
           TransactionRequest(w, o) \/ AccountRequest(w, o)
    PROVE  InsertsAddUp'
<1>1. ASSUME \E rows : /\ AddsUp(rows)
                       /\ Begin(w, "insert", [kind |-> "insert", org |-> o, rows |-> rows])
      PROVE  InsertsAddUp'
  BY <1>1, BeginKeepsSums
<1>2. ASSUME NEW f \in Forms, Create(w, o, f) PROVE InsertsAddUp'
  BY <1>1, <1>2, CreateAddsUp
<1>3. ASSUME NEW f \in Forms, NEW n \in Counts, CreateInstallmentGroup(w, o, f, n)
      PROVE  InsertsAddUp'
  BY <1>1, <1>3, CreateInstallmentGroupAddsUp
<1>4. ASSUME NEW t, NEW f, Update(w, o, t, f) PROVE InsertsAddUp'
  BY <1>4, BeginKeepsSums DEF Update
<1>5. ASSUME NEW t, NEW target, Settle(w, o, t, target) PROVE InsertsAddUp'
  BY <1>5, BeginKeepsSums DEF Settle
<1>6. ASSUME NEW t, Unsettle(w, o, t) \/ DeleteScoped(w, o, t) PROVE InsertsAddUp'
  BY <1>6, BeginKeepsSums DEF Unsettle, DeleteScoped
<1>7. ASSUME NEW ids, NEW target, BulkSettle(w, o, ids, target) PROVE InsertsAddUp'
  BY <1>7, BeginKeepsSums DEF BulkSettle
<1>8. ASSUME NEW ids, BulkUnsettle(w, o, ids) \/ Delete(w, o, ids) PROVE InsertsAddUp'
  BY <1>8, BeginKeepsSums DEF BulkUnsettle, Delete
<1>9. ASSUME NEW c, NEW cycle, NEW target,
             PayInvoice(w, o, c, cycle, target) \/ UnpayInvoice(w, o, c, cycle)
      PROVE  InsertsAddUp'
  BY <1>9, BeginKeepsSums DEF PayInvoice, UnpayInvoice
<1>10. ASSUME NEW a, NEW cents,
              OpenAccount(w, o, a, cents) \/ EditAccount(w, o, a, cents)
                  \/ DeleteAccount(w, o, a)
       PROVE  InsertsAddUp'
  BY <1>10, BeginKeepsSums DEF OpenAccount, EditAccount, DeleteAccount
<1> QED
  BY <1>2, <1>3, <1>4, <1>5, <1>6, <1>7, <1>8, <1>9, <1>10
  DEF TransactionRequest, AccountRequest

LEMMA NextKeepsSums == LedgerInv /\ InsertsAddUp /\ [Next]_vars => InsertsAddUp'
<1> SUFFICES ASSUME LedgerInv, InsertsAddUp, [Next]_vars PROVE InsertsAddUp'
  OBVIOUS
<1>1. ASSUME NEW w \in Workers, NEW o \in Orgs,
             TransactionRequest(w, o) \/ AccountRequest(w, o)
      PROVE  InsertsAddUp'
  BY <1>1, TransactionRequestKeepsSums
<1>2. ASSUME NEW w \in Workers, Write(w) PROVE InsertsAddUp'
  <2>1. Done(w)
    BY <1>2 DEF Write, InsertRows, SaveRow, SettleRows, UnsettleRows, DeleteRows,
       DeleteInstallmentGroup, InsertAccount, SaveAccount, SoftDeleteAccount, Fail
  <2> QED  BY <2>1, OtherStepKeepsSums
<1>3. CASE \/ \E old \in SUBSET Txs : PurgeTransactions(old)
           \/ \E old \in SUBSET Accounts : PurgeAccounts(old)
           \/ UNCHANGED vars
  <2>1. requests' = requests
    BY <1>3 DEF PurgeTransactions, PurgeAccounts, vars
  <2> QED  BY <2>1, OtherStepKeepsSums
<1> QED  BY <1>1, <1>2, <1>3 DEF Next

\* A row keeps its group, so a step that stores no row anew brings no parcel.
LEMMA NoNewParcels ==
    ASSUME NEW born, Born(born), Born(born)',
           \A t \in Txs : row'[t] # None => row[t] # None, NEW g \in Txs
    PROVE  Parcels(g)' \subseteq Parcels(g)
<1> SUFFICES ASSUME NEW t \in Parcels(g)' PROVE t \in Parcels(g)
  OBVIOUS
<1>1. t \in Txs /\ row'[t] # None /\ row'[t].group = g
  BY DEF Parcels, StoredTxs
<1>2. row[t] # None /\ SamePlace(row[t], born[t]) /\ SamePlace(row'[t], born[t])
  BY <1>1 DEF Born
<1> QED  BY <1>1, <1>2 DEF SamePlace, Parcels, StoredTxs

LEMMA InsertedParcelsAddUp ==
    ASSUME LedgerInv, InsertsAddUp, NEW w \in Workers, InsertRows(w), NEW g \in Txs,
           Parcels(g) = {}, Parcels(g)' # {}
    PROVE  \E f \in Forms :
               /\ f.amount = SumOf(Parcels(g))'
               /\ \A t \in Parcels(g)' :
                      /\ row'[t].type = f.type /\ row'[t].account = f.account
                      /\ row'[t].card = f.card
<1> DEFINE rows == requests[w].rows
           ids == ParcelsIn(rows, g)
<1>1. /\ requests[w] # None /\ requests[w].kind = "insert"
      /\ rows \in [Txs -> Row \cup {None}]
      /\ row' = [t \in Txs |-> IF t \in Given(rows) THEN rows[t] ELSE row[t]]
      /\ AddsUp(rows)
  BY PendingTypes DEF InsertRows, Writing, InsertsAddUp
<1> HIDE DEF rows
<1>2. Parcels(g)' = ids
  BY <1>1 DEF Parcels, StoredTxs, ParcelsIn, Given
<1>3. PICK f \in Forms : SoldAs(rows, ids, f)
  BY <1>1, <1>2 DEF AddsUp
<1>4. \A t \in ids : /\ t \in Given(rows) /\ t \in StoredTxs' /\ row'[t] = rows[t]
                     /\ rows[t].amount \in Int
  BY <1>1 DEF ParcelsIn, Given, StoredTxs, Row
<1>5. SumOf(Parcels(g))' = SumFunctionOnSet(AmountIn(rows), ids)
  <2> DEFINE a == [t \in StoredTxs' |-> row'[t].amount]
  <2>1. SumOf(Parcels(g))' = SumFunctionOnSet(a, ids)
    BY <1>2 DEF SumOf
  <2>2. \A t \in ids : AmountIn(rows)[t] \in Int /\ a[t] = AmountIn(rows)[t]
    BY <1>4 DEF AmountIn
  <2>3. IsFiniteSet(ids)
    BY FiniteAssumption, FS_Subset DEF ParcelsIn, Given
  <2> HIDE DEF a, ids
  <2> QED  BY <2>1, <2>2, <2>3, SumSame
<1> QED  BY <1>2, <1>3, <1>4, <1>5 DEF SoldAs

\* With requests that do not overlap nothing but an insertion makes parcels of
\* a purchase appear where none were.
LEMMA OnlyInsertsBringParcels ==
    ASSUME LedgerInv, SerialInv, NEW born, PlaceInv(born), [Next]_vars,
           ~ \E w \in Workers : InsertRows(w), NEW g \in Txs
    PROVE  Parcels(g)' \subseteq Parcels(g)
<1>0. Born(born)
  BY DEF PlaceInv
<1>1. ASSUME NEW w \in Workers, NEW o \in Orgs,
             TransactionRequest(w, o) \/ AccountRequest(w, o)
      PROVE  Parcels(g)' \subseteq Parcels(g)
  <2>1. row' = row
    BY <1>1 DEF TransactionRequest, AccountRequest, Create, CreateInstallmentGroup, Update,
       Settle, Unsettle, BulkSettle, BulkUnsettle, PayInvoice, UnpayInvoice, Delete,
       DeleteScoped, OpenAccount, EditAccount, DeleteAccount, Begin
  <2> QED  BY <2>1 DEF Parcels, StoredTxs
<1>2. ASSUME NEW w \in Workers, Write(w) PROVE Parcels(g)' \subseteq Parcels(g)
  <2>1. PlaceInv(born)'
    BY <1>2, WriteKeepsPlaces
  <2>2. CASE SaveRow(w)
    <3>1. /\ requests[w] # None /\ requests[w].kind = "save" /\ requests[w].id \in Txs
          /\ row' = [row EXCEPT ![requests[w].id] = requests[w].row]
      BY <2>2, PendingTypes DEF SaveRow, Writing
    <3>2. row[requests[w].id] # None
      BY <3>1 DEF SerialInv, StillChecked, LedgerInv, TypeOK
    <3>3. \A t \in Txs : row'[t] # None => row[t] # None
      BY <3>1, <3>2 DEF LedgerInv, TypeOK
    <3> QED  BY <1>0, <2>1, <3>3, NoNewParcels DEF PlaceInv
  <2>3. CASE ~SaveRow(w)
    <3>1. \A t \in Txs : row'[t] # None => row[t] # None
      BY <1>2, <2>3 DEF Write, SettleRows, UnsettleRows, DeleteRows, Selected, LiveTx,
         DeleteInstallmentGroup, InsertAccount, SaveAccount, SoftDeleteAccount, Fail,
         LedgerInv, TypeOK
    <3> QED  BY <1>0, <2>1, <3>1, NoNewParcels DEF PlaceInv
  <2> QED  BY <2>2, <2>3
<1>3. CASE \/ \E old \in SUBSET Txs : PurgeTransactions(old)
           \/ \E old \in SUBSET Accounts : PurgeAccounts(old)
           \/ UNCHANGED vars
  <2>1. \A t \in Txs : row'[t] \in {row[t], None}
    BY <1>3 DEF PurgeTransactions, PurgeAccounts, vars
  <2> QED  BY <2>1 DEF Parcels, StoredTxs
<1> QED  BY <1>1, <1>2, <1>3 DEF Next

\* A purchase in parcels is stored as one body a client sent, to the cent, when
\* requests do not overlap; overlapping ones may write a purged parcel back.
THEOREM ParcelsAddUp == ASSUME OneAtATime PROVE Spec => ParcelsSumToPurchase
<1>1. ASSUME LedgerInv, SerialInv, PlacesKept, InsertsAddUp, [Next]_vars,
             NEW g \in Txs, Parcels(g) = {}, Parcels(g)' # {}
      PROVE  \E f \in Forms :
                 /\ f.amount = SumOf(Parcels(g))'
                 /\ \A t \in Parcels(g)' :
                        /\ row'[t].type = f.type /\ row'[t].account = f.account
                        /\ row'[t].card = f.card
  <2>1. PICK w \in Workers : InsertRows(w)
    BY <1>1, OnlyInsertsBringParcels DEF PlacesKept
  <2> QED  BY <1>1, <2>1, InsertedParcelsAddUp
<1> DEFINE Step == \A g \in Txs : Parcels(g) = {} /\ Parcels(g)' # {} =>
                     \E f \in Forms :
                         /\ f.amount = SumOf(Parcels(g))'
                         /\ \A t \in Parcels(g)' :
                                /\ row'[t].type = f.type /\ row'[t].account = f.account
                                /\ row'[t].card = f.card
<1>2. LedgerInv /\ SerialInv /\ PlacesKept /\ InsertsAddUp /\ [Next]_vars => [Step]_vars
  BY <1>1
<1>3. Init => InsertsAddUp
  BY DEF Init, InsertsAddUp, Writing
<1>4. LedgerInv /\ LedgerInv' /\ SerialInv /\ [Next]_vars => SerialInv'
  BY NextIsKept DEF Kept
<1> QED
  BY <1>2, <1>3, <1>4, InitIsSerial, NextKeepsSums, PlacesAreKept, LedgerInvariant, PTL
  DEF Spec, ParcelsSumToPurchase
=============================================================================
