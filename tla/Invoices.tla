------------------------------ MODULE Invoices ------------------------------
(***************************************************************************)
(* Credit-card invoices (internal/cards/cycle.go, credit_card_service.go). *)
(* An invoice is not stored: it is what the billing cycle makes of a       *)
(* card's purchases on the day somebody looks.  Purchases are made, the    *)
(* days go by, purchases are given another date, invoices are looked at,   *)
(* paid and unpaid, and the card's closing and due days are edited, which  *)
(* regroups every purchase at once.                                        *)
(***************************************************************************)
EXTENDS Calendar, FiniteSets

CONSTANTS
    ClosingDays, DueDays,  \* days of the month a card may be given
    FirstDay, LastDay,     \* the days considered
    MaxPurchases,          \* purchases on the card
    MaxInstallments,       \* parcels of a purchase considered
    None                   \* no bill

ASSUME DaysAssumption  == ClosingDays \subseteq 1..31 /\ DueDays \subseteq 1..31
ASSUME SpanAssumption  == FirstDay \in Date /\ LastDay \in Date
ASSUME BoundAssumption == {MaxPurchases, MaxInstallments} \subseteq Nat

VARIABLES
    today,
    card,       \* [closing, due]
    purchases,  \* a set of [id, date, paid]
    seen        \* history: a closed bill somebody looked at and what was on
                \* it, until its purchases were regrouped or dated back

vars == <<today, card, purchases, seen>>

Card == [closing : ClosingDays, due : DueDays]

-----------------------------------------------------------------------------
(* The billing cycle. *)

\* Mutant of Reference: the last day of a month never closes a cycle.
ReferenceNotOnLastDay(c, date) ==
    IF date.d > c.closing \/ date.d = DaysInMonth(date.y, date.m)
    THEN MonthIndex(date) + 1 ELSE MonthIndex(date)

\* Mutant of Reference: the day after the closing still counts.
ReferenceOneDayLate(c, date) ==
    IF date.d > ClampDay(MonthIndex(date), c.closing).d + 1
    THEN MonthIndex(date) + 1 ELSE MonthIndex(date)

\* An invoice is referred to by the month its cycle closes in.
Reference(c, date) ==
    IF date.d > ClampDay(MonthIndex(date), c.closing).d
    THEN MonthIndex(date) + 1 ELSE MonthIndex(date)

\* The month a bill falls due in: the closing month, or the next one when the
\* due day is not after the closing day.
DueMonth(c, reference) == IF c.due <= c.closing THEN reference + 1 ELSE reference

\* Mutant of Period: the period starts on the day numbered one more.
PeriodFromDayNumber(c, reference) ==
    [start |-> ClampDay(reference - 1, c.closing + 1), end |-> ClampDay(reference, c.closing)]

\* From the day after the previous closing to the closing, both clamped.
Period(c, reference) ==
    [start |-> NextDay(ClampDay(reference - 1, c.closing)),
     end   |-> ClampDay(reference, c.closing)]

DueDate(c, reference) == ClampDay(DueMonth(c, reference), c.due)

\* The n-th parcel of a purchase in instalments is dated n - 1 months on.
ParcelDate(date, n) == AddMonthsClamped(date, n - 1)

-----------------------------------------------------------------------------
(* What a user sees. *)

OnInvoice(reference) == {p \in purchases : Reference(card, p.date) = reference}

References == {Reference(card, p.date) : p \in purchases}

Paid(reference) == \A p \in OnInvoice(reference) : p.paid

\* Mutant of Status: only the days of the month are compared.
StatusByDayOfMonth(reference) ==
    IF Paid(reference) THEN "paid"
    ELSE IF today.d <= Period(card, reference).end.d THEN "open"
    ELSE IF Before(DueDate(card, reference), today) THEN "overdue"
    ELSE "closed"

Status(reference) ==
    IF Paid(reference) THEN "paid"
    ELSE IF ~Before(Period(card, reference).end, today) THEN "open"
    ELSE IF Before(DueDate(card, reference), today) THEN "overdue"
    ELSE "closed"

-----------------------------------------------------------------------------
Init == /\ today = FirstDay
        /\ card \in Card
        /\ purchases = {}
        /\ seen = None

Ids(bill) == {p.id : p \in bill}

Closed(reference) == Before(Period(card, reference).end, today)

\* What remains of the bill that was seen when something that may put more on
\* it has happened.
SeenUnless(happened) == IF happened THEN None ELSE seen

NextDate == /\ Before(today, LastDay)
            /\ today' = NextDay(today)
            /\ UNCHANGED <<card, purchases, seen>>

OnSeenBill(date) == seen # None /\ Reference(card, date) = seen.reference

\* A purchase, dated today or back to the first day.
Buy == /\ Cardinality(purchases) < MaxPurchases
       /\ \E date \in {today, FirstDay} :
              /\ purchases' = purchases \cup
                     {[id |-> Cardinality(purchases), date |-> date, paid |-> FALSE]}
              /\ seen' = SeenUnless(date # today /\ OnSeenBill(date))
       /\ UNCHANGED <<today, card>>

\* A purchase is given another date.
Redate == /\ \E p \in purchases, date \in {today, FirstDay} :
                 /\ purchases' = (purchases \ {p}) \cup {[p EXCEPT !.date = date]}
                 /\ seen' = SeenUnless(date # today /\ OnSeenBill(date))
          /\ UNCHANGED <<today, card>>

\* A closed invoice is opened.
ViewInvoice ==
    /\ \E reference \in References :
           /\ Closed(reference)
           /\ seen' = [reference |-> reference, ids |-> Ids(OnInvoice(reference))]
    /\ UNCHANGED <<today, card, purchases>>

\* BulkSettle and BulkUnsettle of the rows the cycle puts on the invoice.
SetPaid(reference, paid) ==
    /\ purchases' = {IF p \in OnInvoice(reference) THEN [p EXCEPT !.paid = paid] ELSE p :
                        p \in purchases}
    /\ UNCHANGED <<today, card, seen>>

PayInvoice   == \E reference \in References : SetPaid(reference, TRUE)
UnpayInvoice == \E reference \in References : SetPaid(reference, FALSE)

EditCard == /\ card' \in Card
            /\ seen' = SeenUnless(card' # card)
            /\ UNCHANGED <<today, purchases>>

Next == NextDate \/ Buy \/ Redate \/ ViewInvoice \/ PayInvoice \/ UnpayInvoice \/ EditCard

Spec == Init /\ [][Next]_vars

-----------------------------------------------------------------------------
TypeOK ==
    /\ today \in Date
    /\ card \in Card
    /\ purchases \subseteq [id : 0..MaxPurchases, date : Date, paid : BOOLEAN]
    /\ \A p, q \in purchases : p.id = q.id => p = q
    /\ seen \in {None} \cup [reference : Int, ids : SUBSET (0..MaxPurchases)]

Covers(c, reference, date) == /\ AtMost(Period(c, reference).start, date)
                              /\ AtMost(date, Period(c, reference).end)

\* The invoice a purchase is billed on is the only one whose displayed period
\* covers its date, through short months and leap years: no purchase is on two
\* invoices or on none.
InOnePeriod ==
    LET billed == Reference(card, today)
    IN  \A reference \in (billed - 2)..(billed + 2) :
            Covers(card, reference, today) <=> reference = billed

ParcelReferences(n) == {Reference(card, ParcelDate(today, k)) : k \in 1..n}

\* The parcels of a purchase made up to the 28th go on that many invoices in a
\* row, whatever the lengths of the months.
ParcelsSpread ==
    today.d <= 28 => LET first == Reference(card, today)
                     IN  ParcelReferences(MaxInstallments)
                             = first..(first + MaxInstallments - 1)

\* A bill somebody has looked at after it closed has no purchase on it later
\* that it did not have then, whatever days go by, whatever is bought, given
\* another date, paid or unpaid - unless the card's days were edited, which
\* groups anew what was billed, or a purchase was dated back onto it.
ClosedBillsDoNotGrow ==
    seen # None => Ids(OnInvoice(seen.reference)) \subseteq seen.ids

Age == [open |-> 0, closed |-> 1, overdue |-> 2, paid |-> 3]

\* Time alone moves an unpaid bill from open over closed to overdue, never back.
StatusOnlyAges ==
    [][today' # today =>
          \A reference \in References :
              /\ Age[Status(reference)] <= Age[Status(reference)']
              /\ Status(reference)' = "paid" => Status(reference) = "paid"]_vars
=============================================================================
