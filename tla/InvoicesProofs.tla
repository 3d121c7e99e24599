--------------------------- MODULE InvoicesProofs ---------------------------
(***************************************************************************)
(* The billing cycle puts every date on exactly one invoice and the parcels *)
(* of a purchase on invoices in a row, for every closing day and every date *)
(* of the calendar; a bill only ages, and one that has closed does not grow. *)
(* A monthly or yearly recurrence misses no month of its schedule.          *)
(***************************************************************************)
EXTENDS Schedule, Invoices, FunctionTheorems, FiniteSetTheorems, TLAPS

-----------------------------------------------------------------------------
(* Months and days. *)

\* A month has at least 28 days and at most 31.
LEMMA MonthLength ==
    ASSUME NEW y \in Int, NEW m \in Int
    PROVE  DaysInMonth(y, m) \in 28..31
  BY DEF DaysInMonth

\* Clamping stays in the month it is given.
LEMMA ClampStaysInMonth ==
    ASSUME NEW index \in Int, NEW day \in Nat \ {0}
    PROVE  LET t == ClampDay(index, day)
           IN  /\ t \in Date
               /\ MonthIndex(t) = index
               /\ t.d = IF day > DaysInMonth(t.y, t.m) THEN DaysInMonth(t.y, t.m) ELSE day
<1> DEFINE y == index \div 12
           m == (index % 12) + 1
           d == IF day > DaysInMonth(y, m) THEN DaysInMonth(y, m) ELSE day
<1>1. y \in Int /\ m \in Months /\ 12 * y + m - 1 = index
  BY DEF Months
<1>2. DaysInMonth(y, m) \in 28..31
  BY <1>1, MonthLength DEF Months
<1>3. ClampDay(index, day) = [y |-> y, m |-> m, d |-> d]
  BY DEF ClampDay
<1> HIDE DEF y, m
<1>4. d \in 1..31 /\ d <= DaysInMonth(y, m)
  BY <1>2
<1> QED
  BY <1>1, <1>3, <1>4 DEF Date, MonthIndex

\* The next day is in the same month or the first of the next.
LEMMA NextDayIsNext ==
    ASSUME NEW t \in Date
    PROVE  LET u == NextDay(t)
           IN  /\ u \in Date
               /\ \/ MonthIndex(u) = MonthIndex(t) /\ u.d = t.d + 1
                  \/ /\ MonthIndex(u) = MonthIndex(t) + 1 /\ u.d = 1
                     /\ t.d = DaysInMonth(t.y, t.m)
<1>1. /\ t.y \in Int /\ t.m \in Months /\ t.d \in 1..31
      /\ t.d <= DaysInMonth(t.y, t.m) /\ DaysInMonth(t.y, t.m) \in 28..31
      /\ MonthIndex(t) \in Int
  BY MonthLength DEF Date, Months, MonthIndex
<1>2. CASE t.d < DaysInMonth(t.y, t.m)
  <2>1. NextDay(t) = [t EXCEPT !.d = t.d + 1]
    BY <1>2 DEF NextDay
  <2>2. NextDay(t).y = t.y /\ NextDay(t).m = t.m /\ NextDay(t).d = t.d + 1
        /\ NextDay(t) \in [y : Int, m : Months, d : 1..31]
    BY <1>1, <1>2, <2>1 DEF Date
  <2> QED
    BY <1>1, <1>2, <2>2 DEF Date, MonthIndex
<1>3. CASE ~(t.d < DaysInMonth(t.y, t.m))
  <2>1. NextDay(t) = ClampDay(MonthIndex(t) + 1, 1) /\ t.d = DaysInMonth(t.y, t.m)
    BY <1>1, <1>3 DEF NextDay
  <2>2. /\ ClampDay(MonthIndex(t) + 1, 1) \in Date
        /\ MonthIndex(ClampDay(MonthIndex(t) + 1, 1)) = MonthIndex(t) + 1
        /\ ClampDay(MonthIndex(t) + 1, 1).d = 1
    <3> DEFINE u == ClampDay(MonthIndex(t) + 1, 1)
    <3>1. /\ u \in Date /\ MonthIndex(u) = MonthIndex(t) + 1
          /\ u.d = IF 1 > DaysInMonth(u.y, u.m) THEN DaysInMonth(u.y, u.m) ELSE 1
      BY <1>1, ClampStaysInMonth
    <3>2. DaysInMonth(u.y, u.m) \in 28..31
      BY <3>1, MonthLength DEF Date, Months
    <3> QED
      BY <3>1, <3>2
  <2> QED
    BY <2>1, <2>2
<1> QED
  BY <1>2, <1>3

\* A month's index tells its year and its month.
LEMMA IndexIsUnique ==
    \A y, z \in Int, m, n \in 1..12 :
        12 * y + m - 1 = 12 * z + n - 1 => y = z /\ m = n
  OBVIOUS

\* Two dates of one month and one day are equal.
LEMMA SameDate ==
    ASSUME NEW s \in Date, NEW t \in Date, MonthIndex(s) = MonthIndex(t), s.d = t.d
    PROVE  s = t
<1>1. s.y \in Int /\ t.y \in Int /\ s.m \in 1..12 /\ t.m \in 1..12
  BY DEF Date, Months
<1> DEFINE y == s.y  z == t.y  m == s.m  n == t.m
<1>2. 12 * y + m - 1 = 12 * z + n - 1
  BY DEF MonthIndex
<1>3. y \in Int /\ z \in Int /\ m \in 1..12 /\ n \in 1..12
  BY <1>1
<1> HIDE DEF y, z, m, n
<1>4. y = z /\ m = n
  BY <1>2, <1>3, IndexIsUnique
<1> QED
  BY <1>4 DEF Date, y, z, m, n

\* To be on or after the day that follows is to be later.
LEMMA FromNextDay ==
    ASSUME NEW s \in Date, NEW t \in Date
    PROVE  AtMost(NextDay(s), t) <=> Before(s, t)
<1> DEFINE u == NextDay(s)
<1>1. /\ u \in Date
      /\ \/ MonthIndex(u) = MonthIndex(s) /\ u.d = s.d + 1
         \/ /\ MonthIndex(u) = MonthIndex(s) + 1 /\ u.d = 1
            /\ s.d = DaysInMonth(s.y, s.m)
  BY NextDayIsNext
<1>2. /\ MonthIndex(s) \in Int /\ MonthIndex(t) \in Int /\ MonthIndex(u) \in Int
      /\ s.d \in 1..31 /\ t.d \in 1..31 /\ u.d \in 1..31
      /\ t.d <= DaysInMonth(t.y, t.m) /\ DaysInMonth(t.y, t.m) \in 28..31
      /\ s.y \in Int /\ t.y \in Int /\ s.m \in 1..12 /\ t.m \in 1..12
  BY <1>1, MonthLength DEF Date, Months, MonthIndex
<1>3. MonthIndex(s) = MonthIndex(t) => s.y = t.y /\ s.m = t.m
  BY <1>2, IndexIsUnique DEF MonthIndex
<1>4. u = t <=> MonthIndex(u) = MonthIndex(t) /\ u.d = t.d
  BY <1>1, SameDate
<1> HIDE DEF u
<1>5. MonthIndex(s) = MonthIndex(t) /\ MonthIndex(u) = MonthIndex(s) + 1 => t.d <= s.d
  BY <1>1, <1>2, <1>3
<1>6. (u = t \/ Before(u, t)) <=> Before(s, t)
  BY <1>1, <1>2, <1>4, <1>5 DEF Before
<1> QED
  BY <1>6 DEF AtMost, u

\* A date is in the period of the invoice it is billed on and in no other.
LEMMA CoveredOnce ==
    ASSUME NEW c \in Card, NEW date \in Date, NEW reference \in Int
    PROVE  Covers(c, reference, date) <=> reference = Reference(c, date)
<1> DEFINE before == ClampDay(reference - 1, c.closing)
           end    == ClampDay(reference, c.closing)
           own    == ClampDay(MonthIndex(date), c.closing)
           i      == MonthIndex(date)
<1>1. c.closing \in Nat \ {0} /\ reference - 1 \in Int /\ i \in Int /\ date.d \in 1..31
  <2>1. c.closing \in 1..31
    BY DaysAssumption DEF Card
  <2>2. date.y \in Int /\ date.m \in 1..12 /\ date.d \in 1..31
    BY DEF Date, Months
  <2> QED
    BY <2>1, <2>2 DEF MonthIndex
<1>2. /\ before \in Date /\ MonthIndex(before) = reference - 1
      /\ end \in Date /\ MonthIndex(end) = reference
      /\ own \in Date /\ MonthIndex(own) = i
  BY <1>1, ClampStaysInMonth
<1>3. before.d \in 1..31 /\ end.d \in 1..31 /\ own.d \in 1..31
  BY <1>2 DEF Date
<1>4. Covers(c, reference, date) <=> Before(before, date) /\ AtMost(date, end)
  BY <1>2, FromNextDay DEF Covers, Period
<1>5. date = end <=> i = reference /\ date.d = end.d
  BY <1>2, SameDate
<1>6. (reference - 1 = i => before = own) /\ (reference = i => end = own)
  OBVIOUS
<1>7. Reference(c, date) = IF date.d > own.d THEN i + 1 ELSE i
  BY DEF Reference
<1> HIDE DEF before, end, own, i
<1>8. Before(before, date) <=> \/ reference - 1 < i
                               \/ reference - 1 = i /\ before.d < date.d
  BY <1>2 DEF Before, i
<1>9. AtMost(date, end) <=> \/ i < reference
                            \/ i = reference /\ date.d <= end.d
  BY <1>1, <1>2, <1>3, <1>5 DEF AtMost, Before, i
<1> QED
  BY <1>1, <1>3, <1>4, <1>6, <1>7, <1>8, <1>9

-----------------------------------------------------------------------------
\* The days of the calendar are dates and the card's days stay days of a month.
LEMMA DatesAndCards == Spec => [](today \in Date /\ card \in Card)
<1>1. Init => today \in Date /\ card \in Card
  BY SpanAssumption DEF Init
<1>2. (today \in Date /\ card \in Card) /\ [Next]_vars
        => (today \in Date /\ card \in Card)'
  BY NextDayIsNext
  DEF Next, NextDate, Buy, Redate, ViewInvoice, PayInvoice, UnpayInvoice, SetPaid,
      EditCard, vars
<1> QED
  BY <1>1, <1>2, PTL DEF Spec

\* The invoice a purchase is billed on is the only one whose period covers its
\* date, for every closing day from 1 to 31 and every date.
THEOREM OnOneInvoice == Spec => []InOnePeriod
<1>1. ASSUME today \in Date, card \in Card
      PROVE  InOnePeriod
  <2>1. Reference(card, today) \in Int
    BY <1>1 DEF Reference, MonthIndex, Date, Months
  <2> QED
    BY <1>1, <2>1, CoveredOnce DEF InOnePeriod
<1> QED
  BY <1>1, DatesAndCards, PTL

-----------------------------------------------------------------------------
(* Time.  What the passing of a day, and of the days before, does to a bill. *)

\* What is past today is past tomorrow.
LEMMA PastStaysPast ==
    ASSUME NEW s \in Date, NEW t \in Date, Before(s, t)
    PROVE  Before(s, NextDay(t))
<1> DEFINE u == NextDay(t)
<1>1. \/ MonthIndex(u) = MonthIndex(t) /\ u.d = t.d + 1
      \/ MonthIndex(u) = MonthIndex(t) + 1
  BY NextDayIsNext
<1>2. /\ MonthIndex(s) \in Int /\ MonthIndex(t) \in Int
      /\ s.d \in 1..31 /\ t.d \in 1..31
  BY DEF Date, Months, MonthIndex
<1> HIDE DEF u
<1>3. Before(s, u)
  BY <1>1, <1>2 DEF Before
<1> QED
  BY <1>3 DEF u

\* A day is not past when it is today or later.
LEMMA NotPast ==
    ASSUME NEW s \in Date, NEW t \in Date, AtMost(s, t)
    PROVE  ~Before(t, s)
<1>1. /\ MonthIndex(s) \in Int /\ MonthIndex(t) \in Int
      /\ s.d \in 1..31 /\ t.d \in 1..31
  BY DEF Date, Months, MonthIndex
<1> QED
  BY <1>1 DEF AtMost, Before

\* The purchases are finitely many dated rows.
Dated == /\ today \in Date /\ card \in Card
         /\ purchases \subseteq [id : Nat, date : Date, paid : BOOLEAN]
         /\ IsFiniteSet(purchases)

LEMMA DatedInvariant == Spec => []Dated
<1>1. Init => Dated
  BY SpanAssumption, FS_EmptySet DEF Init, Dated
<1>2. Dated /\ [Next]_vars => Dated'
  <2> SUFFICES ASSUME Dated, [Next]_vars PROVE Dated'
    OBVIOUS
  <2>1. CASE NextDate
    BY <2>1, NextDayIsNext DEF NextDate, Dated
  <2>2. CASE Buy
    <3>1. PICK date \in {today, FirstDay} : 
              purchases' = purchases \cup
                 {[id |-> Cardinality(purchases), date |-> date, paid |-> FALSE]}
      BY <2>2 DEF Buy
    <3>2. date \in Date /\ Cardinality(purchases) \in Nat
      BY SpanAssumption, FS_CardinalityType DEF Dated
    <3>3. [id |-> Cardinality(purchases), date |-> date, paid |-> FALSE]
              \in [id : Nat, date : Date, paid : BOOLEAN]
      BY <3>2
    <3>4. IsFiniteSet(purchases')
      BY <3>1, FS_AddElement DEF Dated
    <3> QED
      BY <2>2, <3>1, <3>3, <3>4 DEF Buy, Dated
  <2>3. ASSUME NEW reference, NEW paid \in BOOLEAN, SetPaid(reference, paid)
        PROVE  Dated'
    <3> DEFINE set(p) == IF p \in OnInvoice(reference) THEN [p EXCEPT !.paid = paid] ELSE p
    <3>1. purchases' = {set(p) : p \in purchases}
      BY <2>3 DEF SetPaid
    <3>2. \A p \in purchases : set(p) \in [id : Nat, date : Date, paid : BOOLEAN]
      BY DEF Dated
    <3> HIDE DEF set
    <3>3. IsFiniteSet({set(p) : p \in purchases})
      <4> DEFINE T == {set(p) : p \in purchases}
                 f == [p \in purchases |-> set(p)]
      <4>1. f \in Surjection(purchases, T)
        BY Fun_IsSurj
      <4> QED
        BY <4>1, FS_Surjection DEF Dated
    <3> QED
      BY <2>3, <3>1, <3>2, <3>3 DEF SetPaid, Dated
  <2>4. CASE PayInvoice \/ UnpayInvoice
    BY <2>3, <2>4 DEF PayInvoice, UnpayInvoice
  <2>5. CASE EditCard \/ ViewInvoice \/ UNCHANGED vars
    BY <2>5 DEF EditCard, ViewInvoice, vars, Dated
  <2>6. CASE Redate
    <3>1. PICK p \in purchases, date \in {today, FirstDay} :
              purchases' = (purchases \ {p}) \cup {[p EXCEPT !.date = date]}
      BY <2>6 DEF Redate
    <3>2. /\ date \in Date /\ p \in [id : Nat, date : Date, paid : BOOLEAN]
          /\ [p EXCEPT !.date = date] \in [id : Nat, date : Date, paid : BOOLEAN]
      BY SpanAssumption DEF Dated
    <3>3. IsFiniteSet(purchases \ {p})
      BY FS_Difference DEF Dated
    <3>4. IsFiniteSet(purchases')
      BY <3>1, <3>3, FS_AddElement
    <3> QED
      BY <2>6, <3>1, <3>2, <3>4 DEF Redate, Dated
  <2> QED
    BY <2>1, <2>2, <2>4, <2>5, <2>6 DEF Next
<1> QED
  BY <1>1, <1>2, PTL DEF Spec

\* The dates of an invoice are dates.
LEMMA InvoiceDates ==
    ASSUME NEW c \in Card, NEW reference \in Int
    PROVE  Period(c, reference).end \in Date /\ DueDate(c, reference) \in Date
<1>1. c.closing \in 1..31 /\ c.due \in 1..31
  BY DaysAssumption DEF Card
<1>2. c.closing \in Nat \ {0} /\ c.due \in Nat \ {0} /\ DueMonth(c, reference) \in Int
  BY <1>1 DEF DueMonth
<1> QED
  BY <1>2, ClampStaysInMonth DEF Period, DueDate

LEMMA ReferenceIsInt ==
    ASSUME NEW c \in Card, NEW date \in Date
    PROVE  Reference(c, date) \in Int
  BY DEF Reference, MonthIndex, Date, Months

\* A purchase dated today goes on an invoice that has not closed, whatever the
\* card's closing day and the date.
LEMMA TodayIsOpen ==
    ASSUME Dated
    PROVE  ~Closed(Reference(card, today))
<1>1. today \in Date /\ card \in Card /\ Reference(card, today) \in Int
  BY ReferenceIsInt DEF Dated
<1>2. AtMost(today, Period(card, Reference(card, today)).end)
  BY <1>1, CoveredOnce DEF Covers
<1>3. Period(card, Reference(card, today)).end \in Date
  BY <1>1, InvoiceDates
<1> QED
  BY <1>1, <1>2, <1>3, NotPast DEF Closed

\* The bill that was seen is closed still, and what is on it was on it then.
SeenInv ==
    seen # None =>
        /\ seen.reference \in Int /\ Closed(seen.reference)
        /\ \A p \in purchases : Reference(card, p.date) = seen.reference => p.id \in seen.ids

\* A date that may be given to a purchase while the bill stays as it was seen.
LEMMA DatedElsewhere ==
    ASSUME Dated, SeenInv, NEW date, seen # None,
           ~(date # today /\ OnSeenBill(date))
    PROVE  Reference(card, date) # seen.reference
<1>1. CASE date = today
  BY <1>1, TodayIsOpen DEF SeenInv
<1>2. CASE date # today
  BY <1>2 DEF OnSeenBill
<1> QED
  BY <1>1, <1>2

LEMMA NextKeepsSeen == Dated /\ SeenInv /\ [Next]_vars => SeenInv'
<1> SUFFICES ASSUME Dated, SeenInv, [Next]_vars, seen' # None PROVE SeenInv'
  BY DEF SeenInv
<1>1. CASE NextDate
  <2>1. /\ seen' = seen /\ card' = card /\ purchases' = purchases
        /\ today' = NextDay(today) /\ seen # None
    BY <1>1 DEF NextDate
  <2>2. Period(card, seen.reference).end \in Date
    BY <2>1, InvoiceDates DEF SeenInv, Dated
  <2>3. Closed(seen.reference)'
    BY <2>1, <2>2, PastStaysPast DEF SeenInv, Closed, Dated
  <2> QED  BY <2>1, <2>3 DEF SeenInv
<1>2. ASSUME NEW date, ~(date # today /\ OnSeenBill(date)), seen' = seen,
             NEW p, p.date = date, purchases' \subseteq purchases \cup {p},
             UNCHANGED <<today, card>>
      PROVE  SeenInv'
  <2>1. Reference(card, date) # seen.reference
    BY <1>2, DatedElsewhere
  <2>2. Closed(seen.reference)' = Closed(seen.reference)
    BY <1>2 DEF Closed
  <2> QED  BY <1>2, <2>1, <2>2 DEF SeenInv
<1>3. CASE Buy
  <2>1. PICK date \in {today, FirstDay} :
            /\ purchases' = purchases \cup
                   {[id |-> Cardinality(purchases), date |-> date, paid |-> FALSE]}
            /\ seen' = SeenUnless(date # today /\ OnSeenBill(date))
    BY <1>3 DEF Buy
  <2>2. ~(date # today /\ OnSeenBill(date)) /\ seen' = seen
    BY <2>1 DEF SeenUnless
  <2>3. UNCHANGED <<today, card>>
    BY <1>3 DEF Buy
  <2> DEFINE p == [id |-> Cardinality(purchases), date |-> date, paid |-> FALSE]
  <2>4. p.date = date /\ purchases' \subseteq purchases \cup {p}
    BY <2>1
  <2> HIDE DEF p
  <2> QED  BY <1>2, <2>2, <2>3, <2>4
<1>4. CASE Redate
  <2>1. PICK q \in purchases, date \in {today, FirstDay} :
            /\ purchases' = (purchases \ {q}) \cup {[q EXCEPT !.date = date]}
            /\ seen' = SeenUnless(date # today /\ OnSeenBill(date))
    BY <1>4 DEF Redate
  <2>2. ~(date # today /\ OnSeenBill(date)) /\ seen' = seen
    BY <2>1 DEF SeenUnless
  <2>3. UNCHANGED <<today, card>>
    BY <1>4 DEF Redate
  <2> DEFINE p == [q EXCEPT !.date = date]
  <2>4. p.date = date /\ purchases' \subseteq purchases \cup {p}
    BY <2>1 DEF Dated
  <2> HIDE DEF p
  <2> QED  BY <1>2, <2>2, <2>3, <2>4
<1>5. CASE ViewInvoice
  <2>1. PICK reference \in References :
            /\ Closed(reference)
            /\ seen' = [reference |-> reference, ids |-> Ids(OnInvoice(reference))]
    BY <1>5 DEF ViewInvoice
  <2>2. UNCHANGED <<today, card, purchases>>
    BY <1>5 DEF ViewInvoice
  <2>3. reference \in Int
    BY ReferenceIsInt DEF References, Dated
  <2>4. /\ seen'.reference = reference /\ seen'.ids = Ids(OnInvoice(reference))
        /\ Closed(reference)' = Closed(reference)
    BY <2>1, <2>2 DEF Closed
  <2> QED  BY <2>1, <2>2, <2>3, <2>4 DEF SeenInv, Ids, OnInvoice
<1>6. CASE PayInvoice \/ UnpayInvoice
  <2>1. PICK reference \in References, paid \in BOOLEAN : SetPaid(reference, paid)
    BY <1>6 DEF PayInvoice, UnpayInvoice
  <2>2. /\ purchases' = {IF p \in OnInvoice(reference) THEN [p EXCEPT !.paid = paid] ELSE p :
                            p \in purchases}
        /\ UNCHANGED <<today, card, seen>>
    BY <2>1 DEF SetPaid
  <2>3. ASSUME NEW q \in purchases'
        PROVE  \E p \in purchases : q.id = p.id /\ q.date = p.date
    <3>1. PICK p \in purchases :
              q = IF p \in OnInvoice(reference) THEN [p EXCEPT !.paid = paid] ELSE p
      BY <2>2, <2>3
    <3>2. p \in [id : Nat, date : Date, paid : BOOLEAN]
      BY DEF Dated
    <3> QED  BY <3>1, <3>2
  <2>4. Closed(seen.reference)' = Closed(seen.reference)
    BY <2>2 DEF Closed
  <2> QED  BY <2>2, <2>3, <2>4 DEF SeenInv
<1>7. CASE EditCard
  <2>1. seen' = seen /\ UNCHANGED <<today, card, purchases>>
    BY <1>7 DEF EditCard, SeenUnless
  <2> QED  BY <2>1 DEF SeenInv, Closed
<1>8. CASE UNCHANGED vars
  BY <1>8 DEF vars, SeenInv, Closed
<1> QED
  BY <1>1, <1>3, <1>4, <1>5, <1>6, <1>7, <1>8 DEF Next

\* A closed bill that was looked at has nothing on it later that it did not have
\* then, for any card, dates and purchases, unless the card's days are edited or
\* a purchase is dated back onto it.
THEOREM SeenBillsStay == Spec => []ClosedBillsDoNotGrow
<1>1. Init => SeenInv
  BY DEF Init, SeenInv
<1>2. SeenInv => ClosedBillsDoNotGrow
  BY DEF SeenInv, ClosedBillsDoNotGrow, Ids, OnInvoice
<1> QED
  BY <1>1, <1>2, NextKeepsSeen, DatedInvariant, PTL DEF Spec

\* The day that goes by moves an unpaid bill from open over closed to overdue
\* and never back, and makes none of them paid.
THEOREM BillsOnlyAge == Spec => StatusOnlyAges
<1> DEFINE Ages == today' # today =>
                      \A reference \in References :
                          /\ Age[Status(reference)] <= Age[Status(reference)']
                          /\ Status(reference)' = "paid" => Status(reference) = "paid"
<1>1. Dated /\ [Next]_vars => Ages
  <2> SUFFICES ASSUME Dated, [Next]_vars, today' # today, NEW reference \in References
               PROVE  /\ Age[Status(reference)] <= Age[Status(reference)']
                      /\ Status(reference)' = "paid" => Status(reference) = "paid"
    OBVIOUS
  <2>1. today' = NextDay(today) /\ card' = card /\ purchases' = purchases
    BY DEF Next, NextDate, Buy, Redate, ViewInvoice, PayInvoice, UnpayInvoice, SetPaid,
       EditCard, vars
  <2>2. reference \in Int /\ today \in Date /\ card \in Card
    BY ReferenceIsInt DEF References, Dated
  <2> DEFINE end == Period(card, reference).end
             due == DueDate(card, reference)
  <2>3. end \in Date /\ due \in Date
    BY <2>2, InvoiceDates
  <2>4. Before(end, today) => Before(end, today')
    BY <2>1, <2>2, <2>3, PastStaysPast
  <2>5. Before(due, today) => Before(due, today')
    BY <2>1, <2>2, <2>3, PastStaysPast
  <2>6. Paid(reference)' <=> Paid(reference)
    BY <2>1 DEF Paid, OnInvoice
  <2>7. Status(reference) = IF Paid(reference) THEN "paid"
                            ELSE IF ~Before(end, today) THEN "open"
                            ELSE IF Before(due, today) THEN "overdue" ELSE "closed"
    BY DEF Status
  <2>8. Status(reference)' = IF Paid(reference)' THEN "paid"
                             ELSE IF ~Before(end, today') THEN "open"
                             ELSE IF Before(due, today') THEN "overdue" ELSE "closed"
    BY <2>1 DEF Status
  <2> HIDE DEF end, due
  <2>9. /\ Age["open"] = 0 /\ Age["closed"] = 1 /\ Age["overdue"] = 2 /\ Age["paid"] = 3
    BY DEF Age
  <2> QED
    BY <2>4, <2>5, <2>6, <2>7, <2>8, <2>9
<1> QED
  BY <1>1, DatedInvariant, PTL DEF Spec, StatusOnlyAges

-----------------------------------------------------------------------------
(* Instalments. *)

\* Months after a day up to the 28th, it is that day of the month.
LEMMA MonthsOn ==
    ASSUME NEW t \in Date, t.d <= 28, NEW n \in Nat
    PROVE  LET u == AddMonthsClamped(t, n)
           IN  u \in Date /\ MonthIndex(u) = MonthIndex(t) + n /\ u.d = t.d
<1> DEFINE u == AddMonthsClamped(t, n)
<1>1. MonthIndex(t) + n \in Int /\ t.d \in 1..31 /\ t.d \in Nat \ {0}
  BY DEF Date, Months, MonthIndex
<1>2. /\ u \in Date /\ MonthIndex(u) = MonthIndex(t) + n
      /\ u.d = IF t.d > DaysInMonth(u.y, u.m) THEN DaysInMonth(u.y, u.m) ELSE t.d
  BY <1>1, ClampStaysInMonth DEF AddMonthsClamped
<1>3. DaysInMonth(u.y, u.m) \in 28..31
  BY <1>2, MonthLength DEF Date, Months
<1> HIDE DEF u
<1>4. u \in Date /\ MonthIndex(u) = MonthIndex(t) + n /\ u.d = t.d
  BY <1>1, <1>2, <1>3
<1> QED
  BY <1>4 DEF u

\* A day up to the 28th is after the closing exactly when its number is.
LEMMA AfterClosing ==
    ASSUME NEW c \in Card, NEW t \in Date, t.d <= 28
    PROVE  Reference(c, t) = IF t.d > c.closing THEN MonthIndex(t) + 1 ELSE MonthIndex(t)
<1> DEFINE u == ClampDay(MonthIndex(t), c.closing)
<1>1. MonthIndex(t) \in Int /\ t.d \in 1..31 /\ c.closing \in 1..31 /\ c.closing \in Nat \ {0}
  <2>1. c.closing \in 1..31
    BY DaysAssumption DEF Card
  <2> QED
    BY <2>1 DEF Date, Months, MonthIndex
<1>2. u \in Date /\ u.d = IF c.closing > DaysInMonth(u.y, u.m) THEN DaysInMonth(u.y, u.m)
                          ELSE c.closing
  BY <1>1, ClampStaysInMonth
<1>3. DaysInMonth(u.y, u.m) \in 28..31
  BY <1>2, MonthLength DEF Date, Months
<1>4. Reference(c, t) = IF t.d > u.d THEN MonthIndex(t) + 1 ELSE MonthIndex(t)
  BY DEF Reference
<1> HIDE DEF u
<1> QED
  BY <1>1, <1>2, <1>3, <1>4

\* The k-th parcel is on the k-th invoice from the purchase's.
LEMMA ParcelOn ==
    ASSUME NEW c \in Card, NEW t \in Date, t.d <= 28, NEW k \in Nat \ {0}
    PROVE  Reference(c, ParcelDate(t, k)) = Reference(c, t) + k - 1
<1> DEFINE u == ParcelDate(t, k)
<1>1. u \in Date /\ MonthIndex(u) = MonthIndex(t) + (k - 1) /\ u.d = t.d
  BY MonthsOn DEF ParcelDate
<1>2. Reference(c, u) = IF t.d > c.closing THEN MonthIndex(u) + 1 ELSE MonthIndex(u)
  BY <1>1, AfterClosing
<1>3. Reference(c, t) = IF t.d > c.closing THEN MonthIndex(t) + 1 ELSE MonthIndex(t)
  BY AfterClosing
<1>4. MonthIndex(t) \in Int
  BY DEF Date, Months, MonthIndex
<1> HIDE DEF u
<1>5. Reference(c, u) = Reference(c, t) + k - 1
  BY <1>1, <1>2, <1>3, <1>4
<1> QED
  BY <1>5 DEF u

\* The parcels of a purchase made up to the 28th go on as many invoices in a
\* row, for every closing day and number of parcels: a short month neither puts
\* two of them on one invoice nor leaves an invoice out.
THEOREM ParcelsOnInvoicesInARow == Spec => []ParcelsSpread
<1>1. Dated => ParcelsSpread
  <2> SUFFICES ASSUME Dated, today.d <= 28
               PROVE  LET first == Reference(card, today)
                      IN  ParcelReferences(MaxInstallments)
                              = first..(first + MaxInstallments - 1)
    BY DEF ParcelsSpread
  <2> DEFINE first == Reference(card, today)
  <2>1. first \in Int /\ MaxInstallments \in Nat
    BY ReferenceIsInt, BoundAssumption DEF Dated
  <2>2. \A k \in 1..MaxInstallments : Reference(card, ParcelDate(today, k)) = first + k - 1
    BY <2>1, ParcelOn DEF Dated
  <2> HIDE DEF first
  <2>3. {first + k - 1 : k \in 1..MaxInstallments} = first..(first + MaxInstallments - 1)
    <3>1. ASSUME NEW r \in first..(first + MaxInstallments - 1)
          PROVE  \E k \in 1..MaxInstallments : r = first + k - 1
      <4>1. r - first + 1 \in 1..MaxInstallments /\ r = first + (r - first + 1) - 1
        BY <2>1
      <4> QED
        BY <4>1
    <3>2. ASSUME NEW k \in 1..MaxInstallments
          PROVE  first + k - 1 \in first..(first + MaxInstallments - 1)
      BY <2>1
    <3> QED
      BY <3>1, <3>2
  <2>4. ParcelReferences(MaxInstallments) = {first + k - 1 : k \in 1..MaxInstallments}
    BY <2>2 DEF ParcelReferences
  <2> QED
    BY <2>3, <2>4 DEF first
<1> QED
  BY <1>1, DatedInvariant, PTL

-----------------------------------------------------------------------------
(* The schedule of a recurrence. *)

\* The months of one occurrence.
Step == IF freq = "yearly" THEN 12 * interval ELSE interval

\* As long as nobody changes it, the schedule is counted from its start.
Anchored ==
    /\ start \in Date /\ interval \in Nat \ {0} /\ count \in Nat
    /\ freq \in {"monthly", "yearly"} =>
          cursor = AddMonthsClamped(start, Step * count)

LEMMA StepTimes ==
    ASSUME NEW s \in Nat \ {0}, NEW n \in Nat
    PROVE  s * n \in Nat /\ s * (n + 1) = s * n + s /\ s * 0 = 0
OBVIOUS

\* No months on is the same day.
LEMMA NoMonths ==
    ASSUME NEW t \in Date
    PROVE  AddMonthsClamped(t, 0) = t
<1>1. MonthIndex(t) \in Int /\ t.d \in Nat \ {0} /\ t.d <= DaysInMonth(t.y, t.m)
  BY DEF Date, Months, MonthIndex
<1> DEFINE u == AddMonthsClamped(t, 0)
<1>2. /\ u \in Date /\ MonthIndex(u) = MonthIndex(t)
      /\ u.d = IF t.d > DaysInMonth(u.y, u.m) THEN DaysInMonth(u.y, u.m) ELSE t.d
  BY <1>1, ClampStaysInMonth DEF AddMonthsClamped
<1>3. u.y = t.y /\ u.m = t.m
  <2>1. /\ 12 * u.y + u.m - 1 = 12 * t.y + t.m - 1
        /\ u.y \in Int /\ t.y \in Int /\ u.m \in 1..12 /\ t.m \in 1..12
    BY <1>2 DEF MonthIndex, Date, Months
  <2> DEFINE y == u.y  z == t.y  m == u.m  n == t.m
  <2>2. 12 * y + m - 1 = 12 * z + n - 1 /\ y \in Int /\ z \in Int /\ m \in 1..12 /\ n \in 1..12
    BY <2>1
  <2> HIDE DEF y, z, m, n
  <2>3. y = z /\ m = n
    BY <2>2, IndexIsUnique
  <2> QED
    BY <2>3 DEF y, z, m, n
<1>4. u.d = t.d
  BY <1>1, <1>2, <1>3, MonthLength DEF Date, Months
<1> QED
  BY <1>2, <1>4, SameDate

\* A number of months on.
LEMMA MonthsFrom ==
    ASSUME NEW t \in Date, NEW n \in Nat
    PROVE  LET u == AddMonthsClamped(t, n)
           IN  /\ u \in Date /\ MonthIndex(u) = MonthIndex(t) + n
               /\ u.d = IF t.d > DaysInMonth(u.y, u.m) THEN DaysInMonth(u.y, u.m) ELSE t.d
<1>1. MonthIndex(t) + n \in Int /\ t.d \in 1..31 /\ t.d \in Nat \ {0}
  BY DEF Date, Months, MonthIndex
<1> QED
  BY <1>1, ClampStaysInMonth DEF AddMonthsClamped

LEMMA NthIsMonthsOn ==
    ASSUME freq \in {"monthly", "yearly"}, NEW n
    PROVE  Nth(start, freq, interval, n) = AddMonthsClamped(start, Step * n)
  BY DEF Nth, Step

\* The next date of an unchanged schedule is counted from the start: the
\* fall-back is for edited ones.
LEMMA AnchoredNext ==
    ASSUME Anchored, freq \in {"monthly", "yearly"}
    PROVE  NextRun = AddMonthsClamped(start, Step * (count + 1))
<1> DEFINE anchored == AddMonthsClamped(start, Step * (count + 1))
<1>1. /\ start \in Date /\ count \in Nat /\ Step \in Nat \ {0}
      /\ cursor = AddMonthsClamped(start, Step * count)
  BY DEF Anchored, Step
<1>2. /\ Step * count \in Nat /\ Step * (count + 1) \in Nat
      /\ Step * (count + 1) > Step * count
  <2> DEFINE s == Step
  <2>1. s \in Nat \ {0}
    BY <1>1
  <2> HIDE DEF s
  <2>2. s * count \in Nat /\ s * (count + 1) = s * count + s
    BY <1>1, <2>1, StepTimes
  <2>3. s * (count + 1) \in Nat /\ s * (count + 1) > s * count
    BY <2>1, <2>2
  <2> QED
    BY <2>2, <2>3 DEF s
<1>3. MonthIndex(cursor) < MonthIndex(anchored)
  <2>1. /\ MonthIndex(cursor) = MonthIndex(start) + Step * count
        /\ MonthIndex(anchored) = MonthIndex(start) + Step * (count + 1)
    BY <1>1, <1>2, MonthsFrom
  <2>2. MonthIndex(start) \in Int
    BY <1>1 DEF MonthIndex, Date, Months
  <2> QED
    BY <1>2, <2>1, <2>2
<1>4. Nth(start, freq, interval, count + 1) = anchored
  BY NthIsMonthsOn
<1> QED
  BY <1>3, <1>4 DEF NextRun, Before

\* A monthly or yearly rule that is not edited meets every month of its schedule
\* once, a short February included, and is back on its day after a short month.
THEOREM EveryMonthIsMet == ScheduleSpec => []NoMonthSkipped
<1> DEFINE Inv == ~edited => Anchored
<1>1. ScheduleInit => Inv
  <2> SUFFICES ASSUME ScheduleInit PROVE Anchored
    OBVIOUS
  <2>1. start \in Date /\ interval \in Nat \ {0} /\ count = 0 /\ cursor = start
    BY StartsAssumption, IntervalsAssumption DEF ScheduleInit
  <2>2. Step \in Nat \ {0}
    BY <2>1 DEF Step
  <2>3. Step * count = 0
    BY <2>1, <2>2
  <2> QED
    BY <2>1, <2>3, NoMonths DEF Anchored
<1>2. Inv /\ [ScheduleNext]_scheduleVars => Inv'
  <2> SUFFICES ASSUME Inv, [ScheduleNext]_scheduleVars, ~edited'
               PROVE  Anchored'
    OBVIOUS
  <2>1. CASE Generate
    <3>1. /\ Anchored /\ count' = count + 1 /\ cursor' = NextRun
          /\ start' = start /\ freq' = freq /\ interval' = interval /\ Step' = Step
      BY <2>1 DEF Generate, Step
    <3>2. start \in Date /\ interval \in Nat \ {0} /\ count' \in Nat
      BY <3>1 DEF Anchored
    <3> QED
      BY <3>1, <3>2, AnchoredNext DEF Anchored
  <2>2. CASE Edit
    BY <2>2 DEF Edit
  <2>3. CASE UNCHANGED scheduleVars
    BY <2>3 DEF scheduleVars, Anchored, Step
  <2> QED
    BY <2>1, <2>2, <2>3 DEF ScheduleNext
<1>3. Inv => NoMonthSkipped
  <2> SUFFICES ASSUME Inv, ~edited, freq \in {"monthly", "yearly"}
               PROVE  /\ MonthIndex(cursor) = MonthIndex(start) + Step * count
                      /\ \/ cursor.d = start.d
                         \/ cursor.d < start.d /\ cursor.d = DaysInMonth(cursor.y, cursor.m)
    BY DEF NoMonthSkipped, Step
  <2>1. start \in Date /\ count \in Nat /\ Step \in Nat \ {0}
        /\ cursor = AddMonthsClamped(start, Step * count)
    BY DEF Anchored, Step
  <2>2. Step * count \in Nat
    BY <2>1, StepTimes
  <2>3. /\ cursor \in Date /\ MonthIndex(cursor) = MonthIndex(start) + Step * count
        /\ cursor.d = IF start.d > DaysInMonth(cursor.y, cursor.m)
                      THEN DaysInMonth(cursor.y, cursor.m) ELSE start.d
    BY <2>1, <2>2, MonthsFrom
  <2>4. start.d \in 1..31 /\ DaysInMonth(cursor.y, cursor.m) \in 28..31
    BY <2>1, <2>3, MonthLength DEF Date, Months
  <2> QED
    BY <2>3, <2>4
<1> QED
  BY <1>1, <1>2, <1>3, PTL DEF ScheduleSpec
=============================================================================
