------------------------------ MODULE Calendar ------------------------------
(***************************************************************************)
(* Calendar dates as the program uses them: the month arithmetic of        *)
(* internal/recurrence/schedule.go and internal/cards/cycle.go, both of    *)
(* which clamp a day to the length of the month it lands in, and the day   *)
(* arithmetic they take from Go's time package.                            *)
(***************************************************************************)
EXTENDS Integers

Months == 1..12

IsLeap(y) == (y % 4 = 0 /\ y % 100 # 0) \/ y % 400 = 0

DaysInMonth(y, m) ==
    CASE m = 2               -> IF IsLeap(y) THEN 29 ELSE 28
      [] m \in {4, 6, 9, 11} -> 30
      [] OTHER               -> 31

Date == {t \in [y : Int, m : Months, d : 1..31] : t.d <= DaysInMonth(t.y, t.m)}

\* Months counted from year 0, so that adding months needs no carry.
MonthIndex(t) == 12 * t.y + t.m - 1

Before(s, t) == \/ MonthIndex(s) < MonthIndex(t)
                \/ MonthIndex(s) = MonthIndex(t) /\ s.d < t.d

AtMost(s, t) == s = t \/ Before(s, t)

\* The given day of a month, or the month's last day when it is shorter.
ClampDay(index, day) ==
    LET y == index \div 12
        m == (index % 12) + 1
    IN  [y |-> y, m |-> m,
         d |-> IF day > DaysInMonth(y, m) THEN DaysInMonth(y, m) ELSE day]

\* Mutant of AddMonthsClamped: the day overflows into the next month, as with
\* AddDate.
AddMonthsOverflowing(t, n) ==
    LET last == ClampDay(MonthIndex(t) + n, 31)
    IN  IF t.d <= last.d THEN [last EXCEPT !.d = t.d]
        ELSE ClampDay(MonthIndex(t) + n + 1, t.d - last.d)

AddMonthsClamped(t, n) == ClampDay(MonthIndex(t) + n, t.d)

NextDay(t) == IF t.d < DaysInMonth(t.y, t.m) THEN [t EXCEPT !.d = @ + 1]
              ELSE ClampDay(MonthIndex(t) + 1, 1)

AddDays(t, n) ==
    LET after[k \in 0..n] == IF k = 0 THEN t ELSE NextDay(after[k - 1])
    IN  after[n]

Frequencies == {"daily", "weekly", "monthly", "yearly"}

\* The date one step after another.
Following(t, freq, interval) ==
    CASE freq = "daily"  -> AddDays(t, interval)
      [] freq = "weekly" -> AddDays(t, 7 * interval)
      [] freq = "yearly" -> AddMonthsClamped(t, 12 * interval)
      [] OTHER           -> AddMonthsClamped(t, interval)

\* The n-th occurrence after a start date, counted from the start.
Nth(start, freq, interval, n) ==
    CASE freq = "daily"  -> AddDays(start, interval * n)
      [] freq = "weekly" -> AddDays(start, 7 * interval * n)
      [] freq = "yearly" -> AddMonthsClamped(start, 12 * interval * n)
      [] OTHER           -> AddMonthsClamped(start, interval * n)
=============================================================================
