------------------------------ MODULE Schedule ------------------------------
(***************************************************************************)
(* The dates of one recurrence rule: the cursor that generateForRule moves *)
(* after every occurrence, while the rule's start, frequency and interval  *)
(* may be edited under it.  Recurrence models who moves the cursor and     *)
(* when, with daily steps; this module models every kind of step on the    *)
(* calendar.                                                               *)
(***************************************************************************)
EXTENDS Calendar

CONSTANTS
    Starts,     \* start dates
    Intervals,  \* steps of an occurrence
    MaxCount    \* occurrences considered

ASSUME StartsAssumption    == Starts \subseteq Date
ASSUME IntervalsAssumption == Intervals \subseteq Nat \ {0} /\ MaxCount \in Nat

VARIABLES
    start, freq, interval,  \* the rule's schedule
    count,                  \* occurrences generated so far
    cursor,                 \* the date of the next one
    edited                  \* whether the schedule was changed since it began

scheduleVars == <<start, freq, interval, count, cursor, edited>>

ScheduleTypeOK ==
    /\ start \in Starts /\ freq \in Frequencies /\ interval \in Intervals
    /\ count \in 0..MaxCount
    /\ cursor \in Date
    /\ edited \in BOOLEAN

ScheduleInit ==
    /\ start \in Starts /\ freq \in Frequencies /\ interval \in Intervals
    /\ count = 0
    /\ cursor = start
    /\ edited = FALSE

\* Counted from the anchor, with a step from the last date as the fall-back when
\* an edited start would step back.
NextRun ==
    LET anchored == Nth(start, freq, interval, count + 1)
    IN  IF Before(cursor, anchored) THEN anchored
        ELSE Following(cursor, freq, interval)

Generate ==
    /\ count < MaxCount
    /\ count' = count + 1
    /\ cursor' = NextRun
    /\ UNCHANGED <<start, freq, interval, edited>>

\* apply: the schedule is replaced, the cursor and the count are not.
Edit ==
    /\ start' \in Starts /\ freq' \in Frequencies /\ interval' \in Intervals
    /\ edited' = TRUE
    /\ UNCHANGED <<count, cursor>>

ScheduleNext == Generate \/ Edit

ScheduleSpec == ScheduleInit /\ [][ScheduleNext]_scheduleVars

-----------------------------------------------------------------------------
(***************************************************************************)
(* A monthly or yearly rule meets every month (or every interval-th)       *)
(* exactly once, a short February included, and does not drift: after a    *)
(* short month it is back on the day it was set up for.                    *)
(***************************************************************************)
NoMonthSkipped ==
    ~edited /\ freq \in {"monthly", "yearly"} =>
        LET step == IF freq = "yearly" THEN 12 * interval ELSE interval
        IN  /\ MonthIndex(cursor) = MonthIndex(start) + step * count
            /\ \/ cursor.d = start.d
               \/ cursor.d < start.d /\ cursor.d = DaysInMonth(cursor.y, cursor.m)
=============================================================================
