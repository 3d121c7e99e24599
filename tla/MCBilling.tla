----------------------------- MODULE MCBilling -----------------------------
(***************************************************************************)
(* An instance of the two state machines over the calendar, side by side:  *)
(* the dates of a recurrence rule and the invoices of a card.  They share  *)
(* no state, so a behaviour is one machine's, the other resting in a state *)
(* it may begin in.                                                        *)
(***************************************************************************)
EXTENDS Schedule, Invoices

Day(y, m, d) == [y |-> y, m |-> m, d |-> d]

\* Month ends and a leap day.
MCStarts == {Day(2027, 1, 28), Day(2027, 1, 30), Day(2027, 1, 31),
             Day(2027, 12, 31), Day(2028, 2, 29)}

\* The end of January to the first of March of a leap year.
WinterStart == Day(2028, 1, 29)
WinterEnd   == Day(2028, 3, 1)

-----------------------------------------------------------------------------
VARIABLE machine

Resting(m, one) == machine # m => one

BillingInit ==
    /\ machine \in {"schedule", "invoices"}
    /\ ScheduleInit /\ Init
    /\ Resting("schedule", start = Day(2027, 1, 31) /\ freq = "monthly" /\ interval = 1)
    /\ Resting("invoices", card.closing = 5 /\ card.due = 10)

BillingNext ==
    \/ machine = "schedule" /\ ScheduleNext /\ UNCHANGED <<machine, vars>>
    \/ machine = "invoices" /\ Next /\ UNCHANGED <<machine, scheduleVars>>

BillingSpec == BillingInit /\ [][BillingNext]_<<machine, scheduleVars, vars>>
=============================================================================
