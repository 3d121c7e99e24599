--------------------------- MODULE MCRecurrence ---------------------------
(* Instances of Recurrence for TLC. *)
EXTENDS Recurrence, TLC

Body(a, start, interval, end, max, active) ==
    [account |-> a, start |-> start, interval |-> interval, end |-> end,
     max |-> max, active |-> active]

\* Bodies that move the start, stretch the interval, bound the rule or switch it
\* off.
EditForms ==
    {Body(a, start, interval, None, 0, None) :
        a \in Accounts, start \in {0, 1}, interval \in {1, 2}}
    \cup {Body(a, 0, 1, 1, 0, None) : a \in Accounts}
    \cup {Body(a, 0, 1, None, 2, None) : a \in Accounts}
    \cup {Body(a, 0, 1, None, 0, FALSE) : a \in Accounts}

\* Every combination of the two bounds, on and off.
ScheduleForms ==
    {Body(a, start, interval, end, max, None) :
        a \in Accounts, start \in {0, 1}, interval \in {1, 2},
        end \in {None, 3}, max \in {0, 2}}

Symmetry == Permutations(Rules) \cup Permutations(Accounts) \cup Permutations(Callers)
=============================================================================
