----------------------------- MODULE Recurrence -----------------------------
(***************************************************************************)
(* The recurring-transaction engine (recurrence_service.go,                *)
(* recurrence_repo.go, RecurrenceRule, the recurrence part of jobs.go and  *)
(* the scheduler of cmd/api/main.go).                                      *)
(*                                                                         *)
(* A rule carries a template and a cursor: the date of its next occurrence *)
(* and how many it has generated.  The in-process worker walks the due     *)
(* rules, users run one rule at once, edit and delete rules and delete     *)
(* accounts.  Generation is one database transaction that locks the rule's *)
(* row and re-reads it; an edit reads the row and later writes all of it.  *)
(*                                                                         *)
(* Dates are day numbers and the steps are whole days (the daily           *)
(* frequency); Calendar checks the arithmetic of the other frequencies.    *)
(***************************************************************************)
EXTENDS Integers, FiniteSets

CONSTANTS
    Rules,        \* ids a new rule may get
    Accounts,     \* the accounts of the organization
    Worker,       \* the scheduler's goroutine
    Callers,      \* users running a rule at once
    Editors,      \* users writing a rule: creating or editing one
    Horizon,      \* the last day considered
    MaxCatchUp,   \* occurrences per transaction (maxCatchUpPerRun)
    Forms,        \* the rule bodies the clients send
    MaxEdits,     \* edits considered
    MaxRestarts,  \* process restarts considered
    None

Days == 0..Horizon

\* max = 0 is unlimited; active = None leaves the flag as it is.
Form == [account : Accounts, start : Days, interval : Nat \ {0},
         end : Days \cup {None}, max : Nat, active : BOOLEAN \cup {None}]

Rule == [account : Accounts, start : Days, interval : Nat \ {0},
         end : Days \cup {None}, max : Nat, active : BOOLEAN,
         count : Nat, next : Nat]

Procs == Callers \cup {Worker}

ASSUME HorizonAssumption == Horizon \in Nat /\ MaxCatchUp \in Nat \ {0}
ASSUME FormsAssumption   == Forms \subseteq Form
ASSUME BoundAssumption   == {MaxEdits, MaxRestarts} \subseteq Nat
ASSUME NamesAssumption   == /\ Worker \notin Callers
                            /\ None \notin Nat \cup Rule \cup BOOLEAN \cup Accounts

VARIABLES
    now,        \* today
    ruleState,  \* per rule: absent, live or deleted (soft)
    rule,       \* per rule: its stored columns
    live,       \* the accounts not deleted
    made,       \* per rule and day: the transactions generated for that day
    job,        \* per process: the rule it is generating for
    queue,      \* the due rules the worker has still to visit, with the pass's day
    edit,       \* per editor: the row it is about to insert (new) or save
    edits,      \* edits begun so far
    restarts,   \* process restarts so far
    overtaken,  \* whether a rule an edit had read changed before its write
    deserted    \* the rules a request was about to write when their account went

vars == <<now, ruleState, rule, live, made, job, queue, edit, edits, restarts,
          overtaken, deserted>>

LiveRule(r) == ruleState[r] = "live"

\* SELECT ... FOR UPDATE: a second locker, and any UPDATE of the row, waits.
Locked(r) == \E p \in Procs : job[p] # None /\ job[p].rule = r /\ job[p].locked

-----------------------------------------------------------------------------
(* The schedule. *)

Nth(start, interval, n) == start + interval * n

Following(day, interval) == day + interval

Exhausted(c) == \/ c.end # None /\ c.next > c.end
                \/ c.max > 0 /\ c.count >= c.max

\* Mutant of Advance: without the fall-back.
AdvanceFromAnchor(c) ==
    [c EXCEPT !.count = @ + 1, !.next = Nth(c.start, c.interval, c.count + 1)]

\* One occurrence on: counted from the anchor, with a step from the last date
\* as the fall-back when an edited start would move the cursor back.
Advance(c) ==
    LET anchored == Nth(c.start, c.interval, c.count + 1)
    IN  [c EXCEPT !.count = @ + 1,
                  !.next = IF anchored > c.next THEN anchored
                           ELSE Following(c.next, c.interval)]

\* DueRules: active, due, within its bounds, on an account that still exists.
Due(r) == /\ LiveRule(r)
          /\ rule[r].account \in live
          /\ rule[r].active
          /\ rule[r].next <= now
          /\ ~Exhausted(rule[r])

-----------------------------------------------------------------------------
(* Rules and accounts. *)

Tick == /\ now < Horizon
        /\ now' = now + 1
        /\ UNCHANGED <<ruleState, rule, live, made, job, queue, edit, edits, restarts>>

\* The checks of apply on a body, the account's look-up among them.
Admits(f) == /\ f.account \in live
             /\ f.end # None => f.end >= f.start

\* The column is declared default:true, and GORM stores the default for a
\* false value on insert: the rule is created active whatever was asked.
Fresh(f) == [account |-> f.account, start |-> f.start, interval |-> f.interval,
             end |-> f.end, max |-> f.max, active |-> TRUE,
             count |-> 0, next |-> f.start]

\* A creation checks the body first, under an id nobody else has ...
CreateRead(e, r, f) ==
    /\ edit[e] = None
    /\ ruleState[r] = "absent"
    /\ \A other \in Editors : edit[other] # None => edit[other].rule # r
    /\ Admits(f)
    /\ edit' = [edit EXCEPT ![e] = [rule |-> r, row |-> Fresh(f), new |-> TRUE]]
    /\ UNCHANGED <<now, ruleState, rule, live, made, job, queue, edits, restarts>>

\* ... and inserts the rule later, without another look at the account.
CreateInsert(e) ==
    /\ edit[e] # None /\ edit[e].new
    /\ ruleState' = [ruleState EXCEPT ![edit[e].rule] = "live"]
    /\ rule' = [rule EXCEPT ![edit[e].rule] = edit[e].row]
    /\ edit' = [edit EXCEPT ![e] = None]
    /\ UNCHANGED <<now, live, made, job, queue, edits, restarts>>

\* apply: everything but the cursor is replaced.  The row was read with its
\* account preloaded, and GORM may write the preloaded account's id back over
\* the requested one: both outcomes are allowed.
Apply(c, f, account) ==
    [c EXCEPT !.account = account, !.start = f.start, !.interval = f.interval,
              !.end = f.end, !.max = f.max,
              !.active = IF f.active = None THEN @ ELSE f.active]

UpdateRead(e, r, f, account) ==
    /\ edit[e] = None
    /\ edits < MaxEdits
    /\ edits' = edits + 1
    /\ LiveRule(r)
    /\ Admits(f)
    /\ account \in {f.account, rule[r].account}
    /\ edit' = [edit EXCEPT ![e] =
                  [rule |-> r, row |-> Apply(rule[r], f, account), new |-> FALSE]]
    /\ UNCHANGED <<now, ruleState, rule, live, made, job, queue, restarts>>

\* Save writes every column of the row it read, the cursor included, and
\* inserts the row again when it has been deleted meanwhile.
UpdateSave(e) ==
    /\ edit[e] # None /\ ~edit[e].new
    /\ ~Locked(edit[e].rule)
    /\ ruleState' = [ruleState EXCEPT ![edit[e].rule] = "live"]
    /\ rule' = [rule EXCEPT ![edit[e].rule] = edit[e].row]
    /\ edit' = [edit EXCEPT ![e] = None]
    /\ UNCHANGED <<now, live, made, job, queue, edits, restarts>>

Delete(r) ==
    /\ LiveRule(r)
    /\ ~Locked(r)
    /\ ruleState' = [ruleState EXCEPT ![r] = "deleted"]
    /\ UNCHANGED <<now, rule, live, made, job, queue, edit, edits, restarts>>

\* Mutant of DeleteAccount: the rules stay.
DeleteAccountOnly(a) ==
    /\ a \in live
    /\ live' = live \ {a}
    /\ UNCHANGED <<now, ruleState, rule, made, job, queue, edit, edits, restarts>>

\* The account and its rules go in one transaction, which waits for the locked
\* rules.  Its entries are gone already: AccountService.Delete sees to that.
DeleteAccount(a) ==
    /\ a \in live
    /\ \A r \in Rules : LiveRule(r) /\ rule[r].account = a => ~Locked(r)
    /\ live' = live \ {a}
    /\ ruleState' = [r \in Rules |-> IF LiveRule(r) /\ rule[r].account = a
                                     THEN "deleted" ELSE ruleState[r]]
    /\ UNCHANGED <<now, rule, made, job, queue, edit, edits, restarts>>

-----------------------------------------------------------------------------
(* Generation. *)

Waiting(r, day) == [rule |-> r, now |-> day, locked |-> FALSE, copy |-> None,
                    dates |-> [d \in Days |-> 0], left |-> MaxCatchUp]

RunNow(p, r) ==
    /\ job[p] = None
    /\ LiveRule(r)
    /\ job' = [job EXCEPT ![p] = Waiting(r, now)]
    /\ UNCHANGED <<now, ruleState, rule, live, made, queue, edit, edits, restarts>>

\* A pass of the worker: the due rules are listed once, then visited.
GenerateDue ==
    /\ job[Worker] = None
    /\ queue = {}
    /\ queue' = {r \in Rules : Due(r)} \X {now}
    /\ queue' # {}
    /\ UNCHANGED <<now, ruleState, rule, live, made, job, edit, edits, restarts>>

VisitRule ==
    /\ job[Worker] = None
    /\ \E visit \in queue :
           /\ queue' = queue \ {visit}
           /\ job' = [job EXCEPT ![Worker] = Waiting(visit[1], visit[2])]
    /\ UNCHANGED <<now, ruleState, rule, live, made, edit, edits, restarts>>

\* Mutant of Lock: the row is read and not locked.
LockNothing(p) ==
    /\ job[p] # None /\ job[p].copy = None
    /\ job' = IF LiveRule(job[p].rule)
              THEN [job EXCEPT ![p].copy = rule[job[p].rule]]
              ELSE [job EXCEPT ![p] = None]
    /\ UNCHANGED <<now, ruleState, rule, live, made, queue, edit, edits, restarts>>

\* The rule is read again under the lock; a deleted one is an error.
Lock(p) ==
    /\ job[p] # None /\ job[p].copy = None
    /\ ~Locked(job[p].rule)
    /\ job' = IF LiveRule(job[p].rule)
              THEN [job EXCEPT ![p] = [@ EXCEPT !.locked = TRUE, !.copy = rule[job[p].rule]]]
              ELSE [job EXCEPT ![p] = None]
    /\ UNCHANGED <<now, ruleState, rule, live, made, queue, edit, edits, restarts>>

\* One more round of the loop: the copy is active and due and the cap not reached.
Continues(j) == j.left > 0 /\ j.copy.active /\ j.copy.next <= j.now

\* One occurrence: its transaction row, the count and the next date, and the
\* rule switched off as soon as it is exhausted.
Occurred(j) ==
    LET after == Advance(j.copy)
    IN  [j EXCEPT !.copy = IF Exhausted(after) THEN [after EXCEPT !.active = FALSE]
                           ELSE after,
                  !.dates = [j.dates EXCEPT ![j.copy.next] = @ + 1],
                  !.left = @ - 1]

\* The rounds of the loop.
Occur(p) ==
    /\ job[p] # None /\ job[p].copy # None
    /\ Continues(job[p])
    /\ ~Exhausted(job[p].copy)
    /\ job' = [job EXCEPT ![p] = Occurred(job[p])]
    /\ UNCHANGED <<now, ruleState, rule, live, made, queue, edit, edits, restarts>>

\* Mutant of Commit: the cursor is saved apart and lost.
CommitOccurrencesOnly(p) ==
    /\ job[p] # None /\ job[p].copy # None
    /\ made' = [made EXCEPT ![job[p].rule] =
                  [d \in Days |-> made[job[p].rule][d] + job[p].dates[d]]]
    /\ job' = [job EXCEPT ![p] = None]
    /\ UNCHANGED <<now, ruleState, rule, live, queue, edit, edits, restarts>>

\* The occurrences and the cursor become visible together.
Commit(p) ==
    /\ job[p] # None /\ job[p].copy # None
    /\ ~Continues(job[p]) \/ Exhausted(job[p].copy)
    /\ rule' = [rule EXCEPT ![job[p].rule] =
                  IF Continues(job[p]) THEN [job[p].copy EXCEPT !.active = FALSE]
                  ELSE job[p].copy]
    /\ made' = [made EXCEPT ![job[p].rule] =
                  [d \in Days |-> made[job[p].rule][d] + job[p].dates[d]]]
    /\ job' = [job EXCEPT ![p] = None]
    /\ UNCHANGED <<now, ruleState, live, queue, edit, edits, restarts>>

\* The process stops: open transactions are rolled back and every request, and
\* the pass of the worker, is forgotten.
Restart ==
    /\ restarts < MaxRestarts
    /\ restarts' = restarts + 1
    /\ job' = [p \in Procs |-> None]
    /\ edit' = [e \in Editors |-> None]
    /\ queue' = {}
    /\ UNCHANGED <<now, ruleState, rule, live, made, edits>>

-----------------------------------------------------------------------------
Init ==
    /\ now = 0
    /\ ruleState = [r \in Rules |-> "absent"]
    /\ rule = [r \in Rules |-> None]
    /\ live = Accounts
    /\ made = [r \in Rules |-> [d \in Days |-> 0]]
    /\ job = [p \in Procs |-> None]
    /\ queue = {}
    /\ edit = [e \in Editors |-> None]
    /\ edits = 0
    /\ restarts = 0
    /\ overtaken = FALSE
    /\ deserted = {}

UserStep ==
    \/ \E e \in Editors, r \in Rules, f \in Forms : CreateRead(e, r, f)
    \/ \E e \in Editors : CreateInsert(e)
    \/ \E e \in Editors, r \in Rules, f \in Forms, a \in Accounts :
           UpdateRead(e, r, f, a)
    \/ \E e \in Editors : UpdateSave(e)
    \/ \E r \in Rules : Delete(r)
    \/ \E a \in Accounts : DeleteAccount(a)
    \/ \E p \in Callers, r \in Rules : RunNow(p, r)

Generation(p) == Lock(p) \/ Occur(p) \/ Commit(p)

\* The row an edit has read changes before the write.
Overtakes(e) ==
    /\ edit[e] # None /\ ~edit[e].new /\ edit'[e] = edit[e]
    /\ LET r == edit[e].rule
       IN  rule'[r] # rule[r] \/ ruleState'[r] # ruleState[r]

\* The account the row names is deleted before the write.
Deserts(e) == /\ edit[e] # None /\ edit'[e] = edit[e]
              /\ edit[e].row.account \notin live'

Watch == /\ overtaken' = (overtaken \/ \E e \in Editors : Overtakes(e))
         /\ deserted' = deserted \cup {edit[e].rule : e \in {e \in Editors : Deserts(e)}}

Next == /\ \/ Tick \/ UserStep \/ GenerateDue \/ VisitRule
           \/ \E p \in Procs : Generation(p)
           \/ Restart
        /\ Watch

Spec == Init /\ [][Next]_vars

\* The scheduler's ticker keeps firing and a started transaction runs to its
\* end; PostgreSQL serves a row lock in the order it was asked for.
Fairness ==
    /\ WF_vars(GenerateDue /\ Watch) /\ WF_vars(VisitRule /\ Watch)
    /\ SF_vars(Lock(Worker) /\ Watch)
    /\ \A p \in Procs : /\ WF_vars(Lock(p) /\ Watch)
                        /\ WF_vars((Occur(p) \/ Commit(p)) /\ Watch)

LiveSpec == Spec /\ Fairness

-----------------------------------------------------------------------------
Job == [rule : Rules, now : Days, locked : BOOLEAN, copy : Rule \cup {None},
        dates : [Days -> Nat], left : 0..MaxCatchUp]

\* The shape of the state; a process holds a copy of the rule exactly while it
\* holds the row's lock.
TypeOK ==
    /\ now \in Days
    /\ ruleState \in [Rules -> {"absent", "live", "deleted"}]
    /\ rule \in [Rules -> Rule \cup {None}]
    /\ \A r \in Rules : ruleState[r] # "absent" => rule[r] # None
    /\ live \subseteq Accounts
    /\ made \in [Rules -> [Days -> Nat]]
    /\ job \in [Procs -> Job \cup {None}]
    /\ \A p \in Procs : job[p] # None => (job[p].locked <=> job[p].copy # None)
    /\ queue \subseteq Rules \X Days
    /\ edit \in [Editors -> [rule : Rules, row : Rule, new : BOOLEAN] \cup {None}]
    /\ edits \in 0..MaxEdits
    /\ restarts \in 0..MaxRestarts
    /\ overtaken \in BOOLEAN
    /\ deserted \subseteq Rules

\* No edit makes the schedule run again: every day is generated at most once.
NoReplay == \A r \in Rules, d \in Days : made[r][d] <= 1

\* That holds, whatever the worker, the users running and editing the rule and
\* restarts do, until an edit writes back a row that changed after its read.
OncePerDay == ~overtaken => NoReplay

\* A rule's transactions: its n-th of a day.
Generated(r) == UNION {{d} \X (1..made[r][d]) : d \in Days}

\* The stored count is the number of transactions the rule has generated; the
\* position on the schedule and the maximum are computed from it.
CountIsExact ==
    ~overtaken => \A r \in Rules : rule[r] # None =>
        rule[r].count = Cardinality(Generated(r))

\* A rule that is never edited generates the days start, start + interval, ...
\* without a gap, also when it catches up over several passes and restarts.
NoGaps ==
    \A r \in Rules : rule[r] # None =>
        \A d \in Days : made[r][d] = 1 <=>
            \E n \in 0..(rule[r].count - 1) :
                d = Nth(rule[r].start, rule[r].interval, n)

\* Nothing is generated into a deleted account, but for the rules a creation or
\* an edit was about to write when their account was deleted: the write follows
\* the look-up without another, and run-now never looks at the account.
OnlyIntoLiveAccounts ==
    [][\A r \in Rules : made'[r] # made[r] /\ r \notin deserted =>
           rule[r].account \in live]_vars

\* A due rule is worked off: whatever it owes up to today is generated, or it
\* stops being due for another reason.
DueIsServed == \A r \in Rules : Due(r) ~> ~Due(r)
=============================================================================
