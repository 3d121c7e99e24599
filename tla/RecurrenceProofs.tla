------------------------- MODULE RecurrenceProofs -------------------------
(***************************************************************************)
(* Recurrence keeps its state well-formed, generates no day of a rule      *)
(* twice as long as no edit writes back a row that changed after its read, *)
(* and generates nothing into a deleted account but for the rules that     *)
(* were about to be written when it was deleted: for every set of rules,   *)
(* accounts and users, every horizon and every cap on the occurrences of   *)
(* one transaction.                                                        *)
(***************************************************************************)
EXTENDS Recurrence, FunctionTheorems, FiniteSetTheorems, TLAPS

-----------------------------------------------------------------------------
(* The operators on a rule. *)

\* A position on a schedule is a day number.
LEMMA NthIsNat ==
    ASSUME NEW start \in Nat, NEW interval \in Nat, NEW n \in Nat
    PROVE  Nth(start, interval, n) \in Nat
<1>1. interval * n \in Nat
  OBVIOUS
<1> QED
  BY <1>1 DEF Nth

\* Advancing keeps a rule well-formed and moves its cursor forward.
LEMMA AdvanceMoves ==
    ASSUME NEW c \in Rule
    PROVE  /\ Advance(c) \in Rule
           /\ Advance(c).next > c.next
           /\ [Advance(c) EXCEPT !.active = FALSE] \in Rule
           /\ [c EXCEPT !.active = FALSE] \in Rule
<1> DEFINE count == c.count + 1
           anchored == Nth(c.start, c.interval, count)
           next == IF anchored > c.next THEN anchored ELSE Following(c.next, c.interval)
<1>1. c.start \in Nat /\ c.interval \in Nat /\ c.interval > 0
      /\ c.count \in Nat /\ count \in Nat /\ c.next \in Nat
  BY HorizonAssumption DEF Rule, Days
<1> HIDE DEF count
<1>2. anchored \in Nat
  BY <1>1, NthIsNat
<1>3. next \in Nat /\ next > c.next
  BY <1>1, <1>2 DEF Following
<1>4. Advance(c) = [c EXCEPT !.count = count, !.next = next]
  BY DEF Advance, count
<1> HIDE DEF next
<1>5. Advance(c) \in Rule /\ Advance(c).next = next
  <2>1. [c EXCEPT !.count = count, !.next = next] \in Rule
    BY <1>1, <1>3 DEF Rule
  <2> QED
    BY <1>4, <2>1 DEF Rule
<1> QED
  BY <1>3, <1>5 DEF Rule

\* An edit keeps a rule well-formed and leaves its cursor alone.
LEMMA ApplyKeepsCursor ==
    ASSUME NEW c \in Rule, NEW f \in Forms, NEW account \in Accounts
    PROVE  Apply(c, f, account) \in Rule /\ Apply(c, f, account).next = c.next
<1>1. f \in Form
  BY FormsAssumption
<1> DEFINE active == IF f.active = None THEN c.active ELSE f.active
<1>2. active \in BOOLEAN
  BY <1>1 DEF Form, Rule
<1>3. Apply(c, f, account) =
        [c EXCEPT !.account = account, !.start = f.start, !.interval = f.interval,
                  !.end = f.end, !.max = f.max, !.active = active]
  BY DEF Apply
<1> HIDE DEF active
<1> QED
  BY <1>1, <1>2, <1>3 DEF Form, Rule

\* A created rule starts with its start date and no occurrence.
LEMMA FreshIsRule ==
    ASSUME NEW f \in Forms
    PROVE  /\ Fresh(f) \in Rule /\ Fresh(f) # None
           /\ f.start \in Nat /\ f.interval \in Nat
<1>1. f.start \in Nat /\ f.interval \in Nat /\ Fresh(f) \in Rule
  BY FormsAssumption, HorizonAssumption DEF Form, Rule, Days, Fresh
<1> QED
  BY <1>1, NamesAssumption

-----------------------------------------------------------------------------
(* The inductive invariant: what is generated lies before the cursor, what is *)
(* being generated lies between the stored cursor and that of the copy, and   *)
(* one process at a time holds a rule.                                        *)

Holding(p) == job[p] # None /\ job[p].copy # None

BehindCursor ==
    \A r \in Rules, d \in Days :
        made[r][d] > 0 => rule[r] # None /\ d < rule[r].next

JobAhead(p) ==
    LET j == job[p]
    IN  /\ rule[j.rule] # None
        /\ rule[j.rule].next <= j.copy.next
        /\ \A d \in Days : /\ j.dates[d] <= 1
                           /\ j.dates[d] > 0 => /\ rule[j.rule].next <= d
                                                /\ d < j.copy.next

JobsAhead == \A p \in Procs : Holding(p) => JobAhead(p)

JobsFresh ==
    \A p \in Procs : job[p] # None /\ job[p].copy = None =>
        \A d \in Days : job[p].dates[d] = 0

OneHolder ==
    \A p, q \in Procs : Holding(p) /\ Holding(q) /\ p # q => job[p].rule # job[q].rule

AbsentEmpty == \A r \in Rules : ruleState[r] = "absent" => rule[r] = None

Cursors == /\ BehindCursor /\ JobsAhead /\ JobsFresh /\ OneHolder
           /\ AbsentEmpty /\ NoReplay

\* A pending edit writes the cursor that is stored.
PendingFresh ==
    \A e \in Editors : edit[e] # None /\ ~edit[e].new =>
        /\ rule[edit[e].rule] # None
        /\ edit[e].row.next = rule[edit[e].rule].next

IInv == ~overtaken => Cursors /\ PendingFresh

-----------------------------------------------------------------------------
\* The initial state satisfies the type invariant.
LEMMA InitTypes == Init => TypeOK
<1> SUFFICES ASSUME Init PROVE TypeOK
  OBVIOUS
<1>1. Horizon \in Nat /\ 0 \in Days /\ MaxRestarts \in Nat /\ MaxEdits \in Nat
  BY HorizonAssumption, BoundAssumption DEF Days
<1>2. made \in [Rules -> [Days -> Nat]]
  BY DEF Init
<1>3. overtaken \in BOOLEAN /\ deserted \subseteq Rules
  BY Zenon DEF Init
<1> QED
  BY <1>1, <1>2, <1>3 DEF Init, TypeOK

\* What TypeOK says of one process's job.
LEMMA JobTypes ==
    ASSUME TypeOK, NEW p \in Procs, job[p] # None
    PROVE  /\ job[p] \in Job
           /\ job[p].rule \in Rules
           /\ job[p].now \in Days
           /\ job[p].dates \in [Days -> Nat]
           /\ job[p].left \in 0..MaxCatchUp
           /\ job[p].copy # None => job[p].copy \in Rule
  BY DEF TypeOK, Job

\* What TypeOK says of one live rule.
LEMMA RuleTypes ==
    ASSUME TypeOK, NEW r \in Rules, rule[r] # None
    PROVE  rule[r] \in Rule /\ rule[r].next \in Nat
  BY DEF TypeOK, Rule

\* A job that has just been started is well-formed.
LEMMA WaitingIsJob ==
    ASSUME NEW r \in Rules, NEW day \in Days
    PROVE  /\ Waiting(r, day) \in Job
           /\ ~Waiting(r, day).locked /\ Waiting(r, day).copy = None
           /\ \A d \in Days : Waiting(r, day).dates[d] = 0
<1>1. MaxCatchUp \in 0..MaxCatchUp
  BY HorizonAssumption
<1>2. [d \in Days |-> 0] \in [Days -> Nat]
  OBVIOUS
<1> QED
  BY <1>1, <1>2 DEF Waiting, Job

\* A round of the loop keeps the job well-formed, moves its copy's cursor
\* forward and adds the day the cursor was on.
LEMMA OccurredJob ==
    ASSUME NEW j \in Job, j.copy # None, Continues(j)
    PROVE  /\ Occurred(j) \in Job
           /\ Occurred(j).rule = j.rule /\ Occurred(j).locked = j.locked
           /\ Occurred(j).copy \in Rule
           /\ Occurred(j).copy.next > j.copy.next
           /\ j.copy.next \in Days
           /\ Occurred(j).dates = [j.dates EXCEPT ![j.copy.next] = @ + 1]
<1> DEFINE after == Advance(j.copy)
           copy == IF Exhausted(after) THEN [after EXCEPT !.active = FALSE] ELSE after
           dates == [j.dates EXCEPT ![j.copy.next] = @ + 1]
<1>1. j.copy \in Rule /\ j.copy.next \in Nat /\ j.now \in Days /\ j.left \in 0..MaxCatchUp
      /\ j.dates \in [Days -> Nat]
  BY DEF Job, Rule
<1>2. j.copy.next \in Days /\ j.left - 1 \in 0..MaxCatchUp
  BY <1>1, HorizonAssumption DEF Continues, Days
<1>3. copy \in Rule /\ copy.next > j.copy.next
  <2>1. after \in Rule /\ after.next > j.copy.next /\ [after EXCEPT !.active = FALSE] \in Rule
    BY <1>1, AdvanceMoves
  <2>2. [after EXCEPT !.active = FALSE].next = after.next
    BY <2>1 DEF Rule
  <2> QED
    BY <2>1, <2>2
<1>4. dates \in [Days -> Nat]
  BY <1>1, <1>2
<1>5. Occurred(j) = [j EXCEPT !.copy = copy, !.dates = dates, !.left = j.left - 1]
  BY DEF Occurred, Job
<1> HIDE DEF copy, dates
<1>6. Occurred(j) \in Job /\ Occurred(j).rule = j.rule /\ Occurred(j).locked = j.locked
      /\ Occurred(j).copy = copy /\ Occurred(j).dates = dates
  BY <1>2, <1>3, <1>4, <1>5, HorizonAssumption DEF Job
<1> QED
  BY <1>2, <1>3, <1>6 DEF dates

-----------------------------------------------------------------------------
\* Every step keeps the shape of the state.
LEMMA NextTypes ==
    ASSUME TypeOK, [Next]_vars
    PROVE  TypeOK'
<1>w. overtaken' \in BOOLEAN /\ deserted' \subseteq Rules
  <2>1. \A e \in Editors : edit[e] # None => edit[e].rule \in Rules
    BY DEF TypeOK
  <2>2. {edit[e].rule : e \in {e \in Editors : Deserts(e)}} \subseteq Rules
    BY <2>1 DEF Deserts
  <2>3. overtaken' \in BOOLEAN
    BY DEF TypeOK, Next, Watch, vars
  <2>4. \/ deserted' = deserted \cup {edit[e].rule : e \in {e \in Editors : Deserts(e)}}
        \/ deserted' = deserted
    BY DEF Next, Watch, vars
  <2> QED
    BY <2>2, <2>3, <2>4 DEF TypeOK
<1> USE <1>w DEF TypeOK
<1>0. Horizon \in Nat /\ MaxEdits \in Nat /\ MaxRestarts \in Nat
  BY HorizonAssumption, BoundAssumption
<1>1. CASE Tick
  BY <1>0, <1>1 DEF Tick, Days
<1>2. ASSUME NEW e \in Editors, NEW r \in Rules, NEW f \in Forms, CreateRead(e, r, f)
      PROVE  TypeOK'
  <2>1. edit' \in [Editors -> [rule : Rules, row : Rule, new : BOOLEAN] \cup {None}]
    BY <1>2, FreshIsRule DEF CreateRead
  <2> QED
    BY <1>2, <2>1 DEF CreateRead
<1>4. ASSUME NEW e \in Editors, NEW r \in Rules, NEW f \in Forms, NEW a \in Accounts,
             UpdateRead(e, r, f, a)
      PROVE  TypeOK'
  <2>1. rule[r] \in Rule
    BY <1>4 DEF UpdateRead, LiveRule
  <2>2. Apply(rule[r], f, a) \in Rule
    BY <2>1, ApplyKeepsCursor
  <2>3. edit' \in [Editors -> [rule : Rules, row : Rule, new : BOOLEAN] \cup {None}]
    BY <1>4, <2>2 DEF UpdateRead
  <2>5. edits' \in 0..MaxEdits
    BY <1>0, <1>4 DEF UpdateRead
  <2> QED
    BY <1>4, <2>3, <2>5 DEF UpdateRead
<1>5. ASSUME NEW e \in Editors, CreateInsert(e) \/ UpdateSave(e)
      PROVE  TypeOK'
  <2>0. /\ edit[e] # None
        /\ ruleState' = [ruleState EXCEPT ![edit[e].rule] = "live"]
        /\ rule' = [rule EXCEPT ![edit[e].rule] = edit[e].row]
        /\ edit' = [edit EXCEPT ![e] = None]
        /\ UNCHANGED <<now, live, made, job, queue, edits, restarts>>
    BY <1>5 DEF CreateInsert, UpdateSave
  <2>1. edit[e].rule \in Rules /\ edit[e].row \in Rule
    BY <2>0
  <2>2. edit[e].row # None
    BY <2>1, NamesAssumption
  <2>3. rule' \in [Rules -> Rule \cup {None}]
    BY <2>0, <2>1
  <2>4. \A q \in Rules : ruleState'[q] # "absent" => rule'[q] # None
    BY <2>0, <2>1, <2>2
  <2>5. ruleState' \in [Rules -> {"absent", "live", "deleted"}]
    BY <2>0
  <2>6. edit' \in [Editors -> [rule : Rules, row : Rule, new : BOOLEAN] \cup {None}]
    BY <2>0
  <2> QED
    BY <2>0, <2>3, <2>4, <2>5, <2>6
<1>6. ASSUME NEW r \in Rules, Delete(r)
      PROVE  TypeOK'
  BY <1>6 DEF Delete, LiveRule
<1>7. ASSUME NEW a \in Accounts, DeleteAccount(a)
      PROVE  TypeOK'
  BY <1>7 DEF DeleteAccount, LiveRule
<1>8. ASSUME NEW p \in Procs, NEW r \in Rules, NEW day \in Days,
             job' = [job EXCEPT ![p] = Waiting(r, day)]
      PROVE  /\ job' \in [Procs -> Job \cup {None}]
             /\ \A q \in Procs : job'[q] # None => (job'[q].locked <=> job'[q].copy # None)
  BY <1>8, WaitingIsJob
<1>9. ASSUME NEW p \in Callers, NEW r \in Rules, RunNow(p, r)
      PROVE  TypeOK'
  BY <1>8, <1>9 DEF RunNow, Procs
<1>10. CASE GenerateDue
  BY <1>10 DEF GenerateDue
<1>11. CASE VisitRule
  <2>1. PICK visit \in queue : /\ queue' = queue \ {visit}
                              /\ job' = [job EXCEPT ![Worker] = Waiting(visit[1], visit[2])]
    BY <1>11 DEF VisitRule
  <2>2. visit[1] \in Rules /\ visit[2] \in Days /\ Worker \in Procs
    BY DEF Procs
  <2> QED
    BY <1>8, <1>11, <2>1, <2>2 DEF VisitRule
<1>12. ASSUME NEW p \in Procs, Lock(p)
       PROVE  TypeOK'
  <2>1. job[p] \in Job /\ job[p].rule \in Rules
    BY <1>12, JobTypes DEF Lock
  <2>2. CASE LiveRule(job[p].rule)
    <3> DEFINE copy == rule[job[p].rule]
               locked == [job[p] EXCEPT !.locked = TRUE, !.copy = copy]
    <3>1. copy \in Rule /\ copy # None
      BY <2>1, <2>2, NamesAssumption DEF LiveRule
    <3>2. locked \in Job /\ locked.locked /\ locked.copy # None
      BY <2>1, <3>1 DEF Job
    <3>3. job' = [job EXCEPT ![p] = locked]
      BY <1>12, <2>2 DEF Lock
    <3> HIDE DEF locked
    <3> QED
      BY <1>12, <3>2, <3>3 DEF Lock
  <2>3. CASE ~LiveRule(job[p].rule)
    BY <1>12, <2>3 DEF Lock
  <2> QED
    BY <2>2, <2>3
<1>13. ASSUME NEW p \in Procs, Occur(p)
       PROVE  TypeOK'
  <2>1. job[p] \in Job /\ job[p].copy # None /\ job[p].locked
    BY <1>13, JobTypes DEF Occur
  <2>2. /\ Occurred(job[p]) \in Job /\ Occurred(job[p]).locked
        /\ Occurred(job[p]).copy # None
    BY <1>13, <2>1, OccurredJob, NamesAssumption DEF Occur
  <2>3. job' = [job EXCEPT ![p] = Occurred(job[p])]
    BY <1>13 DEF Occur
  <2> QED
    BY <1>13, <2>2, <2>3 DEF Occur
<1>14. ASSUME NEW p \in Procs, Commit(p)
       PROVE  TypeOK'
  <2> DEFINE r == job[p].rule
             row == IF Continues(job[p]) THEN [job[p].copy EXCEPT !.active = FALSE]
                    ELSE job[p].copy
             days == [d \in Days |-> made[r][d] + job[p].dates[d]]
  <2>1. r \in Rules /\ job[p].copy \in Rule /\ job[p].dates \in [Days -> Nat]
    BY <1>14, JobTypes DEF Commit
  <2>2. row \in Rule
    BY <2>1, AdvanceMoves
  <2>3. row # None
    BY <2>2, NamesAssumption
  <2>4. days \in [Days -> Nat]
    BY <2>1
  <2>5. rule' = [rule EXCEPT ![r] = row] /\ made' = [made EXCEPT ![r] = days]
    BY <1>14 DEF Commit
  <2> HIDE DEF row, days
  <2>6. rule' \in [Rules -> Rule \cup {None}] /\ made' \in [Rules -> [Days -> Nat]]
    BY <2>1, <2>2, <2>4, <2>5
  <2>7. \A q \in Rules : ruleState'[q] # "absent" => rule'[q] # None
    BY <1>14, <2>3, <2>5 DEF Commit
  <2>8. /\ job' \in [Procs -> Job \cup {None}]
        /\ \A q \in Procs : job'[q] # None => (job'[q].locked <=> job'[q].copy # None)
    BY <1>14 DEF Commit
  <2> QED
    BY <1>14, <2>6, <2>7, <2>8 DEF Commit
<1>15. CASE Restart
  BY <1>0, <1>15 DEF Restart
<1>16. CASE UNCHANGED vars
  BY <1>16 DEF vars
<1> QED
  BY <1>1, <1>2, <1>4, <1>5, <1>6, <1>7, <1>9, <1>10, <1>11, <1>12, <1>13,
     <1>14, <1>15, <1>16 DEF Next, UserStep, Generation

\* The stored rules, the jobs and the requests keep their shape, and a process
\* holds a copy of a rule exactly while it holds the row's lock: for every
\* number of rules, users, days and occurrences per transaction.
THEOREM RecurrenceTypes == Spec => []TypeOK
<1>1. Init => TypeOK
  BY InitTypes
<1>2. TypeOK /\ [Next]_vars => TypeOK'
  BY NextTypes
<1> QED
  BY <1>1, <1>2, PTL DEF Spec

-----------------------------------------------------------------------------
(* Creations under way.  The id of a rule about to be inserted is nobody     *)
(* else's and has no row yet; an edit is of a rule that has one.             *)

Draft(e) ==
    /\ ruleState[edit[e].rule] = "absent"
    /\ \E f \in Forms : edit[e].row = Fresh(f)
    /\ \A q \in Editors : q # e /\ edit[q] # None => edit[q].rule # edit[e].rule

Drafts ==
    \A e \in Editors : edit[e] # None =>
        IF edit[e].new THEN Draft(e) ELSE ruleState[edit[e].rule] # "absent"

\* Inserting a rule: the row of some form, under an id that had none.
Created(r, f) ==
    /\ ruleState[r] = "absent"
    /\ ruleState' = [ruleState EXCEPT ![r] = "live"]
    /\ rule' = [rule EXCEPT ![r] = Fresh(f)]
    /\ UNCHANGED <<now, live, made, job, queue, edits, restarts>>

LEMMA InsertCreates ==
    ASSUME TypeOK, Drafts, NEW e \in Editors, CreateInsert(e)
    PROVE  edit[e].rule \in Rules /\ \E f \in Forms : Created(edit[e].rule, f)
BY DEF TypeOK, Drafts, Draft, CreateInsert, Created

LEMMA NextDrafts ==
    ASSUME TypeOK, Drafts, [Next]_vars
    PROVE  Drafts'
<1>1. ASSUME NEW e \in Editors, NEW r \in Rules, NEW f \in Forms, CreateRead(e, r, f)
      PROVE  Drafts'
  <2>1. /\ edit'[e] = [rule |-> r, row |-> Fresh(f), new |-> TRUE]
        /\ \A q \in Editors : q # e => edit'[q] = edit[q]
        /\ ruleState' = ruleState /\ ruleState[r] = "absent"
        /\ \A q \in Editors : edit[q] # None => edit[q].rule # r
    BY <1>1 DEF CreateRead, TypeOK
  <2>2. Draft(e)'
    BY <2>1 DEF Draft
  <2>3. ASSUME NEW q \in Editors, q # e, edit[q] # None, Draft(q)
        PROVE  Draft(q)'
    BY <2>1, <2>3 DEF Draft
  <2> QED
    BY <2>1, <2>2, <2>3 DEF Drafts
<1>2. ASSUME NEW e \in Editors, NEW r \in Rules, NEW f \in Forms, NEW a \in Accounts,
             UpdateRead(e, r, f, a)
      PROVE  Drafts'
  <2>1. /\ edit'[e].rule = r /\ ~edit'[e].new
        /\ \A q \in Editors : q # e => edit'[q] = edit[q]
        /\ ruleState' = ruleState /\ ruleState[r] = "live"
    BY <1>2 DEF UpdateRead, LiveRule, TypeOK
  <2>2. ASSUME NEW q \in Editors, q # e, edit[q] # None, Draft(q)
        PROVE  Draft(q)'
    BY <2>1, <2>2 DEF Draft
  <2> QED
    BY <2>1, <2>2 DEF Drafts
<1>3. ASSUME NEW e \in Editors, CreateInsert(e) \/ UpdateSave(e)
      PROVE  Drafts'
  <2>1. /\ edit'[e] = None /\ edit[e] # None
        /\ \A q \in Editors : q # e => edit'[q] = edit[q]
        /\ ruleState' = [ruleState EXCEPT ![edit[e].rule] = "live"]
        /\ edit[e].rule \in Rules
    BY <1>3 DEF CreateInsert, UpdateSave, TypeOK
  <2>2. ASSUME NEW q \in Editors, q # e, edit[q] # None, Draft(q)
        PROVE  Draft(q)'
    <3>1. edit[q].rule \in Rules /\ edit[q].rule # edit[e].rule
      BY <2>1, <2>2 DEF Draft, TypeOK
    <3> QED
      BY <2>1, <2>2, <3>1 DEF Draft, TypeOK
  <2>3. \A q \in Editors : edit[q] # None => edit[q].rule \in Rules
    BY DEF TypeOK
  <2> QED
    BY <2>1, <2>2, <2>3 DEF Drafts, TypeOK
<1>4. ASSUME edit' = edit, \A r \in Rules : ruleState'[r] = "absent" <=> ruleState[r] = "absent"
      PROVE  Drafts'
  <2>1. \A q \in Editors : edit[q] # None => edit[q].rule \in Rules
    BY DEF TypeOK
  <2> QED
    BY <1>4, <2>1 DEF Drafts, Draft
<1>5. ASSUME \/ \E r \in Rules : Delete(r)
             \/ \E a \in Accounts : DeleteAccount(a)
      PROVE  Drafts'
  BY <1>4, <1>5 DEF Delete, DeleteAccount, LiveRule, TypeOK
<1>6. CASE edit' = edit /\ ruleState' = ruleState
  BY <1>4, <1>6
<1>7. CASE Restart
  <2>1. \A e \in Editors : edit'[e] = None
    BY <1>7 DEF Restart
  <2> QED
    BY <2>1 DEF Drafts
<1> QED
  BY <1>1, <1>2, <1>3, <1>5, <1>6, <1>7
  DEF Next, UserStep, Tick, RunNow, GenerateDue, VisitRule, Generation, Lock, Occur, Commit, vars

LEMMA DraftsInvariant == Spec => []Drafts
<1>1. Init => Drafts
  BY DEF Init, Drafts
<1>2. TypeOK /\ Drafts /\ [Next]_vars => Drafts'
  BY NextDrafts
<1> QED
  BY <1>1, <1>2, RecurrenceTypes, PTL DEF Spec

-----------------------------------------------------------------------------
\* Initially nothing is generated and nobody holds a rule.
LEMMA InitInvariant == Init => IInv
  BY DEF Init, IInv, PendingFresh, Cursors, BehindCursor, JobsAhead, JobsFresh, OneHolder, Holding,
         AbsentEmpty, NoReplay

\* What the invariant says survives a step that changes no row's cursor, nothing
\* generated and no job.
LEMMA CursorsKept ==
    ASSUME TypeOK, Cursors, made' = made, job' = job, AbsentEmpty',
           \A r \in Rules : rule[r] # None => rule'[r] # None /\ rule'[r].next = rule[r].next
    PROVE  Cursors'
<1>1. BehindCursor'
  BY DEF Cursors, BehindCursor
<1>2. JobsAhead'
  <2> SUFFICES ASSUME NEW p \in Procs, Holding(p)
               PROVE  JobAhead(p)'
    BY DEF JobsAhead, Holding
  <2>1. job[p].rule \in Rules /\ JobAhead(p)
    BY JobTypes DEF Cursors, JobsAhead, Holding
  <2> QED
    BY <2>1 DEF JobAhead
<1> QED
  BY <1>1, <1>2 DEF Cursors, JobsFresh, OneHolder, Holding, NoReplay

\* It survives a step that only ends jobs or starts them without a copy.
LEMMA NoNewHolder ==
    ASSUME TypeOK, Cursors, made' = made, rule' = rule, AbsentEmpty',
           \A p \in Procs : \/ job'[p] = job[p]
                            \/ job'[p] = None
                            \/ /\ job'[p].copy = None
                               /\ \A d \in Days : job'[p].dates[d] = 0
    PROVE  Cursors'
<1>1. \A p \in Procs : Holding(p)' => Holding(p) /\ job'[p] = job[p]
  BY DEF Holding
<1>2. JobsAhead'
  BY <1>1 DEF Cursors, JobsAhead, JobAhead
<1>3. JobsFresh' /\ OneHolder'
  BY <1>1 DEF Cursors, JobsFresh, OneHolder
<1> QED
  BY <1>2, <1>3 DEF Cursors, BehindCursor, NoReplay

\* Taking the lock: the copy is the stored rule and nobody else holds it.
LEMMA LockKeeps ==
    ASSUME TypeOK, Cursors, NEW p \in Procs, Lock(p)
    PROVE  Cursors'
<1>1. job[p] \in Job /\ job[p].rule \in Rules /\ job[p] # None /\ job[p].copy = None
  BY JobTypes DEF Lock
<1>2. CASE LiveRule(job[p].rule)
  <2> DEFINE copy == rule[job[p].rule]
             locked == [job[p] EXCEPT !.locked = TRUE, !.copy = copy]
  <2>1. copy \in Rule /\ copy.next \in Nat /\ copy # None
    BY <1>1, <1>2, NamesAssumption DEF LiveRule, TypeOK, Rule
  <2>2. /\ locked.rule = job[p].rule /\ locked.copy = copy
        /\ locked.dates = job[p].dates
    BY <1>1, <2>1 DEF Job
  <2>3. job' = [job EXCEPT ![p] = locked] /\ rule' = rule
    BY <1>2 DEF Lock
  <2> HIDE DEF locked
  <2>4. job'[p] = locked /\ \A q \in Procs : q # p => job'[q] = job[q]
    BY <2>3 DEF TypeOK
  <2>5. \A d \in Days : job[p].dates[d] = 0
    BY <1>1 DEF Cursors, JobsFresh
  <2>6. JobsAhead'
    <3> SUFFICES ASSUME NEW q \in Procs, Holding(q)'
                 PROVE  JobAhead(q)'
      BY DEF JobsAhead
    <3>1. CASE q = p
      BY <2>1, <2>2, <2>3, <2>4, <2>5, <3>1 DEF JobAhead
    <3>2. CASE q # p
      BY <2>3, <2>4, <3>2 DEF Cursors, JobsAhead, JobAhead, Holding
    <3> QED
      BY <3>1, <3>2
  <2>7. \A q \in Procs : Holding(q) => job[q].rule # job[p].rule
    BY DEF Lock, Locked, Holding, TypeOK
  <2>8. OneHolder'
    BY <2>2, <2>4, <2>7 DEF Cursors, OneHolder, Holding
  <2>9. JobsFresh'
    BY <2>1, <2>2, <2>4 DEF Cursors, JobsFresh
  <2> QED
    BY <2>6, <2>8, <2>9
    DEF Lock, Cursors, BehindCursor, AbsentEmpty, NoReplay
<1>3. CASE ~LiveRule(job[p].rule)
  <2>1. job' = [job EXCEPT ![p] = None]
    BY <1>3 DEF Lock
  <2>2. \A q \in Procs : job'[q] = job[q] \/ job'[q] = None
    BY <2>1 DEF TypeOK
  <2>3. AbsentEmpty'
    BY DEF Lock, Cursors, AbsentEmpty
  <2> QED
    BY <2>2, <2>3, NoNewHolder DEF Lock
<1> QED
  BY <1>2, <1>3

\* A round of the loop: the new day is the copy's cursor, which no day generated
\* so far has reached.
LEMMA OccurKeeps ==
    ASSUME TypeOK, Cursors, NEW p \in Procs, Occur(p)
    PROVE  Cursors'
<1> DEFINE old == job[p]
           new == Occurred(job[p])
<1>1. old \in Job /\ old.rule \in Rules /\ old.dates \in [Days -> Nat] /\ Holding(p)
      /\ old.copy \in Rule /\ old.copy.next \in Nat
  BY JobTypes DEF Occur, Holding, Rule
<1>2. /\ new.rule = old.rule /\ new.copy \in Rule /\ new.copy.next > old.copy.next
      /\ new.copy.next \in Nat
      /\ old.copy.next \in Days
      /\ new.dates = [old.dates EXCEPT ![old.copy.next] = @ + 1]
  BY <1>1, OccurredJob DEF Occur, Holding, Rule
<1>3. JobAhead(p) /\ rule[old.rule].next \in Nat
  BY <1>1, RuleTypes DEF Cursors, JobsAhead, JobAhead
<1>4. job' = [job EXCEPT ![p] = new] /\ rule' = rule
  BY DEF Occur
<1> HIDE DEF new
<1>5. job'[p] = new /\ \A q \in Procs : q # p => job'[q] = job[q]
  BY <1>4 DEF TypeOK
<1>6. Days \subseteq Nat
  BY HorizonAssumption DEF Days
<1>7. JobAhead(p)'
  <2> SUFFICES ASSUME NEW d \in Days
               PROVE  /\ new.dates[d] <= 1
                      /\ new.dates[d] > 0 => rule[old.rule].next <= d /\ d < new.copy.next
    BY <1>1, <1>2, <1>3, <1>4, <1>5 DEF JobAhead
  <2>1. CASE d = old.copy.next
    <3>1. old.dates[d] \in Nat /\ ~(old.dates[d] > 0)
      BY <1>1, <1>3, <1>6, <2>1 DEF JobAhead
    <3>2. new.dates[d] = 1
      BY <1>1, <1>2, <2>1, <3>1
    <3> QED
      BY <1>2, <1>3, <2>1, <3>2 DEF JobAhead
  <2>2. CASE d # old.copy.next
    <3>1. new.dates[d] = old.dates[d]
      BY <1>1, <1>2, <2>2
    <3> QED
      BY <1>1, <1>2, <1>3, <1>6, <3>1 DEF JobAhead
  <2> QED
    BY <2>1, <2>2
<1>8. JobsAhead'
  <2> SUFFICES ASSUME NEW q \in Procs, q # p, Holding(q)'
               PROVE  JobAhead(q)'
    BY <1>7 DEF JobsAhead
  <2> QED
    BY <1>4, <1>5 DEF Cursors, JobsAhead, JobAhead, Holding
<1>9. new.copy # None
  BY <1>2, NamesAssumption
<1>10. OneHolder'
  BY <1>1, <1>2, <1>5 DEF Cursors, OneHolder, Holding
<1>11. JobsFresh'
  BY <1>5, <1>9 DEF Cursors, JobsFresh
<1> QED
  BY <1>8, <1>10, <1>11
  DEF Occur, Cursors, BehindCursor, AbsentEmpty, NoReplay

\* Committing: the days added are at or after the stored cursor and before the
\* new one, and nobody else holds the rule.
LEMMA CommitKeeps ==
    ASSUME TypeOK, Cursors, NEW p \in Procs, Commit(p)
    PROVE  Cursors'
<1> DEFINE r == job[p].rule
           copy == job[p].copy
           row == IF Continues(job[p]) THEN [copy EXCEPT !.active = FALSE] ELSE copy
           days == [d \in Days |-> made[r][d] + job[p].dates[d]]
<1>1. /\ r \in Rules /\ copy \in Rule /\ copy.next \in Nat /\ Holding(p)
      /\ job[p].dates \in [Days -> Nat]
  BY JobTypes DEF Commit, Holding, Rule
<1>2. row \in Rule /\ row # None /\ row.next = copy.next
  BY <1>1, AdvanceMoves, NamesAssumption DEF Rule
<1>3. /\ rule' = [rule EXCEPT ![r] = row] /\ made' = [made EXCEPT ![r] = days]
      /\ job' = [job EXCEPT ![p] = None]
  BY DEF Commit
<1>4. JobAhead(p) /\ rule[r].next \in Nat
  BY <1>1, RuleTypes DEF Cursors, JobsAhead, JobAhead
<1>5. Days \subseteq Nat
  BY HorizonAssumption DEF Days
<1>6. \A d \in Days : made[r][d] \in Nat /\ job[p].dates[d] \in Nat
  BY <1>1 DEF TypeOK
<1>7. \A d \in Days : days[d] <= 1 /\ (days[d] > 0 => d < copy.next)
  <2> SUFFICES ASSUME NEW d \in Days
               PROVE  days[d] <= 1 /\ (days[d] > 0 => d < copy.next)
    OBVIOUS
  <2>1. made[r][d] <= 1 /\ (made[r][d] > 0 => d < rule[r].next)
    BY <1>1 DEF Cursors, NoReplay, BehindCursor
  <2>2. /\ job[p].dates[d] <= 1 /\ rule[r].next <= copy.next
        /\ job[p].dates[d] > 0 => rule[r].next <= d /\ d < copy.next
    BY <1>4 DEF JobAhead
  <2>3. d \in Nat
    BY <1>5
  <2> QED
    BY <1>1, <1>4, <1>6, <2>1, <2>2, <2>3
<1> HIDE DEF row, days
<1>8. /\ rule'[r] = row /\ made'[r] = days
      /\ \A q \in Rules : q # r => rule'[q] = rule[q] /\ made'[q] = made[q]
  BY <1>1, <1>3 DEF TypeOK
<1>9. job'[p] = None /\ \A q \in Procs : q # p => job'[q] = job[q]
  BY <1>3 DEF TypeOK
<1>10. BehindCursor'
  BY <1>2, <1>7, <1>8 DEF Cursors, BehindCursor
<1>11. NoReplay'
  BY <1>7, <1>8 DEF Cursors, NoReplay
<1>12. JobsAhead'
  <2> SUFFICES ASSUME NEW q \in Procs, Holding(q)'
               PROVE  JobAhead(q)'
    BY DEF JobsAhead
  <2>1. q # p /\ job'[q] = job[q] /\ Holding(q)
    BY <1>9 DEF Holding
  <2>2. job[q].rule \in Rules /\ job[q].rule # r
    BY <1>1, <2>1, JobTypes DEF Cursors, OneHolder, Holding
  <2>3. rule'[job[q].rule] = rule[job[q].rule]
    BY <1>8, <2>2
  <2> QED
    BY <2>1, <2>3 DEF Cursors, JobsAhead, JobAhead
<1>13. JobsFresh' /\ OneHolder'
  BY <1>9 DEF Cursors, JobsFresh, OneHolder, Holding
<1>14. AbsentEmpty'
  BY <1>1, <1>4, <1>8 DEF Commit, Cursors, AbsentEmpty, JobAhead
<1> QED
  BY <1>10, <1>11, <1>12, <1>13, <1>14 DEF Commit, Cursors

\* A step that begins no edit keeps the pending edits fresh, or it is noticed.
LEMMA PendingStays ==
    ASSUME TypeOK, PendingFresh, [Next]_vars, ~overtaken',
           \A e \in Editors : edit'[e] = None \/ edit'[e].new \/ edit'[e] = edit[e]
    PROVE  PendingFresh'
<1> SUFFICES ASSUME NEW e \in Editors, edit'[e] # None, ~edit'[e].new
             PROVE  /\ rule'[edit'[e].rule] # None
                    /\ edit'[e].row.next = rule'[edit'[e].rule].next
  BY DEF PendingFresh
<1>1. edit'[e] = edit[e] /\ edit[e] # None /\ ~edit[e].new
  OBVIOUS
<1>2. rule'[edit[e].rule] = rule[edit[e].rule]
  BY <1>1 DEF Next, Watch, Overtakes, vars
<1> QED
  BY <1>1, <1>2 DEF PendingFresh

\* The row an edit has read, with its changes, is a fresh one.
LEMMA ReadIsFresh ==
    ASSUME TypeOK, PendingFresh, NEW e \in Editors, NEW r \in Rules, NEW f \in Forms,
           NEW a \in Accounts, UpdateRead(e, r, f, a)
    PROVE  PendingFresh'
<1>1. rule[r] \in Rule /\ rule[r] # None /\ rule' = rule
  BY DEF UpdateRead, LiveRule, TypeOK
<1>2. Apply(rule[r], f, a).next = rule[r].next
  BY <1>1, ApplyKeepsCursor
<1>3. /\ edit'[e] = [rule |-> r, row |-> Apply(rule[r], f, a), new |-> FALSE]
      /\ \A q \in Editors : q # e => edit'[q] = edit[q]
  BY DEF UpdateRead, TypeOK
<1> QED
  BY <1>1, <1>2, <1>3 DEF PendingFresh

\* Every step keeps the cursors as long as no edit has been overtaken.
LEMMA NextCursors ==
    ASSUME TypeOK, Drafts, Cursors, PendingFresh, [Next]_vars
    PROVE  Cursors'
<1>1. CASE Tick
  BY <1>1, CursorsKept DEF Tick, Cursors, AbsentEmpty
<1>2. ASSUME NEW e \in Editors, CreateInsert(e)
      PROVE  Cursors'
  <2> DEFINE r == edit[e].rule
  <2>1. r \in Rules /\ \E f \in Forms : Created(r, f)
    BY <1>2, InsertCreates
  <2> HIDE DEF r
  <2>2. PICK f \in Forms : Created(r, f)
    BY <2>1
  <2>3. rule' = [rule EXCEPT ![r] = Fresh(f)] /\ made' = made /\ job' = job /\ Fresh(f) # None
    BY <2>2, FreshIsRule DEF Created
  <2>4. rule[r] = None
    BY <2>1, <2>2 DEF Created, Cursors, AbsentEmpty
  <2>5. AbsentEmpty'
    BY <2>1, <2>2 DEF Created, Cursors, AbsentEmpty, TypeOK
  <2> QED
    BY <2>1, <2>3, <2>4, <2>5, CursorsKept DEF TypeOK
<1>15. ASSUME NEW e \in Editors, NEW r \in Rules, NEW f \in Forms, CreateRead(e, r, f)
      PROVE  Cursors'
  BY <1>15, CursorsKept DEF CreateRead, Cursors, AbsentEmpty
<1>3. ASSUME NEW e \in Editors, NEW r \in Rules, NEW f \in Forms, NEW a \in Accounts,
             UpdateRead(e, r, f, a)
      PROVE  Cursors'
  BY <1>3, CursorsKept DEF UpdateRead, Cursors, AbsentEmpty
<1>4. ASSUME NEW e \in Editors, UpdateSave(e)
      PROVE  Cursors'
  <2> DEFINE r == edit[e].rule
  <2>1. edit[e] # None /\ ~edit[e].new /\ r \in Rules /\ edit[e].row \in Rule
    BY <1>4 DEF UpdateSave, TypeOK
  <2>2. edit[e].row # None
    BY <2>1, NamesAssumption
  <2>3. edit[e].row.next = rule[r].next
    BY <2>1 DEF PendingFresh
  <2>4. /\ rule' = [rule EXCEPT ![r] = edit[e].row] /\ made' = made /\ job' = job
        /\ ruleState' = [ruleState EXCEPT ![r] = "live"]
    BY <1>4 DEF UpdateSave
  <2>5. AbsentEmpty'
    BY <2>1, <2>4 DEF Cursors, AbsentEmpty, TypeOK
  <2> QED
    BY <2>1, <2>2, <2>3, <2>4, <2>5, CursorsKept DEF TypeOK
<1>6. ASSUME NEW r \in Rules, Delete(r)
      PROVE  Cursors'
  BY <1>6, CursorsKept DEF Delete, LiveRule, Cursors, AbsentEmpty, TypeOK
<1>7. ASSUME NEW a \in Accounts, DeleteAccount(a)
      PROVE  Cursors'
  BY <1>7, CursorsKept DEF DeleteAccount, LiveRule, Cursors, AbsentEmpty
<1>8. ASSUME NEW p \in Procs, NEW r \in Rules, NEW day \in Days,
             job' = [job EXCEPT ![p] = Waiting(r, day)],
             made' = made, rule' = rule, ruleState' = ruleState
      PROVE  Cursors'
  <2>1. \A q \in Procs : job'[q] = job[q] \/ job'[q] = Waiting(r, day)
    BY <1>8 DEF TypeOK
  <2>2. AbsentEmpty'
    BY <1>8 DEF Cursors, AbsentEmpty
  <2> QED
    BY <1>8, <2>1, <2>2, WaitingIsJob, NoNewHolder
<1>9. ASSUME NEW p \in Callers, NEW r \in Rules, RunNow(p, r)
      PROVE  Cursors'
  BY <1>8, <1>9 DEF RunNow, Procs, TypeOK
<1>10. CASE GenerateDue
  BY <1>10, CursorsKept DEF GenerateDue, Cursors, AbsentEmpty
<1>11. CASE VisitRule
  <2>1. PICK visit \in queue : job' = [job EXCEPT ![Worker] = Waiting(visit[1], visit[2])]
    BY <1>11 DEF VisitRule
  <2>2. visit[1] \in Rules /\ visit[2] \in Days /\ Worker \in Procs
    BY DEF Procs, TypeOK
  <2> QED
    BY <1>8, <1>11, <2>1, <2>2 DEF VisitRule
<1>12. ASSUME NEW p \in Procs, Generation(p)
       PROVE  Cursors'
  BY <1>12, LockKeeps, OccurKeeps, CommitKeeps DEF Generation
<1>13. CASE Restart
  <2>1. \A p \in Procs : job'[p] = None
    BY <1>13 DEF Restart
  <2>2. AbsentEmpty'
    BY <1>13 DEF Restart, Cursors, AbsentEmpty
  <2> QED
    BY <1>13, <2>1, <2>2, NoNewHolder DEF Restart
<1>14. CASE UNCHANGED vars
  BY <1>14, CursorsKept DEF vars, Cursors, AbsentEmpty
<1> QED
  BY <1>1, <1>2, <1>3, <1>4, <1>6, <1>7, <1>9, <1>10, <1>11, <1>12, <1>13,
     <1>14, <1>15 DEF Next, UserStep

\* Only UpdateRead begins an edit.
LEMMA NextPending ==
    ASSUME TypeOK, PendingFresh, [Next]_vars, ~overtaken'
    PROVE  PendingFresh'
<1>1. ASSUME NEW e \in Editors, NEW r \in Rules, NEW f \in Forms, NEW a \in Accounts,
             UpdateRead(e, r, f, a)
      PROVE  PendingFresh'
  BY <1>1, ReadIsFresh
<1>2. ASSUME NEW e \in Editors, CreateInsert(e) \/ UpdateSave(e)
      PROVE  PendingFresh'
  <2>1. \A q \in Editors : edit'[q] = None \/ edit'[q] = edit[q]
    BY <1>2 DEF CreateInsert, UpdateSave, TypeOK
  <2> QED
    BY <2>1, PendingStays
<1>3. CASE Restart
  <2>1. \A q \in Editors : edit'[q] = None
    BY <1>3 DEF Restart
  <2> QED
    BY <2>1, PendingStays
<1>4. CASE edit' = edit
  BY <1>4, PendingStays
<1>5. ASSUME NEW e \in Editors, NEW r \in Rules, NEW f \in Forms, CreateRead(e, r, f)
      PROVE  PendingFresh'
  <2>1. \A q \in Editors : edit'[q].new \/ edit'[q] = edit[q]
    BY <1>5 DEF CreateRead, TypeOK
  <2> QED
    BY <2>1, PendingStays
<1> QED
  BY <1>1, <1>2, <1>3, <1>4, <1>5
  DEF Next, UserStep, Tick, Delete, DeleteAccount, RunNow, GenerateDue, VisitRule,
      Generation, Lock, Occur, Commit, vars

LEMMA NextIInv == TypeOK /\ Drafts /\ IInv /\ [Next]_vars => IInv'
<1> SUFFICES ASSUME TypeOK, Drafts, IInv, [Next]_vars, ~overtaken'
             PROVE  Cursors' /\ PendingFresh'
  BY DEF IInv
<1>1. ~overtaken
  BY DEF Next, Watch, vars
<1> QED
  BY <1>1, NextCursors, NextPending DEF IInv

LEMMA SpecInvariant == Spec => []IInv
<1>1. Init => IInv
  BY InitInvariant
<1>2. TypeOK /\ Drafts /\ IInv /\ [Next]_vars => IInv'
  BY NextIInv
<1> QED
  BY <1>1, <1>2, RecurrenceTypes, DraftsInvariant, PTL DEF Spec

\* As long as no edit has been overtaken, no day of a rule is generated twice,
\* whatever the worker, the users running and editing the rule and restarts do.
THEOREM NoDayTwice == Spec => []OncePerDay
<1>1. IInv => OncePerDay
  BY DEF IInv, Cursors, OncePerDay
<1> QED
  BY <1>1, SpecInvariant, PTL

-----------------------------------------------------------------------------
(* Accounts.  A live rule is on a live account, and so is the row a request  *)
(* is about to write, unless the account went while it was about to; a rule  *)
(* that a process holds stays live and is held by no other.                  *)

LiveOnLive ==
    \A r \in Rules : LiveRule(r) /\ r \notin deserted => rule[r].account \in live

PendingOnLive ==
    \A e \in Editors : edit[e] # None /\ edit[e].rule \notin deserted =>
        edit[e].row.account \in live

HeldIsLive == \A p \in Procs : Holding(p) => LiveRule(job[p].rule)

\* A process that has a copy of a rule has its row locked.
LEMMA HoldingLocks ==
    ASSUME TypeOK, NEW p \in Procs, Holding(p)
    PROVE  Locked(job[p].rule)
BY DEF TypeOK, Holding, Locked

\* No step takes a rule away from the process that holds it.
LEMMA NextHeld ==
    ASSUME TypeOK, HeldIsLive, [Next]_vars
    PROVE  HeldIsLive'
<1>1. ASSUME job' = job, ruleState' = ruleState
      PROVE  HeldIsLive'
  BY <1>1 DEF HeldIsLive, Holding, LiveRule
<1>2. ASSUME NEW e \in Editors, NEW r \in Rules, NEW f \in Forms, CreateRead(e, r, f)
      PROVE  HeldIsLive'
  BY <1>1, <1>2 DEF CreateRead
<1>3. ASSUME NEW e \in Editors, CreateInsert(e) \/ UpdateSave(e)
      PROVE  HeldIsLive'
  BY <1>3 DEF CreateInsert, UpdateSave, HeldIsLive, Holding, LiveRule, TypeOK, Job
<1>4. ASSUME NEW r \in Rules, Delete(r)
      PROVE  HeldIsLive'
  <2>1. \A p \in Procs : Holding(p) => job[p].rule \in Rules /\ job[p].rule # r
    BY <1>4, HoldingLocks, JobTypes DEF Delete, Holding
  <2> QED
    BY <1>4, <2>1 DEF Delete, HeldIsLive, Holding, LiveRule, TypeOK
<1>5. ASSUME NEW a \in Accounts, DeleteAccount(a)
      PROVE  HeldIsLive'
  <2>1. \A p \in Procs : Holding(p) =>
           job[p].rule \in Rules /\ LiveRule(job[p].rule) /\ rule[job[p].rule].account # a
    BY <1>5, HoldingLocks, JobTypes DEF DeleteAccount, HeldIsLive, Holding
  <2> QED
    BY <1>5, <2>1 DEF DeleteAccount, HeldIsLive, Holding, LiveRule, TypeOK
<1>6. ASSUME ruleState' = ruleState,
             \A p \in Procs : \/ job'[p] = job[p] \/ job'[p] = None \/ job'[p].copy = None
                              \/ Holding(p) /\ job'[p].rule = job[p].rule
      PROVE  HeldIsLive'
  BY <1>6 DEF HeldIsLive, Holding, LiveRule
<1>7. ASSUME NEW p \in Procs, NEW r \in Rules, NEW day,
             job' = [job EXCEPT ![p] = Waiting(r, day)], ruleState' = ruleState
      PROVE  HeldIsLive'
  <2>1. \A q \in Procs : job'[q] = job[q] \/ job'[q].copy = None
    BY <1>7 DEF TypeOK, Waiting
  <2> QED
    BY <1>6, <1>7, <2>1
<1>8. ASSUME NEW p \in Callers, NEW r \in Rules, RunNow(p, r)
      PROVE  HeldIsLive'
  BY <1>7, <1>8 DEF RunNow, Procs
<1>9. CASE VisitRule
  <2>1. PICK visit \in queue : job' = [job EXCEPT ![Worker] = Waiting(visit[1], visit[2])]
    BY <1>9 DEF VisitRule
  <2>2. visit[1] \in Rules /\ Worker \in Procs
    BY DEF Procs, TypeOK
  <2> QED
    BY <1>7, <1>9, <2>1, <2>2 DEF VisitRule
<1>10. ASSUME NEW p \in Procs, Lock(p)
       PROVE  HeldIsLive'
  <2>1. CASE LiveRule(job[p].rule)
    <3> DEFINE locked == [job[p] EXCEPT !.locked = TRUE, !.copy = rule[job[p].rule]]
    <3>1. job' = [job EXCEPT ![p] = locked] /\ ruleState' = ruleState
      BY <1>10, <2>1 DEF Lock
    <3>2. locked.rule = job[p].rule
      BY <1>10, JobTypes DEF Lock, Job
    <3> HIDE DEF locked
    <3>3. \A q \in Procs : job'[q] = IF q = p THEN locked ELSE job[q]
      BY <3>1 DEF TypeOK
    <3> QED
      BY <2>1, <3>1, <3>2, <3>3 DEF HeldIsLive, Holding, LiveRule
  <2>2. CASE ~LiveRule(job[p].rule)
    <3>1. \A q \in Procs : job'[q] = job[q] \/ job'[q] = None
      BY <1>10, <2>2 DEF Lock, TypeOK
    <3> QED
      BY <1>6, <1>10, <3>1 DEF Lock
  <2> QED
    BY <2>1, <2>2
<1>11. ASSUME NEW p \in Procs, Occur(p)
       PROVE  HeldIsLive'
  <2> DEFINE new == Occurred(job[p])
  <2>1. Holding(p) /\ new.rule = job[p].rule
    BY <1>11, JobTypes, OccurredJob DEF Occur, Holding
  <2>2. job' = [job EXCEPT ![p] = new] /\ ruleState' = ruleState
    BY <1>11 DEF Occur
  <2> HIDE DEF new
  <2>3. \A q \in Procs : job'[q] = IF q = p THEN new ELSE job[q]
    BY <2>2 DEF TypeOK
  <2> QED
    BY <1>6, <2>1, <2>2, <2>3
<1>12. ASSUME NEW p \in Procs, Commit(p)
       PROVE  HeldIsLive'
  <2>1. \A q \in Procs : job'[q] = job[q] \/ job'[q] = None
    BY <1>12 DEF Commit, TypeOK
  <2> QED
    BY <1>6, <1>12, <2>1 DEF Commit
<1>13. CASE Restart
  BY <1>6, <1>13 DEF Restart
<1>14. ASSUME NEW e \in Editors, NEW r \in Rules, NEW f \in Forms, NEW a \in Accounts,
              UpdateRead(e, r, f, a)
       PROVE  HeldIsLive'
  BY <1>1, <1>14 DEF UpdateRead
<1> QED
  BY <1>1, <1>2, <1>3, <1>4, <1>5, <1>8, <1>9, <1>10, <1>11, <1>12, <1>13, <1>14
  DEF Next, UserStep, Generation, Tick, GenerateDue, vars

\* No step gives a row to a second process.
LEMMA NextOneHolder ==
    ASSUME TypeOK, OneHolder, [Next]_vars
    PROVE  OneHolder'
<1>1. ASSUME NEW p \in Procs, Lock(p), LiveRule(job[p].rule)
      PROVE  OneHolder'
  <2> DEFINE locked == [job[p] EXCEPT !.locked = TRUE, !.copy = rule[job[p].rule]]
  <2>1. job' = [job EXCEPT ![p] = locked] /\ ~Locked(job[p].rule)
    BY <1>1 DEF Lock
  <2>2. locked.rule = job[p].rule
    BY <1>1, JobTypes DEF Lock, Job
  <2> HIDE DEF locked
  <2>3. \A q \in Procs : job'[q] = IF q = p THEN locked ELSE job[q]
    BY <2>1 DEF TypeOK
  <2>4. \A q \in Procs : q # p /\ Holding(q)' => Holding(q) /\ job'[q].rule # job'[p].rule
    BY <2>1, <2>2, <2>3, HoldingLocks DEF Holding
  <2> QED
    BY <2>3, <2>4 DEF OneHolder
<1>2. ASSUME \A q \in Procs : Holding(q)' => Holding(q) /\ job'[q].rule = job[q].rule
      PROVE  OneHolder'
  BY <1>2 DEF OneHolder
<1>3. ASSUME NEW p \in Procs, NEW r \in Rules, NEW day, job' = [job EXCEPT ![p] = Waiting(r, day)]
      PROVE  OneHolder'
  <2>1. \A q \in Procs : job'[q] = job[q] \/ job'[q].copy = None
    BY <1>3 DEF TypeOK, Waiting
  <2> QED
    BY <1>2, <2>1 DEF Holding
<1>4. ASSUME NEW p \in Callers, NEW r \in Rules, RunNow(p, r)
      PROVE  OneHolder'
  BY <1>3, <1>4 DEF RunNow, Procs
<1>5. CASE VisitRule
  <2>1. PICK visit \in queue : job' = [job EXCEPT ![Worker] = Waiting(visit[1], visit[2])]
    BY <1>5 DEF VisitRule
  <2>2. visit[1] \in Rules /\ Worker \in Procs
    BY DEF Procs, TypeOK
  <2> QED
    BY <1>3, <2>1, <2>2
<1>6. ASSUME NEW p \in Procs, Lock(p), ~LiveRule(job[p].rule)
      PROVE  OneHolder'
  <2>1. \A q \in Procs : job'[q] = job[q] \/ job'[q] = None
    BY <1>6 DEF Lock, TypeOK
  <2> QED
    BY <1>2, <2>1 DEF Holding
<1>7. ASSUME NEW p \in Procs, Occur(p)
      PROVE  OneHolder'
  <2> DEFINE new == Occurred(job[p])
  <2>1. Holding(p) /\ new.rule = job[p].rule
    BY <1>7, JobTypes, OccurredJob DEF Occur, Holding
  <2>2. job' = [job EXCEPT ![p] = new]
    BY <1>7 DEF Occur
  <2> HIDE DEF new
  <2>3. \A q \in Procs : job'[q] = IF q = p THEN new ELSE job[q]
    BY <2>2 DEF TypeOK
  <2> QED
    BY <1>2, <2>1, <2>3 DEF Holding
<1>8. ASSUME NEW p \in Procs, Commit(p)
      PROVE  OneHolder'
  <2>1. \A q \in Procs : job'[q] = job[q] \/ job'[q] = None
    BY <1>8 DEF Commit, TypeOK
  <2> QED
    BY <1>2, <2>1 DEF Holding
<1>9. CASE Restart
  BY <1>2, <1>9 DEF Restart, Holding
<1>10. CASE job' = job
  BY <1>2, <1>10 DEF Holding
<1> QED
  BY <1>1, <1>4, <1>5, <1>6, <1>7, <1>8, <1>9, <1>10
  DEF Next, UserStep, Generation, Tick, GenerateDue, CreateRead, CreateInsert, UpdateRead,
      UpdateSave, Delete, DeleteAccount, vars

-----------------------------------------------------------------------------
(* What a process holds.  No other step writes the row it has locked, so that *)
(* its copy differs from the row only by the occurrences generated since.    *)

Copied(p) == [job[p] EXCEPT !.locked = TRUE, !.copy = rule[job[p].rule]]

LEMMA HeldRow ==
    ASSUME TypeOK, Drafts, HeldIsLive, OneHolder, [Next]_vars, NEW p \in Procs, Holding(p)'
    PROVE  /\ job'[p].rule \in Rules
           /\ rule'[job'[p].rule] = rule[job'[p].rule]
           /\ \/ Holding(p) /\ job'[p] = job[p]
              \/ Occur(p) /\ job'[p] = Occurred(job[p])
              \/ Lock(p) /\ LiveRule(job[p].rule) /\ job'[p] = Copied(p)
<1>0. job[p] # None => job[p].rule \in Rules
  BY JobTypes
<1>1. ASSUME job' = job, rule' = rule
      PROVE  Holding(p) /\ job'[p] = job[p] /\ rule' = rule
  BY <1>1 DEF Holding
<1>2. ASSUME NEW e \in Editors, CreateInsert(e)
      PROVE  Holding(p) /\ job'[p] = job[p] /\ rule'[job[p].rule] = rule[job[p].rule]
  <2> DEFINE r == edit[e].rule
  <2>1. r \in Rules /\ \E f \in Forms : Created(r, f)
    BY <1>2, InsertCreates
  <2> HIDE DEF r
  <2> QED
    BY <1>0, <2>1 DEF Created, HeldIsLive, Holding, LiveRule, TypeOK
<1>3. ASSUME NEW e \in Editors, UpdateSave(e)
      PROVE  Holding(p) /\ job'[p] = job[p] /\ rule'[job[p].rule] = rule[job[p].rule]
  <2>1. Holding(p) /\ job'[p] = job[p] /\ edit[e].rule # job[p].rule
    BY <1>3, HoldingLocks DEF UpdateSave, Holding
  <2> QED
    BY <1>0, <1>3, <2>1 DEF UpdateSave, TypeOK, Holding
<1>4. ASSUME NEW q \in Procs, NEW r \in Rules, NEW day,
             job' = [job EXCEPT ![q] = Waiting(r, day)], rule' = rule
      PROVE  Holding(p) /\ job'[p] = job[p] /\ rule' = rule
  BY <1>4 DEF TypeOK, Waiting, Holding
<1>5. ASSUME NEW q \in Callers, NEW r \in Rules, RunNow(q, r)
      PROVE  Holding(p) /\ job'[p] = job[p] /\ rule' = rule
  BY <1>4, <1>5 DEF RunNow, Procs
<1>6. ASSUME VisitRule
      PROVE  Holding(p) /\ job'[p] = job[p] /\ rule' = rule
  <2>1. PICK visit \in queue : job' = [job EXCEPT ![Worker] = Waiting(visit[1], visit[2])]
    BY <1>6 DEF VisitRule
  <2>2. visit[1] \in Rules /\ Worker \in Procs
    BY DEF Procs, TypeOK
  <2> QED
    BY <1>4, <1>6, <2>1, <2>2 DEF VisitRule
<1>7. ASSUME NEW q \in Procs, Lock(q)
      PROVE  /\ rule' = rule
             /\ \/ Holding(p) /\ job'[p] = job[p]
                \/ Lock(p) /\ LiveRule(job[p].rule) /\ job'[p] = Copied(p)
  <2>1. CASE LiveRule(job[q].rule)
    <3>1. job' = [job EXCEPT ![q] = Copied(q)] /\ rule' = rule
      BY <1>7, <2>1 DEF Lock, Copied
    <3>2. job'[p] = IF p = q THEN Copied(q) ELSE job[p]
      BY <3>1 DEF TypeOK
    <3> QED
      BY <1>7, <2>1, <3>1, <3>2 DEF Holding
  <2>2. CASE ~LiveRule(job[q].rule)
    <3>1. (job'[p] = job[p] \/ job'[p] = None) /\ rule' = rule
      BY <1>7, <2>2 DEF Lock, TypeOK
    <3> QED
      BY <3>1 DEF Holding
  <2> QED
    BY <2>1, <2>2
<1>8. ASSUME NEW q \in Procs, Occur(q)
      PROVE  /\ rule' = rule
             /\ \/ Holding(p) /\ job'[p] = job[p]
                \/ Occur(p) /\ job'[p] = Occurred(job[p])
  <2>1. job'[p] = IF p = q THEN Occurred(job[q]) ELSE job[p]
    BY <1>8 DEF Occur, TypeOK
  <2> QED
    BY <1>8, <2>1 DEF Occur, Holding
<1>9. ASSUME NEW q \in Procs, Commit(q)
      PROVE  Holding(p) /\ job'[p] = job[p] /\ rule'[job[p].rule] = rule[job[p].rule]
  <2>1. job'[p] = IF p = q THEN None ELSE job[p]
    BY <1>9 DEF Commit, TypeOK
  <2>2. p # q /\ job'[p] = job[p] /\ Holding(p) /\ Holding(q)
    BY <1>9, <2>1 DEF Commit, Holding
  <2>3. job[p].rule # job[q].rule /\ job[p].rule \in Rules /\ job[q].rule \in Rules
    BY <2>2, JobTypes DEF OneHolder, Holding
  <2> QED
    BY <1>9, <2>2, <2>3 DEF Commit, TypeOK
<1>10. ~Restart
  BY DEF Restart, Holding
<1>11. Holding(p) => job[p].rule \in Rules
  BY <1>0 DEF Holding
<1>12. ASSUME \/ Tick \/ GenerateDue \/ UNCHANGED vars
              \/ \E r \in Rules : Delete(r)
              \/ \E a \in Accounts : DeleteAccount(a)
              \/ \E e \in Editors, r \in Rules, f \in Forms : CreateRead(e, r, f)
              \/ \E e \in Editors, r \in Rules, f \in Forms, a \in Accounts : UpdateRead(e, r, f, a)
       PROVE  Holding(p) /\ job'[p] = job[p] /\ rule' = rule
  BY <1>1, <1>12 DEF Tick, GenerateDue, vars, Delete, DeleteAccount, CreateRead, UpdateRead
<1>13. \/ /\ Holding(p) /\ job'[p] = job[p]
          /\ rule'[job[p].rule] = rule[job[p].rule]
       \/ /\ rule' = rule
          /\ \/ Occur(p) /\ job'[p] = Occurred(job[p])
             \/ Lock(p) /\ LiveRule(job[p].rule) /\ job'[p] = Copied(p)
  BY <1>2, <1>3, <1>5, <1>6, <1>7, <1>8, <1>9, <1>10, <1>12
  DEF Next, UserStep, Generation
<1>14. Lock(p) => job[p].rule \in Rules /\ Copied(p).rule = job[p].rule
  BY JobTypes DEF Lock, Copied, Job
<1>15. Occur(p) => job[p].rule \in Rules /\ Occurred(job[p]).rule = job[p].rule
  BY JobTypes, OccurredJob DEF Occur
<1> QED
  BY <1>11, <1>13, <1>14, <1>15

\* What a form says of a rule; generating does not change it.
SameForm(c, d) ==
    /\ c.account = d.account /\ c.start = d.start /\ c.interval = d.interval
    /\ c.end = d.end /\ c.max = d.max

CopyOfRow == \A p \in Procs : Holding(p) => SameForm(job[p].copy, rule[job[p].rule])

LEMMA AdvanceForm ==
    ASSUME NEW c \in Rule
    PROVE  /\ Advance(c).count = c.count + 1
           /\ Advance(c).next = IF Nth(c.start, c.interval, c.count + 1) > c.next
                                THEN Nth(c.start, c.interval, c.count + 1)
                                ELSE Following(c.next, c.interval)
           /\ SameForm(Advance(c), c)
<1> DEFINE count == c.count + 1
           next == IF Nth(c.start, c.interval, c.count + 1) > c.next
                   THEN Nth(c.start, c.interval, c.count + 1)
                   ELSE Following(c.next, c.interval)
<1>1. Advance(c) = [c EXCEPT !.count = count, !.next = next]
  BY DEF Advance
<1> HIDE DEF count, next
<1>2. /\ Advance(c).count = count /\ Advance(c).next = next
      /\ SameForm(Advance(c), c)
  BY <1>1 DEF SameForm, Rule
<1> QED
  BY <1>2 DEF count, next

\* A round of the loop counts one occurrence and steps to the next one.
LEMMA OccurredCopy ==
    ASSUME NEW j \in Job, j.copy # None, Continues(j)
    PROVE  LET after == Advance(j.copy)
           IN  /\ Occurred(j).copy.count = j.copy.count + 1
               /\ Occurred(j).copy.next = after.next
               /\ SameForm(Occurred(j).copy, j.copy)
<1> DEFINE after == Advance(j.copy)
           copy == IF Exhausted(after) THEN [after EXCEPT !.active = FALSE] ELSE after
<1>1. after \in Rule /\ j.copy \in Rule
  BY AdvanceMoves DEF Job
<1>2. copy.count = after.count /\ copy.next = after.next /\ SameForm(copy, after)
  BY <1>1 DEF Rule, SameForm
<1>3. Occurred(j).copy = copy
  BY DEF Occurred, Job
<1> HIDE DEF copy, after
<1>4. after.count = j.copy.count + 1 /\ SameForm(after, j.copy)
  BY <1>1, AdvanceForm DEF after
<1> QED
  BY <1>2, <1>3, <1>4 DEF SameForm, after

\* A process works on the row as it is stored.
LEMMA NextCopies ==
    ASSUME TypeOK, Drafts, HeldIsLive, OneHolder, CopyOfRow, [Next]_vars
    PROVE  CopyOfRow'
<1> SUFFICES ASSUME NEW p \in Procs, Holding(p)'
             PROVE  SameForm(job'[p].copy, rule'[job'[p].rule])
  BY DEF CopyOfRow, SameForm
<1>1. rule'[job'[p].rule] = rule[job'[p].rule]
  BY HeldRow
<1>2. CASE Holding(p) /\ job'[p] = job[p]
  BY <1>1, <1>2 DEF CopyOfRow
<1>3. CASE Occur(p) /\ job'[p] = Occurred(job[p])
  <2>1. job[p] \in Job /\ job[p].copy # None /\ Holding(p) /\ Continues(job[p])
    BY <1>3, JobTypes DEF Occur, Holding
  <2>2. SameForm(Occurred(job[p]).copy, job[p].copy) /\ Occurred(job[p]).rule = job[p].rule
    BY <2>1, OccurredCopy, OccurredJob
  <2> QED
    BY <1>1, <1>3, <2>1, <2>2 DEF CopyOfRow, SameForm
<1>4. CASE Lock(p) /\ LiveRule(job[p].rule) /\ job'[p] = Copied(p)
  <2>1. Copied(p).copy = rule[job[p].rule] /\ Copied(p).rule = job[p].rule
    BY <1>4, JobTypes DEF Lock, Copied, Job
  <2> QED
    BY <1>1, <1>4, <2>1 DEF SameForm
<1> QED
  BY <1>2, <1>3, <1>4, HeldRow

\* The accounts a request names are still there, or its rule was deserted.
LEMMA NextAccounts ==
    ASSUME TypeOK, HeldIsLive, CopyOfRow, LiveOnLive, PendingOnLive, [Next]_vars
    PROVE  LiveOnLive' /\ PendingOnLive'
<1>g. \A r : r \notin deserted' => r \notin deserted
  BY DEF Next, Watch, vars
<1>0. ASSUME NEW e \in Editors, edit[e] # None, edit'[e] = edit[e], edit[e].rule \notin deserted'
      PROVE  edit[e].row.account \in live'
  BY <1>0 DEF Next, Watch, Deserts, vars, PendingOnLive
<1>1. ASSUME \A e \in Editors : edit'[e] = None \/ edit'[e] = edit[e]
      PROVE  PendingOnLive'
  BY <1>0, <1>1 DEF PendingOnLive
<1>2. ASSUME live' = live,
             \A r \in Rules : LiveRule(r)' => LiveRule(r) /\ rule'[r].account = rule[r].account
      PROVE  LiveOnLive'
  BY <1>g, <1>2 DEF LiveOnLive
<1>3. ASSUME NEW e \in Editors, NEW r \in Rules, NEW f \in Forms, CreateRead(e, r, f)
      PROVE  LiveOnLive' /\ PendingOnLive'
  <2>1. /\ edit'[e] = [rule |-> r, row |-> Fresh(f), new |-> TRUE]
        /\ \A q \in Editors : q # e => edit'[q] = edit[q]
        /\ f.account \in live /\ live' = live /\ rule' = rule /\ ruleState' = ruleState
    BY <1>3 DEF CreateRead, Admits, TypeOK
  <2>2. edit'[e].row.account \in live'
    BY <2>1 DEF Fresh
  <2>3. PendingOnLive'
    BY <1>g, <2>1, <2>2 DEF PendingOnLive
  <2> QED
    BY <1>g, <2>1, <2>3 DEF LiveOnLive, LiveRule
<1>4. ASSUME NEW e \in Editors, NEW r \in Rules, NEW f \in Forms, NEW a \in Accounts,
             UpdateRead(e, r, f, a)
      PROVE  LiveOnLive' /\ PendingOnLive'
  <2>1. rule[r] \in Rule /\ (r \notin deserted => a \in live)
    BY <1>4 DEF UpdateRead, Admits, LiveRule, LiveOnLive, TypeOK
  <2>2. Apply(rule[r], f, a).account = a
    BY <2>1 DEF Apply, Rule
  <2>3. /\ edit'[e] = [rule |-> r, row |-> Apply(rule[r], f, a), new |-> FALSE]
        /\ \A q \in Editors : q # e => edit'[q] = edit[q]
        /\ live' = live /\ rule' = rule /\ ruleState' = ruleState
    BY <1>4 DEF UpdateRead, TypeOK
  <2>4. PendingOnLive'
    BY <1>g, <2>1, <2>2, <2>3 DEF PendingOnLive
  <2> QED
    BY <1>g, <2>3, <2>4 DEF LiveOnLive, LiveRule
<1>5. ASSUME NEW e \in Editors, CreateInsert(e) \/ UpdateSave(e)
      PROVE  LiveOnLive' /\ PendingOnLive'
  <2>0. /\ edit[e] # None /\ live' = live
        /\ ruleState' = [ruleState EXCEPT ![edit[e].rule] = "live"]
        /\ rule' = [rule EXCEPT ![edit[e].rule] = edit[e].row]
        /\ edit' = [edit EXCEPT ![e] = None]
    BY <1>5 DEF CreateInsert, UpdateSave
  <2>1. /\ edit[e].rule \in Rules
        /\ edit[e].rule \notin deserted => edit[e].row.account \in live
    BY <2>0 DEF PendingOnLive, TypeOK
  <2>2. /\ rule'[edit[e].rule] = edit[e].row
        /\ \A q \in Rules : q # edit[e].rule =>
              rule'[q] = rule[q] /\ ruleState'[q] = ruleState[q]
    BY <2>0, <2>1 DEF TypeOK
  <2>3. LiveOnLive'
    BY <1>g, <2>0, <2>1, <2>2 DEF LiveOnLive, LiveRule
  <2>4. \A q \in Editors : edit'[q] = None \/ edit'[q] = edit[q]
    BY <2>0 DEF TypeOK
  <2> QED
    BY <1>1, <2>3, <2>4
<1>6. ASSUME NEW r \in Rules, Delete(r)
      PROVE  LiveOnLive' /\ PendingOnLive'
  <2>1. LiveOnLive'
    BY <1>2, <1>6 DEF Delete, LiveRule, TypeOK
  <2> QED
    BY <1>1, <1>6, <2>1 DEF Delete
<1>7. ASSUME NEW a \in Accounts, DeleteAccount(a)
      PROVE  LiveOnLive' /\ PendingOnLive'
  <2>1. \A r \in Rules : LiveRule(r)' => LiveRule(r) /\ rule[r].account # a
    BY <1>7 DEF DeleteAccount, LiveRule
  <2>2. LiveOnLive'
    BY <1>g, <1>7, <2>1 DEF DeleteAccount, LiveOnLive
  <2> QED
    BY <1>1, <1>7, <2>2 DEF DeleteAccount
<1>8. ASSUME NEW p \in Procs, Commit(p)
      PROVE  LiveOnLive' /\ PendingOnLive'
  <2> DEFINE r == job[p].rule
             row == IF Continues(job[p]) THEN [job[p].copy EXCEPT !.active = FALSE]
                    ELSE job[p].copy
  <2>1. r \in Rules /\ job[p].copy \in Rule /\ LiveRule(r)
    BY <1>8, JobTypes DEF Commit, HeldIsLive, Holding
  <2>2. row.account = job[p].copy.account
    BY <2>1 DEF Rule
  <2>3. rule' = [rule EXCEPT ![r] = row] /\ live' = live /\ ruleState' = ruleState /\ edit' = edit
    BY <1>8 DEF Commit
  <2>4. job[p].copy.account = rule[r].account
    BY <1>8 DEF CopyOfRow, SameForm, Commit, Holding
  <2> QED
    BY <1>1, <1>2, <2>1, <2>2, <2>3, <2>4 DEF LiveRule, TypeOK
<1>9. CASE UNCHANGED <<live, rule, ruleState>> /\ \A e \in Editors : edit'[e] = None \/ edit'[e] = edit[e]
  BY <1>1, <1>2, <1>9 DEF LiveRule
<1>10. ASSUME NEW p \in Procs, Lock(p) \/ Occur(p)
       PROVE  UNCHANGED <<live, rule, ruleState, edit>>
  BY <1>10 DEF Lock, Occur
<1>11. CASE Restart
  BY <1>9, <1>11 DEF Restart
<1>12. ASSUME NEW p \in Callers, NEW r \in Rules, RunNow(p, r)
       PROVE  UNCHANGED <<live, rule, ruleState, edit>>
  BY <1>12 DEF RunNow
<1> QED
  BY <1>3, <1>4, <1>5, <1>6, <1>7, <1>8, <1>9, <1>10, <1>11, <1>12
  DEF Next, UserStep, Generation, Tick, GenerateDue, VisitRule, vars

\* Only a commit adds transactions, to the rule whose row its process holds.
LEMMA OnlyCommitsAdd ==
    ASSUME TypeOK, [Next]_vars, NEW r \in Rules, made'[r] # made[r]
    PROVE  \E p \in Procs : Commit(p) /\ job[p].rule = r
<1>1. \E p \in Procs : Commit(p)
  BY DEF Next, UserStep, Generation, Tick, CreateRead, CreateInsert, UpdateRead, UpdateSave, Delete, DeleteAccount,
         RunNow, GenerateDue, VisitRule, Lock, Occur, Restart, vars
<1>2. PICK p \in Procs : Commit(p)
  BY <1>1
<1>3. job[p].rule = r
  BY <1>2 DEF Commit, TypeOK
<1> QED
  BY <1>2, <1>3

AccountsInv == HeldIsLive /\ OneHolder /\ CopyOfRow /\ LiveOnLive /\ PendingOnLive

LEMMA AccountsInvariant == Spec => []AccountsInv
<1>1. Init => AccountsInv
  <2> SUFFICES ASSUME Init PROVE AccountsInv
    OBVIOUS
  <2>1. \A p \in Procs : job[p] = None
    BY DEF Init
  <2>2. HeldIsLive /\ OneHolder /\ CopyOfRow
    BY <2>1 DEF HeldIsLive, OneHolder, CopyOfRow, Holding
  <2>3. LiveOnLive /\ PendingOnLive
    BY DEF Init, LiveOnLive, PendingOnLive, LiveRule
  <2> QED
    BY <2>2, <2>3 DEF AccountsInv
<1>2. TypeOK /\ Drafts /\ AccountsInv /\ [Next]_vars => AccountsInv'
  BY NextHeld, NextOneHolder, NextCopies, NextAccounts DEF AccountsInv
<1> QED
  BY <1>1, <1>2, RecurrenceTypes, DraftsInvariant, PTL DEF Spec

\* Nothing is generated into a deleted account, but for the rules a request was
\* about to write when their account was deleted: a deletion takes the account's
\* rules along and waits for those being generated, and whatever else happens,
\* edits overtaken by others and restarts included, no other live rule names a
\* deleted account.
THEOREM NothingIntoDeletedAccounts == Spec => OnlyIntoLiveAccounts
<1>1. TypeOK /\ AccountsInv /\ [Next]_vars =>
        [\A r \in Rules : made'[r] # made[r] /\ r \notin deserted => rule[r].account \in live]_vars
  <2> SUFFICES ASSUME TypeOK, AccountsInv, [Next]_vars,
                      NEW r \in Rules, made'[r] # made[r], r \notin deserted
               PROVE  rule[r].account \in live
    OBVIOUS
  <2>1. PICK p \in Procs : Commit(p) /\ job[p].rule = r
    BY OnlyCommitsAdd
  <2>2. LiveRule(r)
    BY <2>1 DEF AccountsInv, HeldIsLive, Holding, Commit
  <2> QED
    BY <2>2 DEF AccountsInv, LiveOnLive
<1> QED
  BY <1>1, AccountsInvariant, RecurrenceTypes, PTL DEF Spec, OnlyIntoLiveAccounts

-----------------------------------------------------------------------------
(* Rules nobody edits.  The cursor is the position of the next occurrence on *)
(* the schedule, so that what is generated are the positions before it.      *)

NoneEdited == edits = 0 => ~overtaken /\ \A e \in Editors : edit[e] # None => edit[e].new

Anchored(c) == c.next = Nth(c.start, c.interval, c.count)

JobOnSchedule(p) ==
    LET c == job[p].copy
        old == rule[job[p].rule]
    IN  /\ Anchored(c)
        /\ old.count <= c.count
        /\ \A d \in Days : job[p].dates[d] = 1 <=>
              \E n \in old.count..(c.count - 1) : d = Nth(c.start, c.interval, n)

OnSchedule ==
    /\ \A r \in Rules : rule[r] # None => Anchored(rule[r])
    /\ NoGaps
    /\ \A p \in Procs : Holding(p) => JobOnSchedule(p)

\* Nobody has edited before the first edit.
LEMMA EditsGrow ==
    ASSUME TypeOK, [Next]_vars, edits' = 0
    PROVE  edits = 0
<1>1. CASE edits' = edits
  BY <1>1
<1>2. ASSUME NEW e \in Editors, NEW r \in Rules, NEW f \in Forms, NEW a \in Accounts,
             UpdateRead(e, r, f, a)
      PROVE  FALSE
  <2>1. edits' = edits + 1 /\ edits \in 0..MaxEdits /\ MaxEdits \in Nat
    BY <1>2, BoundAssumption DEF UpdateRead, TypeOK
  <2> QED
    BY <2>1
<1> QED
  BY <1>1, <1>2
  DEF Next, UserStep, Generation, Tick, CreateRead, CreateInsert, UpdateSave, Delete,
      DeleteAccount, RunNow, GenerateDue, VisitRule, Lock, Occur, Commit, Restart, vars

LEMMA NextNoneEdited == TypeOK /\ NoneEdited /\ [Next]_vars => NoneEdited'
<1> SUFFICES ASSUME TypeOK, NoneEdited, [Next]_vars, edits' = 0
             PROVE  ~overtaken' /\ \A e \in Editors : edit'[e] # None => edit'[e].new
  BY DEF NoneEdited
<1>1. edits = 0
  BY EditsGrow
<1>2. ~overtaken'
  BY <1>1 DEF NoneEdited, Next, Watch, Overtakes, vars
<1>3. ASSUME NEW e \in Editors, NEW r \in Rules, NEW f \in Forms, NEW a \in Accounts,
             UpdateRead(e, r, f, a)
      PROVE  FALSE
  BY <1>1, <1>3 DEF UpdateRead
<1>4. ASSUME NEW e \in Editors, NEW r \in Rules, NEW f \in Forms, CreateRead(e, r, f)
      PROVE  \A q \in Editors : edit'[q] = edit[q] \/ edit'[q].new
  BY <1>4 DEF CreateRead, TypeOK
<1>5. ASSUME NEW e \in Editors, CreateInsert(e) \/ UpdateSave(e)
      PROVE  \A q \in Editors : edit'[q] = edit[q] \/ edit'[q] = None
  BY <1>5 DEF CreateInsert, UpdateSave, TypeOK
<1>6. Restart => \A q \in Editors : edit'[q] = None
  BY DEF Restart
<1>7. \A q \in Editors : edit'[q] = edit[q] \/ edit'[q] = None \/ edit'[q].new
  BY <1>3, <1>4, <1>5, <1>6
  DEF Next, UserStep, Generation, Tick, Delete, DeleteAccount,
      RunNow, GenerateDue, VisitRule, Lock, Occur, Commit, vars
<1> QED
  BY <1>1, <1>2, <1>7 DEF NoneEdited

\* A rule's row is written by its creation, by commits and by edits.
LEMMA RowsChange ==
    ASSUME TypeOK, Drafts, [Next]_vars, NEW r \in Rules, rule'[r] # None
    PROVE  \/ rule'[r] = rule[r] /\ made'[r] = made[r]
           \/ \E f \in Forms : Created(r, f)
           \/ \E p \in Procs : Commit(p) /\ job[p].rule = r
           \/ \E e \in Editors : UpdateSave(e) /\ edit[e].rule = r
<1>1. ASSUME NEW e \in Editors, CreateInsert(e)
      PROVE  \/ rule'[r] = rule[r] /\ made'[r] = made[r]
             \/ \E f \in Forms : Created(r, f)
  <2>1. CASE edit[e].rule = r
    BY <1>1, <2>1, InsertCreates
  <2>2. CASE edit[e].rule # r
    BY <1>1, <2>2 DEF CreateInsert, TypeOK
  <2> QED
    BY <2>1, <2>2
<1>2. ASSUME NEW p \in Procs, Commit(p), job[p].rule # r
      PROVE  rule'[r] = rule[r] /\ made'[r] = made[r]
  <2>1. job[p].rule \in Rules
    BY <1>2, JobTypes DEF Commit
  <2> QED
    BY <1>2, <2>1 DEF Commit, TypeOK
<1>3. ASSUME NEW e \in Editors, UpdateSave(e), edit[e].rule # r
      PROVE  rule'[r] = rule[r] /\ made'[r] = made[r]
  BY <1>3 DEF UpdateSave, TypeOK
<1> QED
  BY <1>1, <1>2, <1>3
  DEF Next, UserStep, Generation, Tick, CreateRead, UpdateRead, Delete, DeleteAccount,
      RunNow, GenerateDue, VisitRule, Lock, Occur, Restart, vars

LEMMA NextMultiple ==
    ASSUME NEW i \in Nat, NEW n \in Nat
    PROVE  i * (n + 1) = i * n + i /\ i * n \in Nat
OBVIOUS

\* An anchored cursor steps to the next position, which lies ahead.
LEMMA AnchorStays ==
    ASSUME NEW c \in Rule, Anchored(c)
    PROVE  Anchored(Advance(c))
<1>1. c.start \in Nat /\ c.interval \in Nat \ {0} /\ c.count \in Nat
  BY HorizonAssumption DEF Rule, Days
<1>2. /\ c.interval * (c.count + 1) = c.interval * c.count + c.interval
      /\ c.interval * c.count \in Nat
  BY <1>1, NextMultiple
<1>3. c.next = c.start + c.interval * c.count
  BY DEF Nth, Anchored
<1>4. Nth(c.start, c.interval, c.count + 1) > c.next
  <2>1. Nth(c.start, c.interval, c.count + 1) = c.start + (c.interval * c.count + c.interval)
    BY <1>2 DEF Nth
  <2> QED
    BY <1>1, <1>2, <1>3, <2>1
<1>5. /\ Advance(c).next = Nth(c.start, c.interval, c.count + 1)
      /\ Advance(c).count = c.count + 1
      /\ Advance(c).start = c.start /\ Advance(c).interval = c.interval
  BY <1>4, AdvanceForm DEF SameForm
<1> QED
  BY <1>5 DEF Anchored

\* A new rule has generated nothing.
LEMMA CreateOnSchedule ==
    ASSUME TypeOK, Cursors, NEW r \in Rules, NEW f \in Forms, Created(r, f)
    PROVE  /\ Anchored(rule'[r])
           /\ \A d \in Days : made'[r][d] = 1 <=>
                \E n \in 0..(rule'[r].count - 1) : d = Nth(rule'[r].start, rule'[r].interval, n)
<1>1. /\ rule'[r].start = f.start /\ rule'[r].interval = f.interval
      /\ rule'[r].count = 0 /\ rule'[r].next = f.start
  BY DEF Created, Fresh, TypeOK
<1>2. f.start \in Nat /\ f.interval \in Nat
  BY FreshIsRule
<1>3. Anchored(rule'[r])
  <2>1. f.start + f.interval * 0 = f.start
    BY <1>2
  <2> QED
    BY <1>1, <2>1 DEF Anchored, Nth
<1>4. \A d \in Days : made'[r][d] # 1
  <2>1. rule[r] = None /\ made' = made
    BY DEF Created, Cursors, AbsentEmpty
  <2>2. \A d \in Days : made[r][d] \in Nat /\ ~(made[r][d] > 0)
    BY <2>1 DEF Cursors, BehindCursor, TypeOK
  <2> QED
    BY <2>1, <2>2
<1>5. 0..(rule'[r].count - 1) = {}
  BY <1>1
<1> QED
  BY <1>3, <1>4, <1>5

\* A commit adds the positions from the row's count to the copy's.
LEMMA CommitOnSchedule ==
    ASSUME TypeOK, Cursors, CopyOfRow, OnSchedule, NEW p \in Procs, Commit(p)
    PROVE  LET r == job[p].rule
           IN  /\ Anchored(rule'[r])
               /\ \A d \in Days : made'[r][d] = 1 <=>
                    \E n \in 0..(rule'[r].count - 1) :
                        d = Nth(rule'[r].start, rule'[r].interval, n)
<1> DEFINE r == job[p].rule
           copy == job[p].copy
           old == rule[r]
           row == IF Continues(job[p]) THEN [copy EXCEPT !.active = FALSE] ELSE copy
<1>1. /\ r \in Rules /\ copy \in Rule /\ Holding(p) /\ old \in Rule
      /\ job[p].dates \in [Days -> Nat]
  <2>1. r \in Rules /\ copy \in Rule /\ Holding(p) /\ job[p].dates \in [Days -> Nat]
    BY JobTypes DEF Commit, Holding
  <2>2. old # None
    BY <2>1 DEF Cursors, JobsAhead, JobAhead
  <2> QED
    BY <2>1, <2>2, RuleTypes
<1>2. /\ row.next = copy.next /\ row.start = copy.start /\ row.interval = copy.interval
      /\ row.count = copy.count
  BY <1>1 DEF Rule
<1>3. rule'[r] = row
  BY <1>1 DEF Commit, TypeOK
<1>4. \A d \in Days : made'[r][d] = made[r][d] + job[p].dates[d]
  BY <1>1 DEF Commit, TypeOK
<1>5. JobOnSchedule(p) /\ old.start = copy.start /\ old.interval = copy.interval
      /\ old.count \in Nat /\ copy.count \in Nat
  BY <1>1 DEF OnSchedule, CopyOfRow, SameForm, Rule
<1>6. ASSUME NEW d \in Days
      PROVE  made'[r][d] = 1 <=> \E n \in 0..(copy.count - 1) : d = Nth(copy.start, copy.interval, n)
  <2>1. made[r][d] \in Nat /\ job[p].dates[d] \in Nat
    BY <1>1 DEF TypeOK
  <2>2. /\ made[r][d] <= 1 /\ job[p].dates[d] <= 1
        /\ ~(made[r][d] = 1 /\ job[p].dates[d] = 1)
    <3>1. /\ made[r][d] <= 1 /\ job[p].dates[d] <= 1
          /\ made[r][d] > 0 => d < old.next
          /\ job[p].dates[d] > 0 => old.next <= d
      BY <1>1 DEF Cursors, NoReplay, BehindCursor, JobsAhead, JobAhead
    <3>2. old.next \in Nat /\ d \in Nat
      BY <1>1, HorizonAssumption DEF Rule, Days
    <3> QED
      BY <2>1, <3>1, <3>2
  <2>3. made'[r][d] = 1 <=> made[r][d] = 1 \/ job[p].dates[d] = 1
    BY <1>4, <2>1, <2>2
  <2>4. made[r][d] = 1 <=> \E n \in 0..(old.count - 1) : d = Nth(copy.start, copy.interval, n)
    <3>1. old # None
      BY <1>1, NamesAssumption
    <3> QED
      BY <1>1, <1>5, <3>1 DEF OnSchedule, NoGaps
  <2>5. /\ old.count <= copy.count
        /\ job[p].dates[d] = 1 <=>
             \E n \in old.count..(copy.count - 1) : d = Nth(copy.start, copy.interval, n)
    BY <1>5 DEF JobOnSchedule
  <2>6. \A n : n \in 0..(copy.count - 1) <=>
                 n \in 0..(old.count - 1) \/ n \in old.count..(copy.count - 1)
    BY <1>5, <2>5
  <2> QED
    BY <2>3, <2>4, <2>5, <2>6
<1>7. Anchored(row)
  BY <1>2, <1>5 DEF JobOnSchedule, Anchored
<1> QED
  BY <1>2, <1>3, <1>6, <1>7

\* A round of the loop adds the position the copy's cursor was on.
LEMMA OccurOnSchedule ==
    ASSUME TypeOK, Cursors, CopyOfRow, OnSchedule, NEW p \in Procs, Occur(p),
           job'[p] = Occurred(job[p]), rule' = rule
    PROVE  JobOnSchedule(p)'
<1> DEFINE j == job[p]
           c == job[p].copy
           new == Occurred(job[p])
           old == rule[job[p].rule]
<1>1. j \in Job /\ j.copy # None /\ Continues(j) /\ c \in Rule /\ Holding(p) /\ j.rule \in Rules
      /\ j.dates \in [Days -> Nat]
  BY JobTypes DEF Occur, Holding
<1>2. /\ new.rule = j.rule /\ new.copy \in Rule /\ c.next \in Days
      /\ new.dates = [j.dates EXCEPT ![c.next] = @ + 1]
  BY <1>1, OccurredJob
<1>3. /\ new.copy.count = c.count + 1
      /\ new.copy.next = Advance(c).next
      /\ new.copy.start = c.start /\ new.copy.interval = c.interval
  BY <1>1, OccurredCopy DEF SameForm
<1>4. JobOnSchedule(p) /\ JobAhead(p) /\ old \in Rule
  <2>1. JobOnSchedule(p) /\ JobAhead(p)
    BY <1>1 DEF OnSchedule, Cursors, JobsAhead
  <2> QED
    BY <1>1, <2>1, RuleTypes DEF JobAhead
<1>5. Anchored(new.copy)
  <2>1. Anchored(Advance(c)) /\ SameForm(Advance(c), c) /\ Advance(c).count = c.count + 1
    BY <1>1, <1>4, AnchorStays, AdvanceForm DEF JobOnSchedule
  <2> QED
    BY <1>3, <2>1 DEF Anchored, SameForm
<1>6. c.count \in Nat /\ old.count \in Nat /\ old.count <= c.count
  BY <1>1, <1>4 DEF JobOnSchedule, Rule
<1>7. c.next = Nth(c.start, c.interval, c.count)
  BY <1>4 DEF JobOnSchedule, Anchored
<1>8. j.dates[c.next] = 0
  <2>1. j.dates[c.next] > 0 => c.next < c.next
    BY <1>2, <1>4 DEF JobAhead
  <2>2. c.next \in Nat /\ j.dates[c.next] \in Nat
    BY <1>1, <1>2, HorizonAssumption DEF Days
  <2> QED
    BY <2>1, <2>2
<1>9. ASSUME NEW d \in Days
      PROVE  new.dates[d] = 1 <=> \E n \in old.count..c.count : d = Nth(c.start, c.interval, n)
  <2>1. \A n : n \in old.count..c.count <=> n \in old.count..(c.count - 1) \/ n = c.count
    BY <1>6
  <2>2. j.dates[d] = 1 <=> \E n \in old.count..(c.count - 1) : d = Nth(c.start, c.interval, n)
    BY <1>4 DEF JobOnSchedule
  <2>3. CASE d = c.next
    <3>1. new.dates[d] = 1
      BY <1>1, <1>2, <1>8, <2>3
    <3> QED
      BY <1>7, <2>1, <2>3, <3>1
  <2>4. CASE d # c.next
    <3>1. new.dates[d] = j.dates[d]
      BY <1>1, <1>2, <2>4
    <3> QED
      BY <1>7, <2>1, <2>2, <2>4, <3>1
  <2> QED
    BY <2>3, <2>4
<1>10. new.copy.count - 1 = c.count /\ old.count <= new.copy.count
  BY <1>3, <1>6
<1> HIDE DEF new
<1> QED
  BY <1>2, <1>3, <1>5, <1>9, <1>10 DEF JobOnSchedule, new

LEMMA NextOnSchedule ==
    ASSUME TypeOK, Drafts, Cursors, HeldIsLive, CopyOfRow, OnSchedule,
           \A e \in Editors : edit[e] # None => edit[e].new, [Next]_vars
    PROVE  OnSchedule'
<1>1. ASSUME NEW r \in Rules, rule'[r] # None
      PROVE  /\ Anchored(rule'[r])
             /\ \A d \in Days : made'[r][d] = 1 <=>
                  \E n \in 0..(rule'[r].count - 1) :
                      d = Nth(rule'[r].start, rule'[r].interval, n)
  <2>1. CASE rule'[r] = rule[r] /\ made'[r] = made[r]
    BY <1>1, <2>1 DEF OnSchedule, NoGaps
  <2>2. CASE \E f \in Forms : Created(r, f)
    BY <2>2, CreateOnSchedule
  <2>3. CASE \E p \in Procs : Commit(p) /\ job[p].rule = r
    BY <2>3, CommitOnSchedule
  <2>4. \A e \in Editors : ~UpdateSave(e)
    BY DEF UpdateSave
  <2> QED
    BY <1>1, <2>1, <2>2, <2>3, <2>4, RowsChange
<1>2. ASSUME NEW p \in Procs, Holding(p)'
      PROVE  JobOnSchedule(p)'
  <2>1. OneHolder /\ rule'[job'[p].rule] = rule[job'[p].rule]
    BY <1>2, HeldRow DEF Cursors
  <2>2. CASE Holding(p) /\ job'[p] = job[p]
    BY <2>1, <2>2 DEF OnSchedule, JobOnSchedule
  <2>3. CASE Occur(p) /\ job'[p] = Occurred(job[p])
    BY <2>3, OccurOnSchedule DEF Occur
  <2>4. CASE Lock(p) /\ LiveRule(job[p].rule) /\ job'[p] = Copied(p)
    <3>1. /\ Copied(p).copy = rule[job[p].rule] /\ Copied(p).rule = job[p].rule
          /\ Copied(p).dates = job[p].dates /\ job[p].rule \in Rules
      BY <2>4, JobTypes DEF Lock, Copied, Job
    <3>2. rule[job[p].rule] \in Rule /\ rule[job[p].rule] # None
      BY <2>4, <3>1, NamesAssumption DEF LiveRule, TypeOK
    <3>3. \A d \in Days : job[p].dates[d] = 0
      BY <2>4 DEF Lock, Cursors, JobsFresh
    <3>4. rule[job[p].rule].count \in Nat
      BY <3>2 DEF Rule
    <3>5. /\ rule[job[p].rule].count..(rule[job[p].rule].count - 1) = {}
          /\ rule[job[p].rule].count <= rule[job[p].rule].count
      BY <3>4
    <3> QED
      BY <2>1, <2>4, <3>1, <3>2, <3>3, <3>5 DEF OnSchedule, JobOnSchedule
  <2> QED
    BY <1>2, <2>1, <2>2, <2>3, <2>4, HeldRow
<1> QED
  BY <1>1, <1>2 DEF OnSchedule, NoGaps

\* As long as nobody edits, a rule generates every day of its schedule up to its
\* count and no other: no pass, cap or restart leaves a gap.
THEOREM NoDayMissed == Spec => [](edits = 0 => NoGaps)
<1> DEFINE Scheduled == edits = 0 => OnSchedule
<1>1. Init => NoneEdited /\ Scheduled
  <2> SUFFICES ASSUME Init PROVE NoneEdited /\ OnSchedule
    OBVIOUS
  <2>1. \A p \in Procs : ~Holding(p)
    BY DEF Init, Holding
  <2> QED
    BY <2>1 DEF Init, NoneEdited, OnSchedule, NoGaps
<1>2. TypeOK /\ NoneEdited /\ [Next]_vars => NoneEdited'
  BY NextNoneEdited
<1>3. /\ TypeOK /\ Drafts /\ IInv /\ AccountsInv /\ NoneEdited /\ NoneEdited' /\ Scheduled
      /\ [Next]_vars
      => Scheduled'
  <2> SUFFICES ASSUME TypeOK, Drafts, IInv, AccountsInv, NoneEdited, Scheduled, [Next]_vars, edits' = 0
               PROVE  OnSchedule'
    OBVIOUS
  <2>1. edits = 0
    BY EditsGrow
  <2>2. ~overtaken /\ OnSchedule /\ \A e \in Editors : edit[e] # None => edit[e].new
    BY <2>1 DEF NoneEdited
  <2> QED
    BY <2>2, NextOnSchedule DEF IInv, AccountsInv
<1>4. Scheduled => (edits = 0 => NoGaps)
  BY DEF OnSchedule
<1> QED
  BY <1>1, <1>2, <1>3, <1>4, RecurrenceTypes, DraftsInvariant, SpecInvariant, AccountsInvariant,
     PTL DEF Spec

-----------------------------------------------------------------------------
(* The count.  A transaction is a day and its place among those of the day;  *)
(* while no day has two of them, what a commit adds is disjoint from what is *)
(* there, so that the numbers add up.                                        *)

Marks(f) == UNION {{d} \X (1..f[d]) : d \in Days}

AtMostOne(f) == f \in [Days -> Nat] /\ \A d \in Days : f[d] <= 1

On(f) == {d \in Days : f[d] = 1}

LEMMA OnFinite ==
    ASSUME NEW f
    PROVE  IsFiniteSet(On(f)) /\ Cardinality(On(f)) \in Nat
<1>1. IsFiniteSet(Days)
  BY FS_Interval, HorizonAssumption DEF Days
<1>2. On(f) \in SUBSET Days
  BY DEF On
<1> QED
  BY <1>1, <1>2, FS_Subset, FS_CardinalityType

\* While no day has two, there are as many transactions as days that have one.
LEMMA MarksAre ==
    ASSUME NEW f, AtMostOne(f)
    PROVE  Cardinality(Marks(f)) = Cardinality(On(f))
<1> DEFINE b == [d \in On(f) |-> <<d, 1>>]
<1>1. ASSUME NEW d \in Days, d \in On(f)
      PROVE  {d} \X (1..f[d]) = {<<d, 1>>}
  <2>1. 1..f[d] = {1}
    BY <1>1 DEF On
  <2> QED
    BY <2>1
<1>2. ASSUME NEW d \in Days, d \notin On(f)
      PROVE  {d} \X (1..f[d]) = {}
  <2>1. 1..f[d] = {}
    BY <1>2 DEF On, AtMostOne
  <2> QED
    BY <2>1
<1>3. \A d \in On(f) : d \in Days
  BY DEF On
<1>4. b \in [On(f) -> Marks(f)]
  BY <1>1, <1>3 DEF Marks
<1>5. \A d, e \in On(f) : b[d] = b[e] => d = e
  OBVIOUS
<1>6. \A x \in Marks(f) : \E d \in On(f) : b[d] = x
  BY <1>1, <1>2 DEF Marks
<1>7. b \in Bijection(On(f), Marks(f))
  <2> HIDE DEF b
  <2> QED
    BY <1>4, <1>5, <1>6, Fun_IsBij
<1>8. ExistsBijection(On(f), Marks(f))
  BY <1>7 DEF ExistsBijection
<1> QED
  BY <1>8, OnFinite, FS_Bijection

LEMMA NoMarks ==
    ASSUME NEW f, f \in [Days -> Nat], \A d \in Days : f[d] = 0
    PROVE  AtMostOne(f) /\ Cardinality(Marks(f)) = 0
<1>1. AtMostOne(f)
  BY DEF AtMostOne
<1>2. On(f) = {}
  BY DEF On
<1> QED
  BY <1>1, <1>2, MarksAre, FS_EmptySet

\* One occurrence more, on a day that has none.
LEMMA OneMark ==
    ASSUME NEW f, NEW g, AtMostOne(f), NEW day \in Days, f[day] = 0,
           g = [f EXCEPT ![day] = @ + 1]
    PROVE  AtMostOne(g) /\ Cardinality(Marks(g)) = Cardinality(Marks(f)) + 1
<1>1. /\ g \in [Days -> Nat] /\ g[day] = 1
      /\ \A d \in Days : d # day => g[d] = f[d]
  BY DEF AtMostOne
<1>2. AtMostOne(g)
  BY <1>1 DEF AtMostOne
<1>3. On(g) = On(f) \cup {day} /\ day \notin On(f)
  BY <1>1 DEF On
<1>4. Cardinality(On(g)) = Cardinality(On(f)) + 1
  BY <1>3, OnFinite, FS_AddElement
<1> QED
  BY <1>2, <1>4, MarksAre

\* Two sets of days that do not meet.
LEMMA MarksAdd ==
    ASSUME NEW f, NEW g, NEW h, AtMostOne(f), AtMostOne(g), AtMostOne(h),
           \A d \in Days : h[d] = f[d] + g[d]
    PROVE  Cardinality(Marks(h)) = Cardinality(Marks(f)) + Cardinality(Marks(g))
<1>1. \A d \in Days : /\ h[d] = 1 <=> f[d] = 1 \/ g[d] = 1
                      /\ ~(f[d] = 1 /\ g[d] = 1)
  BY DEF AtMostOne
<1>2. On(h) = On(f) \cup On(g) /\ On(f) \cap On(g) = {}
  BY <1>1 DEF On
<1>3. Cardinality(On(f) \cup On(g)) = Cardinality(On(f)) + Cardinality(On(g)) - 0
  BY <1>2, OnFinite, FS_Union, FS_EmptySet
<1>4. Cardinality(On(h)) = Cardinality(On(f)) + Cardinality(On(g))
  BY <1>2, <1>3, OnFinite
<1> QED
  BY <1>4, MarksAre

RowsCounted ==
    \A r \in Rules : rule[r] # None => rule[r].count = Cardinality(Marks(made[r]))

JobCounted(p) ==
    job[p].copy.count = rule[job[p].rule].count + Cardinality(Marks(job[p].dates))

JobsCounted == \A p \in Procs : Holding(p) => JobCounted(p)

\* A pending edit writes the count that is stored.
PendingCounted ==
    \A e \in Editors : edit[e] # None /\ ~edit[e].new =>
        /\ rule[edit[e].rule] # None
        /\ edit[e].row.count = rule[edit[e].rule].count

Counted == RowsCounted /\ JobsCounted /\ PendingCounted

\* No day has two transactions, neither among the stored nor the pending ones.
LEMMA AtMostOnes ==
    ASSUME TypeOK, Cursors
    PROVE  /\ \A r \in Rules : AtMostOne(made[r])
           /\ \A p \in Procs : Holding(p) => AtMostOne(job[p].dates)
<1>1. \A r \in Rules : AtMostOne(made[r])
  BY DEF Cursors, NoReplay, TypeOK, AtMostOne
<1>2. ASSUME NEW p \in Procs, Holding(p)
      PROVE  AtMostOne(job[p].dates)
  <2>1. job[p].dates \in [Days -> Nat]
    BY <1>2, JobTypes DEF Holding
  <2> QED
    BY <1>2, <2>1 DEF Cursors, JobsAhead, JobAhead, AtMostOne
<1> QED
  BY <1>1, <1>2

\* A commit adds as many transactions as its copy has counted.
LEMMA CommitCounted ==
    ASSUME TypeOK, Cursors, Cursors', TypeOK', RowsCounted, JobsCounted,
           NEW p \in Procs, Commit(p)
    PROVE  LET r == job[p].rule
           IN  rule'[r].count = Cardinality(Marks(made'[r]))
<1> DEFINE r == job[p].rule
           copy == job[p].copy
           row == IF Continues(job[p]) THEN [copy EXCEPT !.active = FALSE] ELSE copy
<1>1. r \in Rules /\ copy \in Rule /\ Holding(p) /\ rule[r] # None
  <2>1. r \in Rules /\ copy \in Rule /\ Holding(p)
    BY JobTypes DEF Commit, Holding
  <2> QED
    BY <2>1 DEF Cursors, JobsAhead, JobAhead
<1>2. row.count = copy.count
  BY <1>1 DEF Rule
<1>3. rule'[r] = row
  BY <1>1 DEF Commit, TypeOK
<1>4. \A d \in Days : made'[r][d] = made[r][d] + job[p].dates[d]
  BY <1>1 DEF Commit, TypeOK
<1>5. AtMostOne(made[r]) /\ AtMostOne(job[p].dates)
  BY <1>1, AtMostOnes
<1>6. AtMostOne(made'[r])
  BY <1>1 DEF Cursors, NoReplay, TypeOK, AtMostOne
<1>7. Cardinality(Marks(made'[r]))
         = Cardinality(Marks(made[r])) + Cardinality(Marks(job[p].dates))
  BY <1>4, <1>5, <1>6, MarksAdd
<1>8. /\ rule[r].count = Cardinality(Marks(made[r]))
      /\ copy.count = rule[r].count + Cardinality(Marks(job[p].dates))
  BY <1>1 DEF RowsCounted, JobsCounted, JobCounted
<1> QED
  BY <1>2, <1>3, <1>7, <1>8

LEMMA NextRowsCounted ==
    ASSUME TypeOK, TypeOK', Drafts, Cursors, Cursors', Counted, [Next]_vars
    PROVE  RowsCounted'
<1> SUFFICES ASSUME NEW r \in Rules, rule'[r] # None
             PROVE  rule'[r].count = Cardinality(Marks(made'[r]))
  BY DEF RowsCounted, Marks
<1>1. CASE rule'[r] = rule[r] /\ made'[r] = made[r]
  BY <1>1 DEF Counted, RowsCounted
<1>2. ASSUME NEW f \in Forms, Created(r, f)
      PROVE  rule'[r].count = Cardinality(Marks(made'[r]))
  <2>1. rule'[r].count = 0 /\ made' = made /\ rule[r] = None
    BY <1>2 DEF Created, Fresh, TypeOK, Cursors, AbsentEmpty
  <2>2. \A d \in Days : made[r][d] \in Nat /\ ~(made[r][d] > 0)
    BY <2>1 DEF Cursors, BehindCursor, TypeOK
  <2>3. made[r] \in [Days -> Nat] /\ \A d \in Days : made[r][d] = 0
    BY <2>2 DEF TypeOK
  <2> QED
    BY <2>1, <2>3, NoMarks
<1>3. ASSUME NEW p \in Procs, Commit(p), job[p].rule = r
      PROVE  rule'[r].count = Cardinality(Marks(made'[r]))
  BY <1>3, CommitCounted DEF Counted
<1>4. ASSUME NEW e \in Editors, UpdateSave(e), edit[e].rule = r
      PROVE  rule'[r].count = Cardinality(Marks(made'[r]))
  <2>1. rule'[r] = edit[e].row /\ made' = made /\ edit[e] # None /\ ~edit[e].new
    BY <1>4 DEF UpdateSave, TypeOK
  <2> QED
    BY <1>4, <2>1 DEF Counted, PendingCounted, RowsCounted
<1> QED
  BY <1>1, <1>2, <1>3, <1>4, RowsChange

\* A round of the loop counts the occurrence it adds.
LEMMA OccurCounted ==
    ASSUME TypeOK, Cursors, JobsCounted, NEW p \in Procs, Occur(p),
           job'[p] = Occurred(job[p]), rule'[job[p].rule] = rule[job[p].rule]
    PROVE  JobCounted(p)'
<1> DEFINE j == job[p]
           new == Occurred(job[p])
<1>1. j \in Job /\ j.copy # None /\ Continues(j) /\ Holding(p) /\ j.dates \in [Days -> Nat]
      /\ j.copy \in Rule /\ j.rule \in Rules
  BY JobTypes DEF Occur, Holding
<1>2. /\ new.rule = j.rule /\ j.copy.next \in Days
      /\ new.dates = [j.dates EXCEPT ![j.copy.next] = @ + 1]
      /\ new.copy.count = j.copy.count + 1
  BY <1>1, OccurredJob, OccurredCopy
<1>3. JobAhead(p) /\ JobCounted(p) /\ AtMostOne(j.dates)
  BY <1>1, AtMostOnes DEF Cursors, JobsAhead, JobsCounted
<1>4. j.dates[j.copy.next] = 0
  <2>1. j.dates[j.copy.next] > 0 => j.copy.next < j.copy.next
    BY <1>2, <1>3 DEF JobAhead
  <2>2. j.copy.next \in Nat /\ j.dates[j.copy.next] \in Nat
    BY <1>1, <1>2, HorizonAssumption DEF Days
  <2> QED
    BY <2>1, <2>2
<1>5. Cardinality(Marks(new.dates)) = Cardinality(Marks(j.dates)) + 1
  BY <1>2, <1>3, <1>4, OneMark
<1>6. /\ rule[j.rule].count \in Nat /\ j.copy.count \in Nat
      /\ Cardinality(Marks(j.dates)) \in Nat
  <2>1. rule[j.rule] \in Rule
    BY <1>1, <1>3, RuleTypes DEF JobAhead
  <2>2. Cardinality(Marks(j.dates)) \in Nat
    BY <1>3, MarksAre, OnFinite
  <2> QED
    BY <1>1, <2>1, <2>2 DEF Rule
<1>7. new.copy.count = rule[j.rule].count + Cardinality(Marks(new.dates))
  BY <1>2, <1>3, <1>5, <1>6 DEF JobCounted
<1> HIDE DEF new
<1> QED
  BY <1>2, <1>7 DEF JobCounted, Marks, new

LEMMA NextJobsCounted ==
    ASSUME TypeOK, Drafts, Cursors, HeldIsLive, JobsCounted, [Next]_vars
    PROVE  JobsCounted'
<1> SUFFICES ASSUME NEW p \in Procs, Holding(p)'
             PROVE  JobCounted(p)'
  BY DEF JobsCounted
<1>1. OneHolder /\ rule'[job'[p].rule] = rule[job'[p].rule]
  BY HeldRow DEF Cursors
<1>2. CASE Holding(p) /\ job'[p] = job[p]
  BY <1>1, <1>2 DEF JobsCounted, JobCounted, Marks
<1>3. CASE Occur(p) /\ job'[p] = Occurred(job[p])
  <2>1. Occurred(job[p]).rule = job[p].rule
    BY <1>3, JobTypes, OccurredJob DEF Occur
  <2> QED
    BY <1>1, <1>3, <2>1, OccurCounted
<1>4. CASE Lock(p) /\ LiveRule(job[p].rule) /\ job'[p] = Copied(p)
  <2>1. /\ Copied(p).copy = rule[job[p].rule] /\ Copied(p).rule = job[p].rule
        /\ Copied(p).dates = job[p].dates /\ job[p].rule \in Rules
        /\ job[p].dates \in [Days -> Nat]
    BY <1>4, JobTypes DEF Lock, Copied, Job
  <2>2. rule[job[p].rule] \in Rule
    BY <1>4, <2>1 DEF LiveRule, TypeOK
  <2>3. \A d \in Days : job[p].dates[d] = 0
    BY <1>4 DEF Lock, Cursors, JobsFresh
  <2>4. Cardinality(Marks(job[p].dates)) = 0
    BY <2>1, <2>3, NoMarks
  <2>5. rule[job[p].rule].count \in Nat
    BY <2>2 DEF Rule
  <2>6. rule[job[p].rule].count = rule[job[p].rule].count + Cardinality(Marks(job[p].dates))
    BY <2>4, <2>5
  <2> QED
    BY <1>1, <1>4, <2>1, <2>6 DEF JobCounted, Marks
<1> QED
  BY <1>1, <1>2, <1>3, <1>4, HeldRow

\* An edit keeps the count it has read.
LEMMA NextPendingCounted ==
    ASSUME TypeOK, PendingCounted, [Next]_vars, ~overtaken'
    PROVE  PendingCounted'
<1>1. ASSUME NEW e \in Editors, edit'[e] = edit[e], edit'[e] # None, ~edit'[e].new
      PROVE  /\ rule'[edit'[e].rule] # None
             /\ edit'[e].row.count = rule'[edit'[e].rule].count
  <2>1. rule'[edit[e].rule] = rule[edit[e].rule]
    BY <1>1 DEF Next, Watch, Overtakes, vars
  <2> QED
    BY <1>1, <2>1 DEF PendingCounted
<1>2. ASSUME NEW e \in Editors, NEW r \in Rules, NEW f \in Forms, NEW a \in Accounts,
             UpdateRead(e, r, f, a)
      PROVE  PendingCounted'
  <2>1. rule[r] \in Rule /\ rule[r] # None /\ rule' = rule
    BY <1>2 DEF UpdateRead, LiveRule, TypeOK
  <2>2. Apply(rule[r], f, a).count = rule[r].count
    BY <2>1 DEF Apply, Rule
  <2>3. /\ edit'[e] = [rule |-> r, row |-> Apply(rule[r], f, a), new |-> FALSE]
        /\ \A q \in Editors : q # e => edit'[q] = edit[q]
    BY <1>2 DEF UpdateRead, TypeOK
  <2> QED
    BY <1>1, <2>1, <2>2, <2>3 DEF PendingCounted
<1>3. ASSUME \A e \in Editors : edit'[e] = None \/ edit'[e].new \/ edit'[e] = edit[e]
      PROVE  PendingCounted'
  BY <1>1, <1>3 DEF PendingCounted
<1>4. ASSUME NEW e \in Editors, CreateInsert(e) \/ UpdateSave(e)
      PROVE  PendingCounted'
  BY <1>3, <1>4 DEF CreateInsert, UpdateSave, TypeOK
<1>7. ASSUME NEW e \in Editors, NEW r \in Rules, NEW f \in Forms, CreateRead(e, r, f)
      PROVE  PendingCounted'
  BY <1>3, <1>7 DEF CreateRead, TypeOK
<1>5. CASE Restart
  BY <1>3, <1>5 DEF Restart
<1>6. CASE edit' = edit
  BY <1>3, <1>6
<1> QED
  BY <1>2, <1>4, <1>5, <1>6, <1>7
  DEF Next, UserStep, Tick, Delete, DeleteAccount, RunNow, GenerateDue, VisitRule,
      Generation, Lock, Occur, Commit, vars

\* As long as no edit has been overtaken, the stored count of a rule is the
\* number of its transactions: a commit writes both, an edit writes back the
\* count that is stored, and a rollback loses both.
THEOREM CountsAreExact == Spec => []CountIsExact
<1> DEFINE CountInv == ~overtaken => Counted
<1>1. Init => CountInv
  <2> SUFFICES ASSUME Init PROVE Counted
    OBVIOUS
  <2>1. \A p \in Procs : ~Holding(p)
    BY DEF Init, Holding
  <2> QED
    BY <2>1 DEF Init, Counted, RowsCounted, JobsCounted, PendingCounted
<1>2. /\ TypeOK /\ TypeOK' /\ Drafts /\ IInv /\ IInv' /\ AccountsInv /\ CountInv /\ [Next]_vars
      => CountInv'
  <2> SUFFICES ASSUME TypeOK, TypeOK', Drafts, IInv, IInv', AccountsInv, CountInv, [Next]_vars,
                      ~overtaken'
               PROVE  Counted'
    OBVIOUS
  <2>1. ~overtaken
    BY DEF Next, Watch, vars
  <2>2. Cursors /\ Cursors' /\ HeldIsLive /\ Counted
    BY <2>1 DEF IInv, AccountsInv
  <2> QED
    BY <2>2, NextRowsCounted, NextJobsCounted, NextPendingCounted DEF Counted
<1>3. CountInv => CountIsExact
  BY DEF Counted, RowsCounted, CountIsExact, Generated, Marks
<1> QED
  BY <1>1, <1>2, <1>3, RecurrenceTypes, DraftsInvariant, SpecInvariant, AccountsInvariant,
     PTL DEF Spec
=============================================================================
