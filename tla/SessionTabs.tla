---------------------------- MODULE SessionTabs ----------------------------
(***************************************************************************)
(* The tabs of one browser over Sessions (src/frontend/src/lib/axios.ts,   *)
(* stores/authStore.ts).  All tabs share the tokens kept in localStorage,  *)
(* each has a copy in memory, and each may find at any time that its       *)
(* access token has expired.  An access token is named by the refresh      *)
(* token it was issued with.                                               *)
(***************************************************************************)
EXTENDS Sessions, Sequences

CONSTANTS
    Tabs,
    First,      \* the token of the login the tabs share
    Locks       \* has the browser Web Locks

ASSUME TabsAssumption == Tabs = Requests /\ First \in Ids /\ Locks \in BOOLEAN

VARIABLES
    store,      \* the tokens in localStorage
    mem,        \* the tokens in each tab's memory
    tab,        \* what each tab is doing about them
    queue,      \* the tabs that asked for the lock, its holder first
    stale,      \* the access tokens that have expired
    out,        \* history: a user signed out in one of the tabs
    lost,       \* history: the answer to a rotation never came
    restored    \* history: a tab stored its memory over tokens it had not read

tabVars == <<store, mem, tab, queue, stale, out, lost, restored>>
allVars == <<vars, tabVars>>

None == "none"

ASSUME NoneAssumption == None \notin Ids

Ready == [phase |-> "ready"]

TabState == {Ready}
            \cup [phase : {"waiting", "posting", "leaving"}, tok : Ids]
            \cup [phase : {"posted", "left"}]

TabsTypeOK ==
    /\ TypeOK
    /\ store \in Ids \cup {None}
    /\ mem \in [Tabs -> Ids \cup {None}]
    /\ tab \in [Tabs -> TabState]
    /\ queue \in Seq(Tabs)
    /\ stale \subseteq DOMAIN tokens
    /\ {out, lost, restored} \subseteq BOOLEAN

\* The tabs have just been opened after a login.
TabsInit ==
    /\ now = 0
    /\ \E u \in Users : tokens = [i \in {First} |-> NewToken(u, First, now + SessionMaxAge)]
    /\ disabled = [u \in Users |-> FALSE]
    /\ challenge = [u \in Users |-> Never]
    /\ req = [r \in Requests |-> Idle]
    /\ ended = {}
    /\ passed = {}
    /\ store = First
    /\ mem = [t \in Tabs |-> First]
    /\ tab = [t \in Tabs |-> Ready]
    /\ queue = <<>>
    /\ stale = {}
    /\ out = FALSE
    /\ lost = FALSE
    /\ restored = FALSE

-----------------------------------------------------------------------------
HasLock(t) == Locks => queue # <<>> /\ Head(queue) = t

\* Mutant of Done: a tab that used another's tokens keeps the lock.
DoneHolding(t) ==
    /\ tab' = [tab EXCEPT ![t] = Ready]
    /\ queue' = IF Locks /\ tab[t].phase = "posted" THEN Tail(queue) ELSE queue

\* performRefresh settles: the lock passes to the next tab.
Done(t) ==
    /\ tab' = [tab EXCEPT ![t] = Ready]
    /\ queue' = IF Locks THEN Tail(queue) ELSE queue

SetTokens(t, i) == store' = i /\ mem' = [mem EXCEPT ![t] = i]

ForceLogout(t) == store' = None /\ mem' = [mem EXCEPT ![t] = None]

\* Tokens enough for every tab to refresh: the model's end.
Room == Cardinality(Ids \ DOMAIN tokens) >= Cardinality(Tabs)

\* A request comes back 401: the tab asks for a refresh.
Unauthorized(t) ==
    /\ Room
    /\ tab[t] = Ready
    /\ mem[t] # None /\ mem[t] \in stale
    /\ tab' = [tab EXCEPT ![t] = [phase |-> "waiting", tok |-> mem[t]]]
    /\ queue' = IF Locks THEN Append(queue, t) ELSE queue
    /\ UNCHANGED <<vars, store, mem, stale, out, lost, restored>>

\* Another tab has rotated the tokens, and its access token is good.
RotatedByOther(t) == store \notin {None, tab[t].tok} \cup stale

Presented(t) == IF store # None THEN store ELSE mem[t]

\* Mutant of RefreshOnce: the tab presents the token it remembers.
RefreshOnceFromMemory(t) ==
    /\ tab[t].phase = "waiting"
    /\ HasLock(t)
    /\ tab' = [tab EXCEPT ![t] = [phase |-> "posting", tok |-> tab[t].tok]]
    /\ UNCHANGED <<vars, store, mem, queue, stale, out, lost, restored>>

\* refreshOnce up to its request: the tokens another tab stored are used, or
\* the stored refresh token is presented, or else the one in memory.
RefreshOnce(t) ==
    /\ tab[t].phase = "waiting"
    /\ HasLock(t)
    /\ \/ RotatedByOther(t) /\ SetTokens(t, store) /\ Done(t)
       \/ /\ ~RotatedByOther(t)
          /\ Presented(t) = None
          /\ ForceLogout(t) /\ Done(t)
       \/ /\ ~RotatedByOther(t)
          /\ Presented(t) # None
          /\ tab' = [tab EXCEPT ![t] = [phase |-> "posting", tok |-> Presented(t)]]
          /\ UNCHANGED <<store, mem, queue>>
    /\ UNCHANGED <<vars, stale, out, lost, restored>>

\* The request reaches the server.
Arrive(t) ==
    /\ tab[t].phase = "posting"
    /\ RefreshFind(t, tab[t].tok)
    /\ tab' = [tab EXCEPT ![t] = [phase |-> "posted"]]
    /\ UNCHANGED <<store, mem, queue, stale, out, lost, restored>>

\* The answer reaches the tab: 401 ends the session, 5xx does not.
Deliver(t) ==
    /\ tab[t].phase = "posted"
    /\ Answer(t)
    /\ \/ req[t].phase = "granted" /\ SetTokens(t, req[t].tok)
       \/ req[t].phase = "denied"  /\ ForceLogout(t)
       \/ req[t].phase = "failed"  /\ UNCHANGED <<store, mem>>
    /\ Done(t)
    /\ UNCHANGED <<stale, out, lost, restored>>

\* The request or its answer is lost: the tab keeps what it has.
Lose(t) ==
    /\ \/ tab[t].phase = "posting" /\ UNCHANGED <<vars, lost>>
       \/ /\ tab[t].phase = "posted"
          /\ Answer(t)
          /\ lost' = (lost \/ req[t].phase = "granted")
    /\ Done(t)
    /\ UNCHANGED <<store, mem, stale, out, restored>>

\* A storage event: the tab follows what another tab wrote.
Rehydrate(t) ==
    /\ mem[t] # store
    /\ mem' = [mem EXCEPT ![t] = store]
    /\ UNCHANGED <<vars, store, tab, queue, stale, out, lost, restored>>

\* Any other change of a tab's store - the user of /me, a switch of the
\* organization, a change of the password: persist stores all of the tab's
\* memory, its tokens too, which another tab may have rotated meanwhile.
Persist(t) ==
    /\ mem[t] # store
    /\ store' = mem[t]
    /\ restored' = TRUE
    /\ UNCHANGED <<vars, mem, tab, queue, stale, out, lost>>

\* The user signs out: the token in memory is sent to be revoked.
SignOut(t) ==
    /\ tab[t] = Ready
    /\ mem[t] # None
    /\ tab' = [tab EXCEPT ![t] = [phase |-> "leaving", tok |-> mem[t]]]
    /\ UNCHANGED <<vars, store, mem, queue, stale, out, lost, restored>>

\* Logout of a token that is not good does nothing.
LeaveArrive(t) ==
    /\ tab[t].phase = "leaving"
    /\ \/ LogoutFind(t, tab[t].tok)
       \/ ~Active(tab[t].tok) /\ UNCHANGED vars
    /\ tab' = [tab EXCEPT ![t] = [phase |-> "left"]]
    /\ UNCHANGED <<store, mem, queue, stale, out, lost, restored>>

\* Whatever the server said, the tokens are forgotten.
Leave(t) ==
    /\ tab[t].phase = "left"
    /\ req[t] = Idle
    /\ ForceLogout(t)
    /\ out' = TRUE
    /\ tab' = [tab EXCEPT ![t] = Ready]
    /\ UNCHANGED <<vars, queue, stale, lost, restored>>

\* An access token expires.
ExpireAccess(i) ==
    /\ i \in DOMAIN tokens \ stale
    /\ stale' = stale \cup {i}
    /\ UNCHANGED <<vars, store, mem, tab, queue, out, lost, restored>>

ServerStep(t) ==
    /\ \/ RefreshUser(t)
       \/ RefreshReuse(t)
       \/ RefreshClaim(t)
       \/ RefreshIssue(t)
       \/ RefreshFails(t)
       \/ LogoutRevoke(t)
    /\ lost' = (lost \/ req'[t].phase = "failed")
    /\ UNCHANGED <<store, mem, tab, queue, stale, out, restored>>

TabsNext ==
    \/ \E t \in Tabs :
         \/ ServerStep(t)
         \/ Unauthorized(t)
         \/ RefreshOnce(t)
         \/ Arrive(t)
         \/ Deliver(t)
         \/ Lose(t)
         \/ Rehydrate(t)
         \/ Persist(t)
         \/ SignOut(t)
         \/ LeaveArrive(t)
         \/ Leave(t)
    \/ \E i \in Ids : ExpireAccess(i)
    \/ Tick /\ UNCHANGED tabVars

\* The server answers what reaches it, and a connection delivers or breaks.
Serving(t) ==
    \/ ServerStep(t)
    \/ RefreshOnce(t)
    \/ Arrive(t)
    \/ Deliver(t)
    \/ Lose(t)

TabsSpec == TabsInit /\ [][TabsNext]_allVars /\ \A t \in Tabs : WF_allVars(Serving(t))

-----------------------------------------------------------------------------
(* Properties. *)

\* The session's own end: every token of it has run out.
SessionOver == \A i \in DOMAIN tokens : Expired(i)

SigningOut == \E t \in Tabs : tab[t].phase \in {"leaving", "left"}

\* However the tabs' refreshes interleave, the browser stays signed in until a
\* user signs out or the session is over: no tab presents a token that another
\* has rotated, and none is taken for a copy.  The browser holds a token that is
\* taken for one only when the answer to a rotation never came, or when a tab
\* that had not read the new tokens yet stored its own memory over them.
SignedInUntilOver == store = None => out \/ SigningOut \/ SessionOver \/ lost \/ restored

\* A tab that needs new tokens gets an answer: no tab keeps the lock for ever.
EveryRefreshEnds ==
    \A t \in Tabs : tab[t].phase = "waiting" ~> tab[t] = Ready
=============================================================================
