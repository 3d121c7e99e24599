--------------------------- MODULE ScreensProofs ---------------------------
(***************************************************************************)
(* Theorems about Navigation, for any users, roles and bounds, and about   *)
(* the machines of the browser side by side.  Where a tab may be after one *)
(* and after two redirects bounds their number; the flag of the session,   *)
(* compared with the server's, carries the forced change of a password     *)
(* over sign-ins, late answers and other tabs.                             *)
(***************************************************************************)
EXTENDS MCScreens, PagesProofs

\* A record kept by a page or a hook knows of the forced change.
Knows(who, flag) == who \in mustChange => flag \/ crossed \/ who \in resets

\* An account of one's own never has a password given by an admin, and whose
\* change was stored has one only if it was reset since.
RightCall(q) ==
    /\ q.call \in {"login", "verify", "register", "initialize"} => q.user \in Users
    /\ q.call \in {"register", "initialize"} => q.user \notin Provisioned
    /\ q.call = "verifyEmail" /\ ~q.heard => Knows(q.user, q.flag)
    /\ q.call = "change" /\ q.flag /\ q.user \in mustChange => q.user \in resets

CallsOfUsers == \A q \in calls : RightCall(q)

SessionsAreOfUsers ==
    /\ mustChange \subseteq Provisioned \cup resets
    /\ visitor # None \/ resets # {} => initialized

\* The session knows of the forced change, and its record is its user's.
FlagIsKept ==
    /\ visitor \in mustChange => must \/ crossed \/ stale
    /\ Knows(profile, must)
    /\ visitor # None => profile = visitor \/ crossed

(***************************************************************************)
(* Where redirects have led to.  A tab that believes the wizard is needed  *)
(* and has a signed-in user is left out: it may go round.                  *)
(***************************************************************************)
Probed == probe \in {"failed", "done"}

HopsSoFar ==
    \/ probe = "needed" /\ visitor # None
    \/ hops = 0
    \/ hops = 1 /\ probe = "needed" /\ at = "/setup"
    \/ hops = 1 /\ Probed /\ at \in {"/404", "/login"}
    \/ hops = 1 /\ Probed /\ visitor # None /\ at \in {"/", "/change-password"}
    \/ hops = 2 /\ Probed /\ visitor # None /\ at = "/change-password"
    \/ hops = 2 /\ Probed /\ visitor # None /\ at = "/" /\ ~must

NavInv ==
    NavTypeOK /\ CallsOfUsers /\ SessionsAreOfUsers /\ FlagIsKept /\ HopsSoFar

-----------------------------------------------------------------------------
\* A page of the application is not shown to whom the session sends away.
LEMMA MustLeave ==
    ASSUME at \in App, visitor # None, must
    PROVE  ~Settled
<1>1. at \in Protected /\ at # "/change-password"
  BY DEF App, Protected
<1>2. Guard = "/change-password"
  BY <1>1 DEF Guard, ProtectedRoute, Protected, PublicOnly
<1>3. "/change-password" # None
  BY PathsAssumption DEF Paths, Protected
<1> QED  BY <1>2, <1>3 DEF Settled, Target

\* A redirect leads on, and the second one ends.
LEMMA RedirectHops ==
    ASSUME NavInv, Redirect
    PROVE  HopsSoFar' /\ at' \in Paths
<1> USE PathsAssumption DEF Paths, Public, PublicOnly, Protected
<1>0. at \in Paths /\ at' = Target /\ Target # None /\ Rendering /\ hops' = hops + 1
      /\ UNCHANGED <<probe, visitor, must>> /\ hops \in Nat
  BY DEF NavInv, NavTypeOK, Redirect, StoredSession
<1>1. CASE probe = "needed" /\ visitor # None
  <2>1. at' \in Paths
    BY <1>0, <1>1 DEF Target, SetupGate, SetupAllowlist, Guard, ProtectedRoute,
       PublicOnlyRoute, OwnRedirect, SetupPageEffect, AdminPages, ManagersPages
  <2> QED  BY <1>0, <1>1, <2>1 DEF HopsSoFar
<1>2. CASE probe = "needed" /\ visitor = None
  <2>1. at' = "/setup" /\ at # "/setup"
    BY <1>0, <1>2 DEF Target, SetupGate, SetupAllowlist, Guard, ProtectedRoute,
       PublicOnlyRoute, OwnRedirect, SetupPageEffect, AdminPages, ManagersPages
  <2>2. hops = 0
    BY <1>2, <2>1 DEF NavInv, NavTypeOK, HopsSoFar, Probed
  <2> QED  BY <1>0, <1>2, <2>1, <2>2 DEF HopsSoFar
<1>3. CASE Probed /\ visitor = None
  <2>1. at' \in {"/404", "/login"} /\ at \notin {"/404", "/login"}
    BY <1>0, <1>3 DEF Probed, Target, SetupGate, SetupAllowlist, Guard, ProtectedRoute,
       PublicOnlyRoute, OwnRedirect, SetupPageEffect, AdminPages, ManagersPages
  <2>2. hops = 0
    BY <1>3, <2>1 DEF NavInv, NavTypeOK, HopsSoFar, Probed
  <2> QED  BY <1>0, <1>3, <2>1, <2>2 DEF HopsSoFar, Probed
<1>4. CASE Probed /\ visitor # None
  <2>1. /\ at' \in {"/404", "/login", "/", "/change-password"}
        /\ at \notin {"/404", "/change-password"}
        /\ at = "/" => must /\ at' = "/change-password"
        /\ at = "/login" => at' = IF must THEN "/change-password" ELSE "/"
    BY <1>0, <1>4 DEF Probed, Target, SetupGate, SetupAllowlist, Guard, ProtectedRoute,
       PublicOnlyRoute, OwnRedirect, SetupPageEffect, AdminPages, ManagersPages
  <2>2. hops = 0 \/ (hops = 1 /\ at \in {"/login", "/"})
    BY <1>4, <2>1 DEF NavInv, NavTypeOK, HopsSoFar, Probed
  <2> QED  BY <1>0, <1>4, <2>1, <2>2 DEF HopsSoFar, Probed
<1>5. probe \in {"needed", "failed", "done"}
  BY <1>0 DEF Rendering, NavInv, NavTypeOK
<1> QED  BY <1>1, <1>2, <1>3, <1>4, <1>5 DEF Probed

-----------------------------------------------------------------------------
LEMMA FreshIsLocal == Fresh \in Local
  BY DEF Fresh, Local

LEMMA NavInitInv == NavInit => NavInv
<1> SUFFICES ASSUME NavInit PROVE NavInv
  OBVIOUS
<1> USE NavigationAssumption DEF NavInit
<1>1. NavTypeOK
  <2>1. /\ {visitor, profile} \subseteq Users \cup {None}
        /\ {must, splash, stale, crossed} \subseteq BOOLEAN
    OBVIOUS
  <2>2. hops \in 0..(MaxHops + 1)
    OBVIOUS
  <2> QED  BY <2>1, <2>2, FreshIsLocal DEF NavTypeOK
<1>2. CallsOfUsers /\ SessionsAreOfUsers
  BY DEF CallsOfUsers, SessionsAreOfUsers
<1>3. FlagIsKept /\ HopsSoFar
  BY DEF FlagIsKept, Knows, HopsSoFar
<1> QED  BY <1>1, <1>2, <1>3 DEF NavInv

(***************************************************************************)
(* What a call carries, compared with one that was under way: a hook that  *)
(* holds a user now has let go of the page before or does so in this step. *)
(***************************************************************************)
SameCall(r, q) ==
    /\ r.call = q.call /\ r.user = q.user /\ r.flag = q.flag
    /\ r.call = "verifyEmail" /\ ~r.heard => ~q.heard

\* Flags are set by resets only, and what has crossed stays so.
Grows ==
    /\ mustChange' \subseteq mustChange \cup resets'
    /\ resets \subseteq resets'
    /\ crossed => crossed'

LEMMA CallsKept ==
    ASSUME NavInv, Grows,
           \A r \in calls' : RightCall(r)' \/ \E q \in calls : SameCall(r, q)
    PROVE  CallsOfUsers'
<1> SUFFICES ASSUME NEW r \in calls', NEW q \in calls, SameCall(r, q) PROVE RightCall(r)'
  BY DEF CallsOfUsers
<1>1. RightCall(q)
  BY DEF NavInv, CallsOfUsers
<1> QED  BY <1>1 DEF RightCall, SameCall, Knows, Grows

LEMMA UnheardCalls ==
    ASSUME NavTypeOK, NEW requests \in SUBSET calls, NEW u \in Users \cup {None},
           NEW f \in BOOLEAN, NEW r \in UnheardWith(requests, u, f)
    PROVE  /\ r \in Call
           /\ \/ \E q \in requests : SameCall(r, q)
              \/ r.call = "verifyEmail" /\ r.user = u /\ r.flag = f
<1>1. PICK q \in requests : r = [Captured(q, u, f) EXCEPT !.heard = FALSE]
  BY DEF UnheardWith
<1>2. q \in Call
  BY DEF NavTypeOK
<1>3. CASE q.heard /\ q.call = "verifyEmail"
  <2>1. Captured(q, u, f) = [q EXCEPT !.user = u, !.flag = f]
    BY <1>3 DEF Captured
  <2> QED  BY <1>1, <1>2, <1>3, <2>1 DEF Call
<1>4. CASE ~(q.heard /\ q.call = "verifyEmail")
  <2>1. r = [q EXCEPT !.heard = FALSE]
    BY <1>1, <1>4 DEF Captured
  <2> QED  BY <1>2, <1>4, <2>1 DEF Call, SameCall
<1> QED  BY <1>3, <1>4

\* A page is left, with the record its hook holds from then on.
LEMMA LeavingKeeps ==
    ASSUME NavInv, Grows, NEW requests \in SUBSET calls, NEW u \in Users \cup {None},
           NEW f \in BOOLEAN, Knows(u, f)', calls' = UnheardWith(requests, u, f)
    PROVE  CallsOfUsers' /\ calls' \subseteq Call
<1>1. NavTypeOK
  BY DEF NavInv
<1>2. ASSUME NEW r \in calls'
      PROVE  r \in Call /\ (RightCall(r)' \/ \E q \in calls : SameCall(r, q))
  <2>1. /\ r \in Call
        /\ \/ \E q \in requests : SameCall(r, q)
           \/ r.call = "verifyEmail" /\ r.user = u /\ r.flag = f
    BY <1>1, <1>2, UnheardCalls
  <2> QED  BY <2>1 DEF RightCall
<1> QED  BY <1>2, CallsKept

\* The same with the record of the moment, which this step leaves alone.
LEMMA LeavesKeep ==
    ASSUME NavInv, Grows, NEW requests \in SUBSET calls,
           calls' = Unheard(requests) \/ calls' = requests
    PROVE  CallsOfUsers' /\ calls' \subseteq Call
<1>1. profile \in Users \cup {None} /\ must \in BOOLEAN /\ calls \subseteq Call
  BY DEF NavInv, NavTypeOK
<1>2. profile \in mustChange' => must \/ crossed' \/ profile \in resets'
  BY DEF NavInv, FlagIsKept, Knows, Grows
<1>3. CASE calls' = Unheard(requests)
  <2>1. \A r \in calls' : /\ r \in Call
                          /\ \/ \E q \in requests : SameCall(r, q)
                             \/ r.call = "verifyEmail" /\ r.user = profile /\ r.flag = must
    BY <1>1, <1>3, UnheardCalls DEF Unheard, NavInv
  <2>2. \A r \in calls' : RightCall(r)' \/ \E q \in calls : SameCall(r, q)
    BY <1>2, <2>1 DEF RightCall, Knows
  <2> QED  BY <2>1, <2>2, CallsKept
<1>4. CASE calls' = requests
  BY <1>1, <1>4, CallsKept DEF SameCall
<1> QED  BY <1>3, <1>4

\* A request of a page: whose it is says who registers.
LEMMA DispatchKeeps ==
    ASSUME NavInv, NEW call, NEW u, DispatchCall(call, u),
           local' \in Local,
           [call |-> call, user |-> u, heard |-> TRUE, flag |-> FALSE] \in Call,
           call \in {"login", "verify", "register", "initialize"} => u \in Users,
           call \in {"register", "initialize"} => u \notin Provisioned
    PROVE  NavInv'
<1> DEFINE new == [call |-> call, user |-> u, heard |-> TRUE, flag |-> FALSE]
           same == {q \in calls : q.call = call}
<1>1. /\ calls' = {q \in calls : q.call # call} \cup Unheard(same) \cup {new}
      /\ UNCHANGED <<at, probe, initialized, mustChange, resets, visitor, profile, must,
                     stale, splash, hops, crossed>>
  BY DEF DispatchCall, StoredSession, Platform
<1>2. Grows
  BY <1>1 DEF Grows
<1>3. new \in Call /\ new.call = call /\ new.user = u /\ new.heard = TRUE /\ new.flag = FALSE
  OBVIOUS
<1> HIDE DEF new
<1>4. profile \in Users \cup {None} /\ must \in BOOLEAN /\ calls \subseteq Call
      /\ Knows(profile, must) /\ NavTypeOK
  BY DEF NavInv, NavTypeOK, FlagIsKept
<1>5. \A r \in Unheard(same) :
         /\ r \in Call
         /\ \/ \E q \in same : SameCall(r, q)
            \/ r.call = "verifyEmail" /\ r.user = profile /\ r.flag = must
  BY <1>4, UnheardCalls DEF Unheard
<1>6. \A r \in calls' : /\ r \in Call
                        /\ RightCall(r)' \/ \E q \in calls : SameCall(r, q)
  <2>1. RightCall(new)'
    BY <1>3 DEF RightCall
  <2>2. \A r \in Unheard(same) : RightCall(r)' \/ \E q \in calls : SameCall(r, q)
    BY <1>1, <1>4, <1>5 DEF RightCall, Knows
  <2> QED  BY <1>1, <1>3, <1>4, <1>5, <2>1, <2>2 DEF SameCall
<1>7. CallsOfUsers' /\ calls' \subseteq Call
  BY <1>2, <1>6, CallsKept
<1>8. NavTypeOK'
  BY <1>1, <1>7 DEF NavInv, NavTypeOK
<1>9. SessionsAreOfUsers' /\ FlagIsKept' /\ HopsSoFar'
  BY <1>1 DEF NavInv, SessionsAreOfUsers, FlagIsKept, Knows, HopsSoFar, Probed
<1> QED  BY <1>7, <1>8, <1>9 DEF NavInv

-----------------------------------------------------------------------------
LEMMA RedirectKeeps == NavInv /\ Redirect => NavInv'
<1> SUFFICES ASSUME NavInv, Redirect PROVE NavInv'
  OBVIOUS
<1>1. HopsSoFar' /\ at' \in Paths
  BY RedirectHops
<1>2. /\ calls' = Unheard(calls) /\ local' = Fresh /\ hops <= MaxHops /\ hops' = hops + 1
      /\ UNCHANGED <<probe, initialized, mustChange, resets, visitor, profile, must, stale,
                     splash, crossed>>
  BY DEF Redirect, StoredSession, Platform
<1>3. CallsOfUsers' /\ calls' \subseteq Call
  BY <1>2, LeavesKeep DEF Grows
<1>4. NavTypeOK'
  BY <1>1, <1>2, <1>3, NavigationAssumption, FreshIsLocal DEF NavInv, NavTypeOK
<1>5. SessionsAreOfUsers' /\ FlagIsKept'
  BY <1>2 DEF NavInv, SessionsAreOfUsers, FlagIsKept, Knows
<1> QED  BY <1>1, <1>3, <1>4, <1>5 DEF NavInv

LEMMA ProbeKeeps == NavInv /\ ProbeAnswers => NavInv'
<1> SUFFICES ASSUME NavInv, ProbeAnswers PROVE NavInv'
  OBVIOUS
<1>1. /\ probe' \in {"failed", "needed", "done"}
      /\ UNCHANGED <<at, initialized, mustChange, resets, visitor, profile, must, stale,
                     splash, local, calls, hops, crossed>>
  BY DEF ProbeAnswers, StoredSession, Platform
<1>2. CallsOfUsers'
  BY <1>1, LeavesKeep DEF Grows
<1>3. NavTypeOK' /\ SessionsAreOfUsers' /\ FlagIsKept'
  BY <1>1 DEF NavInv, NavTypeOK, SessionsAreOfUsers, FlagIsKept, Knows
<1>4. hops' = 0
  BY DEF NavInv, HopsSoFar, Probed, ProbeAnswers
<1> QED  BY <1>2, <1>3, <1>4 DEF NavInv, HopsSoFar

-----------------------------------------------------------------------------
(***************************************************************************)
(* Steps after which no redirect has been made.                            *)
(***************************************************************************)
LEMMA ForceLogoutKeeps == NavInv /\ ForceLogout => NavInv'
<1> SUFFICES ASSUME NavInv, ForceLogout PROVE NavInv'
  OBVIOUS
<1> USE NavigationAssumption
<1>1. /\ visitor' = None /\ profile' = None /\ must' = FALSE /\ stale' = FALSE
      /\ at' = "/login" /\ probe' = "loading" /\ splash' = FALSE
      /\ local' = Fresh /\ calls' = {} /\ hops' = 0
      /\ UNCHANGED <<initialized, mustChange, resets, crossed>>
  BY DEF ForceLogout, SignedOut, Platform
<1>2. "/login" \in Paths /\ 0 \in 0..(MaxHops + 1) /\ None \notin mustChange
  BY DEF Paths, PublicOnly, NavInv, NavTypeOK
<1>3. NavTypeOK' /\ CallsOfUsers'
  BY <1>1, <1>2, FreshIsLocal DEF NavInv, NavTypeOK, CallsOfUsers
<1>4. SessionsAreOfUsers' /\ FlagIsKept' /\ HopsSoFar'
  BY <1>1, <1>2 DEF NavInv, SessionsAreOfUsers, FlagIsKept, Knows, HopsSoFar
<1> QED  BY <1>3, <1>4 DEF NavInv

\* Who is signed in, and what is known of him, stays or becomes what is right.
LEMMA SettleKeeps ==
    ASSUME NavInv, at' \in Paths, probe' \in {probe, "loading"}, hops' = 0,
           {visitor', profile'} \subseteq Users \cup {None}, local' \in Local,
           {must', splash', stale', crossed'} \subseteq BOOLEAN,
           resets' \subseteq Users, mustChange' \subseteq Users,
           CallsOfUsers', calls' \subseteq Call,
           initialized' \in {initialized, TRUE},
           SessionsAreOfUsers', FlagIsKept'
    PROVE  NavInv'
<1>1. hops' \in 0..(MaxHops + 1)
  BY NavigationAssumption
<1>2. NavTypeOK'
  BY <1>1 DEF NavInv, NavTypeOK
<1>3. HopsSoFar'
  BY DEF HopsSoFar
<1> QED  BY <1>2, <1>3 DEF NavInv

LEMMA MeAnswersKeep == NavInv /\ MeAnswers => NavInv'
<1> SUFFICES ASSUME NavInv, MeAnswers PROVE NavInv'
  OBVIOUS
<1>1. /\ hops' = 0 /\ splash' = FALSE
      /\ UNCHANGED <<at, probe, initialized, mustChange, resets, visitor, local, calls, crossed>>
      /\ \/ profile' = visitor /\ must' = (visitor \in mustChange) /\ stale' = FALSE
         \/ UNCHANGED <<profile, must, stale>>
  BY DEF MeAnswers, Platform
<1>2. CallsOfUsers' /\ calls' \subseteq Call
  BY <1>1, LeavesKeep DEF Grows
<1>3. /\ {visitor', profile'} \subseteq Users \cup {None}
      /\ {must', splash', stale', crossed'} \subseteq BOOLEAN
  <2>1. (visitor \in mustChange) \in BOOLEAN /\ must \in BOOLEAN /\ stale \in BOOLEAN
    BY DEF NavInv, NavTypeOK
  <2>2. must' \in BOOLEAN /\ stale' \in BOOLEAN
    BY <1>1, <2>1
  <2> QED  BY <1>1, <2>2 DEF NavInv, NavTypeOK
<1>4. SessionsAreOfUsers' /\ FlagIsKept'
  BY <1>1 DEF NavInv, SessionsAreOfUsers, FlagIsKept, Knows
<1> QED  BY <1>1, <1>2, <1>3, <1>4, SettleKeeps DEF NavInv, NavTypeOK

LEMMA LocationKeeps ==
    ASSUME NavInv, NEW p \in Paths, LoadPage(p) \/ Follow(p) \/ BackOrForward(p)
    PROVE  NavInv'
<1>1. /\ at' = p /\ local' \in {local, Fresh} /\ probe' \in {probe, "loading"} /\ hops' = 0
      /\ splash' \in {splash, visitor # None}
      /\ UNCHANGED <<initialized, mustChange, resets, visitor, profile, must, stale, crossed>>
  BY DEF LoadPage, Follow, BackOrForward, Goto, StoredSession, Platform
<1>2. CallsOfUsers' /\ calls' \subseteq Call
  <2>1. calls' \in {calls, Unheard(calls), {}}
    BY DEF LoadPage, Follow, BackOrForward
  <2>2. Grows
    BY <1>1 DEF Grows
  <2>3. CASE calls' = {}
    BY <2>3 DEF CallsOfUsers
  <2> QED  BY <2>1, <2>2, <2>3, LeavesKeep
<1>3. splash' \in BOOLEAN /\ local' \in Local
  BY <1>1, FreshIsLocal DEF NavInv, NavTypeOK
<1>4. SessionsAreOfUsers' /\ FlagIsKept'
  BY <1>1 DEF NavInv, SessionsAreOfUsers, FlagIsKept, Knows
<1> QED  BY <1>1, <1>2, <1>3, <1>4, SettleKeeps DEF NavInv, NavTypeOK

LEMMA RequireKeeps == NavInv /\ RequirePasswordChange => NavInv'
<1> SUFFICES ASSUME NavInv, RequirePasswordChange PROVE NavInv'
  OBVIOUS
<1>1. /\ must' = TRUE /\ stale' = FALSE /\ hops' = 0
      /\ UNCHANGED <<at, probe, initialized, mustChange, resets, visitor, profile, splash,
                     local, calls, crossed>>
  BY DEF RequirePasswordChange, Platform
<1>2. CallsOfUsers' /\ calls' \subseteq Call
  BY <1>1, LeavesKeep DEF Grows
<1>3. SessionsAreOfUsers' /\ FlagIsKept'
  BY <1>1 DEF NavInv, SessionsAreOfUsers, FlagIsKept, Knows
<1> QED  BY <1>1, <1>2, <1>3, SettleKeeps DEF NavInv, NavTypeOK

LEMMA OtherTabKeeps == NavInv /\ OtherTabStores => NavInv'
<1> SUFFICES ASSUME NavInv, OtherTabStores PROVE NavInv'
  OBVIOUS
<1>1. PICK u \in Users \cup {None}, done \in {initialized, TRUE}, old \in BOOLEAN :
         /\ u # None => done
         /\ old => u \in resets
         /\ initialized' = done
         /\ visitor' = u /\ profile' = u
         /\ must' = (u \in mustChange /\ ~old)
         /\ stale' = old
         /\ splash' = (u # None /\ (splash \/ visitor = None))
         /\ local' = IF splash' THEN Fresh ELSE local
         /\ calls' = IF splash' THEN UnheardWith(calls, u, must') ELSE calls
  BY DEF OtherTabStores
<1>2. hops' = 0 /\ UNCHANGED <<at, probe, mustChange, resets, crossed>>
  BY DEF OtherTabStores
<1>3. must' \in BOOLEAN /\ splash' \in BOOLEAN /\ stale' \in BOOLEAN
  BY <1>1
<1>a. PICK m \in BOOLEAN : must' = m
  BY <1>3
<1>4. Knows(u, m)' /\ Grows
  BY <1>1, <1>2, <1>a DEF Knows, Grows
<1>5. CallsOfUsers' /\ calls' \subseteq Call
  <2>1. CASE splash'
    <3>1. calls' = UnheardWith(calls, u, m)
      BY <1>1, <1>a, <2>1
    <3> QED  BY <1>4, <3>1, LeavingKeeps
  <2>2. CASE ~splash'
    BY <1>1, <1>4, <2>2, LeavesKeep
  <2> QED  BY <2>1, <2>2
<1>6. SessionsAreOfUsers'
  BY <1>1, <1>2 DEF NavInv, SessionsAreOfUsers, NavTypeOK
<1>7. FlagIsKept'
  BY <1>1, <1>2 DEF FlagIsKept, Knows
<1>8. {visitor', profile'} \subseteq Users \cup {None} /\ local' \in Local
  BY <1>1, FreshIsLocal DEF NavInv, NavTypeOK
<1> QED  BY <1>1, <1>2, <1>3, <1>5, <1>6, <1>7, <1>8, SettleKeeps DEF NavInv, NavTypeOK

-----------------------------------------------------------------------------
\* The server gives a password, and stores one.
LEMMA ResetKeeps ==
    ASSUME NavInv, NEW u \in Users, AdminResetPassword(u)
    PROVE  NavInv'
<1>1. /\ initialized /\ resets' = resets \cup {u} /\ mustChange' = mustChange \cup {u}
      /\ stale' = (stale \/ visitor = u)
      /\ UNCHANGED <<at, probe, initialized, visitor, profile, must, splash, local, calls,
                     hops, crossed>>
  BY DEF AdminResetPassword
<1>2. CallsOfUsers'
  BY <1>1, LeavesKeep DEF Grows
<1>3. NavTypeOK'
  BY <1>1 DEF NavInv, NavTypeOK
<1>4. SessionsAreOfUsers'
  BY <1>1 DEF NavInv, SessionsAreOfUsers
<1>5. FlagIsKept'
  BY <1>1 DEF NavInv, FlagIsKept, Knows
<1>6. HopsSoFar'
  BY <1>1 DEF NavInv, HopsSoFar, Probed
<1> QED  BY <1>2, <1>3, <1>4, <1>5, <1>6 DEF NavInv

LEMMA StoreKeeps ==
    ASSUME NavInv, NEW q \in calls, StorePassword(q)
    PROVE  NavInv'
<1> DEFINE stored == [q EXCEPT !.flag = TRUE]
<1>1. /\ q.call = "change" /\ mustChange' = mustChange \ {q.user}
      /\ calls' = (calls \ {q}) \cup {stored}
      /\ UNCHANGED <<at, probe, initialized, visitor, profile, must, stale, splash, local,
                     hops, resets, crossed>>
  BY DEF StorePassword, StoredSession
<1>2. q \in Call
  BY DEF NavInv, NavTypeOK
<1>3. stored \in Call /\ stored.call = "change" /\ stored.user = q.user
  BY <1>1, <1>2 DEF Call
<1> HIDE DEF stored
<1>4. RightCall(stored)'
  BY <1>1, <1>3 DEF RightCall
<1>5. CallsOfUsers'
  BY <1>1, <1>4, CallsKept DEF Grows, SameCall
<1>6. NavTypeOK'
  BY <1>1, <1>3 DEF NavInv, NavTypeOK
<1>7. SessionsAreOfUsers' /\ FlagIsKept' /\ HopsSoFar'
  BY <1>1 DEF NavInv, SessionsAreOfUsers, FlagIsKept, Knows, HopsSoFar, Probed
<1> QED  BY <1>5, <1>6, <1>7 DEF NavInv

-----------------------------------------------------------------------------
\* A page changes only what it keeps itself.
LEMMA LocalKeeps ==
    ASSUME NavInv, local' \in Local,
           UNCHANGED <<at, probe, Platform, StoredSession, splash, calls, hops, crossed>>
    PROVE  NavInv'
<1>1. UNCHANGED <<at, probe, initialized, mustChange, resets, visitor, profile, must, stale,
                  splash, calls, hops, crossed>>
  BY DEF Platform, StoredSession
<1>2. CallsOfUsers'
  BY <1>1, LeavesKeep DEF Grows
<1>3. NavTypeOK'
  BY <1>1 DEF NavInv, NavTypeOK
<1>4. SessionsAreOfUsers' /\ FlagIsKept' /\ HopsSoFar'
  BY <1>1 DEF NavInv, SessionsAreOfUsers, FlagIsKept, Knows, HopsSoFar, Probed
<1> QED  BY <1>2, <1>3, <1>4 DEF NavInv

LEMMA SignInPagesKeep ==
    ASSUME NavInv, LoginPage \/ RegisterPage \/ ForgotPasswordPage \/ ResetPasswordPage
    PROVE  NavInv'
<1> USE NavigationAssumption
<1>0. local \in Local /\ {visitor, profile} \subseteq Users \cup {None}
  BY DEF NavInv, NavTypeOK
<1>1. CASE LoginPage
  <2>1. CASE local.mfa = None /\ (\E u \in Users : SendCall("login", u)) /\ UNCHANGED local
    BY <1>0, <2>1, DispatchKeeps DEF SendCall, Call
  <2>2. CASE local.mfa # None /\ SendCall("verify", local.mfa) /\ UNCHANGED local
    <3>1. local.mfa \in Users
      BY <1>0, <2>2 DEF Local
    <3> QED  BY <1>0, <2>2, <3>1, DispatchKeeps DEF SendCall, Call
  <2>3. CASE /\ local' = [local EXCEPT !.mfa = None]
             /\ UNCHANGED <<at, probe, Platform, StoredSession, splash, calls, hops, crossed>>
    BY <1>0, <2>3, LocalKeeps DEF Local
  <2> QED  BY <1>1, <2>1, <2>2, <2>3 DEF LoginPage
<1>2. CASE RegisterPage
  <2>1. PICK u \in Users \ (Provisioned \cup Super) : SendCall("register", u) /\ UNCHANGED local
    BY <1>2 DEF RegisterPage
  <2> QED  BY <1>0, <2>1, DispatchKeeps DEF SendCall, Call
<1>3. CASE ForgotPasswordPage
  BY <1>0, <1>3, DispatchKeeps DEF ForgotPasswordPage, SendCall, Call
<1>4. CASE ResetPasswordPage
  <2>1. CASE SendCall("reset", None) /\ UNCHANGED local
    BY <1>0, <2>1, DispatchKeeps DEF SendCall, Call
  <2>2. CASE /\ local' = [local EXCEPT !.screen = "invalid"]
             /\ UNCHANGED <<at, probe, Platform, StoredSession, splash, calls, hops, crossed>>
    BY <1>0, <2>2, LocalKeeps DEF Local
  <2> QED  BY <1>4, <2>1, <2>2 DEF ResetPasswordPage
<1> QED  BY <1>1, <1>2, <1>3, <1>4

LEMMA OtherPagesKeep ==
    ASSUME NavInv, VerifyEmailPage \/ ChangePasswordPage \/ UserMenu
                   \/ GoNext \/ GoPrev \/ SetupPage
    PROVE  NavInv'
<1> USE NavigationAssumption
<1>0. local \in Local /\ {visitor, profile} \subseteq Users \cup {None}
  BY DEF NavInv, NavTypeOK
<1>1. CASE VerifyEmailPage
  <2>1. CASE /\ local' = [local EXCEPT !.screen = "verifying"]
             /\ DispatchCall("verifyEmail", profile)
    BY <1>0, <2>1, DispatchKeeps DEF Call, Local
  <2>2. CASE /\ local' = [local EXCEPT !.screen = "missing"]
             /\ UNCHANGED <<at, probe, Platform, StoredSession, splash, calls, hops, crossed>>
    BY <1>0, <2>2, LocalKeeps DEF Local
  <2> QED  BY <1>1, <2>1, <2>2 DEF VerifyEmailPage
<1>2. CASE ChangePasswordPage
  BY <1>0, <1>2, DispatchKeeps DEF ChangePasswordPage, SendCall, Call
<1>3. CASE UserMenu
  BY <1>0, <1>3, DispatchKeeps DEF UserMenu, SendCall, Call
<1>4. CASE GoNext
  BY <1>0, <1>4, LocalKeeps DEF GoNext, WizardStep, Local
<1>5. CASE GoPrev
  BY <1>0, <1>5, LocalKeeps DEF GoPrev, WizardStep, Local
<1>6. CASE SetupPage
  <2>1. PICK u \in Users \ (Provisioned \cup Super) :
           DispatchCall("initialize", u) /\ UNCHANGED local
    BY <1>6 DEF SetupPage, SendCall
  <2> QED  BY <1>0, <2>1, DispatchKeeps DEF Call
<1> QED  BY <1>1, <1>2, <1>3, <1>4, <1>5, <1>6

-----------------------------------------------------------------------------
\* Whose session it is and the flag it is stored with.
LEMMA SignInKeeps ==
    ASSUME NavInv, NEW q \in calls, NEW flag \in BOOLEAN, NEW p \in Paths,
           SignInAt(q, flag, p), q.user \in Users, q.user \in mustChange => flag,
           probe' \in {probe, "done"}, initialized' = TRUE,
           UNCHANGED <<mustChange, resets, crossed>>
    PROVE  NavInv'
<1> USE NavigationAssumption
<1>1. /\ visitor' = q.user /\ profile' = q.user /\ must' = flag /\ stale' = FALSE
      /\ splash' = (splash \/ visitor = None) /\ at' = p /\ local' = Fresh /\ hops' = 0
      /\ calls' = UnheardWith(calls \ {q}, q.user, flag)
  BY DEF SignInAt
<1>2. Knows(q.user, flag)' /\ Grows
  BY <1>1 DEF Knows, Grows
<1>3. CallsOfUsers' /\ calls' \subseteq Call
  BY <1>1, <1>2, LeavingKeeps
<1>4. splash' \in BOOLEAN /\ hops' \in 0..(MaxHops + 1)
  BY <1>1
<1>5. NavTypeOK'
  BY <1>1, <1>3, <1>4, FreshIsLocal DEF NavInv, NavTypeOK
<1>6. SessionsAreOfUsers' /\ FlagIsKept' /\ HopsSoFar'
  BY <1>1 DEF NavInv, SessionsAreOfUsers, FlagIsKept, Knows, HopsSoFar
<1> QED  BY <1>3, <1>5, <1>6 DEF NavInv

\* An answer is used where its page still is.
LEMMA StayKeeps ==
    ASSUME NavInv, NEW q \in calls, Stay(q), local' \in Local, UNCHANGED <<Platform, crossed>>
    PROVE  NavInv'
<1>1. /\ calls' = calls \ {q}
      /\ UNCHANGED <<at, probe, visitor, profile, must, stale, splash, hops, initialized,
                     mustChange, resets, crossed>>
  BY DEF Stay, Platform, StoredSession
<1>2. CallsOfUsers'
  BY <1>1, LeavesKeep DEF Grows
<1>3. NavTypeOK'
  BY <1>1 DEF NavInv, NavTypeOK
<1>4. SessionsAreOfUsers' /\ FlagIsKept' /\ HopsSoFar'
  BY <1>1 DEF NavInv, SessionsAreOfUsers, FlagIsKept, Knows, HopsSoFar, Probed
<1> QED  BY <1>2, <1>3, <1>4 DEF NavInv

\* An answer sends the user to a page.
LEMMA GotoKeeps ==
    ASSUME NavInv, NEW q \in calls, NEW p \in Paths, Goto(p),
           calls' = Unheard(calls \ {q}), UNCHANGED <<probe, StoredSession, splash, Platform, crossed>>
    PROVE  NavInv'
<1>1. /\ at' = p /\ hops' = 0 /\ local' \in {local, Fresh}
      /\ UNCHANGED <<probe, visitor, profile, must, stale, splash, initialized, mustChange,
                     resets, crossed>>
  BY DEF Goto, StoredSession, Platform
<1>2. CallsOfUsers' /\ calls' \subseteq Call
  BY <1>1, LeavesKeep DEF Grows
<1>3. local' \in Local
  BY <1>1, FreshIsLocal DEF NavInv, NavTypeOK
<1>4. SessionsAreOfUsers' /\ FlagIsKept'
  BY <1>1 DEF NavInv, SessionsAreOfUsers, FlagIsKept, Knows
<1> QED  BY <1>1, <1>2, <1>3, <1>4, SettleKeeps DEF NavInv, NavTypeOK

LEMMA SignInAnswersKeep ==
    ASSUME NavInv, NEW q \in calls,
           \/ UseLogin(q) \/ UseVerifyTwoFactorLogin(q) \/ UseRegister(q)
           \/ UseInitializeSetup(q)
    PROVE  NavInv'
<1> USE NavigationAssumption
<1>0. /\ q.call \in {"login", "verify", "register", "initialize"} => q.user \in Users
      /\ q.call \in {"register", "initialize"} => q.user \notin Provisioned
      /\ mustChange \subseteq Provisioned \cup resets
      /\ resets # {} => initialized
      /\ initialized \in BOOLEAN /\ local \in Local
  BY DEF NavInv, CallsOfUsers, RightCall, SessionsAreOfUsers, NavTypeOK
<1>1. Landing(q.user) \in Paths /\ "/" \in Paths
  BY DEF Landing, Paths, Protected
<1>2. (q.user \in mustChange) \in BOOLEAN
  OBVIOUS
<1>3. CASE UseLogin(q)
  <2>1. CASE q.user \in TwoFactor
    <3>1. local' = IF q.heard THEN [local EXCEPT !.mfa = q.user] ELSE local
      BY <1>3, <2>1 DEF UseLogin
    <3>2. Stay(q) /\ UNCHANGED <<Platform, crossed>>
      BY <1>3, <2>1 DEF UseLogin, Stay
    <3>3. local' \in Local
      BY <1>0, <2>1, <3>1 DEF Local
    <3> QED  BY <3>2, <3>3, StayKeeps
  <2>2. CASE q.user \notin TwoFactor
    <3>1. /\ q.call = "login" /\ initialized
          /\ SignInAt(q, q.user \in mustChange, Landing(q.user))
          /\ UNCHANGED <<probe, initialized, mustChange, resets, crossed>>
      BY <1>3, <2>2 DEF UseLogin, Platform
    <3> QED  BY <1>0, <1>1, <1>2, <3>1, SignInKeeps
  <2> QED  BY <2>1, <2>2
<1>4. CASE UseVerifyTwoFactorLogin(q)
  <2>1. /\ q.call = "verify" /\ initialized
        /\ SignInAt(q, q.user \in mustChange, Landing(q.user))
        /\ UNCHANGED <<probe, initialized, mustChange, resets, crossed>>
    BY <1>4 DEF UseVerifyTwoFactorLogin, Platform
  <2> QED  BY <1>0, <1>1, <1>2, <2>1, SignInKeeps
<1>5. CASE UseRegister(q)
  <2>1. /\ q.call = "register" /\ initialized /\ q.user \notin resets /\ SignInAt(q, FALSE, "/")
        /\ UNCHANGED <<probe, initialized, mustChange, resets, crossed>>
    BY <1>5 DEF UseRegister, Platform
  <2>2. q.user \notin mustChange /\ q.user \in Users
    BY <1>0, <2>1
  <2>3. initialized' = TRUE
    BY <1>0, <2>1
  <2> QED  BY <1>1, <2>1, <2>2, <2>3, SignInKeeps
<1>6. CASE UseInitializeSetup(q)
  <2>1. /\ q.call = "initialize" /\ ~initialized /\ initialized' = TRUE /\ probe' = "done"
        /\ SignInAt(q, FALSE, "/") /\ UNCHANGED <<mustChange, resets, crossed>>
    BY <1>6 DEF UseInitializeSetup
  <2>2. resets = {}
    BY <1>0, <2>1
  <2>3. q.user \notin mustChange /\ q.user \in Users
    BY <1>0, <2>1, <2>2
  <2> QED  BY <1>1, <2>1, <2>3, SignInKeeps
<1> QED  BY <1>3, <1>4, <1>5, <1>6

\* The answer to a change clears the flag of the record stored by then.
LEMMA ChangeKeeps ==
    ASSUME NavInv, NEW q \in calls, NEW succeeded \in BOOLEAN,
           UseChangePassword(q, succeeded)
    PROVE  NavInv'
<1>1. /\ q.call = "change" /\ (succeeded => q.flag)
      /\ must' = IF succeeded THEN FALSE ELSE must
      /\ crossed' = (crossed \/ (succeeded /\ profile \notin {q.user, None}))
      /\ stale' = (stale \/ (succeeded /\ visitor \in resets))
      /\ UNCHANGED <<probe, initialized, mustChange, resets, visitor, profile, splash>>
  BY DEF UseChangePassword, ClearFlag, Platform
<1>2. {must', splash', stale', crossed'} \subseteq BOOLEAN
  <2>1. must' \in BOOLEAN
    BY <1>1 DEF NavInv, NavTypeOK
  <2> QED  BY <1>1, <2>1 DEF NavInv, NavTypeOK
<1>3. FlagIsKept'
  <2>1. CASE succeeded
    <3>1. /\ ~must'
          /\ crossed' = (crossed \/ profile \notin {q.user, None})
          /\ stale' = (stale \/ visitor \in resets)
      BY <1>1, <2>1
    <3>2. q.user \in mustChange => q.user \in resets
      BY <1>1, <2>1 DEF NavInv, CallsOfUsers, RightCall
    <3>3. None \notin mustChange
      BY NavigationAssumption DEF NavInv, NavTypeOK
    <3> QED  BY <1>1, <3>1, <3>2, <3>3 DEF NavInv, FlagIsKept, Knows
  <2>2. CASE ~succeeded
    BY <1>1, <2>2 DEF NavInv, FlagIsKept, Knows
  <2> QED  BY <2>1, <2>2
<1>4. CallsOfUsers' /\ calls' \subseteq Call
  <2>1. calls' \in {calls \ {q}, Unheard(calls \ {q})}
    BY DEF UseChangePassword
  <2> QED  BY <1>1, <2>1, LeavesKeep DEF Grows
<1>5. SessionsAreOfUsers'
  BY <1>1 DEF NavInv, SessionsAreOfUsers
<1>6. CASE succeeded /\ q.heard
  <2>1. PICK p \in {"/admin", "/"} : Goto(p)
    BY <1>6 DEF UseChangePassword
  <2>2. at' \in Paths /\ hops' = 0 /\ local' \in Local
    BY <2>1, FreshIsLocal DEF Goto, NavInv, NavTypeOK, Paths, Protected
  <2> QED  BY <1>1, <1>2, <1>3, <1>4, <1>5, <2>2, SettleKeeps DEF NavInv, NavTypeOK
<1>7. CASE ~(succeeded /\ q.heard)
  <2>1. UNCHANGED <<at, local, hops>>
    BY <1>7 DEF UseChangePassword
  <2>2. NavTypeOK'
    BY <1>1, <1>2, <1>4, <2>1 DEF NavInv, NavTypeOK
  <2>3. must' => must
    BY <1>1
  <2>4. HopsSoFar'
    BY <1>1, <2>1, <2>3 DEF NavInv, HopsSoFar, Probed
  <2> QED  BY <1>3, <1>4, <1>5, <2>2, <2>4 DEF NavInv
<1> QED  BY <1>6, <1>7

\* A late confirmation of an e-mail stores the record its hook holds.
LEMMA VerifyKeeps ==
    ASSUME NavInv, NEW q \in calls, UseVerifyEmail(q)
    PROVE  NavInv'
<1>1. /\ q.call = "verifyEmail" /\ ~q.heard
      /\ profile' = q.user /\ must' = q.flag /\ q.user # None /\ hops' = 0
      /\ crossed' = (crossed \/ visitor \notin {q.user, None})
      /\ stale' = (stale \/ (~q.flag /\ visitor \in resets))
      /\ calls' = calls \ {q}
      /\ UNCHANGED <<at, probe, initialized, mustChange, resets, visitor, splash, local>>
  BY DEF UseVerifyEmail, Platform
<1>2. q \in Call /\ Knows(q.user, q.flag) /\ None \notin mustChange
  BY <1>1, NavigationAssumption DEF NavInv, NavTypeOK, CallsOfUsers, RightCall
<1>3. q.flag \in BOOLEAN /\ q.user \in Users \cup {None}
  BY <1>2 DEF Call
<1>4. /\ {must', splash', stale', crossed'} \subseteq BOOLEAN
      /\ {visitor', profile'} \subseteq Users \cup {None}
  BY <1>1, <1>3 DEF NavInv, NavTypeOK
<1>5. CallsOfUsers' /\ calls' \subseteq Call
  BY <1>1, LeavesKeep DEF Grows
<1>6. FlagIsKept'
  BY <1>1, <1>2 DEF NavInv, FlagIsKept, Knows
<1>7. SessionsAreOfUsers'
  BY <1>1 DEF NavInv, SessionsAreOfUsers
<1> QED  BY <1>1, <1>4, <1>5, <1>6, <1>7, SettleKeeps DEF NavInv, NavTypeOK

LEMMA LogoutKeeps ==
    ASSUME NavInv, NEW q \in calls, UseLogout(q)
    PROVE  NavInv'
<1>1. /\ visitor' = None /\ profile' = None /\ must' = FALSE /\ stale' = FALSE
      /\ probe' = "loading" /\ splash' = FALSE
      /\ at' = "/login" /\ hops' = 0 /\ local' \in {local, Fresh}
      /\ calls' = UnheardWith(calls \ {q}, None, FALSE)
      /\ UNCHANGED <<initialized, mustChange, resets, crossed>>
  BY DEF UseLogout, SignedOut, Goto, Platform
<1>2. None \notin mustChange /\ "/login" \in Paths
  BY NavigationAssumption DEF NavInv, NavTypeOK, Paths, PublicOnly
<1>3. Knows(None, FALSE)' /\ Grows
  BY <1>1, <1>2 DEF Knows, Grows
<1>4. CallsOfUsers' /\ calls' \subseteq Call
  BY <1>1, <1>3, LeavingKeeps
<1>5. SessionsAreOfUsers' /\ FlagIsKept'
  BY <1>1, <1>2 DEF NavInv, SessionsAreOfUsers, FlagIsKept, Knows
<1>6. local' \in Local /\ crossed' \in BOOLEAN
  BY <1>1, FreshIsLocal DEF NavInv, NavTypeOK
<1> QED  BY <1>1, <1>2, <1>4, <1>5, <1>6, SettleKeeps DEF NavInv, NavTypeOK

LEMMA OtherAnswersKeep ==
    ASSUME NavInv, NEW q \in calls,
           \/ InitializeRefused(q) \/ UseForgotPassword(q) \/ UseResetPassword(q)
           \/ EmailConfirmedHere(q) \/ Refused(q)
    PROVE  NavInv'
<1>0. local \in Local
  BY DEF NavInv, NavTypeOK
<1>1. "/login" \in Paths
  BY DEF Paths, PublicOnly
<1>2. CASE InitializeRefused(q)
  <2>1. UNCHANGED <<Platform, crossed>>
    BY <1>2 DEF InitializeRefused
  <2>2. CASE local' = [local EXCEPT !.step = 1] /\ Stay(q)
    BY <1>0, <2>1, <2>2, StayKeeps DEF Local
  <2>3. CASE /\ Goto("/login") /\ calls' = Unheard(calls \ {q})
             /\ UNCHANGED <<probe, StoredSession, splash>>
    BY <1>1, <2>1, <2>3, GotoKeeps
  <2>4. CASE Stay(q) /\ UNCHANGED local
    BY <1>0, <2>1, <2>4, StayKeeps
  <2> QED  BY <1>2, <2>2, <2>3, <2>4 DEF InitializeRefused
<1>3. CASE UseForgotPassword(q)
  BY <1>0, <1>3, StayKeeps DEF UseForgotPassword, Local
<1>4. CASE UseResetPassword(q)
  BY <1>1, <1>4, GotoKeeps DEF UseResetPassword
<1>5. CASE EmailConfirmedHere(q)
  BY <1>0, <1>5, StayKeeps DEF EmailConfirmedHere, Local
<1>6. CASE Refused(q)
  BY <1>0, <1>6, StayKeeps DEF Refused
<1> QED  BY <1>2, <1>3, <1>4, <1>5, <1>6

-----------------------------------------------------------------------------
LEMMA NavInvariant == NavSpec => []NavInv
<1>1. ASSUME NavInv, [NavNext]_navVars PROVE NavInv'
  <2>1. ASSUME NEW q \in calls, Answered(q) PROVE NavInv'
    BY <1>1, <2>1, SignInAnswersKeep, ChangeKeeps, VerifyKeeps, LogoutKeeps,
       OtherAnswersKeep DEF Answered
  <2>2. CASE UNCHANGED navVars
    <3>1. /\ local' \in Local
          /\ UNCHANGED <<at, probe, Platform, StoredSession, splash, calls, hops, crossed>>
      BY <1>1, <2>2 DEF navVars, NavInv, NavTypeOK, Platform, StoredSession
    <3> QED  BY <1>1, <3>1, LocalKeeps
  <2>3. CASE Redirect \/ ProbeAnswers
    BY <1>1, <2>3, RedirectKeeps, ProbeKeeps
  <2>4. CASE Hydrated \/ SessionEnds
    BY <1>1, <2>4, MeAnswersKeep, ForceLogoutKeeps DEF Hydrated, SessionEnds
  <2>5. CASE RequirePasswordChange \/ OtherTabStores
    BY <1>1, <2>5, RequireKeeps, OtherTabKeeps
  <2> QED  BY <1>1, <2>1, <2>2, <2>3, <2>4, <2>5, LocationKeeps, SignInPagesKeep,
              OtherPagesKeep, ResetKeeps, StoreKeeps DEF NavNext
<1> QED  BY <1>1, NavInitInv, PTL DEF NavSpec

(***************************************************************************)
(* After two redirects a page is shown, but to a signed-in user whose tab  *)
(* believes the wizard is still to be done.                                *)
(***************************************************************************)
THEOREM RedirectsAreFew == NavSpec => []RedirectsEnd
<1>1. NavInv => RedirectsEnd
  BY DEF NavInv, NavTypeOK, SessionsAreOfUsers, HopsSoFar, Probed, RedirectsEnd
<1> QED  BY <1>1, NavInvariant, PTL

(***************************************************************************)
(* Nothing of the application is shown to a user whose password is still   *)
(* the one an admin gave, unless the answer to another user's request has  *)
(* written to the record of this one's session, or the record is from      *)
(* before a reset and no request has been refused since.                   *)
(***************************************************************************)
THEOREM ForcedChangeIsMade == NavSpec => []ForcedChangeHolds
<1>1. ASSUME NavInv PROVE ForcedChangeHolds
  <2>1. visitor \in mustChange => visitor # None
    BY <1>1, NavigationAssumption DEF NavInv, NavTypeOK
  <2> QED  BY <1>1, <2>1, MustLeave DEF NavInv, FlagIsKept, ForcedChangeHolds
<1> QED  BY <1>1, NavInvariant, PTL

(***************************************************************************)
(* The pages outside the application keep to their types, and a request is *)
(* made for a user who has an account.                                     *)
(***************************************************************************)
THEOREM NavTypes == NavSpec => [](NavTypeOK /\ CallsOfUsers)
<1>1. NavInv => NavTypeOK /\ CallsOfUsers
  BY DEF NavInv
<1> QED  BY <1>1, NavInvariant, PTL

-----------------------------------------------------------------------------
(***************************************************************************)
(* Side by side, every machine behaves as it does alone: they have no      *)
(* variable in common, and the ones that rest take no step.                *)
(***************************************************************************)
LEMMA ScreensAreTheMachines ==
    Spec => /\ FormSpec /\ CatalogSpec /\ ListsSpec
            /\ ImportSpec /\ NavSpec /\ DataSpec
<1> DEFINE all == <<screen, formVars, catalogVars, listsVars, importVars, navVars, dataVars>>
<1>1. Init => /\ FormInit /\ CatalogInit /\ ListsInit
              /\ ImportInit /\ NavInit /\ DataInit
  BY DEF Init
<1>2. [Next]_all => [FormNext]_formVars
  BY DEF Next
<1>3. [Next]_all => [CatalogNext]_catalogVars
  BY DEF Next
<1>4. [Next]_all => [ListsNext]_listsVars
  BY DEF Next
<1>5. [Next]_all => [ImportNext]_importVars
  BY DEF Next
<1>6. [Next]_all => [NavNext]_navVars
  BY DEF Next
<1>7. [Next]_all => [DataNext]_dataVars
  BY DEF Next
<1> QED
  BY <1>1, <1>2, <1>3, <1>4, <1>5, <1>6, <1>7, PTL
     DEF Spec, FormSpec, CatalogSpec, ListsSpec, ImportSpec, NavSpec, DataSpec

LEMMA ScreenStays == Spec => [](screen \in Machines)
<1>1. Init => screen \in Machines
  BY DEF Init
<1>2. screen \in Machines
      /\ [Next]_<<screen, formVars, catalogVars, listsVars, importVars, navVars, dataVars>>
      => (screen \in Machines)'
  BY DEF Next
<1> QED  BY <1>1, <1>2, PTL DEF Spec

(***************************************************************************)
(* Every machine of the browser keeps its types beside the others, for any *)
(* users, rows, files and bounds.                                          *)
(***************************************************************************)
THEOREM ScreensTypes == Spec => []ScreensTypeOK
<1>1. /\ screen \in Machines
      /\ FormTypeOK /\ CatalogTypeOK /\ ListsTypeOK /\ ImportTypeOK
      /\ (NavTypeOK /\ CallsOfUsers) /\ DataTypeOK
      => ScreensTypeOK
  BY DEF ScreensTypeOK
<1> QED
  BY <1>1, ScreensAreTheMachines, ScreenStays, FormTypes, CatalogTypes, ListsTypes,
     ImportTypes, NavTypes, DataTypes, PTL
=============================================================================
