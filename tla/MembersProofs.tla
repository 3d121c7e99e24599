--------------------------- MODULE MembersProofs ---------------------------
(***************************************************************************)
(* Proofs about Members.  The first invariant adds to the types that an    *)
(* organization nobody has founded has no rows of any kind; the second,    *)
(* as long as requests have not overlapped, that what a request checked    *)
(* still holds when it writes.                                             *)
(***************************************************************************)
EXTENDS Members, FiniteSetTheorems, TLAPS

Founded(o) == orgs[o] # "unborn"

FoundedFirst ==
    /\ \A o \in Orgs : ~Founded(o) => MembersOf(o) = {} /\ removed[o] = {}
    /\ \A i \in DOMAIN invites : Founded(invites[i].org)
    /\ \A r \in Requests : req[r].phase = "tenant" => Founded(req[r].org)

IInv == TypeOK /\ FoundedFirst /\ SpentByOneJoin

\* What a request in a phase carries.
LEMMA Carries ==
    ASSUME TypeOK, NEW r \in Requests
    PROVE  /\ req[r].phase = "tenant" =>
                req[r].org \in Orgs /\ req[r].actor \in Users /\ req[r].as \in Managers
           /\ req[r].phase = "role" =>
                req[r].org \in Orgs /\ req[r].user \in Users /\ req[r].role \in Roles
           /\ req[r].phase = "remove" => req[r].org \in Orgs /\ req[r].user \in Users
           /\ req[r].phase = "accept" =>
                req[r].inv \in DOMAIN invites /\ req[r].user \in Users
           /\ req[r].phase = "erase" =>
                req[r].user \in Users /\ req[r].roles \in [Orgs -> Roles \cup {None}]
           /\ req[r].phase = "commit" =>
                req[r].user \in Users /\ req[r].purge \subseteq Orgs /\ req[r].leave \subseteq Orgs
  BY DEF TypeOK, Request, Idle

\* The requests after one of them changed its state, to one that is not about
\* an organization that was never founded.
Turns(r) ==
    \E s \in Request :
        /\ Become(r, s)
        /\ "inv" \in DOMAIN s => s.inv \in DOMAIN invites
        /\ s.phase = "tenant" => Founded(s.org)

LEMMA TurnsKeeps ==
    ASSUME IInv, NEW r \in Requests, Turns(r),
           DOMAIN invites \subseteq DOMAIN invites',
           \A o \in Orgs : Founded(o) => Founded(o)'
    PROVE  /\ req' \in [Requests -> Request]
           /\ \A q \in Requests : "inv" \in DOMAIN req'[q] => req'[q].inv \in DOMAIN invites'
           /\ \A q \in Requests : req'[q].phase = "tenant" => orgs'[req'[q].org] # "unborn"
  <1> USE DEF IInv
  <1>1. PICK s \in Request : /\ Become(r, s)
                             /\ "inv" \in DOMAIN s => s.inv \in DOMAIN invites
                             /\ s.phase = "tenant" => Founded(s.org)
    BY DEF Turns
  <1>2. /\ req' \in [Requests -> Request]
        /\ req'[r] = s
        /\ \A q \in Requests : q # r => req'[q] = req[q]
    BY <1>1 DEF Become, TypeOK
  <1>3. \A t \in Request : t.phase = "tenant" => t.org \in Orgs
    BY DEF Request, Idle
  <1>4. \A q \in Requests : req'[q].phase = "tenant" => orgs'[req'[q].org] # "unborn"
    <2> SUFFICES ASSUME NEW q \in Requests, req'[q].phase = "tenant"
                 PROVE  orgs'[req'[q].org] # "unborn"
      OBVIOUS
    <2>1. req'[q].org \in Orgs
      BY <1>2, <1>3
    <2>2. Founded(req'[q].org)
      BY <1>1, <1>2 DEF FoundedFirst
    <2> QED BY <2>1, <2>2 DEF Founded
  <1> QED BY <1>1, <1>2, <1>4 DEF TypeOK

LEMMA Idles ==
    ASSUME NEW r \in Requests, Become(r, Idle)
    PROVE  Turns(r)
  BY DEF Turns, Request, Idle

-----------------------------------------------------------------------------
LEMMA InitInvariant == Init => IInv
  <1> SUFFICES ASSUME Init PROVE IInv
    OBVIOUS
  <1>1. overlapped \in BOOLEAN
    BY Zenon DEF Init
  <1> QED BY <1>1 DEF Init, IInv, TypeOK, FoundedFirst, SpentByOneJoin, MembersOf, Request,
                      Idle, Founded

\* A request that only reads keeps the invariant.
LEMMA ReadKeeps ==
    ASSUME IInv, NEW r \in Requests, Turns(r), overlapped' \in BOOLEAN,
           UNCHANGED <<orgs, member, removed, invites, erased, joins>>
    PROVE  IInv'
  <1>1. /\ req' \in [Requests -> Request]
        /\ \A q \in Requests : "inv" \in DOMAIN req'[q] => req'[q].inv \in DOMAIN invites'
        /\ \A q \in Requests : req'[q].phase = "tenant" => orgs'[req'[q].org] # "unborn"
    BY TurnsKeeps DEF Founded
  <1> QED BY <1>1 DEF IInv, TypeOK, FoundedFirst, SpentByOneJoin, MembersOf, Founded

\* A soft delete keeps one row per user and organization.
LEMMA SoftDeletes ==
    ASSUME IInv, NEW o \in Orgs, NEW S, SoftDelete(o, S)
    PROVE  /\ member' \in [Orgs -> [Users -> Roles \cup {None}]]
           /\ removed' \in [Orgs -> SUBSET Users]
           /\ \A p \in Orgs : removed'[p] \cap MembersOf(p)' = {}
           /\ \A p \in Orgs : MembersOf(p) = {} /\ removed[p] = {}
                                => MembersOf(p)' = {} /\ removed'[p] = {}
  BY DEF IInv, TypeOK, SoftDelete, MembersOf

LEMMA NextInvariant == IInv /\ [Next]_vars => IInv'
  <1> SUFFICES ASSUME IInv, [Next]_vars PROVE IInv'
    OBVIOUS
  <1>0. TypeOK /\ FoundedFirst /\ SpentByOneJoin
    BY DEF IInv
  <1>a. overlapped \in BOOLEAN
    BY <1>0 DEF TypeOK
  <1>b. overlapped' \in BOOLEAN
    BY <1>a, Zenon DEF Next, Watch, vars
  <1> USE <1>b
  <1>1. ASSUME NEW r \in Requests, NEW u \in Users, NEW o \in Orgs, Tenant(r, u, o)
        PROVE  IInv'
    <2>1. Founded(o)
      BY <1>0, <1>1 DEF Tenant, FoundedFirst, MembersOf, Managers, None
    <2>2. Turns(r)
      <3> DEFINE s == [phase |-> "tenant", org |-> o, actor |-> u, as |-> member[o][u]]
      <3>1. s \in Request
        BY <1>1 DEF Tenant, Request
      <3> QED BY <1>1, <2>1, <3>1 DEF Tenant, Turns
    <2> QED BY <1>1, <2>2, ReadKeeps DEF Tenant
  <1>2. ASSUME NEW r \in Requests, NEW u \in Users, NEW role \in Roles,
               UpdateRoleCheck(r, u, role)
        PROVE  IInv'
    <2> DEFINE s == [phase |-> "role", org |-> req[r].org, user |-> u, role |-> role,
                     actor |-> req[r].actor]
    <2>1. s \in Request
      BY <1>0, <1>2, Carries DEF UpdateRoleCheck, Request
    <2>2. Turns(r)
      BY <1>2, <2>1 DEF UpdateRoleCheck, Turns
    <2> QED BY <1>2, <2>2, ReadKeeps DEF UpdateRoleCheck
  <1>3. ASSUME NEW r \in Requests, UpdateRole(r)
        PROVE  IInv'
    <2>1. Turns(r) /\ UNCHANGED <<orgs, removed, invites, erased, joins>>
      BY <1>3, Idles DEF UpdateRole
    <2>2. /\ member' \in [Orgs -> [Users -> Roles \cup {None}]]
          /\ \A o \in Orgs : MembersOf(o)' = MembersOf(o)
      <3>1. CASE member[req[r].org][req[r].user] = None
        BY <1>0, <1>3, <3>1 DEF UpdateRole, TypeOK, MembersOf
      <3>2. CASE member[req[r].org][req[r].user] # None
        <4>1. member' = [member EXCEPT ![req[r].org][req[r].user] = req[r].role]
          BY <1>3, <3>2 DEF UpdateRole
        <4>2. req[r].org \in Orgs /\ req[r].user \in Users /\ req[r].role \in Roles
          BY <1>0, <1>3, Carries DEF UpdateRole
        <4>3. None \notin Roles
          BY DEF None, Roles
        <4> QED BY <1>0, <3>2, <4>1, <4>2, <4>3 DEF TypeOK, MembersOf
      <3> QED BY <3>1, <3>2
    <2>3. /\ req' \in [Requests -> Request]
          /\ \A q \in Requests : "inv" \in DOMAIN req'[q] => req'[q].inv \in DOMAIN invites'
          /\ \A q \in Requests : req'[q].phase = "tenant" => orgs'[req'[q].org] # "unborn"
      BY <2>1, TurnsKeeps DEF Founded
    <2> QED BY <1>0, <2>1, <2>2, <2>3 DEF IInv, TypeOK, FoundedFirst, SpentByOneJoin, Founded
  <1>4. ASSUME NEW r \in Requests, NEW u \in Users, RemoveCheck(r, u)
        PROVE  IInv'
    <2> DEFINE s == [phase |-> "remove", org |-> req[r].org, user |-> u, actor |-> req[r].actor]
    <2>1. s \in Request
      BY <1>0, <1>4, Carries DEF RemoveCheck, Request
    <2>2. Turns(r)
      BY <1>4, <2>1 DEF RemoveCheck, Turns
    <2> QED BY <1>4, <2>2, ReadKeeps DEF RemoveCheck
  <1>5. ASSUME NEW r \in Requests, RemoveMember(r)
        PROVE  IInv'
    <2>1. Turns(r) /\ UNCHANGED <<orgs, invites, erased, joins>>
      BY <1>5, Idles DEF RemoveMember
    <2>2. req[r].org \in Orgs /\ SoftDelete(req[r].org, {req[r].user})
      BY <1>0, <1>5, Carries DEF RemoveMember
    <2>3. /\ req' \in [Requests -> Request]
          /\ \A q \in Requests : "inv" \in DOMAIN req'[q] => req'[q].inv \in DOMAIN invites'
          /\ \A q \in Requests : req'[q].phase = "tenant" => orgs'[req'[q].org] # "unborn"
      BY <2>1, TurnsKeeps DEF Founded
    <2> QED BY <1>0, <2>1, <2>2, <2>3, SoftDeletes
            DEF IInv, TypeOK, FoundedFirst, SpentByOneJoin, Founded
  <1>6. ASSUME NEW r \in Requests, Refuse(r)
        PROVE  IInv'
    BY <1>6, Idles, ReadKeeps DEF Refuse
  <1>7. ASSUME NEW r \in Requests, NEW u \in Users, NEW role \in Invitable,
               CreateInvitation(r, u, role)
        PROVE  IInv'
    <2>1. PICK i \in Invitations \ DOMAIN invites :
             invites' = [k \in DOMAIN invites \cup {i} |->
                 IF k = i
                 THEN [org |-> req[r].org, user |-> u, role |-> role,
                       accepted |-> FALSE, deleted |-> FALSE]
                 ELSE invites[k]]
      BY <1>7 DEF CreateInvitation
    <2>2. req[r].org \in Orgs /\ Founded(req[r].org)
      BY <1>0, <1>7, Carries DEF CreateInvitation, FoundedFirst
    <2>3. Turns(r) /\ UNCHANGED <<orgs, member, removed, erased, joins>>
      BY <1>7, Idles DEF CreateInvitation
    <2>4. /\ DOMAIN invites' = DOMAIN invites \cup {i}
          /\ \A k \in DOMAIN invites : invites'[k] = invites[k]
          /\ invites'[i] \in Invitation
          /\ invites'[i].org = req[r].org
          /\ ~invites'[i].accepted
      BY <2>1, <2>2 DEF Invitation
    <2>5. /\ req' \in [Requests -> Request]
          /\ \A q \in Requests : "inv" \in DOMAIN req'[q] => req'[q].inv \in DOMAIN invites'
          /\ \A q \in Requests : req'[q].phase = "tenant" => orgs'[req'[q].org] # "unborn"
      BY <2>3, <2>4, TurnsKeeps DEF Founded
    <2>6. TypeOK'
      BY <1>0, <2>3, <2>4, <2>5 DEF TypeOK, MembersOf
    <2>7. FoundedFirst'
      BY <1>0, <2>2, <2>3, <2>4, <2>5 DEF FoundedFirst, MembersOf, Founded
    <2>8. SpentByOneJoin'
      <3>1. \A v \in Users : <<i, v>> \notin joins
        BY <1>0, <2>1 DEF TypeOK
      <3> QED BY <1>0, <2>3, <2>4, <3>1 DEF SpentByOneJoin
    <2> QED BY <2>6, <2>7, <2>8 DEF IInv
  <1>8. ASSUME NEW r \in Requests, NEW i \in Invitations, RevokeInvitation(r, i)
        PROVE  IInv'
    <2>1. Turns(r) /\ UNCHANGED <<orgs, member, removed, erased, joins>>
      BY <1>8, Idles DEF RevokeInvitation
    <2>2. /\ DOMAIN invites' = DOMAIN invites
          /\ \A k \in DOMAIN invites : /\ invites'[k] \in Invitation
                                       /\ invites'[k].org = invites[k].org
                                       /\ invites'[k].accepted = invites[k].accepted
      BY <1>0, <1>8 DEF RevokeInvitation, TypeOK, Invitation
    <2>3. /\ req' \in [Requests -> Request]
          /\ \A q \in Requests : "inv" \in DOMAIN req'[q] => req'[q].inv \in DOMAIN invites'
          /\ \A q \in Requests : req'[q].phase = "tenant" => orgs'[req'[q].org] # "unborn"
      BY <2>1, <2>2, TurnsKeeps DEF Founded
    <2> QED BY <1>0, <2>1, <2>2, <2>3
            DEF IInv, TypeOK, FoundedFirst, SpentByOneJoin, MembersOf, Founded
  <1>9. ASSUME NEW r \in Requests, NEW u \in Users, NEW i \in Invitations, AcceptCheck(r, u, i)
         PROVE  IInv'
    <2> DEFINE s == [phase |-> "accept", inv |-> i, user |-> u]
    <2>1. s \in Request
      BY DEF Request
    <2>2. Turns(r)
      BY <1>9, <2>1 DEF AcceptCheck, Turns
    <2> QED BY <1>9, <2>2, ReadKeeps DEF AcceptCheck
  <1>10. ASSUME NEW r \in Requests, AcceptInvitation(r)
         PROVE  IInv'
    <2> DEFINE i == req[r].inv
               u == req[r].user
               o == invites[i].org
    <2>1. Turns(r) /\ UNCHANGED <<orgs, removed, erased>>
      BY <1>10, Idles DEF AcceptInvitation
    <2>2. i \in DOMAIN invites /\ u \in Users /\ o \in Orgs /\ invites[i].role \in Roles \ {None}
      BY <1>0, <1>10, Carries DEF AcceptInvitation, TypeOK, Invitation, Invitable, Roles, None
    <2>3. CASE ~(Open(i) /\ ~Indexed(o, u))
      BY <1>10, <2>1, <2>3, ReadKeeps DEF AcceptInvitation
    <2>4. CASE Open(i) /\ ~Indexed(o, u)
      <3>1. /\ invites' = [invites EXCEPT ![i].accepted = TRUE]
            /\ member' = [member EXCEPT ![o][u] = invites[i].role]
            /\ joins' = joins \cup {<<i, u>>}
        BY <1>10, <2>4 DEF AcceptInvitation
      <3>2. /\ DOMAIN invites' = DOMAIN invites
            /\ \A k \in DOMAIN invites : /\ invites'[k] \in Invitation
                                         /\ invites'[k].org = invites[k].org
                                         /\ k # i => invites'[k] = invites[k]
            /\ invites'[i].accepted
        BY <1>0, <2>2, <3>1 DEF TypeOK, Invitation
      <3>3. /\ req' \in [Requests -> Request]
            /\ \A q \in Requests : "inv" \in DOMAIN req'[q] => req'[q].inv \in DOMAIN invites'
            /\ \A q \in Requests : req'[q].phase = "tenant" => orgs'[req'[q].org] # "unborn"
        BY <2>1, <3>2, TurnsKeeps DEF Founded
      <3>4. /\ member' \in [Orgs -> [Users -> Roles \cup {None}]]
            /\ \A p \in Orgs : MembersOf(p)' = (IF p = o THEN MembersOf(p) \cup {u}
                                                 ELSE MembersOf(p))
        <4> DEFINE role == invites[i].role
        <4>1. role \in Roles /\ role # None
          BY <2>2
        <4>2. member' = [member EXCEPT ![o][u] = role]
          BY <3>1
        <4> HIDE DEF i, u, o, role
        <4> QED BY <1>0, <2>2, <4>1, <4>2 DEF TypeOK, MembersOf
      <3>5. u \notin removed[o]
        BY <2>4 DEF Indexed
      <3>6. TypeOK'
        <4>1. \A p \in Orgs : removed'[p] \cap MembersOf(p)' = {}
          <5> SUFFICES ASSUME NEW p \in Orgs PROVE removed[p] \cap MembersOf(p)' = {}
            BY <2>1
          <5>1. removed[p] \cap MembersOf(p) = {}
            BY <1>0 DEF TypeOK
          <5>2. CASE p = o
            BY <3>4, <3>5, <5>1, <5>2
          <5>3. CASE p # o
            BY <3>4, <5>1, <5>3
          <5> QED BY <5>2, <5>3
        <4>2. joins' \subseteq (DOMAIN invites') \X Users
          BY <1>0, <2>2, <3>1, <3>2 DEF TypeOK
        <4> QED BY <1>0, <2>1, <3>2, <3>3, <3>4, <4>1, <4>2 DEF TypeOK
      <3>7. FoundedFirst'
        <4>1. Founded(o)
          BY <1>0, <2>2 DEF FoundedFirst
        <4> QED BY <1>0, <2>1, <3>2, <3>3, <3>4, <4>1 DEF FoundedFirst, Founded
      <3>8. SpentByOneJoin'
        <4>1. \A v \in Users : <<i, v>> \notin joins
          BY <1>0, <2>2, <2>4 DEF SpentByOneJoin, Open
        <4> QED BY <1>0, <2>2, <3>1, <3>2, <4>1 DEF SpentByOneJoin
      <3> QED BY <3>6, <3>7, <3>8 DEF IInv
    <2> QED BY <2>3, <2>4
  <1>11. ASSUME NEW r \in Requests, NEW u \in Users, EraseRead(r, u)
         PROVE  IInv'
    <2> DEFINE s == [phase |-> "erase", user |-> u, roles |-> [o \in Orgs |-> member[o][u]]]
    <2>1. [o \in Orgs |-> member[o][u]] \in [Orgs -> Roles \cup {None}]
      BY <1>0 DEF TypeOK
    <2>2. s \in Request
      BY <2>1 DEF Request
    <2>3. Turns(r)
      BY <1>11, <2>2 DEF EraseRead, Turns
    <2> QED BY <1>11, <2>3, ReadKeeps DEF EraseRead
  <1>12. ASSUME NEW r \in Requests, EraseCheck(r)
         PROVE  IInv'
    <2> DEFINE listed == {o \in Orgs : req[r].roles[o] # None}
               sole   == {o \in listed : req[r].roles[o] = "owner" /\ CountOwners(o) <= 1}
               s == [phase |-> "commit", user |-> req[r].user,
                     purge |-> sole, leave |-> listed \ sole]
    <2>1. req[r].user \in Users
      BY <1>0, <1>12, Carries DEF EraseCheck
    <2>2. s \in Request
      <3>1. sole \in SUBSET Orgs /\ listed \ sole \in SUBSET Orgs
        OBVIOUS
      <3> HIDE DEF listed, sole
      <3> QED BY <2>1, <3>1 DEF Request
    <2>3. Become(r, Idle) \/ Become(r, s)
      BY <1>12 DEF EraseCheck
    <2>4. Turns(r)
      <3>1. CASE Become(r, Idle)
        BY <3>1, Idles
      <3>2. CASE Become(r, s)
        <4>1. s.phase = "commit" /\ "inv" \notin DOMAIN s
          OBVIOUS
        <4> HIDE DEF s
        <4> QED BY <2>2, <3>2, <4>1 DEF Turns
      <3> QED BY <2>3, <3>1, <3>2
    <2> QED BY <1>12, <2>4, ReadKeeps DEF EraseCheck
  <1>13. ASSUME NEW r \in Requests, EraseCommit(r)
         PROVE  IInv'
    <2> DEFINE u == req[r].user
               gone(o) == IF o \in req[r].purge THEN MembersOf(o)
                          ELSE IF o \in req[r].leave THEN {u} \cap MembersOf(o) ELSE {}
    <2>1. Turns(r) /\ UNCHANGED joins
      BY <1>13, Idles DEF EraseCommit
    <2>2. /\ orgs' = [o \in Orgs |-> IF o \in req[r].purge THEN "deleted" ELSE orgs[o]]
          /\ member' = [o \in Orgs |-> [v \in Users |-> IF v \in gone(o) THEN None
                                                         ELSE member[o][v]]]
          /\ removed' = [o \in Orgs |-> removed[o] \cup gone(o)]
          /\ invites' = [i \in DOMAIN invites |->
                           IF invites[i].org \in req[r].purge
                           THEN [invites[i] EXCEPT !.deleted = TRUE] ELSE invites[i]]
          /\ erased' = erased \cup {u}
      BY <1>13 DEF EraseCommit
    <2>3. u \in Users
      BY <1>0, <1>13, Carries DEF EraseCommit
    <2>4. \A o \in Orgs : gone(o) \subseteq MembersOf(o)
      OBVIOUS
    <2>5. /\ DOMAIN invites' = DOMAIN invites
          /\ \A k \in DOMAIN invites : /\ invites'[k] \in Invitation
                                       /\ invites'[k].org = invites[k].org
                                       /\ invites'[k].accepted = invites[k].accepted
      BY <1>0, <2>2 DEF TypeOK, Invitation
    <2> HIDE DEF gone
    <2>6. \A o \in Orgs : Founded(o) => Founded(o)'
      BY <2>2 DEF Founded
    <2>7. /\ req' \in [Requests -> Request]
          /\ \A q \in Requests : "inv" \in DOMAIN req'[q] => req'[q].inv \in DOMAIN invites'
          /\ \A q \in Requests : req'[q].phase = "tenant" => orgs'[req'[q].org] # "unborn"
      BY <2>1, <2>5, <2>6, TurnsKeeps
    <2>8. /\ member' \in [Orgs -> [Users -> Roles \cup {None}]]
          /\ removed' \in [Orgs -> SUBSET Users]
          /\ \A o \in Orgs : MembersOf(o)' = MembersOf(o) \ gone(o)
      BY <1>0, <2>2, <2>4 DEF TypeOK, MembersOf
    <2>9. \A o \in Orgs : ~Founded(o)' => ~Founded(o)
      BY <2>6
    <2>10. TypeOK'
      <3>1. \A o \in Orgs : removed'[o] \cap MembersOf(o)' = {}
        BY <1>0, <2>2, <2>8 DEF TypeOK
      <3>2. orgs' \in [Orgs -> {"unborn", "live", "deleted", "purged"}]
        BY <1>0, <2>2 DEF TypeOK
      <3>3. joins' \subseteq (DOMAIN invites') \X Users
        BY <1>0, <2>1, <2>5 DEF TypeOK
      <3> QED BY <1>0, <2>2, <2>3, <2>5, <2>7, <2>8, <3>1, <3>2, <3>3 DEF TypeOK
    <2>11. FoundedFirst'
      <3>1. \A o \in Orgs : ~Founded(o)' => MembersOf(o)' = {} /\ removed'[o] = {}
        <4> SUFFICES ASSUME NEW o \in Orgs, ~Founded(o)'
                     PROVE  MembersOf(o)' = {} /\ removed'[o] = {}
          OBVIOUS
        <4>1. MembersOf(o) = {} /\ removed[o] = {}
          BY <1>0, <2>9 DEF FoundedFirst
        <4>2. removed'[o] = removed[o] \cup gone(o)
          BY <2>2
        <4> QED BY <2>4, <2>8, <4>1, <4>2
      <3>2. \A k \in DOMAIN invites' : orgs'[invites'[k].org] # "unborn"
        BY <1>0, <2>5, <2>6 DEF FoundedFirst, TypeOK, Invitation, Founded
      <3> QED BY <2>7, <3>1, <3>2 DEF FoundedFirst, Founded
    <2>12. SpentByOneJoin'
      BY <1>0, <2>1, <2>5 DEF SpentByOneJoin
    <2> QED BY <2>10, <2>11, <2>12 DEF IInv
  <1>14. ASSUME NEW u \in Users, NEW o \in Orgs, CreateForUser(u, o)
         PROVE  IInv'
    <2>1. /\ orgs' = [orgs EXCEPT ![o] = "live"]
          /\ member' = [member EXCEPT ![o][u] = "owner"]
          /\ UNCHANGED <<removed, invites, erased, req, joins>>
          /\ ~Founded(o)
      BY <1>14 DEF CreateForUser, Founded
    <2>2. removed[o] = {}
      BY <1>0, <2>1 DEF FoundedFirst
    <2>3. /\ member' \in [Orgs -> [Users -> Roles \cup {None}]]
          /\ \A p \in Orgs : p # o => MembersOf(p)' = MembersOf(p)
      BY <1>0, <2>1 DEF TypeOK, MembersOf, Roles
    <2>4. TypeOK'
      BY <1>0, <2>1, <2>2, <2>3 DEF TypeOK
    <2>5. \A p \in Orgs : (p # o => Founded(p)' = Founded(p)) /\ Founded(o)'
      BY <1>0, <2>1 DEF TypeOK, Founded
    <2>6. FoundedFirst'
      <3>1. \A k \in DOMAIN invites : invites[k].org \in Orgs
        BY <1>0 DEF TypeOK, Invitation
      <3>2. \A q \in Requests : req[q].phase = "tenant" => req[q].org \in Orgs
        BY <1>0, Carries
      <3> QED BY <1>0, <2>1, <2>3, <2>5, <3>1, <3>2 DEF FoundedFirst
    <2>7. SpentByOneJoin'
      BY <1>0, <2>1 DEF SpentByOneJoin
    <2> QED BY <2>4, <2>6, <2>7 DEF IInv
  <1>15. ASSUME NEW u \in Users, NEW o \in Orgs, PurgeMembership(o, u)
         PROVE  IInv'
    <2>1. /\ UNCHANGED <<orgs, member, invites, erased, req, joins>>
          /\ removed' \in [Orgs -> SUBSET Users]
          /\ \A p \in Orgs : removed'[p] \subseteq removed[p]
      BY <1>0, <1>15 DEF PurgeMembership, TypeOK
    <2>2. TypeOK'
      BY <1>0, <2>1 DEF TypeOK, MembersOf
    <2>3. FoundedFirst'
      BY <1>0, <2>1 DEF FoundedFirst, MembersOf, Founded
    <2>4. SpentByOneJoin'
      BY <1>0, <2>1 DEF SpentByOneJoin
    <2> QED BY <2>2, <2>3, <2>4 DEF IInv
  <1>16. ASSUME NEW o \in Orgs, PurgeOrganization(o)
         PROVE  IInv'
    <2>1. /\ orgs[o] = "deleted"
          /\ orgs' = [orgs EXCEPT ![o] = "purged"]
          /\ member' = [member EXCEPT ![o] = [u \in Users |-> None]]
          /\ removed' = [removed EXCEPT ![o] = {}]
          /\ invites' = [i \in DOMAIN invites |->
                           IF invites[i].org = o THEN [invites[i] EXCEPT !.deleted = TRUE]
                           ELSE invites[i]]
          /\ UNCHANGED <<erased, req, joins>>
      BY <1>16 DEF PurgeOrganization
    <2>2. /\ DOMAIN invites' = DOMAIN invites
          /\ \A k \in DOMAIN invites : /\ invites'[k] \in Invitation
                                       /\ invites'[k].org = invites[k].org
                                       /\ invites'[k].accepted = invites[k].accepted
      BY <1>0, <2>1 DEF TypeOK, Invitation
    <2>3. \A p \in Orgs : Founded(p)' = Founded(p)
      BY <1>0, <2>1 DEF TypeOK, Founded
    <2>4. /\ member' \in [Orgs -> [Users -> Roles \cup {None}]]
          /\ \A p \in Orgs : MembersOf(p)' = (IF p = o THEN {} ELSE MembersOf(p))
      BY <1>0, <2>1 DEF TypeOK, MembersOf
    <2>5. TypeOK'
      BY <1>0, <2>1, <2>2, <2>4 DEF TypeOK
    <2>6. FoundedFirst'
      <3>1. \A k \in DOMAIN invites : invites[k].org \in Orgs
        BY <1>0 DEF TypeOK, Invitation
      <3>2. \A q \in Requests : req[q].phase = "tenant" => req[q].org \in Orgs
        BY <1>0, Carries
      <3>3. \A p \in Orgs : removed'[p] = (IF p = o THEN {} ELSE removed[p])
        BY <1>0, <2>1 DEF TypeOK
      <3> QED BY <1>0, <2>1, <2>2, <2>3, <2>4, <3>1, <3>2, <3>3 DEF FoundedFirst
    <2>7. SpentByOneJoin'
      BY <1>0, <2>1, <2>2 DEF SpentByOneJoin
    <2> QED BY <2>5, <2>6, <2>7 DEF IInv
  <1>17. CASE UNCHANGED vars
    BY <1>0, <1>17 DEF vars, IInv, TypeOK, FoundedFirst, SpentByOneJoin, MembersOf, Founded
  <1> QED
    BY <1>1, <1>2, <1>3, <1>4, <1>5, <1>6, <1>7, <1>8, <1>9, <1>10, <1>11, <1>12, <1>13,
       <1>14, <1>15, <1>16, <1>17 DEF Next, Actions, Managing

LEMMA SpecInvariant == Spec => []IInv
  BY InitInvariant, NextInvariant, PTL DEF Spec

\* Every reachable state is typed, and the unique index holds: one row per user
\* and organization, live or soft-deleted.
THEOREM MembersTypes == Spec => []TypeOK
  BY SpecInvariant, PTL DEF IInv

\* An invitation is spent exactly when one user joined by it, for any number of
\* users, organizations, invitations and overlapping requests.
THEOREM InvitationsAdmitOne == Spec => []SpentByOneJoin
  BY SpecInvariant, PTL DEF IInv

-----------------------------------------------------------------------------
(* Requests that have not overlapped. *)

OtherOwner(o, u) == \E v \in Users : v # u /\ member[o][v] = "owner"

\* What a request checked before it writes.
Checked(r) ==
    /\ req[r].phase = "role" /\ req[r].role # "owner"
            /\ member[req[r].org][req[r].user] = "owner"
         => OtherOwner(req[r].org, req[r].user)
    /\ req[r].phase = "remove" /\ member[req[r].org][req[r].user] = "owner"
         => OtherOwner(req[r].org, req[r].user)
    /\ req[r].phase = "erase" => req[r].roles = [o \in Orgs |-> member[o][req[r].user]]
    /\ req[r].phase = "commit" =>
         \A o \in req[r].leave : orgs[o] = "live" => OtherOwner(o, req[r].user)

OneByOne == Alone /\ LastOwnerKept /\ \A r \in Requests : Checked(r)

OwnersInv == ~overlapped => OneByOne

\* A count above one is another owner.
LEMMA SeveralOwners ==
    ASSUME NEW o \in Orgs, NEW u \in Users, ~(CountOwners(o) <= 1)
    PROVE  OtherOwner(o, u)
  <1> SUFFICES ASSUME ~OtherOwner(o, u) PROVE FALSE
    OBVIOUS
  <1>1. OwnersOf(o) \subseteq {u}
    BY DEF OtherOwner, OwnersOf
  <1>2. IsFiniteSet({u}) /\ Cardinality({u}) = 1
    BY FS_Singleton
  <1>3. Cardinality(OwnersOf(o)) <= 1
    BY <1>1, <1>2, FS_Subset
  <1> QED BY <1>3 DEF CountOwners

LEMMA OwnersAreFinite ==
    ASSUME NEW o \in Orgs
    PROVE  CountOwners(o) \in Nat
  <1>1. IsFiniteSet(OwnersOf(o))
    BY UsersAssumption, FS_Subset DEF OwnersOf
  <1> QED BY <1>1, FS_CardinalityType DEF CountOwners

\* With no request left in progress, nothing has been checked.
LEMMA AllIdle ==
    ASSUME NEW r \in Requests, TypeOK, Become(r, Idle), Alone, req[r] # Idle
    PROVE  Alone' /\ \A q \in Requests : Checked(q)'
  <1>1. \A q \in Requests : req'[q] = Idle
    BY DEF TypeOK, Become, Alone
  <1> QED BY <1>1 DEF Alone, Checked, Idle

\* With one request in progress after the step, the others are idle.
LEMMA OneStarts ==
    ASSUME NEW r \in Requests, NEW s, TypeOK, Alone', Become(r, s), s # Idle
    PROVE  /\ req'[r] = s
           /\ \A q \in Requests : q # r => req'[q] = Idle
  BY DEF TypeOK, Become, Alone

\* The checks of idle requests.
LEMMA IdleChecked ==
    ASSUME NEW q \in Requests, req'[q] = Idle
    PROVE  Checked(q)'
  BY DEF Checked, Idle

LEMMA OwnersNext ==
    ASSUME TypeOK, IInv, OneByOne, Alone', Actions,
           ~(~Quiet /\ UNCHANGED req /\ orgs' # orgs)
    PROVE  OneByOne'
  <1>0. Alone /\ LastOwnerKept /\ \A r \in Requests : Checked(r)
    BY DEF OneByOne
  <1>1. ASSUME NEW r \in Requests, NEW u \in Users, NEW o \in Orgs, Tenant(r, u, o)
        PROVE  OneByOne'
    <2> DEFINE s == [phase |-> "tenant", org |-> o, actor |-> u, as |-> member[o][u]]
    <2>1. Become(r, s) /\ UNCHANGED <<orgs, member>>
      BY <1>1 DEF Tenant
    <2>2. req'[r] = s /\ \A q \in Requests : q # r => req'[q] = Idle
      <3>1. s # Idle
        BY DEF Idle
      <3> HIDE DEF s
      <3> QED BY <2>1, <3>1, OneStarts
    <2>3. \A q \in Requests : Checked(q)'
      BY <2>2, IdleChecked DEF Checked
    <2>4. LastOwnerKept'
      BY <1>0, <2>1 DEF LastOwnerKept, OwnersOf
    <2> QED BY <2>2, <2>3, <2>4 DEF OneByOne
  <1>2. ASSUME NEW r \in Requests, NEW u \in Users, NEW role \in Roles,
               UpdateRoleCheck(r, u, role)
        PROVE  OneByOne'
    <2> DEFINE o == req[r].org
               s == [phase |-> "role", org |-> o, user |-> u, role |-> role,
                     actor |-> req[r].actor]
    <2>1. /\ req[r].phase = "tenant"
          /\ role # "owner" => MayDemote(o, u, req[r].as)
          /\ Become(r, s) /\ UNCHANGED <<orgs, member>>
      BY <1>2 DEF UpdateRoleCheck
    <2>2. o \in Orgs /\ req[r] # Idle
      BY <2>1, Carries DEF Idle
    <2>3. req'[r] = s /\ \A q \in Requests : q # r => req'[q] = Idle
      <3>1. s # Idle
        BY DEF Idle
      <3> HIDE DEF s
      <3> QED BY <1>0, <2>1, <2>2, <3>1, OneStarts
    <2>4. role # "owner" /\ member[o][u] = "owner" => OtherOwner(o, u)
      <3> SUFFICES ASSUME role # "owner", member[o][u] = "owner" PROVE OtherOwner(o, u)
        OBVIOUS
      <3>1. CountOwners(o) > 1
        BY <2>1 DEF MayDemote
      <3>2. ~(CountOwners(o) <= 1)
        BY <2>2, <3>1, OwnersAreFinite
      <3> HIDE DEF o
      <3> QED BY <2>2, <3>2, SeveralOwners
    <2>5. Checked(r)'
      BY <2>1, <2>3, <2>4 DEF Checked, OtherOwner
    <2>6. \A q \in Requests : Checked(q)'
      BY <2>3, <2>5, IdleChecked
    <2>7. LastOwnerKept'
      BY <1>0, <2>1 DEF LastOwnerKept, OwnersOf
    <2> QED BY <2>3, <2>6, <2>7 DEF OneByOne
  <1>3. ASSUME NEW r \in Requests, UpdateRole(r)
        PROVE  OneByOne'
    <2> DEFINE o == req[r].org
               u == req[r].user
               role == req[r].role
    <2>1. /\ req[r].phase = "role" /\ Become(r, Idle) /\ UNCHANGED orgs
          /\ \/ UNCHANGED member
             \/ member' = [member EXCEPT ![o][u] = role]
      BY <1>3 DEF UpdateRole
    <2>2. o \in Orgs /\ u \in Users /\ req[r] # Idle
      BY <2>1, Carries DEF Idle
    <2>3. Alone' /\ \A q \in Requests : Checked(q)'
      BY <1>0, <2>1, <2>2, AllIdle
    <2>4. role # "owner" /\ member[o][u] = "owner" => OtherOwner(o, u)
      BY <1>0, <2>1 DEF Checked
    <2>5. LastOwnerKept'
      <3>1. CASE UNCHANGED member
        BY <1>0, <2>1, <3>1 DEF LastOwnerKept, OwnersOf
      <3>2. CASE member' = [member EXCEPT ![o][u] = role]
        <4> HIDE DEF o, u, role
        <4>1. ASSUME NEW p \in Orgs, orgs'[p] = "live"
              PROVE  \E v \in Users : member'[p][v] = "owner"
          <5>1. PICK v \in Users : member[p][v] = "owner"
            BY <1>0, <2>1, <4>1 DEF LastOwnerKept, OwnersOf
          <5>2. CASE p = o /\ v = u /\ role # "owner"
            <6>1. PICK w \in Users : w # u /\ member[o][w] = "owner"
              BY <2>4, <5>1, <5>2 DEF OtherOwner
            <6>2. member'[o][w] = "owner"
              BY <2>2, <3>2, <6>1 DEF TypeOK
            <6> QED BY <5>2, <6>2
          <5>3. CASE ~(p = o /\ v = u /\ role # "owner")
            <6>1. member'[p][v] = "owner"
              BY <2>2, <3>2, <5>1, <5>3 DEF TypeOK
            <6> QED BY <6>1
          <5> QED BY <5>2, <5>3
        <4> QED BY <4>1 DEF LastOwnerKept, OwnersOf
      <3> QED BY <2>1, <3>1, <3>2
    <2> QED BY <2>3, <2>5 DEF OneByOne
  <1>4. ASSUME NEW r \in Requests, NEW u \in Users, RemoveCheck(r, u)
        PROVE  OneByOne'
    <2> DEFINE o == req[r].org
               s == [phase |-> "remove", org |-> o, user |-> u, actor |-> req[r].actor]
    <2>1. /\ req[r].phase = "tenant"
          /\ MayDemote(o, u, req[r].as)
          /\ Become(r, s) /\ UNCHANGED <<orgs, member>>
      BY <1>4 DEF RemoveCheck
    <2>2. o \in Orgs /\ req[r] # Idle
      BY <2>1, Carries DEF Idle
    <2>3. req'[r] = s /\ \A q \in Requests : q # r => req'[q] = Idle
      <3>1. s # Idle
        BY DEF Idle
      <3> HIDE DEF s
      <3> QED BY <1>0, <2>1, <2>2, <3>1, OneStarts
    <2>4. member[o][u] = "owner" => OtherOwner(o, u)
      <3> SUFFICES ASSUME member[o][u] = "owner" PROVE OtherOwner(o, u)
        OBVIOUS
      <3>1. CountOwners(o) > 1
        BY <2>1 DEF MayDemote
      <3>2. ~(CountOwners(o) <= 1)
        BY <2>2, <3>1, OwnersAreFinite
      <3> HIDE DEF o
      <3> QED BY <2>2, <3>2, SeveralOwners
    <2>5. Checked(r)'
      BY <2>1, <2>3, <2>4 DEF Checked, OtherOwner
    <2>6. \A q \in Requests : Checked(q)'
      BY <2>3, <2>5, IdleChecked
    <2>7. LastOwnerKept'
      BY <1>0, <2>1 DEF LastOwnerKept, OwnersOf
    <2> QED BY <2>3, <2>6, <2>7 DEF OneByOne
  <1>5. ASSUME NEW r \in Requests, RemoveMember(r)
        PROVE  OneByOne'
    <2> DEFINE o == req[r].org
               u == req[r].user
    <2>1. /\ req[r].phase = "remove" /\ Become(r, Idle) /\ UNCHANGED orgs
          /\ SoftDelete(o, {u})
      BY <1>5 DEF RemoveMember
    <2>2. o \in Orgs /\ u \in Users /\ req[r] # Idle
      BY <2>1, Carries DEF Idle
    <2>3. Alone' /\ \A q \in Requests : Checked(q)'
      BY <1>0, <2>1, <2>2, AllIdle
    <2>4. member[o][u] = "owner" => OtherOwner(o, u)
      BY <1>0, <2>1 DEF Checked
    <2>5. LastOwnerKept'
      <3> HIDE DEF o, u
      <3>1. ASSUME NEW p \in Orgs, NEW v \in Users, p # o \/ v # u
            PROVE  member'[p][v] = member[p][v]
        BY <2>1, <2>2, <3>1 DEF SoftDelete, TypeOK
      <3>2. ASSUME NEW p \in Orgs, orgs'[p] = "live"
            PROVE  \E v \in Users : member'[p][v] = "owner"
        <4>1. PICK v \in Users : member[p][v] = "owner"
          BY <1>0, <2>1, <3>2 DEF LastOwnerKept, OwnersOf
        <4>2. CASE p = o /\ v = u
          BY <2>4, <3>1, <4>1, <4>2 DEF OtherOwner
        <4>3. CASE p # o \/ v # u
          BY <3>1, <4>1, <4>3
        <4> QED BY <4>2, <4>3
      <3> QED BY <3>2 DEF LastOwnerKept, OwnersOf
    <2> QED BY <2>3, <2>5 DEF OneByOne
  <1>6. ASSUME NEW r \in Requests,
               \/ Refuse(r)
               \/ \E u \in Users, role \in Invitable : CreateInvitation(r, u, role)
               \/ \E i \in Invitations : RevokeInvitation(r, i)
        PROVE  OneByOne'
    <2>1. req[r].phase = "tenant" /\ Become(r, Idle) /\ UNCHANGED <<orgs, member>>
      BY <1>6 DEF Refuse, CreateInvitation, RevokeInvitation
    <2>2. Alone' /\ \A q \in Requests : Checked(q)'
      BY <1>0, <2>1, AllIdle DEF Idle
    <2>3. LastOwnerKept'
      BY <1>0, <2>1 DEF LastOwnerKept, OwnersOf
    <2> QED BY <2>2, <2>3 DEF OneByOne
  <1>7. ASSUME NEW r \in Requests, NEW u \in Users, NEW i \in Invitations, AcceptCheck(r, u, i)
        PROVE  OneByOne'
    <2> DEFINE s == [phase |-> "accept", inv |-> i, user |-> u]
    <2>1. Become(r, s) /\ UNCHANGED <<orgs, member>>
      BY <1>7 DEF AcceptCheck
    <2>2. req'[r] = s /\ \A q \in Requests : q # r => req'[q] = Idle
      <3>1. s # Idle
        BY DEF Idle
      <3> HIDE DEF s
      <3> QED BY <2>1, <3>1, OneStarts
    <2>3. \A q \in Requests : Checked(q)'
      BY <2>2, IdleChecked DEF Checked
    <2>4. LastOwnerKept'
      BY <1>0, <2>1 DEF LastOwnerKept, OwnersOf
    <2> QED BY <2>2, <2>3, <2>4 DEF OneByOne
  <1>8. ASSUME NEW r \in Requests, AcceptInvitation(r)
        PROVE  OneByOne'
    <2> DEFINE i == req[r].inv
               u == req[r].user
               o == invites[i].org
    <2>1. /\ req[r].phase = "accept" /\ Become(r, Idle) /\ UNCHANGED orgs
          /\ \/ UNCHANGED member
             \/ member[o][u] = None /\ member' = [member EXCEPT ![o][u] = invites[i].role]
      BY <1>8 DEF AcceptInvitation, Indexed
    <2>2. Alone' /\ \A q \in Requests : Checked(q)'
      BY <1>0, <2>1, AllIdle DEF Idle
    <2>3. ASSUME NEW p \in Orgs, NEW v \in Users, member[p][v] = "owner"
          PROVE  member'[p][v] = "owner"
      <3> DEFINE role == invites[i].role
      <3>1. \/ UNCHANGED member
            \/ member[o][u] # "owner" /\ member' = [member EXCEPT ![o][u] = role]
        BY <2>1 DEF None
      <3> HIDE DEF i, u, o, role
      <3> QED BY <2>3, <3>1 DEF TypeOK
    <2>4. LastOwnerKept'
      BY <1>0, <2>1, <2>3 DEF LastOwnerKept, OwnersOf
    <2> QED BY <2>2, <2>4 DEF OneByOne
  <1>9. ASSUME NEW r \in Requests, NEW u \in Users, EraseRead(r, u)
        PROVE  OneByOne'
    <2> DEFINE s == [phase |-> "erase", user |-> u, roles |-> [o \in Orgs |-> member[o][u]]]
    <2>1. Become(r, s) /\ UNCHANGED <<orgs, member>>
      BY <1>9 DEF EraseRead
    <2>2. req'[r] = s /\ \A q \in Requests : q # r => req'[q] = Idle
      <3>1. s # Idle
        BY DEF Idle
      <3> HIDE DEF s
      <3> QED BY <2>1, <3>1, OneStarts
    <2>3. Checked(r)'
      BY <2>1, <2>2 DEF Checked
    <2>4. \A q \in Requests : Checked(q)'
      BY <2>2, <2>3, IdleChecked
    <2>5. LastOwnerKept'
      BY <1>0, <2>1 DEF LastOwnerKept, OwnersOf
    <2> QED BY <2>2, <2>4, <2>5 DEF OneByOne
  <1>10. ASSUME NEW r \in Requests, EraseCheck(r)
         PROVE  OneByOne'
    <2> DEFINE u      == req[r].user
               listed == {o \in Orgs : req[r].roles[o] # None}
               sole   == {o \in listed : req[r].roles[o] = "owner" /\ CountOwners(o) <= 1}
               s      == [phase |-> "commit", user |-> u, purge |-> sole,
                          leave |-> listed \ sole]
    <2>1. /\ req[r].phase = "erase" /\ UNCHANGED <<orgs, member>>
          /\ Become(r, Idle) \/ Become(r, s)
      BY <1>10 DEF EraseCheck
    <2>2. u \in Users /\ req[r] # Idle
      BY <2>1, Carries DEF Idle
    <2>3. LastOwnerKept'
      BY <1>0, <2>1 DEF LastOwnerKept, OwnersOf
    <2>4. CASE Become(r, Idle)
      <3>1. Alone' /\ \A q \in Requests : Checked(q)'
        BY <1>0, <2>2, <2>4, AllIdle
      <3> QED BY <2>3, <3>1 DEF OneByOne
    <2>5. CASE Become(r, s)
      <3>1. req'[r] = s /\ \A q \in Requests : q # r => req'[q] = Idle
        <4>1. s # Idle
          BY DEF Idle
        <4> HIDE DEF s
        <4> QED BY <1>0, <2>2, <2>5, <4>1, OneStarts
      <3>2. ASSUME NEW o \in listed \ sole, orgs[o] = "live"
            PROVE  OtherOwner(o, u)
        <4>1. req[r].roles[o] = member[o][u]
          BY <1>0, <2>1 DEF Checked
        <4>2. CASE member[o][u] = "owner"
          <5>1. ~(CountOwners(o) <= 1)
            BY <4>1, <4>2
          <5> QED BY <2>2, <5>1, SeveralOwners
        <4>3. CASE member[o][u] # "owner"
          BY <1>0, <3>2, <4>3 DEF LastOwnerKept, OwnersOf, OtherOwner
        <4> QED BY <4>2, <4>3
      <3>3. Checked(r)'
        BY <2>1, <3>1, <3>2 DEF Checked, OtherOwner
      <3>4. \A q \in Requests : Checked(q)'
        BY <3>1, <3>3, IdleChecked
      <3> QED BY <2>3, <3>1, <3>4 DEF OneByOne
    <2> QED BY <2>1, <2>4, <2>5
  <1>11. ASSUME NEW r \in Requests, EraseCommit(r)
         PROVE  OneByOne'
    <2> DEFINE u == req[r].user
               purge == req[r].purge
               leave == req[r].leave
               gone(o) == IF o \in purge THEN MembersOf(o)
                          ELSE IF o \in leave THEN {u} \cap MembersOf(o) ELSE {}
    <2>1. /\ req[r].phase = "commit" /\ Become(r, Idle)
          /\ orgs' = [o \in Orgs |-> IF o \in purge THEN "deleted" ELSE orgs[o]]
          /\ member' = [o \in Orgs |-> [v \in Users |-> IF v \in gone(o) THEN None
                                                         ELSE member[o][v]]]
      BY <1>11 DEF EraseCommit
    <2>2. Alone' /\ \A q \in Requests : Checked(q)'
      BY <1>0, <2>1, AllIdle DEF Idle
    <2>3. \A o \in leave : orgs[o] = "live" => OtherOwner(o, u)
      BY <1>0, <2>1 DEF Checked
    <2>4. ASSUME NEW p \in Orgs, orgs'[p] = "live"
          PROVE  \E v \in Users : member'[p][v] = "owner"
      <3>1. p \notin purge /\ orgs[p] = "live"
        BY <2>1, <2>4
      <3>2. PICK v \in Users : member[p][v] = "owner" /\ (p \in leave => v # u)
        BY <1>0, <2>3, <3>1 DEF LastOwnerKept, OwnersOf, OtherOwner
      <3>3. v \notin gone(p)
        BY <3>1, <3>2
      <3> HIDE DEF gone
      <3> QED BY <2>1, <3>2, <3>3
    <2>5. LastOwnerKept'
      BY <2>4 DEF LastOwnerKept, OwnersOf
    <2> QED BY <2>2, <2>5 DEF OneByOne
  <1>12. ASSUME NEW u \in Users, NEW o \in Orgs, CreateForUser(u, o)
         PROVE  OneByOne'
    <2>1. /\ UNCHANGED req /\ orgs[o] = "unborn"
          /\ orgs' = [orgs EXCEPT ![o] = "live"]
          /\ member' = [member EXCEPT ![o][u] = "owner"]
      BY <1>12 DEF CreateForUser
    <2>a. orgs'[o] = "live"
      BY <2>1 DEF TypeOK
    <2>b. Quiet
      BY <2>1, <2>a
    <2>2. Alone' /\ \A q \in Requests : Checked(q)'
      BY <2>b, <1>0, <2>1, IdleChecked DEF Quiet, Alone
    <2>3. LastOwnerKept'
      BY <1>0, <2>1 DEF LastOwnerKept, OwnersOf, TypeOK
    <2> QED BY <2>2, <2>3 DEF OneByOne
  <1>13. ASSUME NEW u \in Users, NEW o \in Orgs, PurgeMembership(o, u)
         PROVE  OneByOne'
    <2>1. UNCHANGED <<orgs, member, req>>
      BY <1>13 DEF PurgeMembership
    <2> QED BY <1>0, <2>1 DEF OneByOne, Alone, LastOwnerKept, OwnersOf, Checked, OtherOwner
  <1>14. ASSUME NEW o \in Orgs, PurgeOrganization(o)
         PROVE  OneByOne'
    <2>1. /\ Quiet /\ UNCHANGED req
          /\ orgs' = [orgs EXCEPT ![o] = "purged"]
          /\ member' = [member EXCEPT ![o] = [u \in Users |-> None]]
      BY <1>14 DEF PurgeOrganization
    <2>2. Alone' /\ \A q \in Requests : Checked(q)'
      BY <1>0, <2>1, IdleChecked DEF Quiet, Alone
    <2>3. LastOwnerKept'
      BY <1>0, <2>1 DEF LastOwnerKept, OwnersOf, TypeOK
    <2> QED BY <2>2, <2>3 DEF OneByOne
  <1> QED
    BY <1>1, <1>2, <1>3, <1>4, <1>5, <1>6, <1>7, <1>8, <1>9, <1>10, <1>11, <1>12, <1>13, <1>14
       DEF Actions, Managing

LEMMA OwnersStep ==
    ASSUME IInv, OwnersInv, [Next]_vars
    PROVE  OwnersInv'
  <1> SUFFICES ASSUME ~overlapped' PROVE OneByOne'
    BY DEF OwnersInv
  <1>1. TypeOK
    BY DEF IInv
  <1>2. CASE Next
    <2>1. /\ ~overlapped /\ Alone'
          /\ ~(~Quiet /\ UNCHANGED req /\ orgs' # orgs)
      BY <1>2, Zenon DEF Next, Watch
    <2>2. OneByOne /\ Actions
      BY <1>2, <2>1 DEF OwnersInv, Next
    <2> QED BY <1>1, <2>1, <2>2, OwnersNext
  <1>3. CASE UNCHANGED vars
    <2>1. OneByOne /\ UNCHANGED <<orgs, member, req>>
      BY <1>3, Zenon DEF OwnersInv, vars
    <2> QED BY <2>1 DEF OneByOne, Alone, LastOwnerKept, OwnersOf, Checked, OtherOwner
  <1> QED BY <1>2, <1>3

\* As long as requests have not overlapped, no organization in use loses its
\* last owner, whatever the requests and however many: the guards of UpdateRole,
\* RemoveMember and DeleteAccount are the right ones, one at a time.
THEOREM LastOwnerStays == Spec => []OrgHasOwner
  <1>1. Init => OwnersInv
    BY DEF Init, OwnersInv, OneByOne, Alone, LastOwnerKept, OwnersOf, Checked, Idle
  <1>2. IInv /\ OwnersInv /\ [Next]_vars => OwnersInv'
    BY OwnersStep
  <1>3. OwnersInv => OrgHasOwner
    BY DEF OwnersInv, OneByOne, OrgHasOwner
  <1> QED BY <1>1, <1>2, <1>3, SpecInvariant, PTL DEF Spec

-----------------------------------------------------------------------------
(* Organizations that are gone, and what an erasure takes with it. *)

Dead(o) == orgs[o] \in {"deleted", "purged"}

Closed ==
    \A o \in Orgs : Dead(o) =>
        /\ MembersOf(o) = {}
        /\ \A i \in DOMAIN invites : invites[i].org = o => invites[i].deleted

\* What a request in progress may count on: a manager's organization is there,
\* and nobody but the user is in the organizations an erasure takes.
Standing(r) ==
    /\ req[r].phase = "tenant" => ~Dead(req[r].org)
    /\ req[r].phase = "commit" => \A o \in req[r].purge : MembersOf(o) = {req[r].user}

Shut == Closed /\ \A r \in Requests : Standing(r)

ShutInv == ~overlapped => Shut

LEMMA IdleStands ==
    ASSUME NEW q \in Requests, req'[q] = Idle
    PROVE  Standing(q)'
  BY DEF Standing, Idle

\* The one request in progress ends.
LEMMA LastEnds ==
    ASSUME NEW r \in Requests, TypeOK, Become(r, Idle), Alone, req[r] # Idle
    PROVE  \A q \in Requests : Standing(q)'
  <1>1. \A q \in Requests : req'[q] = Idle
    BY DEF TypeOK, Become, Alone
  <1> QED BY <1>1, IdleStands

\* A step that founds or deletes no organization, and brings nobody and no
\* invitation into one that is gone.
LEMMA StaysClosed ==
    ASSUME Closed, UNCHANGED orgs,
           \A o \in Orgs : Dead(o) => MembersOf(o)' \subseteq MembersOf(o),
           \A o \in Orgs : Dead(o) =>
               \A i \in DOMAIN invites' : invites'[i].org = o =>
                   \/ invites'[i].deleted
                   \/ /\ i \in DOMAIN invites /\ invites[i].org = o
                      /\ invites[i].deleted => invites'[i].deleted
    PROVE  Closed'
  BY DEF Closed, Dead

LEMMA ReadStaysClosed ==
    ASSUME Closed, UNCHANGED <<orgs, member, invites>>
    PROVE  Closed'
  BY DEF Closed, Dead, MembersOf

\* A count of at most one is the one who is there.
LEMMA OnlyMember ==
    ASSUME NEW o \in Orgs, NEW u \in Users, u \in MembersOf(o), ~(CountMembers(o) > 1)
    PROVE  MembersOf(o) = {u}
  <1> SUFFICES ASSUME NEW v \in MembersOf(o), v # u PROVE FALSE
    OBVIOUS
  <1>1. IsFiniteSet(MembersOf(o)) /\ CountMembers(o) \in Nat
    BY UsersAssumption, FS_Subset, FS_CardinalityType DEF MembersOf, CountMembers
  <1>2. IsFiniteSet({u, v}) /\ Cardinality({u, v}) = 2
    <2>1. IsFiniteSet({u}) /\ Cardinality({u}) = 1
      BY FS_Singleton
    <2>2. IsFiniteSet({u} \cup {v}) /\ Cardinality({u} \cup {v}) = 1 + 1
      BY <2>1, FS_AddElement
    <2>3. {u, v} = {u} \cup {v}
      OBVIOUS
    <2> QED BY <2>2, <2>3
  <1>3. {u, v} \subseteq MembersOf(o)
    OBVIOUS
  <1>4. 2 <= CountMembers(o)
    BY <1>1, <1>2, <1>3, FS_Subset DEF CountMembers
  <1> QED BY <1>1, <1>4

LEMMA ShutNext ==
    ASSUME TypeOK, IInv, OneByOne, Shut, Alone', Actions,
           ~(~Quiet /\ UNCHANGED req /\ orgs' # orgs)
    PROVE  Shut'
  <1>0. /\ Closed
        /\ \A q \in Requests : Standing(q)
        /\ Alone
        /\ \A q \in Requests : Checked(q)
    BY DEF Shut, OneByOne
  <1>1. ASSUME NEW r \in Requests, NEW u \in Users, NEW o \in Orgs, Tenant(r, u, o)
        PROVE  Shut'
    <2> DEFINE s == [phase |-> "tenant", org |-> o, actor |-> u, as |-> member[o][u]]
    <2>1. Become(r, s) /\ UNCHANGED <<orgs, member, invites>> /\ member[o][u] \in Managers
      BY <1>1 DEF Tenant
    <2>2. req'[r] = s /\ \A q \in Requests : q # r => req'[q] = Idle
      <3>1. s # Idle
        BY DEF Idle
      <3> HIDE DEF s
      <3> QED BY <2>1, <3>1, OneStarts
    <2>3. ~Dead(o)
      BY <1>0, <2>1 DEF Closed, MembersOf, Managers, None
    <2>4. Standing(r)'
      BY <2>1, <2>2, <2>3 DEF Standing, Dead
    <2>5. \A q \in Requests : Standing(q)'
      BY <2>2, <2>4, IdleStands
    <2> QED BY <1>0, <2>1, <2>5, ReadStaysClosed DEF Shut
  <1>2. ASSUME NEW r \in Requests, NEW u \in Users,
               RemoveCheck(r, u) \/ \E role \in Roles : UpdateRoleCheck(r, u, role)
        PROVE  Shut'
    <2>1. PICK s : /\ req[r].phase = "tenant"
                   /\ s.phase \in {"role", "remove"}
                   /\ Become(r, s)
                   /\ UNCHANGED <<orgs, member, invites>>
      BY <1>2 DEF RemoveCheck, UpdateRoleCheck
    <2>2. s # Idle
      BY <2>1 DEF Idle
    <2>3. req'[r] = s /\ \A q \in Requests : q # r => req'[q] = Idle
      BY <2>1, <2>2, OneStarts
    <2>4. Standing(r)'
      BY <2>1, <2>3 DEF Standing
    <2>5. \A q \in Requests : Standing(q)'
      BY <2>3, <2>4, IdleStands
    <2> QED BY <1>0, <2>1, <2>5, ReadStaysClosed DEF Shut
  <1>3. ASSUME NEW r \in Requests, UpdateRole(r)
        PROVE  Shut'
    <2> DEFINE o == req[r].org
               u == req[r].user
               role == req[r].role
    <2>1. /\ req[r].phase = "role" /\ Become(r, Idle) /\ UNCHANGED <<orgs, invites>>
          /\ \/ UNCHANGED member
             \/ member[o][u] # None /\ member' = [member EXCEPT ![o][u] = role]
      BY <1>3 DEF UpdateRole
    <2>2. o \in Orgs /\ u \in Users /\ req[r] # Idle
      BY <2>1, Carries DEF Idle
    <2>3. \A q \in Requests : Standing(q)'
      BY <1>0, <2>1, <2>2, LastEnds
    <2>4. \A p \in Orgs : MembersOf(p)' \subseteq MembersOf(p)
      <3> HIDE DEF o, u, role
      <3> QED BY <2>1, <2>2 DEF TypeOK, MembersOf
    <2>5. Closed'
      BY <1>0, <2>1, <2>4, StaysClosed
    <2> QED BY <2>3, <2>5 DEF Shut
  <1>4. ASSUME NEW r \in Requests, RemoveMember(r)
        PROVE  Shut'
    <2> DEFINE o == req[r].org
               S == {req[r].user}
    <2>1. /\ req[r].phase = "remove" /\ Become(r, Idle) /\ UNCHANGED <<orgs, invites>>
          /\ SoftDelete(o, S)
      BY <1>4 DEF RemoveMember
    <2>2. o \in Orgs /\ req[r] # Idle
      BY <2>1, Carries DEF Idle
    <2>3. \A q \in Requests : Standing(q)'
      BY <1>0, <2>1, <2>2, LastEnds
    <2>4. \A p \in Orgs : MembersOf(p)' \subseteq MembersOf(p)
      <3> HIDE DEF o, S
      <3> QED BY <2>1, <2>2 DEF SoftDelete, TypeOK, MembersOf
    <2>5. Closed'
      BY <1>0, <2>1, <2>4, StaysClosed
    <2> QED BY <2>3, <2>5 DEF Shut
  <1>5. ASSUME NEW r \in Requests, Refuse(r)
        PROVE  Shut'
    <2>1. req[r].phase = "tenant" /\ Become(r, Idle) /\ UNCHANGED <<orgs, member, invites>>
      BY <1>5 DEF Refuse
    <2>2. \A q \in Requests : Standing(q)'
      BY <1>0, <2>1, LastEnds DEF Idle
    <2> QED BY <1>0, <2>1, <2>2, ReadStaysClosed DEF Shut
  <1>6. ASSUME NEW r \in Requests, NEW u \in Users, NEW role \in Invitable,
               CreateInvitation(r, u, role)
        PROVE  Shut'
    <2>1. PICK i \in Invitations \ DOMAIN invites :
             invites' = [k \in DOMAIN invites \cup {i} |->
                 IF k = i
                 THEN [org |-> req[r].org, user |-> u, role |-> role,
                       accepted |-> FALSE, deleted |-> FALSE]
                 ELSE invites[k]]
      BY <1>6 DEF CreateInvitation
    <2>2. req[r].phase = "tenant" /\ Become(r, Idle) /\ UNCHANGED <<orgs, member>>
      BY <1>6 DEF CreateInvitation
    <2>3. \A q \in Requests : Standing(q)'
      BY <1>0, <2>2, LastEnds DEF Idle
    <2>4. ~Dead(req[r].org)
      BY <1>0, <2>2 DEF Standing
    <2>5. /\ DOMAIN invites' = DOMAIN invites \cup {i}
          /\ \A k \in DOMAIN invites : invites'[k] = invites[k]
          /\ invites'[i].org = req[r].org
      BY <2>1
    <2>6. \A o \in Orgs : MembersOf(o)' = MembersOf(o)
      BY <2>2 DEF MembersOf
    <2>7. Closed'
      BY <1>0, <2>2, <2>4, <2>5, <2>6, StaysClosed
    <2> QED BY <2>3, <2>7 DEF Shut
  <1>7. ASSUME NEW r \in Requests, NEW i \in Invitations, RevokeInvitation(r, i)
        PROVE  Shut'
    <2>1. /\ req[r].phase = "tenant" /\ Become(r, Idle) /\ UNCHANGED <<orgs, member>>
          /\ i \in DOMAIN invites
          /\ invites' = [invites EXCEPT ![i].deleted = TRUE]
      BY <1>7 DEF RevokeInvitation
    <2>2. \A q \in Requests : Standing(q)'
      BY <1>0, <2>1, LastEnds DEF Idle
    <2>3. /\ DOMAIN invites' = DOMAIN invites
          /\ \A k \in DOMAIN invites : /\ invites'[k].org = invites[k].org
                                       /\ invites[k].deleted => invites'[k].deleted
      BY <2>1 DEF TypeOK, Invitation
    <2>4. \A o \in Orgs : MembersOf(o)' = MembersOf(o)
      BY <2>1 DEF MembersOf
    <2>5. Closed'
      BY <1>0, <2>1, <2>3, <2>4, StaysClosed
    <2> QED BY <2>2, <2>5 DEF Shut
  <1>8. ASSUME NEW r \in Requests, NEW u \in Users, NEW i \in Invitations, AcceptCheck(r, u, i)
        PROVE  Shut'
    <2> DEFINE s == [phase |-> "accept", inv |-> i, user |-> u]
    <2>1. Become(r, s) /\ UNCHANGED <<orgs, member, invites>>
      BY <1>8 DEF AcceptCheck
    <2>2. req'[r] = s /\ \A q \in Requests : q # r => req'[q] = Idle
      <3>1. s # Idle
        BY DEF Idle
      <3> HIDE DEF s
      <3> QED BY <2>1, <3>1, OneStarts
    <2>3. Standing(r)'
      BY <2>2 DEF Standing
    <2>4. \A q \in Requests : Standing(q)'
      BY <2>2, <2>3, IdleStands
    <2> QED BY <1>0, <2>1, <2>4, ReadStaysClosed DEF Shut
  <1>9. ASSUME NEW r \in Requests, AcceptInvitation(r)
        PROVE  Shut'
    <2> DEFINE i == req[r].inv
               u == req[r].user
               o == invites[i].org
               role == invites[i].role
    <2>1. req[r].phase = "accept" /\ Become(r, Idle) /\ UNCHANGED orgs
      BY <1>9 DEF AcceptInvitation
    <2>2. i \in DOMAIN invites /\ u \in Users /\ o \in Orgs /\ req[r] # Idle
      BY <2>1, Carries DEF TypeOK, Invitation, Idle
    <2>3. \A q \in Requests : Standing(q)'
      BY <1>0, <2>1, <2>2, LastEnds
    <2>4. CASE Open(i) /\ ~Indexed(o, u)
      <3>1. /\ invites' = [invites EXCEPT ![i].accepted = TRUE]
            /\ member' = [member EXCEPT ![o][u] = role]
        BY <1>9, <2>4 DEF AcceptInvitation
      <3>2. ~Dead(o)
        BY <1>0, <2>2, <2>4 DEF Closed, Open
      <3>3. /\ DOMAIN invites' = DOMAIN invites
            /\ \A k \in DOMAIN invites : /\ invites'[k].org = invites[k].org
                                         /\ invites[k].deleted => invites'[k].deleted
        BY <3>1 DEF TypeOK, Invitation
      <3>4. \A p \in Orgs : p # o => MembersOf(p)' = MembersOf(p)
        <4> HIDE DEF i, u, o, role
        <4> QED BY <2>2, <3>1 DEF TypeOK, MembersOf
      <3>5. Closed'
        BY <1>0, <2>1, <3>2, <3>3, <3>4, StaysClosed
      <3> QED BY <2>3, <3>5 DEF Shut
    <2>5. CASE ~(Open(i) /\ ~Indexed(o, u))
      <3>1. UNCHANGED <<orgs, member, invites>>
        BY <1>9, <2>1, <2>5 DEF AcceptInvitation
      <3> QED BY <1>0, <2>3, <3>1, ReadStaysClosed DEF Shut
    <2> QED BY <2>4, <2>5
  <1>10. ASSUME NEW r \in Requests, NEW u \in Users, EraseRead(r, u)
         PROVE  Shut'
    <2> DEFINE s == [phase |-> "erase", user |-> u, roles |-> [o \in Orgs |-> member[o][u]]]
    <2>1. Become(r, s) /\ UNCHANGED <<orgs, member, invites>>
      BY <1>10 DEF EraseRead
    <2>2. req'[r] = s /\ \A q \in Requests : q # r => req'[q] = Idle
      <3>1. s # Idle
        BY DEF Idle
      <3> HIDE DEF s
      <3> QED BY <2>1, <3>1, OneStarts
    <2>3. Standing(r)'
      BY <2>2 DEF Standing
    <2>4. \A q \in Requests : Standing(q)'
      BY <2>2, <2>3, IdleStands
    <2> QED BY <1>0, <2>1, <2>4, ReadStaysClosed DEF Shut
  <1>11. ASSUME NEW r \in Requests, EraseCheck(r)
         PROVE  Shut'
    <2> DEFINE u      == req[r].user
               listed == {o \in Orgs : req[r].roles[o] # None}
               sole   == {o \in listed : req[r].roles[o] = "owner" /\ CountOwners(o) <= 1}
               s      == [phase |-> "commit", user |-> u, purge |-> sole,
                          leave |-> listed \ sole]
    <2>1. /\ req[r].phase = "erase" /\ UNCHANGED <<orgs, member, invites>>
          /\ \/ Become(r, Idle)
             \/ Become(r, s) /\ \A o \in sole : ~(CountMembers(o) > 1)
      BY <1>11 DEF EraseCheck
    <2>2. u \in Users /\ req[r] # Idle
      BY <2>1, Carries DEF Idle
    <2>3. CASE Become(r, Idle)
      <3>1. \A q \in Requests : Standing(q)'
        BY <1>0, <2>2, <2>3, LastEnds
      <3> QED BY <1>0, <2>1, <3>1, ReadStaysClosed DEF Shut
    <2>4. CASE Become(r, s) /\ \A o \in sole : ~(CountMembers(o) > 1)
      <3>1. req'[r] = s /\ \A q \in Requests : q # r => req'[q] = Idle
        <4>1. s # Idle
          BY DEF Idle
        <4> HIDE DEF s
        <4> QED BY <2>4, <4>1, OneStarts
      <3>2. ASSUME NEW o \in sole
            PROVE  MembersOf(o)' = {u}
        <4>1. req[r].roles[o] = member[o][u]
          BY <1>0, <2>1 DEF Checked
        <4>2. u \in MembersOf(o)
          BY <2>2, <4>1 DEF MembersOf
        <4>3. MembersOf(o) = {u}
          BY <2>2, <2>4, <4>2, OnlyMember
        <4> QED BY <2>1, <4>3 DEF MembersOf
      <3>3. Standing(r)'
        BY <3>1, <3>2 DEF Standing
      <3>4. \A q \in Requests : Standing(q)'
        BY <3>1, <3>3, IdleStands
      <3> QED BY <1>0, <2>1, <3>4, ReadStaysClosed DEF Shut
    <2> QED BY <2>1, <2>3, <2>4
  <1>12. ASSUME NEW r \in Requests, EraseCommit(r)
         PROVE  Shut'
    <2> DEFINE u == req[r].user
               purge == req[r].purge
               leave == req[r].leave
               gone(o) == IF o \in purge THEN MembersOf(o)
                          ELSE IF o \in leave THEN {u} \cap MembersOf(o) ELSE {}
    <2>1. /\ req[r].phase = "commit" /\ Become(r, Idle)
          /\ orgs' = [o \in Orgs |-> IF o \in purge THEN "deleted" ELSE orgs[o]]
          /\ member' = [o \in Orgs |-> [v \in Users |-> IF v \in gone(o) THEN None
                                                         ELSE member[o][v]]]
          /\ invites' = [i \in DOMAIN invites |->
                           IF invites[i].org \in purge
                           THEN [invites[i] EXCEPT !.deleted = TRUE]
                           ELSE invites[i]]
      BY <1>12 DEF EraseCommit
    <2>2. \A q \in Requests : Standing(q)'
      BY <1>0, <2>1, LastEnds DEF Idle
    <2>3. /\ DOMAIN invites' = DOMAIN invites
          /\ \A k \in DOMAIN invites : /\ invites'[k].org = invites[k].org
                                       /\ invites[k].deleted => invites'[k].deleted
                                       /\ invites[k].org \in purge => invites'[k].deleted
      BY <2>1 DEF TypeOK, Invitation
    <2>4. \A p \in Orgs : MembersOf(p)' = MembersOf(p) \ gone(p)
      <3> HIDE DEF gone
      <3> QED BY <2>1 DEF MembersOf
    <2>5. ASSUME NEW p \in Orgs, Dead(p)'
          PROVE  /\ MembersOf(p)' = {}
                 /\ \A i \in DOMAIN invites' : invites'[i].org = p => invites'[i].deleted
      <3>1. CASE p \in purge
        BY <2>3, <2>4, <3>1
      <3>2. CASE p \notin purge
        <4>1. Dead(p)
          BY <2>1, <2>5, <3>2 DEF Dead
        <4> QED BY <1>0, <2>3, <2>4, <4>1 DEF Closed
      <3> QED BY <3>1, <3>2
    <2> QED BY <2>2, <2>5 DEF Shut, Closed
  <1>13. ASSUME NEW u \in Users, NEW o \in Orgs, CreateForUser(u, o)
         PROVE  Shut'
    <2>1. /\ UNCHANGED <<req, invites>> /\ orgs[o] = "unborn"
          /\ orgs' = [orgs EXCEPT ![o] = "live"]
          /\ member' = [member EXCEPT ![o][u] = "owner"]
      BY <1>13 DEF CreateForUser
    <2>2. orgs'[o] = "live"
      BY <2>1 DEF TypeOK
    <2>3. Quiet
      BY <2>1, <2>2
    <2>4. \A q \in Requests : Standing(q)'
      BY <2>1, <2>3, IdleStands DEF Quiet
    <2>5. \A p \in Orgs : Dead(p)' => Dead(p) /\ MembersOf(p)' = MembersOf(p)
      BY <2>1 DEF TypeOK, Dead, MembersOf
    <2> QED BY <1>0, <2>1, <2>4, <2>5 DEF Shut, Closed
  <1>14. ASSUME NEW u \in Users, NEW o \in Orgs, PurgeMembership(o, u)
         PROVE  Shut'
    <2>1. Quiet /\ UNCHANGED <<orgs, member, invites, req>>
      BY <1>14 DEF PurgeMembership
    <2>2. \A q \in Requests : Standing(q)'
      BY <2>1, IdleStands DEF Quiet
    <2> QED BY <1>0, <2>1, <2>2, ReadStaysClosed DEF Shut
  <1>15. ASSUME NEW o \in Orgs, PurgeOrganization(o)
         PROVE  Shut'
    <2>1. /\ Quiet /\ UNCHANGED req
          /\ orgs' = [orgs EXCEPT ![o] = "purged"]
          /\ member' = [member EXCEPT ![o] = [u \in Users |-> None]]
          /\ invites' = [i \in DOMAIN invites |->
                           IF invites[i].org = o THEN [invites[i] EXCEPT !.deleted = TRUE]
                           ELSE invites[i]]
      BY <1>15 DEF PurgeOrganization
    <2>2. \A q \in Requests : Standing(q)'
      BY <2>1, IdleStands DEF Quiet
    <2>3. /\ DOMAIN invites' = DOMAIN invites
          /\ \A k \in DOMAIN invites : /\ invites'[k].org = invites[k].org
                                       /\ invites[k].deleted => invites'[k].deleted
                                       /\ invites[k].org = o => invites'[k].deleted
      BY <2>1 DEF TypeOK, Invitation
    <2>4. \A p \in Orgs : MembersOf(p)' = (IF p = o THEN {} ELSE MembersOf(p))
      BY <2>1 DEF TypeOK, MembersOf
    <2>5. \A p \in Orgs : p # o /\ Dead(p)' => Dead(p)
      BY <2>1 DEF TypeOK, Dead
    <2> QED BY <1>0, <2>2, <2>3, <2>4, <2>5 DEF Shut, Closed
  <1> QED
    BY <1>1, <1>2, <1>3, <1>4, <1>5, <1>6, <1>7, <1>8, <1>9, <1>10, <1>11, <1>12, <1>13, <1>14,
       <1>15 DEF Actions, Managing

LEMMA ShutStep ==
    ASSUME IInv, OwnersInv, ShutInv, [Next]_vars
    PROVE  ShutInv'
  <1> SUFFICES ASSUME ~overlapped' PROVE Shut'
    BY DEF ShutInv
  <1>1. TypeOK
    BY DEF IInv
  <1>2. CASE Next
    <2>1. /\ ~overlapped /\ Alone'
          /\ ~(~Quiet /\ UNCHANGED req /\ orgs' # orgs)
      BY <1>2, Zenon DEF Next, Watch
    <2>2. OneByOne /\ Shut /\ Actions
      BY <1>2, <2>1 DEF OwnersInv, ShutInv, Next
    <2> QED BY <1>1, <2>1, <2>2, ShutNext
  <1>3. CASE UNCHANGED vars
    <2>1. Shut /\ UNCHANGED <<orgs, member, invites, req>>
      BY <1>3, Zenon DEF ShutInv, vars
    <2> QED BY <2>1 DEF Shut, Closed, Standing, Dead, MembersOf
  <1> QED BY <1>2, <1>3

LEMMA SpecShut == Spec => [](OwnersInv /\ ShutInv)
  <1>1. Init => OwnersInv
    BY DEF Init, OwnersInv, OneByOne, Alone, LastOwnerKept, OwnersOf, Checked, Idle
  <1>2. Init => ShutInv
    BY DEF Init, ShutInv, Shut, Closed, Standing, Dead, Idle
  <1>3. IInv /\ OwnersInv /\ [Next]_vars => OwnersInv'
    BY OwnersStep
  <1>4. IInv /\ OwnersInv /\ ShutInv /\ [Next]_vars => ShutInv'
    BY ShutStep
  <1> QED BY <1>1, <1>2, <1>3, <1>4, SpecInvariant, PTL DEF Spec

\* As long as requests have not overlapped, an organization that is gone has no
\* members and no invitation that could still be accepted, for any number of
\* users, organizations and invitations: what DeleteAccount soft-deletes is all.
THEOREM GoneMeansClosed == Spec => []DeletedOrgsAreClosed
  <1>1. ShutInv => DeletedOrgsAreClosed
    BY DEF ShutInv, Shut, Closed, Dead, DeletedOrgsAreClosed
  <1> QED BY <1>1, SpecShut, PTL

\* The organization an erasure takes had the erased user as its only member,
\* whatever happened before, unless requests have overlapped.
THEOREM ErasureTakesItsOwn == Spec => ErasureSparesOthers
  <1> DEFINE A == \A o \in Orgs : orgs[o] = "live" /\ orgs'[o] = "deleted" =>
                    overlapped \/ \E u \in erased' : MembersOf(o) = {u}
  <1>1. IInv /\ ShutInv /\ [Next]_vars => [A]_vars
    <2> SUFFICES ASSUME IInv, ShutInv, Next, NEW o \in Orgs,
                        orgs[o] = "live", orgs'[o] = "deleted", ~overlapped
                 PROVE  \E u \in erased' : MembersOf(o) = {u}
      OBVIOUS
    <2>1. TypeOK /\ \A r \in Requests : Standing(r)
      BY DEF IInv, ShutInv, Shut
    <2>2. orgs' # orgs
      OBVIOUS
    <2>3. Actions
      BY Zenon DEF Next
    <2>4. PICK r \in Requests : EraseCommit(r)
      <3>1. ASSUME NEW u \in Users, NEW p \in Orgs, CreateForUser(u, p)
            PROVE  FALSE
        BY <2>1, <3>1 DEF CreateForUser, TypeOK
      <3>2. ASSUME NEW p \in Orgs, PurgeOrganization(p)
            PROVE  FALSE
        BY <2>1, <3>2 DEF PurgeOrganization, TypeOK
      <3>3. ASSUME NEW r \in Requests,
                   \/ Managing(r)
                   \/ \E u \in Users, i \in Invitations : AcceptCheck(r, u, i)
                   \/ AcceptInvitation(r)
                   \/ \E u \in Users : EraseRead(r, u)
                   \/ EraseCheck(r)
            PROVE  FALSE
        BY <2>2, <3>3 DEF Managing, Tenant, UpdateRoleCheck, UpdateRole, RemoveCheck, RemoveMember,
                          CreateInvitation, RevokeInvitation, Refuse, AcceptCheck,
                          AcceptInvitation, EraseRead, EraseCheck
      <3>4. ASSUME NEW u \in Users, NEW p \in Orgs, PurgeMembership(p, u)
            PROVE  FALSE
        BY <2>2, <3>4 DEF PurgeMembership
      <3> QED BY <2>3, <3>1, <3>2, <3>3, <3>4 DEF Actions
    <2>5. o \in req[r].purge /\ req[r].phase = "commit" /\ req[r].user \in erased'
      BY <2>4 DEF EraseCommit
    <2> QED BY <2>1, <2>5 DEF Standing
  <1> QED BY <1>1, SpecInvariant, SpecShut, PTL DEF Spec, ErasureSparesOthers
=============================================================================
