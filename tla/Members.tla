------------------------------ MODULE Members ------------------------------
(***************************************************************************)
(* Who belongs to which organization (internal/services/member_service.go, *)
(* organization_service.go, lgpd_service.go, membership_repo.go, the       *)
(* Tenant middleware, the retention purge).  A handler reads the caller's  *)
(* role, then the rows it checks, and writes in a statement of its own, so *)
(* that what it checked may have changed.                                  *)
(*                                                                         *)
(* An invitation names the user whose e-mail it was sent to.  A viewer     *)
(* counts as a member: neither may do anything here.                       *)
(***************************************************************************)
EXTENDS Integers, FiniteSets

CONSTANTS
    Users, Orgs, Invitations,
    Requests    \* requests that may be in progress at once

ASSUME UsersAssumption == IsFiniteSet(Users)

VARIABLES
    orgs,       \* each organization's row: unborn, live, deleted or purged
    member,     \* the live memberships: a role, or None
    removed,    \* the memberships soft-deleted and not yet purged
    invites,    \* the invitations, by id
    erased,     \* the users whose account was erased
    req,        \* the requests in progress
    joins,      \* history: who joined by which invitation
    overlapped  \* history: two requests have been in progress at once

vars == <<orgs, member, removed, invites, erased, req, joins, overlapped>>

None == "none"
Roles == {"owner", "admin", "member"}
Managers == {"owner", "admin"}
Invitable == Roles \ {"owner"}

Invitation == [org : Orgs, user : Users, role : Invitable,
               accepted : BOOLEAN, deleted : BOOLEAN]

Idle == [phase |-> "idle"]

Request ==
    {Idle}
    \cup [phase : {"tenant"}, org : Orgs, actor : Users, as : Managers]
    \cup [phase : {"role"}, org : Orgs, user : Users, role : Roles, actor : Users]
    \cup [phase : {"remove"}, org : Orgs, user : Users, actor : Users]
    \cup [phase : {"accept"}, inv : Invitations, user : Users]
    \cup [phase : {"erase"}, user : Users, roles : [Orgs -> Roles \cup {None}]]
    \cup [phase : {"commit"}, user : Users, purge : SUBSET Orgs, leave : SUBSET Orgs]

MembersOf(o) == {u \in Users : member[o][u] # None}

TypeOK ==
    /\ orgs \in [Orgs -> {"unborn", "live", "deleted", "purged"}]
    /\ member \in [Orgs -> [Users -> Roles \cup {None}]]
    /\ removed \in [Orgs -> SUBSET Users]
    /\ \A o \in Orgs : removed[o] \cap MembersOf(o) = {}
    /\ DOMAIN invites \subseteq Invitations
    /\ \A i \in DOMAIN invites : invites[i] \in Invitation
    /\ erased \subseteq Users
    /\ req \in [Requests -> Request]
    /\ \A r \in Requests : "inv" \in DOMAIN req[r] => req[r].inv \in DOMAIN invites
    /\ joins \subseteq (DOMAIN invites) \X Users
    /\ overlapped \in BOOLEAN

Init ==
    /\ orgs = [o \in Orgs |-> "unborn"]
    /\ member = [o \in Orgs |-> [u \in Users |-> None]]
    /\ removed = [o \in Orgs |-> {}]
    /\ invites = [i \in {} |-> {}]
    /\ erased = {}
    /\ req = [r \in Requests |-> Idle]
    /\ joins = {}
    /\ overlapped = FALSE

-----------------------------------------------------------------------------
OwnersOf(o)  == {u \in Users : member[o][u] = "owner"}

CountOwners(o)  == Cardinality(OwnersOf(o))
CountMembers(o) == Cardinality(MembersOf(o))

Quiet == \A r \in Requests : req[r] = Idle
Alone == \A r, q \in Requests : req[r] # Idle /\ req[q] # Idle => r = q

Become(r, state) == req' = [req EXCEPT ![r] = state]

\* A soft delete keeps the row, and the unique index idx_user_org keeps it too.
SoftDelete(o, S) ==
    /\ member' = [member EXCEPT ![o] = [u \in Users |-> IF u \in S THEN None ELSE @[u]]]
    /\ removed' = [removed EXCEPT ![o] = @ \cup (S \cap MembersOf(o))]

Indexed(o, u) == member[o][u] # None \/ u \in removed[o]

\* Open to be claimed: neither accepted nor deleted.
Open(i) == ~invites[i].accepted /\ ~invites[i].deleted

-----------------------------------------------------------------------------
(* Organizations and the requests of their managers. *)

\* A user makes an organization and owns it.
CreateForUser(u, o) ==
    /\ orgs[o] = "unborn"
    /\ orgs' = [orgs EXCEPT ![o] = "live"]
    /\ member' = [member EXCEPT ![o][u] = "owner"]
    /\ UNCHANGED <<removed, invites, erased, req, joins>>

\* The role the caller has now is the one the rest of the request goes by.
Tenant(r, u, o) ==
    /\ req[r] = Idle
    /\ member[o][u] \in Managers
    /\ Become(r, [phase |-> "tenant", org |-> o, actor |-> u, as |-> member[o][u]])
    /\ UNCHANGED <<orgs, member, removed, invites, erased, joins>>

\* Only an owner touches an owner, and never the last one.
MayDemote(o, u, as) ==
    member[o][u] = "owner" => as = "owner" /\ CountOwners(o) > 1

UpdateRoleCheck(r, u, role) ==
    LET o == req[r].org IN
    /\ req[r].phase = "tenant"
    /\ member[o][u] # None
    /\ "owner" \in {role, member[o][u]} => req[r].as = "owner"
    /\ role # "owner" => MayDemote(o, u, req[r].as)
    /\ Become(r, [phase |-> "role", org |-> o, user |-> u, role |-> role, actor |-> req[r].actor])
    /\ UNCHANGED <<orgs, member, removed, invites, erased, joins>>

\* UPDATE ... WHERE id: the role is set if the row is still there.
UpdateRole(r) ==
    /\ req[r].phase = "role"
    /\ IF member[req[r].org][req[r].user] = None THEN UNCHANGED member
       ELSE member' = [member EXCEPT ![req[r].org][req[r].user] = req[r].role]
    /\ Become(r, Idle)
    /\ UNCHANGED <<orgs, removed, invites, erased, joins>>

\* Mutant of RemoveCheck: the owners are not counted.
RemoveCheckUncounted(r, u) ==
    LET o == req[r].org IN
    /\ req[r].phase = "tenant"
    /\ member[o][u] # None
    /\ member[o][u] = "owner" => req[r].as = "owner"
    /\ Become(r, [phase |-> "remove", org |-> o, user |-> u, actor |-> req[r].actor])
    /\ UNCHANGED <<orgs, member, removed, invites, erased, joins>>

RemoveCheck(r, u) ==
    LET o == req[r].org IN
    /\ req[r].phase = "tenant"
    /\ member[o][u] # None
    /\ MayDemote(o, u, req[r].as)
    /\ Become(r, [phase |-> "remove", org |-> o, user |-> u, actor |-> req[r].actor])
    /\ UNCHANGED <<orgs, member, removed, invites, erased, joins>>

RemoveMember(r) ==
    /\ req[r].phase = "remove"
    /\ SoftDelete(req[r].org, {req[r].user})
    /\ Become(r, Idle)
    /\ UNCHANGED <<orgs, invites, erased, joins>>

\* The request was refused, or only read.
Refuse(r) ==
    /\ req[r].phase = "tenant"
    /\ Become(r, Idle)
    /\ UNCHANGED <<orgs, member, removed, invites, erased, joins>>

-----------------------------------------------------------------------------
(* Invitations. *)

\* Nothing is looked at: not the organization, nor who is a member of it.
CreateInvitation(r, u, role) ==
    /\ req[r].phase = "tenant"
    /\ \E i \in Invitations \ DOMAIN invites :
         invites' = [k \in DOMAIN invites \cup {i} |->
             IF k = i
             THEN [org |-> req[r].org, user |-> u, role |-> role,
                   accepted |-> FALSE, deleted |-> FALSE]
             ELSE invites[k]]
    /\ Become(r, Idle)
    /\ UNCHANGED <<orgs, member, removed, erased, joins>>

RevokeInvitation(r, i) ==
    /\ req[r].phase = "tenant"
    /\ i \in DOMAIN invites /\ invites[i].org = req[r].org
    /\ invites' = [invites EXCEPT ![i].deleted = TRUE]
    /\ Become(r, Idle)
    /\ UNCHANGED <<orgs, member, removed, erased, joins>>

\* An erased user has another e-mail than the one that was invited.  Nobody need
\* accept: an invitation whose time is over is one that is not accepted any more.
AcceptCheck(r, u, i) ==
    /\ req[r] = Idle
    /\ i \in DOMAIN invites /\ Open(i)
    /\ invites[i].user = u /\ u \notin erased
    /\ member[invites[i].org][u] = None
    /\ Become(r, [phase |-> "accept", inv |-> i, user |-> u])
    /\ UNCHANGED <<orgs, member, removed, invites, erased, joins>>

\* Mutant of AcceptInvitation: the claim is not undone when the insert fails.
AcceptInvitationNoRollback(r) ==
    LET i == req[r].inv  u == req[r].user  o == invites[req[r].inv].org IN
    /\ req[r].phase = "accept"
    /\ IF Open(i)
       THEN /\ invites' = [invites EXCEPT ![i].accepted = TRUE]
            /\ IF Indexed(o, u) THEN UNCHANGED <<member, joins>>
               ELSE /\ member' = [member EXCEPT ![o][u] = invites[i].role]
                    /\ joins' = joins \cup {<<i, u>>}
       ELSE UNCHANGED <<invites, member, joins>>
    /\ Become(r, Idle)
    /\ UNCHANGED <<orgs, removed, erased>>

\* One transaction: the invitation is claimed, and the membership inserted
\* unless the unique index refuses it.
AcceptInvitation(r) ==
    LET i == req[r].inv  u == req[r].user  o == invites[req[r].inv].org IN
    /\ req[r].phase = "accept"
    /\ IF Open(i) /\ ~Indexed(o, u)
       THEN /\ invites' = [invites EXCEPT ![i].accepted = TRUE]
            /\ member' = [member EXCEPT ![o][u] = invites[i].role]
            /\ joins' = joins \cup {<<i, u>>}
       ELSE UNCHANGED <<invites, member, joins>>
    /\ Become(r, Idle)
    /\ UNCHANGED <<orgs, removed, erased>>

-----------------------------------------------------------------------------
(* Erasing an account. *)

\* The memberships are listed before the transaction begins.
EraseRead(r, u) ==
    /\ req[r] = Idle
    /\ u \notin erased
    /\ Become(r, [phase |-> "erase", user |-> u, roles |-> [o \in Orgs |-> member[o][u]]])
    /\ UNCHANGED <<orgs, member, removed, invites, erased, joins>>

\* Mutant of EraseCheck: the other members are not counted.
EraseCheckUncounted(r) ==
    LET listed == {o \in Orgs : req[r].roles[o] # None}
        sole   == {o \in listed : req[r].roles[o] = "owner" /\ CountOwners(o) <= 1}
    IN
    /\ req[r].phase = "erase"
    /\ Become(r, [phase |-> "commit", user |-> req[r].user,
                  purge |-> sole, leave |-> listed \ sole])
    /\ UNCHANGED <<orgs, member, removed, invites, erased, joins>>

\* An organization of which the user is the only owner goes with the account,
\* unless it has other members.
EraseCheck(r) ==
    LET listed == {o \in Orgs : req[r].roles[o] # None}
        sole   == {o \in listed : req[r].roles[o] = "owner" /\ CountOwners(o) <= 1}
    IN
    /\ req[r].phase = "erase"
    /\ IF \E o \in sole : CountMembers(o) > 1
       THEN Become(r, Idle)
       ELSE Become(r, [phase |-> "commit", user |-> req[r].user,
                       purge |-> sole, leave |-> listed \ sole])
    /\ UNCHANGED <<orgs, member, removed, invites, erased, joins>>

\* Mutant of EraseCommit: the organization's invitations stay.
EraseCommitKeepingInvitations(r) ==
    LET purge == req[r].purge  u == req[r].user
        gone(o) == IF o \in purge THEN MembersOf(o)
                   ELSE IF o \in req[r].leave THEN {u} \cap MembersOf(o) ELSE {}
    IN
    /\ req[r].phase = "commit"
    /\ orgs' = [o \in Orgs |-> IF o \in purge THEN "deleted" ELSE orgs[o]]
    /\ member' = [o \in Orgs |-> [v \in Users |-> IF v \in gone(o) THEN None ELSE member[o][v]]]
    /\ removed' = [o \in Orgs |-> removed[o] \cup gone(o)]
    /\ erased' = erased \cup {u}
    /\ Become(r, Idle)
    /\ UNCHANGED <<invites, joins>>

\* What the transaction wrote becomes visible.
EraseCommit(r) ==
    LET purge == req[r].purge  u == req[r].user
        gone(o) == IF o \in purge THEN MembersOf(o)
                   ELSE IF o \in req[r].leave THEN {u} \cap MembersOf(o) ELSE {}
    IN
    /\ req[r].phase = "commit"
    /\ orgs' = [o \in Orgs |-> IF o \in purge THEN "deleted" ELSE orgs[o]]
    /\ member' = [o \in Orgs |-> [v \in Users |-> IF v \in gone(o) THEN None ELSE member[o][v]]]
    /\ removed' = [o \in Orgs |-> removed[o] \cup gone(o)]
    /\ invites' = [i \in DOMAIN invites |->
                     IF invites[i].org \in purge THEN [invites[i] EXCEPT !.deleted = TRUE]
                     ELSE invites[i]]
    /\ erased' = erased \cup {u}
    /\ Become(r, Idle)
    /\ UNCHANGED joins

-----------------------------------------------------------------------------
(* The retention purge.  No request lasts as long as the retention. *)

PurgeMembership(o, u) ==
    /\ Quiet
    /\ u \in removed[o]
    /\ removed' = [removed EXCEPT ![o] = @ \ {u}]
    /\ UNCHANGED <<orgs, member, invites, erased, req, joins>>

\* Deleting an organization's row cascades to what refers to it.
PurgeOrganization(o) ==
    /\ Quiet
    /\ orgs[o] = "deleted"
    /\ orgs' = [orgs EXCEPT ![o] = "purged"]
    /\ member' = [member EXCEPT ![o] = [u \in Users |-> None]]
    /\ removed' = [removed EXCEPT ![o] = {}]
    /\ invites' = [i \in DOMAIN invites |->
                     IF invites[i].org = o THEN [invites[i] EXCEPT !.deleted = TRUE]
                     ELSE invites[i]]
    /\ UNCHANGED <<erased, req, joins>>

-----------------------------------------------------------------------------
Managing(r) ==
    \/ \E u \in Users, o \in Orgs : Tenant(r, u, o)
    \/ \E u \in Users, role \in Roles : UpdateRoleCheck(r, u, role)
    \/ UpdateRole(r)
    \/ \E u \in Users : RemoveCheck(r, u)
    \/ RemoveMember(r)
    \/ \E u \in Users, role \in Invitable : CreateInvitation(r, u, role)
    \/ \E i \in Invitations : RevokeInvitation(r, i)
    \/ Refuse(r)

Actions ==
    \/ \E r \in Requests :
         \/ Managing(r)
         \/ \E u \in Users, i \in Invitations : AcceptCheck(r, u, i)
         \/ AcceptInvitation(r)
         \/ \E u \in Users : EraseRead(r, u)
         \/ EraseCheck(r)
         \/ EraseCommit(r)
    \/ \E u \in Users, o \in Orgs : CreateForUser(u, o) \/ PurgeMembership(o, u)
    \/ \E o \in Orgs : PurgeOrganization(o)

\* Another request began, or ran from start to end, while one was in progress.
Watch ==
    overlapped' = (overlapped \/ ~Alone' \/ (~Quiet /\ UNCHANGED req /\ orgs' # orgs))

Next == Actions /\ Watch

Spec == Init /\ [][Next]_vars

-----------------------------------------------------------------------------
(* Properties. *)

\* An invitation is spent exactly when somebody joined by it, and by one user:
\* AcceptInvitation's claim and insert stand or fall together, however many
\* accepts, removals and revocations are in progress.
SpentByOneJoin ==
    \A i \in DOMAIN invites :
        /\ invites[i].accepted <=> \E u \in Users : <<i, u>> \in joins
        /\ \A u, v \in Users : <<i, u>> \in joins /\ <<i, v>> \in joins => u = v

\* Every organization in use has an owner: UpdateRole and RemoveMember keep the
\* last one, and an account's erasure takes the organization with it.
LastOwnerKept == \A o \in Orgs : orgs[o] = "live" => OwnersOf(o) # {}

\* The same of requests handled one at a time: overlapping ones each count the
\* other's owner (the run members_last_owner).
OrgHasOwner == ~overlapped => LastOwnerKept

\* Nobody belongs to an organization that is deleted, and no invitation into
\* one can still be accepted: DeleteAccount leaves no way in, unless an
\* invitation is being created while it commits.
DeletedOrgsAreClosed ==
    ~overlapped => \A o \in Orgs : orgs[o] \in {"deleted", "purged"} =>
        /\ MembersOf(o) = {}
        /\ \A i \in DOMAIN invites : invites[i].org = o => invites[i].deleted

\* Erasing an account never takes the data of other members with it, unless one
\* joins between DeleteAccount's count and its transaction.
ErasureSparesOthers ==
    [][\A o \in Orgs : orgs[o] = "live" /\ orgs'[o] = "deleted" =>
         overlapped \/ \E u \in erased' : MembersOf(o) = {u}]_vars
=============================================================================
