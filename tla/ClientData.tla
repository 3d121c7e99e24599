----------------------------- MODULE ClientData -----------------------------
(***************************************************************************)
(* The data of an organization in a tab: the stored session with its list  *)
(* of organizations and the current one (stores/authStore.ts), the query   *)
(* cache whose keys carry the organization, the header that says which one *)
(* a request is for, and the active currency every amount is shown in.     *)
(*                                                                         *)
(* The key of a query is taken when the page renders; the header when the  *)
(* request is sent, and again when it is sent once more after the access   *)
(* token was refreshed or the server failed.  Another tab may switch,      *)
(* sign out or sign in, and this one takes over what it stored.            *)
(*                                                                         *)
(* One query stands for all, and an organization is its currency: the name *)
(* goes the same way.                                                      *)
(***************************************************************************)
EXTENDS Frontend, Naturals, FiniteSets, SequencesExt

CONSTANTS
    Orgs, Currencies,
    Memberships, \* the organizations of each user, as /me lists them
    MaxInFlight  \* bound: requests under way

ASSUME ClientDataAssumption ==
    /\ None \notin Users \cup Orgs \cup Currencies
    /\ Memberships \in [Users -> Seq(Orgs)]
    /\ MaxInFlight \in Nat

-----------------------------------------------------------------------------
VARIABLES
    members,   \* server: the organizations of each user, in order
    currency,  \* server: of each organization
    user,      \* the stored session: whose ...
    orgs,      \* ... organizations, with the details last stored ...
    current,   \* ... currentOrgId
    hydrating, \* AuthProvider waits for /me
    active,    \* activeCurrency of lib/currency.ts
    cached,    \* by key: None, or whose data of which organization
    orgDraft,  \* OrganizationCard: the organization and currency in the form
    inFlight,  \* requests under way
    moved,     \* history: a request was sent again under another organization
    followed,  \* history: the session of another tab was taken over
    late       \* history: an update was answered after a switch or a sign-out,
               \* or a creation after the organization had been listed

Session == <<user, orgs, current>>
History == <<moved, followed, late>>
dataVars == <<members, currency, Session, hydrating, active, cached, orgDraft,
              inFlight, History>>

ListedIds == {orgs[i].id : i \in DOMAIN orgs}

\* An organization and its details, as the server has them.
Details(o) == [id |-> o, currency |-> currency[o]]

-----------------------------------------------------------------------------
\* useCurrentOrg: the current one, or the first.
CurrentOf(list, id) ==
    IF \E i \in DOMAIN list : list[i].id = id
    THEN list[CHOOSE i \in DOMAIN list : list[i].id = id]
    ELSE IF list # <<>> THEN list[1] ELSE None

CurrentOrg == CurrentOf(orgs, current)

QueryKey(id) == id

DataShown == IF current = None THEN None ELSE cached[QueryKey(current)]

\* The effect of the form on the organization's id and details.
Refill(old, new) == IF old = new THEN orgDraft ELSE new

(***************************************************************************)
(* What follows a change of the stored session, assignments first: the     *)
(* effect of useActiveCurrency, which runs when the current organization's *)
(* currency is another one, and that of the form.                          *)
(***************************************************************************)
Effects(list, id, assigned) ==
    LET new == CurrentOf(list, id)
    IN  /\ active' = IF new = None THEN assigned
                     ELSE IF CurrentOrg # None /\ CurrentOrg.currency = new.currency
                     THEN assigned ELSE new.currency
        /\ orgDraft' = Refill(CurrentOrg, new)

\* Mutant: the current organization is kept, listed or not.
KeepCurrent(list) == current

\* setOrganizations
KeepOrFirst(list) ==
    IF \E i \in DOMAIN list : list[i].id = current THEN current
    ELSE IF list # <<>> THEN list[1].id ELSE None

\* mergeOrg
MergeOrg(list, org) ==
    IF \E i \in DOMAIN list : list[i].id = org.id
    THEN [i \in DOMAIN list |-> IF list[i].id = org.id THEN org ELSE list[i]]
    ELSE Append(list, org)

-----------------------------------------------------------------------------
\* setAuth, with the first organization of the user.
SignIn(u) ==
    /\ user = None
    /\ user' = u
    /\ IF members[u] # <<>>
       THEN orgs' = MergeOrg(orgs, Details(members[u][1])) /\ current' = members[u][1]
       ELSE UNCHANGED <<orgs, current>>
    /\ hydrating' = TRUE
    /\ Effects(orgs', current', active)
    /\ UNCHANGED <<members, currency, cached, inFlight, History>>

\* A new document: the stored session, and nothing else.
Load ==
    /\ hydrating' = (user # None)
    /\ cached' = [o \in Orgs |-> None]
    /\ inFlight' = {}
    /\ active' \in IF CurrentOrg = None THEN Currencies ELSE {CurrentOrg.currency}
    /\ orgDraft' = CurrentOrg
    /\ UNCHANGED <<members, currency, Session, History>>

\* /me: the organizations, the current one if it is still among them.
AuthProvider ==
    /\ hydrating
    /\ hydrating' = FALSE
    /\ \/ LET list == [i \in DOMAIN members[user] |-> Details(members[user][i])]
              id == KeepOrFirst(list)
          IN  /\ orgs' = list
              /\ current' = id
              /\ Effects(list, id, IF CurrentOf(list, id) = None THEN active
                                   ELSE CurrentOf(list, id).currency)
       \/ UNCHANGED <<orgs, current, active, orgDraft>>
    /\ UNCHANGED <<members, currency, user, cached, inFlight, History>>

\* setOrg and setActiveCurrency
OrgSwitcher(o) ==
    /\ user # None /\ ~hydrating
    /\ o \in ListedIds
    /\ current' = o
    /\ Effects(orgs, o, CurrentOf(orgs, o).currency)
    /\ UNCHANGED <<members, currency, user, orgs, hydrating, cached, inFlight,
                   History>>

-----------------------------------------------------------------------------
SendRequest(call, values) ==
    /\ user # None /\ ~hydrating
    /\ Cardinality(inFlight) < MaxInFlight
    /\ inFlight' = inFlight \cup {[call |-> call, header |-> current, user |-> user,
                           values |-> values, applied |-> FALSE]}
    /\ UNCHANGED <<members, currency, Session, hydrating, active, cached, orgDraft,
                   History>>

\* A page mounts: the query of the current organization has no data, or old.
Fetch ==
    /\ current # None
    /\ SendRequest("query", [id |-> QueryKey(current), currency |-> None])

EditOrganization(c) ==
    /\ user # None /\ ~hydrating /\ orgDraft # None
    /\ orgDraft' = [orgDraft EXCEPT !.currency = c]
    /\ UNCHANGED <<members, currency, Session, hydrating, active, cached, inFlight,
                   History>>

\* The button asks for a change, and waits for the answer.
OrganizationCard ==
    /\ CurrentOrg # None
    /\ orgDraft.currency # CurrentOrg.currency
    /\ ~\E q \in inFlight : q.call = "update"
    /\ SendRequest("update", orgDraft)

CreateOrgCard(c) ==
    /\ ~\E q \in inFlight : q.call = "create"
    /\ SendRequest("create", [id |-> None, currency |-> c])

\* A file is restored into an organization that is new.
ImportCard ==
    /\ ~\E q \in inFlight : q.call = "import"
    /\ SendRequest("import", [id |-> None, currency |-> None])

(***************************************************************************)
(* The token had expired, or a query failed: the interceptor sets the      *)
(* header anew, from the session as it is now.                             *)
(***************************************************************************)
Resend(q) ==
    /\ ~q.applied /\ user # None
    /\ <<q.header, q.user>> # <<current, user>>
    /\ inFlight' = (inFlight \ {q}) \cup {[q EXCEPT !.header = current, !.user = user]}
    /\ moved' = TRUE
    /\ UNCHANGED <<members, currency, Session, hydrating, active, cached, orgDraft,
                   followed, late>>

-----------------------------------------------------------------------------
Known == UNION {{members[u][i] : i \in DOMAIN members[u]} : u \in Users}

\* The server acts on the organization of the header, for its members.
ServerApplies(q) ==
    /\ ~q.applied /\ q.call # "query"
    /\ IF q.call = "update"
       THEN /\ q.header \in ToSet(members[q.user])
            /\ currency' = [currency EXCEPT ![q.header] = q.values.currency]
            /\ inFlight' = (inFlight \ {q}) \cup {[q EXCEPT !.applied = TRUE]}
            /\ UNCHANGED members
       ELSE /\ Known # Orgs
            /\ LET o == CHOOSE o \in Orgs \ Known : TRUE
               IN  /\ members' = [members EXCEPT ![q.user] = Append(@, o)]
                   /\ currency' = IF q.call = "create"
                                  THEN [currency EXCEPT ![o] = q.values.currency]
                                  ELSE currency
                   /\ inFlight' = (inFlight \ {q}) \cup
                                {[q EXCEPT !.applied = TRUE, !.values.id = o]}
    /\ UNCHANGED <<Session, hydrating, active, cached, orgDraft, History>>

\* The answer is stored under the key the page asked with.
Answer(q) ==
    /\ q.call = "query"
    /\ q.header \in ToSet(members[q.user])
    /\ cached' = [cached EXCEPT ![q.values.id] = [user |-> q.user, org |-> q.header]]
    /\ inFlight' = inFlight \ {q}
    /\ UNCHANGED <<members, currency, Session, hydrating, active, orgDraft, History>>

\* Mutant: the details are not stored.
IgnoreDetails(org) == orgs

\* setOrgDetails: of the organization the server names, if it is listed.
SetOrgDetails(org) ==
    [i \in DOMAIN orgs |-> IF orgs[i].id = org.id THEN org ELSE orgs[i]]

UpdateOrganization(q) ==
    /\ q.call = "update" /\ q.applied
    /\ orgs' = SetOrgDetails([id |-> q.header, currency |-> q.values.currency])
    /\ Effects(orgs', current, q.values.currency)
    /\ late' = (late \/ q.header # current)
    /\ inFlight' = inFlight \ {q}
    /\ UNCHANGED <<members, currency, user, current, hydrating, cached, moved,
                   followed>>

\* The new organization is listed, once more if it is, and switched to.
CreateOrganization(q) ==
    /\ q.call = "create" /\ q.applied
    /\ orgs' = Append(orgs, q.values)
    /\ current' = q.values.id
    /\ Effects(orgs', current', q.values.currency)
    /\ late' = (late \/ q.values.id \in ListedIds)
    /\ inFlight' = inFlight \ {q}
    /\ UNCHANGED <<members, currency, user, hydrating, cached, moved, followed>>

\* A summary is shown; the list of organizations stays as it was.
Imported(q) ==
    /\ q.call = "import" /\ q.applied
    /\ inFlight' = inFlight \ {q}
    /\ UNCHANGED <<members, currency, Session, hydrating, active, cached, orgDraft,
                   History>>

\* A refusal, or an answer that is lost.
RequestFails(q) ==
    /\ inFlight' = inFlight \ {q}
    /\ UNCHANGED <<members, currency, Session, hydrating, active, cached, orgDraft,
                   History>>

-----------------------------------------------------------------------------
\* Mutant: the cache outlives the session.
KeepCache == cached
\* queryClient.clear()
ClearCache == [o \in Orgs |-> None]

(***************************************************************************)
(* Signing out and deleting the account: queries under way are forgotten;  *)
(* a change under way is not, and its answer is heard by whoever has the   *)
(* tab then.                                                               *)
(***************************************************************************)
Logout ==
    /\ user # None
    /\ user' = None /\ orgs' = <<>> /\ current' = None
    /\ hydrating' = FALSE
    /\ cached' = ClearCache
    /\ inFlight' = {q \in inFlight : q.call # "query"}
    /\ orgDraft' = None
    /\ UNCHANGED <<members, currency, active, History>>

\* The storage event: the whole stored session is replaced, the cache kept.
OtherTab ==
    /\ \E u \in Users \cup {None} :
          /\ user' = u
          /\ IF u = None THEN orgs' = <<>> /\ current' = None
             ELSE /\ orgs' = [i \in DOMAIN members[u] |-> Details(members[u][i])]
                  /\ current' \in IF members[u] = <<>> THEN {None} ELSE ToSet(members[u])
          /\ hydrating' = (u # None /\ (hydrating \/ user = None))
    /\ Effects(orgs', current', active)
    /\ followed' = (followed \/ user' # user)
    /\ UNCHANGED <<members, currency, cached, inFlight, moved, late>>

-----------------------------------------------------------------------------
DataInit ==
    /\ members = Memberships
    /\ currency \in [Orgs -> Currencies]
    /\ user = None /\ orgs = <<>> /\ current = None
    /\ hydrating = FALSE
    /\ active \in Currencies
    /\ cached = [o \in Orgs |-> None]
    /\ orgDraft = None
    /\ inFlight = {}
    /\ moved = FALSE /\ followed = FALSE /\ late = FALSE

DataNext ==
    \/ \E u \in Users : SignIn(u)
    \/ Load \/ AuthProvider \/ Logout \/ OtherTab
    \/ \E o \in Orgs : OrgSwitcher(o)
    \/ Fetch \/ OrganizationCard \/ ImportCard
    \/ \E c \in Currencies : EditOrganization(c) \/ CreateOrgCard(c)
    \/ \E q \in inFlight : \/ Resend(q) \/ ServerApplies(q) \/ Answer(q) \/ RequestFails(q)
                       \/ UpdateOrganization(q) \/ CreateOrganization(q) \/ Imported(q)

DataSpec == DataInit /\ [][DataNext]_dataVars

-----------------------------------------------------------------------------
Org == [id : Orgs, currency : Currencies]

DataTypeOK ==
    /\ members \in [Users -> Seq(Orgs)] /\ currency \in [Orgs -> Currencies]
    /\ user \in Users \cup {None} /\ orgs \in Seq(Org)
    /\ current \in Orgs \cup {None}
    /\ hydrating \in BOOLEAN /\ active \in Currencies
    /\ cached \in [Orgs -> {None} \cup [user : Users, org : Orgs]]
    /\ orgDraft \in Org \cup {None}
    /\ moved \in BOOLEAN /\ followed \in BOOLEAN /\ late \in BOOLEAN

(***************************************************************************)
(* The header of every request names an organization of the user's: the    *)
(* current one is always among those listed, through sign-in, /me, a       *)
(* switch, a creation and what other tabs store.                           *)
(***************************************************************************)
CurrentOrgIsListed == orgs # <<>> => current \in ListedIds

(***************************************************************************)
(* What a page shows is the current organization's and was read by the     *)
(* user who is signed in, and the details of one organization are never    *)
(* saved as another's - unless a request was sent again after a switch of  *)
(* organization, or another tab changed the user.                          *)
(***************************************************************************)
DataIsOnesOwn ==
    /\ DataShown # None => /\ DataShown.org = current \/ moved
                           /\ DataShown.user = user \/ followed
    /\ orgDraft # None => orgDraft.id = CurrentOrg.id
    /\ \A q \in inFlight : q.call = "update" => q.values.id = q.header \/ moved

(***************************************************************************)
(* "Kept in sync with the current organization": amounts are shown in its  *)
(* currency, unless an update of one organization was answered after the   *)
(* switch to another or the end of the session, or a creation after /me or *)
(* another tab had listed the organization.                                *)
(***************************************************************************)
CurrencyOfTheOrg ==
    CurrentOrg # None => active = CurrentOrg.currency \/ late
=============================================================================
