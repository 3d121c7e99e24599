----------------------------- MODULE Navigation -----------------------------
(***************************************************************************)
(* Which page a tab shows: the route table with its three guards, the      *)
(* redirects pages make themselves, and the pages outside the application  *)
(* - sign-in and its second step, registration, the forgotten password,    *)
(* the confirmation of an e-mail, the change of a password and the         *)
(* first-run wizard - whose hooks move the user on when the server answers.*)
(*                                                                         *)
(* A redirect is a step of its own: a location renders to another one or   *)
(* settles.  The answer of a mutation moves the user on wherever he has    *)
(* gone meanwhile; what its page would have done with it is lost once the  *)
(* page is left.  Another tab may sign in, sign out or set the platform up *)
(* and this one follows the session it stores.  The session is whose its   *)
(* tokens are; the user stored with it is a record of its own, which a     *)
(* late answer may replace.  An administrator may give anybody a new       *)
(* password at any time.                                                   *)
(*                                                                         *)
(* Paths that are treated alike are one: "/app" stands for the pages of    *)
(* the application any member sees, "/team" for those of its managers,     *)
(* "/admin" for the administration, "/legal" for terms and privacy.        *)
(***************************************************************************)
EXTENDS Frontend, Naturals, FiniteSets

CONSTANTS
    Super,       \* super-admins
    Managers,    \* owners and admins of their organization
    Provisioned, \* created by an admin: they must change their password
    TwoFactor,   \* users with a second factor
    Resettable,  \* bound: users whose password is reset, each once
    MaxCalls,    \* bound: requests under way
    MaxHops      \* bound: redirects in a row

ASSUME NavigationAssumption ==
    /\ None \notin Users
    /\ Super \subseteq Users /\ Managers \subseteq Users \ Super
    /\ Provisioned \subseteq Users /\ TwoFactor \subseteq Users
    /\ Resettable \subseteq Users
    /\ MaxCalls \in Nat /\ MaxHops \in Nat

-----------------------------------------------------------------------------
\* The route table: the guard each path is wrapped in.
Public == {"/setup", "/verify-email", "/legal", "/404", "/unknown"}
PublicOnly == {"/login", "/register", "/forgot-password", "/reset-password"}
Protected == {"/change-password", "/", "/app", "/team", "/admin"}

Paths == Public \cup PublicOnly \cup Protected

ASSUME PathsAssumption == None \notin Paths

App == {"/", "/app", "/team", "/admin"}

\* SETUP_ALLOWLIST
SetupAllowlist == {"/setup", "/legal"}

VARIABLES
    at,            \* the location
    probe,         \* useSetupStatus: loading, failed, needed or done
    initialized,   \* server: the platform is set up
    mustChange,    \* server: users whose password is still the given one
    visitor,       \* the stored session: whose tokens,
    profile, must, \* whose record, and its must_change_password
    splash,        \* AuthProvider shows its splash
    local,         \* what the page itself keeps
    calls,         \* requests under way
    hops,          \* redirects since the location last settled or was chosen
    resets,        \* history: users whose password an administrator has reset
    stale,         \* history: the stored record may be from before such a reset
    crossed        \* history: an answer to one user's request wrote to the
                   \* record of another

navVars == <<at, probe, initialized, mustChange, visitor, profile, must, splash, local,
             calls, hops, resets, stale, crossed>>

Platform == <<initialized, mustChange, resets>>

StoredSession == <<visitor, profile, must, stale>>

(***************************************************************************)
(* LoginPage's mfaToken by the user it is for, SetupPage's step, and the   *)
(* screen of the pages that have more than one.                            *)
(***************************************************************************)
Local == [mfa : TwoFactor \cup {None}, step : 1..3,
          screen : {"form", "invalid", "sent", "verifying", "missing", "success", "error"}]

Fresh == [mfa |-> None, step |-> 1, screen |-> "form"]

\* flag: that the server has stored a new password, and of the confirmation of
\* an e-mail the must_change_password that its hook holds.
Call == [call : {"login", "verify", "register", "forgot", "reset", "verifyEmail",
                 "change", "logout", "initialize"},
         user : Users \cup {None}, heard : BOOLEAN, flag : BOOLEAN]

(***************************************************************************)
(* The page is left.  The hook that confirms an e-mail goes on holding the *)
(* user of the page's last render, which has the session of the moment.    *)
(***************************************************************************)
Captured(q, who, flag) ==
    IF q.heard /\ q.call = "verifyEmail" THEN [q EXCEPT !.user = who, !.flag = flag] ELSE q

UnheardWith(requests, who, flag) ==
    {[Captured(q, who, flag) EXCEPT !.heard = FALSE] : q \in requests}

Unheard(requests) == UnheardWith(requests, profile, must)

-----------------------------------------------------------------------------
(***************************************************************************)
(* The guards: where the location renders to instead, None when they let   *)
(* it through.                                                             *)
(***************************************************************************)
SetupGate ==
    IF probe = "needed" /\ at \notin SetupAllowlist THEN "/setup"
    ELSE IF probe = "done" /\ at = "/setup" THEN "/login"
    ELSE None

\* Mutant: a user who must change his password is sent from everywhere.
ProtectedRouteAlways ==
    IF visitor = None THEN "/login" ELSE IF must THEN "/change-password" ELSE None

ProtectedRoute ==
    IF visitor = None THEN "/login"
    ELSE IF must /\ at # "/change-password" THEN "/change-password"
    ELSE None

PublicOnlyRoute ==
    IF visitor = None THEN None ELSE IF must THEN "/change-password" ELSE "/"

Guard ==
    CASE at \in Protected -> ProtectedRoute
      [] at \in PublicOnly -> PublicOnlyRoute
      [] OTHER -> None

\* A signed-in visitor of the wizard is sent home by an effect of the page.
SetupPageEffect == IF visitor # None THEN "/" ELSE None

AdminPages == IF profile \in Super THEN None ELSE "/"
ManagersPages == IF visitor \in Managers THEN None ELSE "/"

OwnRedirect ==
    CASE at = "/setup" -> SetupPageEffect
      [] at = "/admin" -> AdminPages
      [] at = "/team" -> ManagersPages
      [] at = "/unknown" -> "/404"
      [] OTHER -> None

\* Nothing of a page is rendered before the probe and the session are there.
Rendering == probe # "loading" /\ ~splash

Target ==
    IF SetupGate # None THEN SetupGate ELSE IF Guard # None THEN Guard ELSE OwnRedirect

Settled == Rendering /\ Target = None

Redirect ==
    /\ Rendering /\ Target # None
    /\ hops <= MaxHops
    /\ at' = Target
    /\ hops' = hops + 1
    /\ local' = Fresh
    /\ calls' = Unheard(calls)
    /\ UNCHANGED <<probe, Platform, StoredSession, splash, crossed>>

-----------------------------------------------------------------------------
\* A page is left for another, or rendered anew.
Goto(p) ==
    /\ at' = p
    /\ hops' = 0
    /\ local' = IF p = at THEN local ELSE Fresh

-----------------------------------------------------------------------------
\* The probe: asked for once; its failure lets everything through.
ProbeAnswers ==
    /\ probe = "loading"
    /\ probe' \in {"failed", IF initialized THEN "done" ELSE "needed"}
    /\ UNCHANGED <<at, Platform, StoredSession, splash, local, calls, hops, crossed>>

\* Nobody is signed in.
SignedOut == visitor' = None /\ profile' = None /\ must' = FALSE /\ stale' = FALSE

\* The session is over: the tab is loaded anew at sign-in.
ForceLogout ==
    /\ SignedOut
    /\ at' = "/login" /\ probe' = "loading" /\ splash' = FALSE
    /\ local' = Fresh /\ calls' = {} /\ hops' = 0
    /\ UNCHANGED <<Platform, crossed>>

\* /me answers with the user as the server has him, or fails and leaves the
\* stored one.
MeAnswers ==
    /\ \/ profile' = visitor /\ must' = (visitor \in mustChange) /\ stale' = FALSE
       \/ UNCHANGED <<profile, must, stale>>
    /\ splash' = FALSE
    /\ hops' = 0
    /\ UNCHANGED <<at, probe, Platform, visitor, local, calls, crossed>>

Hydrated == splash /\ (MeAnswers \/ ForceLogout)

\* The address bar: a new document, with the session the browser stores.
LoadPage(p) ==
    /\ at' = p
    /\ probe' = "loading"
    /\ splash' = (visitor # None)
    /\ local' = Fresh
    /\ calls' = {}
    /\ hops' = 0
    /\ UNCHANGED <<Platform, StoredSession, crossed>>

-----------------------------------------------------------------------------
(***************************************************************************)
(* What the pages link to.                                                 *)
(***************************************************************************)
AdminSidebar == {"/admin", "/"}

\* The sections of the menu; they fold, two open at a time.
NavSections == {"/", "/app"}
AdminSection == {"/team"}

SidebarContent ==
    NavSections \cup {p \in AdminSection : visitor \in Managers}
                \cup {p \in {"/admin"} : profile \in Super}

\* With the menu of the user and the links of the footer.
DashboardLayout == SidebarContent \cup {"/app", "/legal"}

Links ==
    CASE at = "/admin" -> AdminSidebar
      [] at \in App \ {"/admin"} -> DashboardLayout
      [] at = "/login" /\ local.mfa = None -> {"/forgot-password"}
      [] at = "/register" -> {"/login", "/legal"}
      [] at = "/forgot-password" -> {"/login"}
      [] at = "/reset-password" -> {"/login", "/forgot-password"}
      [] at = "/verify-email" -> {IF visitor = None THEN "/login" ELSE "/"}
      [] OTHER -> {}

Follow(p) ==
    /\ Settled
    /\ p \in Links
    /\ Goto(p)
    /\ calls' = IF p = at THEN calls ELSE Unheard(calls)
    /\ UNCHANGED <<probe, Platform, StoredSession, splash, crossed>>

\* Back and forward, in the same document.
BackOrForward(p) ==
    /\ Settled
    /\ ~(at = "/change-password" /\ must)
    /\ Goto(p)
    /\ calls' = IF p = at THEN calls ELSE Unheard(calls)
    /\ UNCHANGED <<probe, Platform, StoredSession, splash, crossed>>

-----------------------------------------------------------------------------
CallPending(call) == \E q \in calls : q.call = call /\ q.heard

\* The callbacks of a call are those of its latest request.
DispatchCall(call, u) ==
    /\ Cardinality(calls) < MaxCalls
    /\ calls' = {q \in calls : q.call # call} \cup Unheard({q \in calls : q.call = call})
                \cup {[call |-> call, user |-> u, heard |-> TRUE, flag |-> FALSE]}
    /\ UNCHANGED <<at, probe, Platform, StoredSession, splash, hops, crossed>>

\* A button waits for the answer to its own request, and Enter with it.
SendCall(call, u) == ~CallPending(call) /\ DispatchCall(call, u)

Shows(p) == Settled /\ at = p

LoginPage ==
    /\ Shows("/login")
    /\ \/ local.mfa = None /\ (\E u \in Users : SendCall("login", u)) /\ UNCHANGED local
       \/ local.mfa # None /\ SendCall("verify", local.mfa) /\ UNCHANGED local
       \/ /\ local.mfa # None /\ local' = [local EXCEPT !.mfa = None]
          /\ UNCHANGED <<at, probe, Platform, StoredSession, splash, calls, hops,
                         crossed>>

\* Closed when the server says so; an account of one's own is no provisioned one.
RegisterPage ==
    /\ Shows("/register")
    /\ \E u \in Users \ (Provisioned \cup Super) : SendCall("register", u)
    /\ UNCHANGED local

ForgotPasswordPage ==
    /\ Shows("/forgot-password") /\ local.screen = "form"
    /\ SendCall("forgot", None)
    /\ UNCHANGED local

\* The link carries a token, or the page says it is not valid.
ResetPasswordPage ==
    /\ Shows("/reset-password")
    /\ \/ local.screen = "form" /\ SendCall("reset", None) /\ UNCHANGED local
       \/ /\ local.screen = "form" /\ local' = [local EXCEPT !.screen = "invalid"]
          /\ UNCHANGED <<at, probe, Platform, StoredSession, splash, calls, hops,
                         crossed>>

\* The effect that confirms the address, once per visit, if there is a token.
VerifyEmailPage ==
    /\ Shows("/verify-email")
    /\ local.screen = "form"
    /\ \/ /\ local' = [local EXCEPT !.screen = "verifying"]
          /\ DispatchCall("verifyEmail", profile)
       \/ /\ local' = [local EXCEPT !.screen = "missing"]
          /\ UNCHANGED <<at, probe, Platform, StoredSession, splash, calls, hops,
                         crossed>>

ChangePasswordPage ==
    Shows("/change-password") /\ SendCall("change", visitor) /\ UNCHANGED local

UserMenu ==
    /\ Settled /\ at \in App \cup {"/change-password"}
    /\ SendCall("logout", visitor)
    /\ UNCHANGED local

-----------------------------------------------------------------------------
(***************************************************************************)
(* The wizard: the fields of a step are validated before the next one.     *)
(***************************************************************************)
WizardStep(n) ==
    /\ local' = [local EXCEPT !.step = n]
    /\ UNCHANGED <<at, probe, Platform, StoredSession, splash, calls, hops, crossed>>

GoNext == Shows("/setup") /\ local.step < 3 /\ WizardStep(local.step + 1)

GoPrev ==
    /\ Shows("/setup") /\ local.step > 1
    /\ ~CallPending("initialize")
    /\ WizardStep(local.step - 1)

(***************************************************************************)
(* The last step has the button.  The second has a single text field and   *)
(* no such button, so the browser submits the form on Enter, and again     *)
(* while the request is pending.                                           *)
(***************************************************************************)
SetupPage ==
    /\ Shows("/setup")
    /\ \E u \in Users \ (Provisioned \cup Super) :
          \/ local.step = 3 /\ SendCall("initialize", u)
          \/ local.step = 2 /\ DispatchCall("initialize", u)
    /\ UNCHANGED local

-----------------------------------------------------------------------------
(***************************************************************************)
(* setAuth and navigate: AuthProvider hydrates when there was no session,  *)
(* which takes every page away meanwhile.                                  *)
(***************************************************************************)
SignInAt(q, flag, p) ==
    /\ visitor' = q.user /\ profile' = q.user
    /\ must' = flag
    /\ stale' = FALSE
    /\ splash' = (splash \/ visitor = None)
    /\ at' = p
    /\ local' = Fresh
    /\ hops' = 0
    /\ calls' = UnheardWith(calls \ {q}, q.user, flag)

Landing(u) ==
    IF u \in mustChange THEN "/change-password" ELSE IF u \in Super THEN "/admin" ELSE "/"

UseLogin(q) ==
    /\ q.call = "login" /\ initialized
    /\ IF q.user \in TwoFactor
       THEN /\ local' = IF q.heard THEN [local EXCEPT !.mfa = q.user] ELSE local
            /\ calls' = calls \ {q}
            /\ UNCHANGED <<at, StoredSession, splash, hops>>
       ELSE SignInAt(q, q.user \in mustChange, Landing(q.user))
    /\ UNCHANGED <<probe, Platform, crossed>>

UseVerifyTwoFactorLogin(q) ==
    /\ q.call = "verify" /\ initialized
    /\ SignInAt(q, q.user \in mustChange, Landing(q.user))
    /\ UNCHANGED <<probe, Platform, crossed>>

\* An account that an administrator has reset is there already.
UseRegister(q) ==
    /\ q.call = "register" /\ initialized /\ q.user \notin resets
    /\ SignInAt(q, FALSE, "/")
    /\ UNCHANGED <<probe, Platform, crossed>>

\* The probe's answer is written into the cache, which is emptied first.
UseInitializeSetup(q) ==
    /\ q.call = "initialize" /\ ~initialized
    /\ initialized' = TRUE
    /\ probe' = "done"
    /\ SignInAt(q, FALSE, "/")
    /\ UNCHANGED <<mustChange, resets, crossed>>

Stay(q) == calls' = calls \ {q} /\ UNCHANGED <<at, probe, StoredSession, splash, hops>>

\* A wrong code leads back to its step, a platform that is set up to sign-in.
InitializeRefused(q) ==
    /\ q.call = "initialize"
    /\ \/ /\ q.heard
          /\ local' = [local EXCEPT !.step = 1]
          /\ Stay(q)
       \/ /\ q.heard /\ initialized
          /\ Goto("/login")
          /\ calls' = Unheard(calls \ {q})
          /\ UNCHANGED <<probe, StoredSession, splash>>
       \/ Stay(q) /\ UNCHANGED local
    /\ UNCHANGED <<Platform, crossed>>

\* The server's half of a change: the password is stored, the flag cleared.
StorePassword(q) ==
    /\ q.call = "change" /\ q.user # None /\ ~q.flag
    /\ mustChange' = mustChange \ {q.user}
    /\ calls' = (calls \ {q}) \cup {[q EXCEPT !.flag = TRUE]}
    /\ UNCHANGED <<at, probe, initialized, StoredSession, splash, local, hops, resets, crossed>>

\* Mutant: the flag is cleared when the request is over, whatever it says.
ClearFlagWhenOver(succeeded) == FALSE

\* onSuccess clears the flag of whoever is signed in by then.
ClearFlag(succeeded) == IF succeeded THEN FALSE ELSE must

\* The answer to a change that was stored may be lost.
UseChangePassword(q, succeeded) ==
    /\ q.call = "change"
    /\ succeeded => q.flag
    /\ must' = ClearFlag(succeeded)
    /\ crossed' = (crossed \/ (succeeded /\ profile \notin {q.user, None}))
    /\ stale' = (stale \/ (succeeded /\ visitor \in resets))
    /\ IF succeeded /\ q.heard
       THEN /\ Goto(IF profile \in Super THEN "/admin" ELSE "/")
            /\ calls' = Unheard(calls \ {q})
       ELSE calls' = calls \ {q} /\ UNCHANGED <<at, local, hops>>
    /\ UNCHANGED <<probe, Platform, visitor, profile, splash>>

\* Whatever the server says: the cache is emptied, so the probe is asked again.
UseLogout(q) ==
    /\ q.call = "logout"
    /\ SignedOut
    /\ probe' = "loading"
    /\ splash' = FALSE
    /\ Goto("/login")
    /\ calls' = UnheardWith(calls \ {q}, None, FALSE)
    /\ UNCHANGED <<Platform, crossed>>

\* The page says it is sent, whatever the answer.
UseForgotPassword(q) ==
    /\ q.call = "forgot"
    /\ local' = IF q.heard THEN [local EXCEPT !.screen = "sent"] ELSE local
    /\ Stay(q)
    /\ UNCHANGED <<Platform, crossed>>

UseResetPassword(q) ==
    /\ q.call = "reset"
    /\ Goto("/login")
    /\ calls' = Unheard(calls \ {q})
    /\ UNCHANGED <<probe, Platform, StoredSession, splash, crossed>>

\* A page that is still there says so; its user is the stored one.
EmailConfirmedHere(q) ==
    /\ q.call = "verifyEmail" /\ q.heard
    /\ \E s \in {"success", "error"} : local' = [local EXCEPT !.screen = s]
    /\ Stay(q)
    /\ UNCHANGED <<Platform, crossed>>

(***************************************************************************)
(* A page that was left has its hook store the user it holds, unless that  *)
(* one's address was confirmed before or the token was refused.            *)
(***************************************************************************)
UseVerifyEmail(q) ==
    /\ q.call = "verifyEmail" /\ ~q.heard
    /\ q.user # None
    /\ profile' = q.user /\ must' = q.flag
    /\ crossed' = (crossed \/ visitor \notin {q.user, None})
    /\ stale' = (stale \/ (~q.flag /\ visitor \in resets))
    /\ hops' = 0
    /\ calls' = calls \ {q}
    /\ UNCHANGED <<at, probe, Platform, visitor, splash, local>>

\* A toast.
Refused(q) ==
    /\ \/ q.call \in {"login", "verify", "register", "reset"}
       \/ q.call = "verifyEmail" /\ ~q.heard
    /\ Stay(q)
    /\ UNCHANGED <<local, Platform, crossed>>

-----------------------------------------------------------------------------
(***************************************************************************)
(* A super-admin gives a user a new password, that he has to change.       *)
(* Nothing tells the tabs where he is signed in.                           *)
(***************************************************************************)
AdminResetPassword(u) ==
    /\ initialized /\ u \in Resettable \ resets
    /\ resets' = resets \cup {u}
    /\ mustChange' = mustChange \cup {u}
    /\ stale' = (stale \/ visitor = u)
    /\ UNCHANGED <<at, probe, initialized, visitor, profile, must, splash, local, calls,
                   hops, crossed>>

\* Any request of the application may be refused: the password must be changed,
Refusable == Settled /\ at \in App /\ visitor # None

RequirePasswordChange ==
    /\ Refusable /\ visitor \in mustChange
    /\ must' = TRUE
    /\ stale' = FALSE
    /\ hops' = 0
    /\ UNCHANGED <<at, probe, Platform, visitor, profile, splash, local, calls, crossed>>

\* or the account is disabled, or its sessions are revoked.
SessionEnds == Refusable /\ ForceLogout

(***************************************************************************)
(* The storage event: another tab signed in, out, or set the platform up,  *)
(* or stored its memory, whose record may be from before a reset.  The     *)
(* cache of this one keeps what the probe said.                            *)
(***************************************************************************)
OtherTabStores ==
    /\ \E u \in Users \cup {None}, done \in {initialized, TRUE}, old \in BOOLEAN :
          /\ u # None \/ visitor # None
          /\ u # None => done
          /\ old => u \in resets
          /\ initialized' = done
          /\ visitor' = u /\ profile' = u
          /\ must' = (u \in mustChange /\ ~old)
          /\ stale' = old
          /\ splash' = (u # None /\ (splash \/ visitor = None))
          /\ local' = IF splash' THEN Fresh ELSE local
          /\ calls' = IF splash' THEN UnheardWith(calls, u, must') ELSE calls
    /\ hops' = 0
    /\ UNCHANGED <<at, probe, mustChange, resets, crossed>>

-----------------------------------------------------------------------------
NavInit ==
    /\ at \in Paths
    /\ probe = "loading"
    /\ initialized \in BOOLEAN
    /\ mustChange = Provisioned
    /\ visitor = None /\ profile = None /\ must = FALSE
    /\ splash = FALSE
    /\ local = Fresh
    /\ calls = {}
    /\ hops = 0
    /\ resets = {} /\ stale = FALSE /\ crossed = FALSE

Answered(q) ==
    \/ UseLogin(q) \/ UseVerifyTwoFactorLogin(q) \/ UseRegister(q) \/ UseInitializeSetup(q)
    \/ InitializeRefused(q) \/ UseLogout(q) \/ UseForgotPassword(q) \/ UseResetPassword(q)
    \/ EmailConfirmedHere(q) \/ UseVerifyEmail(q) \/ Refused(q)
    \/ \E succeeded \in BOOLEAN : UseChangePassword(q, succeeded)

NavNext ==
    \/ Redirect \/ ProbeAnswers \/ Hydrated
    \/ \E p \in Paths : LoadPage(p) \/ Follow(p) \/ BackOrForward(p)
    \/ LoginPage \/ RegisterPage \/ ForgotPasswordPage \/ ResetPasswordPage
    \/ VerifyEmailPage \/ ChangePasswordPage \/ UserMenu
    \/ GoNext \/ GoPrev \/ SetupPage
    \/ \E q \in calls : Answered(q) \/ StorePassword(q)
    \/ \E u \in Users : AdminResetPassword(u)
    \/ RequirePasswordChange \/ SessionEnds \/ OtherTabStores

NavSpec == NavInit /\ [][NavNext]_navVars

-----------------------------------------------------------------------------
NavTypeOK ==
    /\ at \in Paths
    /\ probe \in {"loading", "failed", "needed", "done"}
    /\ initialized \in BOOLEAN /\ mustChange \subseteq Users
    /\ {visitor, profile} \subseteq Users \cup {None} /\ resets \subseteq Users
    /\ {must, splash, stale, crossed} \subseteq BOOLEAN
    /\ local \in Local /\ calls \subseteq Call
    /\ hops \in 0..(MaxHops + 1)

(***************************************************************************)
(* The guards never send a tab round in circles: after at most two         *)
(* redirects a page is shown.  Unless another tab has just set the         *)
(* platform up: this one still believes the wizard is needed, and "/" and  *)
(* "/setup" then send its signed-in user to each other.                    *)
(***************************************************************************)
RedirectsEnd == hops > 2 => probe = "needed" /\ initialized /\ visitor # None

(***************************************************************************)
(* A user whose password was given by an admin is shown nothing of the     *)
(* application before the server has stored another one - whatever is      *)
(* typed, answered late or done in another tab.  Three cases are open: the *)
(* answer to one user's request has written to the record of the next user *)
(* of the tab; the password was reset while he was signed in and no        *)
(* request has been refused since; and a record from before the reset has  *)
(* come back, with a late answer or from another tab.                      *)
(***************************************************************************)
ForcedChangeHolds ==
    Settled /\ at \in App /\ visitor \in mustChange => crossed \/ stale
=============================================================================
