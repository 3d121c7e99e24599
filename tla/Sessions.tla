------------------------------ MODULE Sessions ------------------------------
(***************************************************************************)
(* Login sessions (internal/services/auth_service.go, admin_service.go,    *)
(* internal/repositories/user_repo.go).  A session is a family of refresh  *)
(* tokens: each refresh revokes the token it is given and issues the next  *)
(* one, until the session's absolute deadline.  Handlers read and write    *)
(* the refresh_tokens table in separate statements, and requests overlap.  *)
(*                                                                         *)
(* A family is named by its first token.  Passwords, codes and access      *)
(* tokens are left out: a request that gets this far has shown a good one. *)
(* So is two_factor_enabled, which its user may switch at any time.        *)
(***************************************************************************)
EXTENDS Integers, FiniteSets

CONSTANTS
    Users,
    Ids,            \* refresh tokens that may ever be issued
    Requests,       \* requests that may be in progress at once
    Grace,          \* refreshReuseGrace
    RefreshTTL, SessionMaxAge, MfaTTL,
    MaxTime         \* the clock stops here

ASSUME TimesAssumption == {Grace, RefreshTTL, SessionMaxAge, MfaTTL, MaxTime} \subseteq Nat

VARIABLES
    tokens,     \* the refresh_tokens table, by id
    disabled,   \* users.disabled
    challenge,  \* when the last two-factor challenge of a user expires
    now,
    req,        \* the requests in progress
    ended,      \* history: the sessions somebody has ended
    passed      \* history: the users disabled with a sign-in past its check

vars == <<tokens, disabled, challenge, now, req, ended, passed>>

Never == -1     \* a NULL time

Token == [user : Users, family : Ids, revoked : BOOLEAN,
          at : Nat \cup {Never}, expires : Nat, ends : Nat]

Idle == [phase |-> "idle"]

Request == {Idle} \cup [phase : {"denied", "failed"}]
           \cup [phase : {"found", "enabled", "claimed", "reuse", "logout", "granted"}, tok : Ids]
           \cup [phase : {"login", "revokeAll"}, user : Users]

TypeOK ==
    /\ DOMAIN tokens \subseteq Ids
    /\ \A i \in DOMAIN tokens : tokens[i] \in Token
    /\ disabled \in [Users -> BOOLEAN]
    /\ challenge \in [Users -> Nat \cup {Never}]
    /\ now \in 0..MaxTime
    /\ req \in [Requests -> Request]
    /\ \A r \in Requests : "tok" \in DOMAIN req[r] => req[r].tok \in DOMAIN tokens
    /\ ended \subseteq DOMAIN tokens
    /\ passed \subseteq Users

Init ==
    /\ tokens = [i \in {} |-> {}]
    /\ disabled = [u \in Users |-> FALSE]
    /\ challenge = [u \in Users |-> Never]
    /\ now = 0
    /\ req = [r \in Requests |-> Idle]
    /\ ended = {}
    /\ passed = {}

-----------------------------------------------------------------------------
(* The table. *)

Active(i)   == ~tokens[i].revoked
OfUser(u)   == {i \in DOMAIN tokens : tokens[i].user = u}
Family(f)   == {i \in DOMAIN tokens : tokens[i].family = f}
Families(S) == {tokens[i].family : i \in S}

\* The rows of S with revoked and revoked_at set, and with revoked alone.
RevokeAt(S) == [i \in DOMAIN tokens |->
    IF i \in S THEN [tokens[i] EXCEPT !.revoked = TRUE, !.at = now] ELSE tokens[i]]
RevokeOnly(S) == [i \in DOMAIN tokens |->
    IF i \in S THEN [tokens[i] EXCEPT !.revoked = TRUE] ELSE tokens[i]]

Claimed(f) == {r \in Requests : req[r].phase = "claimed" /\ tokens[req[r].tok].family = f}

\* The history of ended sessions, without those with a rotation under way: the
\* token that rotation is about to store survives the ending.
End(F) == ended' = ended \cup {f \in F : Claimed(f) = {}}

RevokeFamily(f) == RevokeAt({i \in Family(f) : Active(i)})

Expired(i) == now > tokens[i].expires \/ now > tokens[i].ends

\* A rotated token counts as copied unless it was rotated just now.
IsReuse(i) == tokens[i].at = Never \/ now - tokens[i].at > Grace

\* A token never outlives its session.
NewToken(u, f, ends) ==
    [user |-> u, family |-> f, revoked |-> FALSE, at |-> Never,
     expires |-> IF now + RefreshTTL > ends THEN ends ELSE now + RefreshTTL,
     ends |-> ends]

Insert(i, row) == [k \in DOMAIN tokens \cup {i} |-> IF k = i THEN row ELSE tokens[k]]

Become(r, state) == req' = [req EXCEPT ![r] = state]

\* What a signed-in user may reach at all.
AccountGate(u) == ~disabled[u]

-----------------------------------------------------------------------------
(* Refresh. *)

\* The token is looked up, revoked or not, and its times are checked.
RefreshFind(r, i) ==
    /\ req[r] = Idle
    /\ i \in DOMAIN tokens
    /\ \/ ~Active(i) /\ IsReuse(i)     /\ Become(r, [phase |-> "reuse", tok |-> i])
       \/ ~Active(i) /\ ~IsReuse(i)    /\ Become(r, [phase |-> "denied"])
       \/ Active(i)  /\ Expired(i)     /\ Become(r, [phase |-> "denied"])
       \/ Active(i)  /\ ~Expired(i)    /\ Become(r, [phase |-> "found", tok |-> i])
    /\ UNCHANGED <<tokens, disabled, challenge, now, ended, passed>>

\* Mutant of RefreshUser: the account is not looked at.
RefreshUserUnchecked(r) ==
    /\ req[r].phase = "found"
    /\ Become(r, [phase |-> "enabled", tok |-> req[r].tok])
    /\ UNCHANGED <<tokens, disabled, challenge, now, ended, passed>>

\* The user's row is read; a disabled account loses the session.
RefreshUser(r) ==
    /\ req[r].phase = "found"
    /\ Become(r, [phase |-> IF disabled[tokens[req[r].tok].user] THEN "reuse" ELSE "enabled",
                  tok   |-> req[r].tok])
    /\ UNCHANGED <<tokens, disabled, challenge, now, ended, passed>>

\* Mutant of RefreshReuse: only the token presented is revoked.
RefreshReuseOneToken(r) ==
    /\ req[r].phase = "reuse"
    /\ tokens' = RevokeAt({req[r].tok})
    /\ End(Families({req[r].tok}))
    /\ Become(r, [phase |-> "denied"])
    /\ UNCHANGED <<disabled, challenge, now, passed>>

\* The session is revoked, the copy's tokens and the owner's.
RefreshReuse(r) ==
    /\ req[r].phase = "reuse"
    /\ tokens' = RevokeFamily(tokens[req[r].tok].family)
    /\ End(Families({req[r].tok}))
    /\ Become(r, [phase |-> "denied"])
    /\ UNCHANGED <<disabled, challenge, now, passed>>

\* Mutant of RefreshClaim: UPDATE ... WHERE id, with no test of revoked.
RefreshClaimAlways(r) ==
    /\ req[r].phase = "enabled"
    /\ tokens' = RevokeAt({req[r].tok})
    /\ Become(r, [phase |-> "claimed", tok |-> req[r].tok])
    /\ UNCHANGED <<disabled, challenge, now, ended, passed>>

\* Of two refreshes with the same token one finds it still active.
RefreshClaim(r) ==
    /\ req[r].phase = "enabled"
    /\ IF Active(req[r].tok)
       THEN /\ tokens' = RevokeAt({req[r].tok})
            /\ Become(r, [phase |-> "claimed", tok |-> req[r].tok])
       ELSE /\ UNCHANGED tokens
            /\ Become(r, [phase |-> "denied"])
    /\ UNCHANGED <<disabled, challenge, now, ended, passed>>

\* Mutant of RefreshIssue: each rotation starts the session's time again.
RefreshIssueRenewed(r) ==
    /\ req[r].phase = "claimed"
    /\ \E i \in Ids \ DOMAIN tokens : LET old == tokens[req[r].tok] IN
         /\ tokens' = Insert(i, NewToken(old.user, old.family, now + SessionMaxAge))
         /\ Become(r, [phase |-> "granted", tok |-> i])
    /\ UNCHANGED <<disabled, challenge, now, ended, passed>>

\* The next token of the family, under the session's deadline.
RefreshIssue(r) ==
    /\ req[r].phase = "claimed"
    /\ \E i \in Ids \ DOMAIN tokens : LET old == tokens[req[r].tok] IN
         /\ tokens' = Insert(i, NewToken(old.user, old.family, old.ends))
         /\ Become(r, [phase |-> "granted", tok |-> i])
    /\ UNCHANGED <<disabled, challenge, now, ended, passed>>

\* The claim is made and the next token is not stored: the server failed or
\* stopped between the two writes.
RefreshFails(r) ==
    /\ req[r].phase = "claimed"
    /\ Become(r, [phase |-> "failed"])
    /\ UNCHANGED <<tokens, disabled, challenge, now, ended, passed>>

\* The answer leaves.
Answer(r) ==
    /\ req[r].phase \in {"granted", "denied", "failed"}
    /\ Become(r, Idle)
    /\ UNCHANGED <<tokens, disabled, challenge, now, ended, passed>>

-----------------------------------------------------------------------------
(* Logging in and out. *)

\* A good password: a challenge for the second factor, or a session when the
\* account has none at that moment.
Login(r, u) ==
    /\ req[r] = Idle
    /\ ~disabled[u]
    /\ \/ challenge' = [challenge EXCEPT ![u] = now + MfaTTL] /\ UNCHANGED req
       \/ Become(r, [phase |-> "login", user |-> u]) /\ UNCHANGED challenge
    /\ UNCHANGED <<tokens, disabled, now, ended, passed>>

\* A good second factor while the challenge is good.
VerifyTwoFactorLogin(r, u) ==
    /\ req[r] = Idle
    /\ challenge[u] # Never /\ now <= challenge[u]
    /\ Become(r, [phase |-> "login", user |-> u])
    /\ UNCHANGED <<tokens, disabled, challenge, now, ended, passed>>

\* A new family with a deadline of its own.
LoginIssue(r) ==
    /\ req[r].phase = "login"
    /\ \E i \in Ids \ DOMAIN tokens :
         /\ tokens' = Insert(i, NewToken(req[r].user, i, now + SessionMaxAge))
         /\ Become(r, [phase |-> "granted", tok |-> i])
    /\ UNCHANGED <<disabled, challenge, now, ended, passed>>

\* Logout looks for a token that is not revoked; an unknown one is no error.
LogoutFind(r, i) ==
    /\ req[r] = Idle
    /\ i \in DOMAIN tokens /\ Active(i)
    /\ Become(r, [phase |-> "logout", tok |-> i])
    /\ UNCHANGED <<tokens, disabled, challenge, now, ended, passed>>

\* Its revocation tests nothing again.
LogoutRevoke(r) ==
    /\ req[r].phase = "logout"
    /\ tokens' = RevokeAt({req[r].tok})
    /\ End(Families({i \in {req[r].tok} : Active(i)}))
    /\ Become(r, Idle)
    /\ UNCHANGED <<disabled, challenge, now, passed>>

-----------------------------------------------------------------------------
(* Ending sessions. *)

\* A user ends a session of the sessions page, by the id of the token it had when
\* the page was loaded.  Any row of the user with that id is revoked, and the
\* call succeeds, also when the token has been rotated since.
RevokeSession(u, i) ==
    /\ AccountGate(u)
    /\ i \in OfUser(u)
    /\ tokens' = RevokeOnly({i})
    /\ End(Families({k \in {i} : Active(k)}))
    /\ UNCHANGED <<disabled, challenge, now, req, passed>>

\* All of a user's tokens but the one the request came with.
EndOthers(u, keep) ==
    /\ tokens' = RevokeOnly({i \in OfUser(u) : Active(i) /\ i \notin keep})
    /\ End(Families(OfUser(u)) \ Families(keep))

\* What a caller may name: one token of its own that is good, or none.
Keepable(u) == {{}} \cup {{i} : i \in {j \in OfUser(u) : Active(j)}}

\* "Sign out everywhere else".
RevokeOtherSessions(u) ==
    /\ AccountGate(u)
    /\ \E keep \in Keepable(u) : EndOthers(u, keep)
    /\ UNCHANGED <<disabled, challenge, now, req, passed>>

\* A new password ends the other sessions in the same transaction.
ChangePassword(u) ==
    /\ AccountGate(u)
    /\ \E keep \in Keepable(u) : EndOthers(u, keep)
    /\ UNCHANGED <<disabled, challenge, now, req, passed>>

\* A password reset by e-mail ends them all in the same transaction.
ConsumeAndResetPassword(u) ==
    /\ EndOthers(u, {})
    /\ UNCHANGED <<disabled, challenge, now, req, passed>>

\* A sign-in or a refresh that will not look at the account again.
Passing(u) ==
    \/ challenge[u] # Never /\ now <= challenge[u]
    \/ \E r \in Requests :
         \/ req[r].phase = "login" /\ req[r].user = u
         \/ req[r].phase \in {"enabled", "claimed"} /\ tokens[req[r].tok].user = u

\* An administrator disables an account, and then revokes its tokens.
DisableUser(r, u) ==
    /\ req[r] = Idle
    /\ disabled' = [disabled EXCEPT ![u] = TRUE]
    /\ passed' = IF Passing(u) THEN passed \cup {u} ELSE passed
    /\ Become(r, [phase |-> "revokeAll", user |-> u])
    /\ UNCHANGED <<tokens, challenge, now, ended>>

EnableUser(u) ==
    /\ disabled[u]
    /\ disabled' = [disabled EXCEPT ![u] = FALSE]
    /\ passed' = passed \ {u}
    /\ UNCHANGED <<tokens, challenge, now, req, ended>>

\* An administrator sets a password, and then revokes the user's tokens.
ResetUserPassword(r, u) ==
    /\ req[r] = Idle
    /\ ~disabled[u]
    /\ Become(r, [phase |-> "revokeAll", user |-> u])
    /\ UNCHANGED <<tokens, disabled, challenge, now, ended, passed>>

\* The revocation; when it fails it is logged and the request still succeeds.
RevokeAll(r) ==
    /\ req[r].phase = "revokeAll"
    /\ \/ EndOthers(req[r].user, {})
       \/ UNCHANGED <<tokens, ended>>
    /\ Become(r, Idle)
    /\ UNCHANGED <<disabled, challenge, now, passed>>

-----------------------------------------------------------------------------
\* A challenge that has run out is as good as none.
Tick ==
    /\ now < MaxTime
    /\ now' = now + 1
    /\ challenge' = [u \in Users |-> IF challenge[u] < now + 1 THEN Never ELSE challenge[u]]
    /\ UNCHANGED <<tokens, disabled, req, ended, passed>>

Refreshing(r) ==
    \/ \E i \in Ids : RefreshFind(r, i)
    \/ RefreshUser(r)
    \/ RefreshReuse(r)
    \/ RefreshClaim(r)
    \/ RefreshIssue(r)
    \/ RefreshFails(r)

Next ==
    \/ \E r \in Requests :
         \/ Refreshing(r)
         \/ Answer(r)
         \/ \E u \in Users : Login(r, u) \/ VerifyTwoFactorLogin(r, u)
         \/ LoginIssue(r)
         \/ \E i \in Ids : LogoutFind(r, i)
         \/ LogoutRevoke(r)
         \/ \E u \in Users : DisableUser(r, u) \/ ResetUserPassword(r, u)
         \/ RevokeAll(r)
    \/ \E u \in Users :
         \/ \E i \in Ids : RevokeSession(u, i)
         \/ RevokeOtherSessions(u)
         \/ ChangePassword(u)
         \/ ConsumeAndResetPassword(u)
         \/ EnableUser(u)
    \/ Tick

Spec == Init /\ [][Next]_vars

-----------------------------------------------------------------------------
(* Properties. *)

\* However refreshes, logouts and revocations overlap, a session never has two
\* usable tokens, nor a usable one while a rotation is about to issue another:
\* ClaimRefreshToken lets one request through per token.
OneActivePerSession ==
    \A i, j \in DOMAIN tokens :
        tokens[i].family = tokens[j].family /\ Active(i)
            => (Active(j) => i = j) /\ Claimed(tokens[i].family) = {}

\* Rotating a token never prolongs the session: every token of a family
\* carries the deadline the login set, and none outlives it.
DeadlineHolds ==
    \A i \in DOMAIN tokens : LET first == tokens[i].family IN
        /\ first \in DOMAIN tokens
        /\ tokens[i].user = tokens[first].user
        /\ tokens[i].ends = tokens[first].ends
        /\ tokens[i].expires <= tokens[first].ends

\* A session somebody ended - by logging out, from the sessions page, by a new
\* password, or by presenting a rotated token - has no usable token again,
\* unless a rotation of it had claimed its token before.
EndedStaysEnded ==
    \A i \in DOMAIN tokens : tokens[i].family \in ended => ~Active(i)

\* No sign-in ever stores a token for a disabled account.
DisabledSignInNever ==
    [][\A i \in DOMAIN tokens' \ DOMAIN tokens : ~disabled[tokens'[i].user]]_vars

\* That holds, even when the revocation that follows the disabling failed and
\* the old tokens are still there, unless a sign-in, a refresh or a two-factor
\* challenge had passed the check when the account was disabled.
DisabledGetNoTokens ==
    [][\A i \in DOMAIN tokens' \ DOMAIN tokens :
         disabled[tokens'[i].user] => tokens'[i].user \in passed]_vars

=============================================================================
