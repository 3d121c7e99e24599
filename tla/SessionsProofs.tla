--------------------------- MODULE SessionsProofs ---------------------------
(***************************************************************************)
(* Proofs about Sessions.  The invariant adds to the two properties that a *)
(* session has at most one rotation under way, which is what issuing a     *)
(* token needs to keep the session at one usable token.                    *)
(***************************************************************************)
EXTENDS SessionTabs, TLAPS

OneRotationPerSession ==
    \A r, q \in Requests :
        /\ req[r].phase = "claimed"
        /\ req[q].phase = "claimed"
        /\ tokens[req[r].tok].family = tokens[req[q].tok].family
        => r = q

IInv == TypeOK /\ DeadlineHolds /\ OneActivePerSession /\ OneRotationPerSession

\* What a request in a phase carries.
LEMMA Carries ==
    ASSUME TypeOK, NEW r \in Requests
    PROVE  /\ req[r].phase \in {"found", "enabled", "claimed", "reuse", "logout", "granted"}
              => req[r].tok \in DOMAIN tokens /\ req[r].tok \in Ids
           /\ req[r].phase \in {"login", "revokeAll"} => req[r].user \in Users
  BY DEF TypeOK, Request, Idle

\* The requests after one of them changed its state.
LEMMA OneBecomes ==
    ASSUME TypeOK, NEW r \in Requests, NEW s \in Request, Become(r, s)
    PROVE  /\ req' \in [Requests -> Request]
           /\ req'[r] = s
           /\ \A q \in Requests : q # r => req'[q] = req[q]
  BY DEF TypeOK, Become

LEMMA NowIsNat ==
    ASSUME TypeOK
    PROVE  now \in Nat /\ RefreshTTL \in Nat /\ SessionMaxAge \in Nat /\ MfaTTL \in Nat
  BY TimesAssumption DEF TypeOK

-----------------------------------------------------------------------------
(* Writes to the table. *)

\* The rows are the same, and none has become usable.
Revoked ==
    /\ DOMAIN tokens' = DOMAIN tokens
    /\ \A i \in DOMAIN tokens :
         /\ tokens'[i] \in Token
         /\ tokens'[i].user = tokens[i].user
         /\ tokens'[i].family = tokens[i].family
         /\ tokens'[i].expires = tokens[i].expires
         /\ tokens'[i].ends = tokens[i].ends
         /\ ~tokens'[i].revoked => ~tokens[i].revoked

LEMMA Revokes ==
    ASSUME TypeOK, NEW S,
           \/ tokens' = RevokeAt(S)
           \/ tokens' = RevokeOnly(S)
           \/ UNCHANGED tokens
    PROVE  Revoked
  <1>1. CASE tokens' = RevokeAt(S)
    <2>1. now \in Nat
      BY NowIsNat
    <2> QED BY <1>1, <2>1 DEF RevokeAt, Revoked, TypeOK, Token
  <1>2. CASE tokens' = RevokeOnly(S)
    BY <1>2 DEF RevokeOnly, Revoked, TypeOK, Token
  <1>3. CASE UNCHANGED tokens
    BY <1>3 DEF Revoked, TypeOK
  <1> QED BY <1>1, <1>2, <1>3

\* A request claims nothing by a step that leaves its state or changes it to
\* another than "claimed".
NoNewClaim == \A r \in Requests : req'[r].phase = "claimed" => req'[r] = req[r]

\* Revoking rows keeps the invariant about sessions.
LEMMA RevokedKeeps ==
    ASSUME IInv, Revoked, NoNewClaim
    PROVE  (DeadlineHolds /\ OneActivePerSession /\ OneRotationPerSession)'
  <1> USE DEF IInv
  <1>0. \A r \in Requests : req'[r].phase = "claimed" =>
           /\ req'[r] = req[r] /\ req[r].phase = "claimed" /\ req[r].tok \in DOMAIN tokens
    BY Carries DEF NoNewClaim
  <1>1. DeadlineHolds'
    BY DEF DeadlineHolds, Revoked
  <1>2. OneActivePerSession'
    BY <1>0 DEF OneActivePerSession, Revoked, Claimed, Active
  <1>3. OneRotationPerSession'
    BY <1>0 DEF OneRotationPerSession, Revoked
  <1> QED BY <1>1, <1>2, <1>3

\* A new row with a token that is not in the table.
LEMMA Inserts ==
    ASSUME TypeOK, NEW i \in Ids \ DOMAIN tokens, NEW row \in Token, tokens' = Insert(i, row)
    PROVE  /\ DOMAIN tokens' = DOMAIN tokens \cup {i}
           /\ tokens'[i] = row
           /\ \A k \in DOMAIN tokens : tokens'[k] = tokens[k]
           /\ \A k \in DOMAIN tokens' : tokens'[k] \in Token
  BY DEF Insert, TypeOK

\* A new token is well typed and does not outlive its session.
LEMMA NewTokens ==
    ASSUME TypeOK, NEW u \in Users, NEW f \in Ids, NEW ends \in Nat
    PROVE  /\ NewToken(u, f, ends) \in Token
           /\ NewToken(u, f, ends).user = u
           /\ NewToken(u, f, ends).family = f
           /\ NewToken(u, f, ends).ends = ends
           /\ NewToken(u, f, ends).expires <= ends
           /\ ~NewToken(u, f, ends).revoked
  BY NowIsNat DEF NewToken, Token

-----------------------------------------------------------------------------
(* The steps that write or claim. *)

\* A claim takes the session's usable token away and puts a rotation instead.
LEMMA ClaimKeeps ==
    ASSUME IInv, NEW r \in Requests, RefreshClaim(r)
    PROVE  (DeadlineHolds /\ OneActivePerSession /\ OneRotationPerSession)'
  <1> USE DEF IInv
  <1> DEFINE t == req[r].tok
  <1>1. t \in DOMAIN tokens
    BY Carries DEF RefreshClaim
  <1>2. CASE ~Active(t)
    <2>1. UNCHANGED tokens /\ Become(r, [phase |-> "denied"])
      BY <1>2 DEF RefreshClaim
    <2>2. Revoked
      BY <2>1, Revokes
    <2>3. NoNewClaim
      BY <2>1, OneBecomes DEF NoNewClaim, Request
    <2> QED BY <2>2, <2>3, RevokedKeeps
  <1>3. CASE Active(t)
    <2>1. tokens' = RevokeAt({t}) /\ Become(r, [phase |-> "claimed", tok |-> t])
      BY <1>3 DEF RefreshClaim
    <2>2. Revoked
      BY <2>1, Revokes
    <2>3. tokens'[t].revoked
      BY <2>1, <1>1 DEF RevokeAt, TypeOK, Token
    <2>4. /\ req'[r] = [phase |-> "claimed", tok |-> t]
          /\ \A q \in Requests : q # r => req'[q] = req[q]
      BY <2>1, <1>1, OneBecomes DEF Request, TypeOK
    <2>5. \A q \in Requests : q # r /\ req'[q].phase = "claimed" =>
             /\ req[q].phase = "claimed"
             /\ req'[q].tok = req[q].tok
             /\ req[q].tok \in DOMAIN tokens
             /\ tokens[req[q].tok].family # tokens[t].family
      BY <2>4, <1>1, <1>3, Carries DEF OneActivePerSession, Claimed
    <2>6. DeadlineHolds'
      BY <2>2 DEF DeadlineHolds, Revoked
    <2>7. OneActivePerSession'
      BY <2>2, <2>3, <2>4, <2>5, <1>1, <1>3 DEF OneActivePerSession, Revoked, Claimed, Active
    <2>8. OneRotationPerSession'
      BY <2>2, <2>4, <2>5, <1>1 DEF OneRotationPerSession, Revoked
    <2> QED BY <2>6, <2>7, <2>8
  <1> QED BY <1>2, <1>3

\* The rotation ends by putting a usable token back.
LEMMA IssueKeeps ==
    ASSUME IInv, NEW r \in Requests, RefreshIssue(r)
    PROVE  (DeadlineHolds /\ OneActivePerSession /\ OneRotationPerSession)'
  <1> USE DEF IInv
  <1> DEFINE t == req[r].tok
             old == tokens[t]
  <1>1. t \in DOMAIN tokens /\ old \in Token /\ old.family \in DOMAIN tokens
    BY Carries DEF RefreshIssue, TypeOK, DeadlineHolds
  <1>2. PICK i \in Ids \ DOMAIN tokens :
          /\ tokens' = Insert(i, NewToken(old.user, old.family, old.ends))
          /\ Become(r, [phase |-> "granted", tok |-> i])
    BY DEF RefreshIssue
  <1> DEFINE row == NewToken(old.user, old.family, old.ends)
  <1>3. /\ row \in Token /\ row.user = old.user /\ row.family = old.family
        /\ row.ends = old.ends /\ row.expires <= old.ends /\ ~row.revoked
    <2>1. old.user \in Users /\ old.family \in Ids /\ old.ends \in Nat
      BY <1>1 DEF Token
    <2> HIDE DEF old
    <2> QED BY <2>1, NewTokens
  <1> HIDE DEF row
  <1>4. /\ DOMAIN tokens' = DOMAIN tokens \cup {i}
        /\ tokens'[i] = row
        /\ \A k \in DOMAIN tokens : tokens'[k] = tokens[k]
    BY <1>2, <1>3, Inserts DEF row
  <1>5. /\ req'[r].phase = "granted"
        /\ \A q \in Requests : q # r => req'[q] = req[q]
    BY <1>2, OneBecomes DEF Request
  <1>6. \A q \in Requests : req'[q].phase = "claimed" =>
           /\ q # r /\ req[q].phase = "claimed" /\ req'[q].tok = req[q].tok
           /\ req[q].tok \in DOMAIN tokens
           /\ tokens[req[q].tok].family # old.family
    BY <1>5, Carries DEF OneRotationPerSession, RefreshIssue
  <1>7. \A k \in DOMAIN tokens : tokens[k].family = old.family => ~Active(k)
    BY <1>1 DEF OneActivePerSession, Claimed, RefreshIssue
  <1>8. DeadlineHolds'
    BY <1>1, <1>3, <1>4 DEF DeadlineHolds
  <1>9. OneActivePerSession'
    BY <1>1, <1>3, <1>4, <1>6, <1>7 DEF OneActivePerSession, Claimed, Active
  <1>10. OneRotationPerSession'
    BY <1>4, <1>6 DEF OneRotationPerSession
  <1> QED BY <1>8, <1>9, <1>10

\* A login opens a session no token belongs to yet.
LEMMA LoginKeeps ==
    ASSUME IInv, NEW r \in Requests, LoginIssue(r)
    PROVE  (DeadlineHolds /\ OneActivePerSession /\ OneRotationPerSession)'
  <1> USE DEF IInv
  <1>1. req[r].user \in Users
    BY Carries DEF LoginIssue
  <1>2. PICK i \in Ids \ DOMAIN tokens :
          /\ tokens' = Insert(i, NewToken(req[r].user, i, now + SessionMaxAge))
          /\ Become(r, [phase |-> "granted", tok |-> i])
    BY DEF LoginIssue
  <1> DEFINE row == NewToken(req[r].user, i, now + SessionMaxAge)
  <1>3. /\ row \in Token /\ row.family = i /\ ~row.revoked
        /\ row.expires <= row.ends
    BY <1>1, NowIsNat, NewTokens
  <1> HIDE DEF row
  <1>4. /\ DOMAIN tokens' = DOMAIN tokens \cup {i}
        /\ tokens'[i] = row
        /\ \A k \in DOMAIN tokens : tokens'[k] = tokens[k]
    BY <1>2, <1>3, Inserts DEF row
  <1>5. /\ req'[r].phase = "granted"
        /\ \A q \in Requests : q # r => req'[q] = req[q]
    BY <1>2, OneBecomes DEF Request
  <1>6. \A q \in Requests : req'[q].phase = "claimed" =>
           /\ req[q].phase = "claimed" /\ req'[q].tok = req[q].tok
           /\ req[q].tok \in DOMAIN tokens
    BY <1>5, Carries
  <1>7. \A k \in DOMAIN tokens : tokens[k].family \in DOMAIN tokens
    BY DEF DeadlineHolds
  <1>8. DeadlineHolds'
    BY <1>3, <1>4, <1>7 DEF DeadlineHolds
  <1>9. OneActivePerSession'
    BY <1>3, <1>4, <1>6, <1>7 DEF OneActivePerSession, Claimed, Active
  <1>10. OneRotationPerSession'
    BY <1>4, <1>5, <1>6 DEF OneRotationPerSession
  <1> QED BY <1>8, <1>9, <1>10

-----------------------------------------------------------------------------
(* Typing. *)

\* A step that revokes rows and moves a request on keeps the types.
LEMMA RevokedTypes ==
    ASSUME TypeOK, Revoked,
           disabled' \in [Users -> BOOLEAN],
           challenge' \in [Users -> Nat \cup {Never}],
           now' \in 0..MaxTime,
           req' \in [Requests -> Request],
           \A r \in Requests : "tok" \in DOMAIN req'[r] => req'[r].tok \in DOMAIN tokens,
           ended' \subseteq DOMAIN tokens,
           passed' \subseteq Users
    PROVE  TypeOK'
  BY DEF TypeOK, Revoked

\* So does one that inserts a row.
LEMMA InsertTypes ==
    ASSUME TypeOK, NEW r \in Requests, NEW i \in Ids \ DOMAIN tokens, NEW row \in Token,
           tokens' = Insert(i, row),
           Become(r, [phase |-> "granted", tok |-> i]),
           UNCHANGED <<disabled, challenge, now, ended, passed>>
    PROVE  TypeOK'
  <1>1. /\ DOMAIN tokens' = DOMAIN tokens \cup {i}
        /\ \A k \in DOMAIN tokens' : tokens'[k] \in Token
    BY Inserts
  <1>2. /\ req' \in [Requests -> Request]
        /\ req'[r] = [phase |-> "granted", tok |-> i]
        /\ \A q \in Requests : q # r => req'[q] = req[q]
    BY OneBecomes DEF Request
  <1>3. \A q \in Requests : "tok" \in DOMAIN req'[q] => req'[q].tok \in DOMAIN tokens'
    BY <1>1, <1>2 DEF TypeOK
  <1> QED BY <1>1, <1>2, <1>3 DEF TypeOK

\* A request's next state is typed, and what it carries is in the table.
LEMMA BecomeTypes ==
    ASSUME TypeOK, NEW r \in Requests, NEW s \in Request, Become(r, s),
           "tok" \in DOMAIN s => s.tok \in DOMAIN tokens
    PROVE  /\ req' \in [Requests -> Request]
           /\ \A q \in Requests : "tok" \in DOMAIN req'[q] => req'[q].tok \in DOMAIN tokens
  <1>1. /\ req' \in [Requests -> Request]
        /\ req'[r] = s
        /\ \A q \in Requests : q # r => req'[q] = req[q]
    BY OneBecomes
  <1> QED BY <1>1 DEF TypeOK

\* Ending sessions names only sessions in the table.
LEMMA EndedTyped ==
    ASSUME IInv, NEW S \in SUBSET (DOMAIN tokens)
    PROVE  /\ Families(S) \subseteq DOMAIN tokens
           /\ End(Families(S)) => ended' \subseteq DOMAIN tokens
  BY DEF IInv, DeadlineHolds, Families, End, TypeOK

\* The steps of a request that revoke or read, with the state it moves to.
MovesOn(r, s) ==
    /\ s \in Request
    /\ s.phase # "claimed"
    /\ "tok" \in DOMAIN s => s.tok \in DOMAIN tokens
    /\ Become(r, s)

LEMMA MoveKeeps ==
    ASSUME IInv, Revoked, NEW r \in Requests, NEW s, MovesOn(r, s),
           disabled' \in [Users -> BOOLEAN],
           challenge' \in [Users -> Nat \cup {Never}],
           now' = now,
           ended' \subseteq DOMAIN tokens,
           passed' \subseteq Users
    PROVE  IInv'
  <1>1. TypeOK /\ s \in Request /\ Become(r, s)
    BY DEF IInv, MovesOn
  <1>2. /\ req' \in [Requests -> Request]
        /\ \A q \in Requests : "tok" \in DOMAIN req'[q] => req'[q].tok \in DOMAIN tokens
    BY <1>1, BecomeTypes DEF MovesOn
  <1>3. NoNewClaim
    BY <1>1, OneBecomes DEF NoNewClaim, MovesOn
  <1>4. now' \in 0..MaxTime
    BY <1>1 DEF TypeOK
  <1>5. TypeOK'
    BY <1>1, <1>2, <1>4, RevokedTypes
  <1> QED BY <1>3, <1>5, RevokedKeeps DEF IInv

\* The steps that leave every request as it was.
LEMMA StayKeeps ==
    ASSUME IInv, Revoked, UNCHANGED req,
           disabled' \in [Users -> BOOLEAN],
           challenge' \in [Users -> Nat \cup {Never}],
           now' \in 0..MaxTime,
           ended' \subseteq DOMAIN tokens,
           passed' \subseteq Users
    PROVE  IInv'
  <1>1. TypeOK'
    BY RevokedTypes DEF IInv, TypeOK
  <1>2. NoNewClaim
    BY DEF NoNewClaim
  <1> QED BY <1>1, <1>2, RevokedKeeps DEF IInv

-----------------------------------------------------------------------------
(* The invariant. *)

LEMMA InitInvariant == Init => IInv
  BY TimesAssumption
  DEF Init, IInv, TypeOK, DeadlineHolds, OneActivePerSession, OneRotationPerSession, Claimed,
      Request, Idle

\* What a user's sessions are ended by.
LEMMA EndOthersRevokes ==
    ASSUME IInv, NEW u, NEW keep, EndOthers(u, keep)
    PROVE  Revoked /\ ended' \subseteq DOMAIN tokens
  <1>1. Revoked
    BY Revokes DEF EndOthers, IInv
  <1>2. Families(OfUser(u)) \subseteq DOMAIN tokens
    BY EndedTyped DEF OfUser
  <1> QED BY <1>1, <1>2 DEF EndOthers, End, IInv, TypeOK

LEMMA RefreshKeeps ==
    ASSUME IInv, NEW r \in Requests, Refreshing(r)
    PROVE  IInv'
  <1>0. TypeOK
    BY DEF IInv
  <1> DEFINE Same == /\ disabled' \in [Users -> BOOLEAN]
                     /\ challenge' \in [Users -> Nat \cup {Never}]
                     /\ now' = now
  <1>1. CASE \E i \in Ids : RefreshFind(r, i)
    <2>1. PICK i \in Ids : RefreshFind(r, i)
      BY <1>1
    <2>2. \/ MovesOn(r, [phase |-> "reuse", tok |-> i])
          \/ MovesOn(r, [phase |-> "denied"])
          \/ MovesOn(r, [phase |-> "found", tok |-> i])
      BY <2>1 DEF RefreshFind, MovesOn, Request
    <2>3. Revoked
      BY <1>0, <2>1, Revokes DEF RefreshFind
    <2>4. Same /\ ended' \subseteq DOMAIN tokens /\ passed' \subseteq Users
      BY <1>0, <2>1 DEF RefreshFind, TypeOK
    <2> QED BY <2>2, <2>3, <2>4, MoveKeeps
  <1>2. CASE RefreshUser(r)
    <2>1. req[r].tok \in DOMAIN tokens /\ req[r].tok \in Ids
      BY <1>0, <1>2, Carries DEF RefreshUser
    <2>2. \/ MovesOn(r, [phase |-> "reuse", tok |-> req[r].tok])
          \/ MovesOn(r, [phase |-> "enabled", tok |-> req[r].tok])
      <3>1. CASE disabled[tokens[req[r].tok].user]
        BY <1>2, <2>1, <3>1 DEF RefreshUser, MovesOn, Request
      <3>2. CASE ~disabled[tokens[req[r].tok].user]
        BY <1>2, <2>1, <3>2 DEF RefreshUser, MovesOn, Request
      <3> QED BY <3>1, <3>2
    <2>3. Revoked
      BY <1>0, <1>2, Revokes DEF RefreshUser
    <2>4. Same /\ ended' \subseteq DOMAIN tokens /\ passed' \subseteq Users
      BY <1>0, <1>2 DEF RefreshUser, TypeOK
    <2> QED BY <2>2, <2>3, <2>4, MoveKeeps
  <1>3. CASE RefreshReuse(r)
    <2>1. req[r].tok \in DOMAIN tokens
      BY <1>0, <1>3, Carries DEF RefreshReuse
    <2>2. MovesOn(r, [phase |-> "denied"])
      BY <1>3 DEF RefreshReuse, MovesOn, Request
    <2>3. Revoked
      BY <1>0, <1>3, Revokes DEF RefreshReuse, RevokeFamily
    <2>4. ended' \subseteq DOMAIN tokens
      BY <1>3, <2>1, EndedTyped DEF RefreshReuse
    <2>5. Same /\ ended' \subseteq DOMAIN tokens /\ passed' \subseteq Users
      BY <1>0, <1>3, <2>4 DEF RefreshReuse, TypeOK
    <2> QED BY <2>2, <2>3, <2>5, MoveKeeps
  <1>4. CASE RefreshClaim(r)
    <2>1. req[r].tok \in DOMAIN tokens /\ req[r].tok \in Ids
      BY <1>0, <1>4, Carries DEF RefreshClaim
    <2>2. Revoked
      BY <1>0, <1>4, Revokes DEF RefreshClaim
    <2>3. \/ Become(r, [phase |-> "claimed", tok |-> req[r].tok])
          \/ Become(r, [phase |-> "denied"])
      BY <1>4 DEF RefreshClaim
    <2>4. /\ [phase |-> "claimed", tok |-> req[r].tok] \in Request
          /\ [phase |-> "denied"] \in Request
      BY <2>1 DEF Request
    <2>5. /\ req' \in [Requests -> Request]
          /\ \A q \in Requests : "tok" \in DOMAIN req'[q] => req'[q].tok \in DOMAIN tokens
      BY <1>0, <2>1, <2>3, <2>4, BecomeTypes
    <2>6. TypeOK'
      <3>1. UNCHANGED <<disabled, challenge, now, ended, passed>>
        BY <1>4 DEF RefreshClaim
      <3>2. /\ disabled' \in [Users -> BOOLEAN]
            /\ challenge' \in [Users -> Nat \cup {Never}]
            /\ now' \in 0..MaxTime
            /\ ended' \subseteq DOMAIN tokens
            /\ passed' \subseteq Users
        BY <1>0, <3>1 DEF TypeOK
      <3> QED BY <1>0, <2>2, <2>5, <3>2, RevokedTypes
    <2> QED BY <1>4, <2>6, ClaimKeeps DEF IInv
  <1>5. CASE RefreshIssue(r)
    <2> DEFINE old == tokens[req[r].tok]
    <2>1. PICK i \in Ids \ DOMAIN tokens :
            /\ tokens' = Insert(i, NewToken(old.user, old.family, old.ends))
            /\ Become(r, [phase |-> "granted", tok |-> i])
      BY <1>5 DEF RefreshIssue
    <2>2. old \in Token
      BY <1>0, <1>5, Carries DEF RefreshIssue, TypeOK
    <2>3. NewToken(old.user, old.family, old.ends) \in Token
      BY <1>0, <2>2, NewTokens DEF Token
    <2>4. UNCHANGED <<disabled, challenge, now, ended, passed>>
      BY <1>5 DEF RefreshIssue
    <2>5. TypeOK'
      BY <1>0, <2>1, <2>3, <2>4, InsertTypes
    <2> QED BY <1>5, <2>5, IssueKeeps DEF IInv
  <1>6. CASE RefreshFails(r)
    <2>1. MovesOn(r, [phase |-> "failed"])
      BY <1>6 DEF RefreshFails, MovesOn, Request
    <2>2. Revoked
      BY <1>0, <1>6, Revokes DEF RefreshFails
    <2>3. Same /\ ended' \subseteq DOMAIN tokens /\ passed' \subseteq Users
      BY <1>0, <1>6 DEF RefreshFails, TypeOK
    <2> QED BY <2>1, <2>2, <2>3, MoveKeeps
  <1> QED BY <1>1, <1>2, <1>3, <1>4, <1>5, <1>6 DEF Refreshing

LEMMA NextInvariant == IInv /\ [Next]_vars => IInv'
  <1> SUFFICES ASSUME IInv, [Next]_vars
               PROVE  IInv'
    OBVIOUS
  <1>0. TypeOK
    BY DEF IInv
  <1>1. ASSUME NEW r \in Requests, Refreshing(r)
        PROVE  IInv'
    BY <1>1, RefreshKeeps
  <1>2. ASSUME NEW r \in Requests, Answer(r)
        PROVE  IInv'
    <2>1. MovesOn(r, Idle)
      BY <1>2 DEF Answer, MovesOn, Request, Idle
    <2>2. Revoked
      BY <1>0, <1>2, Revokes DEF Answer
    <2> QED BY <1>0, <1>2, <2>1, <2>2, MoveKeeps DEF Answer, TypeOK
  <1>3. ASSUME NEW r \in Requests, NEW u \in Users, Login(r, u)
        PROVE  IInv'
    <2>1. Revoked
      BY <1>0, <1>3, Revokes DEF Login
    <2>2. challenge' \in [Users -> Nat \cup {Never}]
      BY <1>0, <1>3, NowIsNat DEF Login, TypeOK
    <2>3. /\ disabled' \in [Users -> BOOLEAN] /\ now' = now
          /\ ended' \subseteq DOMAIN tokens /\ passed' \subseteq Users
      BY <1>0, <1>3 DEF Login, TypeOK
    <2>4. CASE UNCHANGED req
      <3>1. now' \in 0..MaxTime
        BY <1>0, <2>3 DEF TypeOK
      <3> QED BY <2>1, <2>2, <2>3, <2>4, <3>1, StayKeeps
    <2>5. CASE Become(r, [phase |-> "login", user |-> u])
      <3>1. MovesOn(r, [phase |-> "login", user |-> u])
        BY <2>5 DEF MovesOn, Request
      <3> QED BY <2>1, <2>2, <2>3, <3>1, MoveKeeps
    <2> QED BY <1>3, <2>4, <2>5 DEF Login
  <1>4. ASSUME NEW r \in Requests, NEW u \in Users, VerifyTwoFactorLogin(r, u)
        PROVE  IInv'
    <2>1. MovesOn(r, [phase |-> "login", user |-> u])
      BY <1>4 DEF VerifyTwoFactorLogin, MovesOn, Request
    <2>2. Revoked
      BY <1>0, <1>4, Revokes DEF VerifyTwoFactorLogin
    <2> QED BY <1>0, <1>4, <2>1, <2>2, MoveKeeps DEF VerifyTwoFactorLogin, TypeOK
  <1>5. ASSUME NEW r \in Requests, LoginIssue(r)
        PROVE  IInv'
    <2>1. PICK i \in Ids \ DOMAIN tokens :
            /\ tokens' = Insert(i, NewToken(req[r].user, i, now + SessionMaxAge))
            /\ Become(r, [phase |-> "granted", tok |-> i])
      BY <1>5 DEF LoginIssue
    <2>2. req[r].user \in Users /\ now + SessionMaxAge \in Nat
      BY <1>0, <1>5, Carries, NowIsNat DEF LoginIssue
    <2>3. NewToken(req[r].user, i, now + SessionMaxAge) \in Token
      BY <1>0, <2>2, NewTokens
    <2>4. UNCHANGED <<disabled, challenge, now, ended, passed>>
      BY <1>5 DEF LoginIssue
    <2>5. TypeOK'
      BY <1>0, <2>1, <2>3, <2>4, InsertTypes
    <2> QED BY <1>5, <2>5, LoginKeeps DEF IInv
  <1>6. ASSUME NEW r \in Requests, NEW i \in Ids, LogoutFind(r, i)
        PROVE  IInv'
    <2>1. MovesOn(r, [phase |-> "logout", tok |-> i])
      BY <1>6 DEF LogoutFind, MovesOn, Request
    <2>2. Revoked
      BY <1>0, <1>6, Revokes DEF LogoutFind
    <2> QED BY <1>0, <1>6, <2>1, <2>2, MoveKeeps DEF LogoutFind, TypeOK
  <1>7. ASSUME NEW r \in Requests, LogoutRevoke(r)
        PROVE  IInv'
    <2>1. req[r].tok \in DOMAIN tokens
      BY <1>0, <1>7, Carries DEF LogoutRevoke
    <2>2. MovesOn(r, Idle)
      BY <1>7 DEF LogoutRevoke, MovesOn, Request, Idle
    <2>3. Revoked
      BY <1>0, <1>7, Revokes DEF LogoutRevoke
    <2>4. ended' \subseteq DOMAIN tokens
      <3>1. {i \in {req[r].tok} : Active(i)} \in SUBSET (DOMAIN tokens)
        BY <2>1
      <3> QED BY <1>7, <3>1, EndedTyped DEF LogoutRevoke
    <2> QED BY <1>0, <1>7, <2>2, <2>3, <2>4, MoveKeeps DEF LogoutRevoke, TypeOK
  <1>8. ASSUME NEW r \in Requests, NEW u \in Users,
               DisableUser(r, u) \/ ResetUserPassword(r, u)
        PROVE  IInv'
    <2>1. MovesOn(r, [phase |-> "revokeAll", user |-> u])
      BY <1>8 DEF DisableUser, ResetUserPassword, MovesOn, Request
    <2>2. Revoked
      BY <1>0, <1>8, Revokes DEF DisableUser, ResetUserPassword
    <2> QED BY <1>0, <1>8, <2>1, <2>2, MoveKeeps DEF DisableUser, ResetUserPassword, TypeOK
  <1>9. ASSUME NEW r \in Requests, RevokeAll(r)
        PROVE  IInv'
    <2>1. MovesOn(r, Idle)
      BY <1>9 DEF RevokeAll, MovesOn, Request, Idle
    <2>2. Revoked /\ ended' \subseteq DOMAIN tokens
      BY <1>0, <1>9, EndOthersRevokes, Revokes DEF RevokeAll, TypeOK
    <2> QED BY <1>0, <1>9, <2>1, <2>2, MoveKeeps DEF RevokeAll, TypeOK
  <1>10. ASSUME NEW u \in Users, NEW i \in Ids, RevokeSession(u, i)
         PROVE  IInv'
    <2>1. Revoked
      BY <1>0, <1>10, Revokes DEF RevokeSession
    <2>2. ended' \subseteq DOMAIN tokens
      <3>1. {k \in {i} : Active(k)} \in SUBSET (DOMAIN tokens)
        BY <1>10 DEF RevokeSession, OfUser
      <3> QED BY <1>10, <3>1, EndedTyped DEF RevokeSession
    <2> QED BY <1>0, <1>10, <2>1, <2>2, StayKeeps DEF RevokeSession, TypeOK
  <1>11. ASSUME NEW u \in Users,
                RevokeOtherSessions(u) \/ ChangePassword(u) \/ ConsumeAndResetPassword(u)
         PROVE  IInv'
    <2>1. PICK keep : EndOthers(u, keep)
      BY <1>11 DEF RevokeOtherSessions, ChangePassword, ConsumeAndResetPassword
    <2>2. UNCHANGED <<disabled, challenge, now, req, passed>>
      BY <1>11 DEF RevokeOtherSessions, ChangePassword, ConsumeAndResetPassword
    <2> QED BY <1>0, <2>1, <2>2, EndOthersRevokes, StayKeeps DEF TypeOK
  <1>12. ASSUME NEW u \in Users, EnableUser(u)
         PROVE  IInv'
    <2>1. Revoked
      BY <1>0, <1>12, Revokes DEF EnableUser
    <2> QED BY <1>0, <1>12, <2>1, StayKeeps DEF EnableUser, TypeOK
  <1>13. CASE Tick
    <2>1. Revoked
      BY <1>0, <1>13, Revokes DEF Tick
    <2>2. now' \in 0..MaxTime
      BY <1>0, <1>13, TimesAssumption DEF Tick, TypeOK
    <2> QED BY <1>0, <1>13, <2>1, <2>2, StayKeeps DEF Tick, TypeOK
  <1>14. CASE UNCHANGED vars
    <2>1. Revoked
      BY <1>0, <1>14, Revokes DEF vars
    <2> QED BY <1>0, <1>14, <2>1, StayKeeps DEF vars, TypeOK
  <1> QED BY <1>1, <1>2, <1>3, <1>4, <1>5, <1>6, <1>7, <1>8, <1>9, <1>10, <1>11, <1>12, <1>13, <1>14
         DEF Next

-----------------------------------------------------------------------------
(* Ended sessions.  One has no usable token, and no rotation that will store *)
(* one: the request that rotates a session claimed a token usable then.      *)

NoRotationOfEnded ==
    \A r \in Requests : req[r].phase = "claimed" => tokens[req[r].tok].family \notin ended

EInv == EndedStaysEnded /\ NoRotationOfEnded

\* What a step must not do to the sessions that were ended before it.
Spares == /\ \A f \in ended' \ ended : Claimed(f) = {}
          /\ \A i \in DOMAIN tokens : tokens[i].family \in ended' \ ended => ~Active(i)'

\* A step that revokes rows keeps the ended sessions ended.
LEMMA RevokedSpares ==
    ASSUME IInv, EInv, Revoked, NoNewClaim, Spares
    PROVE  EInv'
  <1>1. EndedStaysEnded'
    BY DEF EInv, EndedStaysEnded, Revoked, Spares, Active
  <1>2. ASSUME NEW r \in Requests, req'[r].phase = "claimed"
        PROVE  tokens'[req'[r].tok].family \notin ended'
    <2>1. /\ req'[r] = req[r] /\ req[r].phase = "claimed" /\ req[r].tok \in DOMAIN tokens
      BY <1>2, Carries DEF NoNewClaim, IInv
    <2>2. tokens'[req[r].tok].family = tokens[req[r].tok].family
      BY <2>1 DEF Revoked
    <2> QED BY <2>1, <2>2 DEF EInv, NoRotationOfEnded, Spares, Claimed
  <1> QED BY <1>1, <1>2 DEF EInv, NoRotationOfEnded

\* Revoking the usable token of a session ends it.
LEMMA EndOneSpares ==
    ASSUME IInv, NEW i \in DOMAIN tokens,
           \/ tokens' = RevokeAt({i})
           \/ tokens' = RevokeOnly({i}),
           End(Families({k \in {i} : Active(k)}))
    PROVE  Spares
  <1>1. \A f \in ended' \ ended : Active(i) /\ f = tokens[i].family /\ Claimed(f) = {}
    BY DEF End, Families
  <1>2. \A k \in DOMAIN tokens : ~tokens[k].revoked <=> Active(k)
    BY DEF Active
  <1>3. tokens'[i].revoked
    BY DEF RevokeAt, RevokeOnly, IInv, TypeOK, Token
  <1>4. \A k \in DOMAIN tokens : Active(k)' => k # i /\ Active(k)
    BY <1>3 DEF RevokeAt, RevokeOnly, Active, IInv, TypeOK, Token
  <1> QED BY <1>1, <1>4 DEF Spares, IInv, OneActivePerSession

\* Revoking all of a user's tokens but one ends the user's other sessions.
LEMMA EndOthersSpares ==
    ASSUME IInv, NEW u \in Users, NEW keep \in Keepable(u), EndOthers(u, keep)
    PROVE  Spares
  <1>1. \A f \in ended' \ ended : f \in Families(OfUser(u)) \ Families(keep) /\ Claimed(f) = {}
    BY DEF EndOthers, End
  <1>2. \A k \in DOMAIN tokens : tokens[k].family \in Families(OfUser(u)) => k \in OfUser(u)
    BY DEF IInv, DeadlineHolds, Families, OfUser
  <1>3. \A k \in OfUser(u) : tokens[k].family \notin Families(keep) => k \notin keep
    BY DEF Families
  <1>4. \A k \in OfUser(u) : k \notin keep => ~Active(k)'
    BY DEF EndOthers, RevokeOnly, Active, OfUser, IInv, TypeOK, Token
  <1> QED BY <1>1, <1>2, <1>3, <1>4 DEF Spares

\* Claiming a token takes a session that was not ended.
LEMMA ClaimSpares ==
    ASSUME IInv, EInv, NEW r \in Requests, RefreshClaim(r)
    PROVE  EInv'
  <1>0. TypeOK /\ req[r].tok \in DOMAIN tokens /\ req[r].tok \in Ids
    BY Carries DEF IInv, RefreshClaim
  <1>1. Revoked /\ ended' = ended
    BY <1>0, Revokes DEF RefreshClaim
  <1>2. EndedStaysEnded'
    BY <1>1 DEF EInv, EndedStaysEnded, Revoked, Active
  <1>3. ASSUME NEW q \in Requests, req'[q].phase = "claimed"
        PROVE  tokens'[req'[q].tok].family \notin ended
    <2>1. CASE q = r
      <3>1. Active(req[r].tok) /\ req'[q].tok = req[r].tok
        BY <1>0, <1>3, <2>1, OneBecomes DEF RefreshClaim, Request
      <3> QED BY <1>0, <1>1, <3>1 DEF EInv, EndedStaysEnded, Revoked
    <2>2. CASE q # r
      <3>1. req'[q] = req[q] /\ req[q].tok \in DOMAIN tokens
        BY <1>0, <1>3, <2>2, Carries DEF RefreshClaim, Become, TypeOK
      <3> QED BY <1>1, <1>3, <3>1 DEF EInv, NoRotationOfEnded, Revoked
    <2> QED BY <2>1, <2>2
  <1> QED BY <1>1, <1>2, <1>3 DEF EInv, NoRotationOfEnded

\* A token is stored for a rotation of a session that was not ended, or for a new
\* session.
LEMMA InsertSpares ==
    ASSUME IInv, EInv, NEW r \in Requests, NEW i \in Ids \ DOMAIN tokens, NEW row \in Token,
           tokens' = Insert(i, row),
           Become(r, [phase |-> "granted", tok |-> i]),
           ended' = ended,
           row.family \notin ended
    PROVE  EInv'
  <1>0. TypeOK
    BY DEF IInv
  <1>1. /\ DOMAIN tokens' = DOMAIN tokens \cup {i} /\ tokens'[i] = row
        /\ \A k \in DOMAIN tokens : tokens'[k] = tokens[k]
    BY <1>0, Inserts
  <1>2. EndedStaysEnded'
    BY <1>1 DEF EInv, EndedStaysEnded, Active
  <1>3. /\ req'[r].phase # "claimed"
        /\ \A q \in Requests : q # r => req'[q] = req[q]
    BY <1>0, OneBecomes DEF Request
  <1>4. \A q \in Requests : req[q].phase = "claimed" => req[q].tok \in DOMAIN tokens
    BY <1>0, Carries
  <1> QED BY <1>1, <1>2, <1>3, <1>4 DEF EInv, NoRotationOfEnded

\* A step that ends no session and claims nothing.
LEMMA QuietSpares ==
    ASSUME IInv, EInv, UNCHANGED <<tokens, ended>>, NoNewClaim
    PROVE  EInv'
  <1>1. Revoked
    BY Revokes DEF IInv
  <1>2. Spares
    BY DEF Spares
  <1> QED BY <1>1, <1>2, RevokedSpares

\* A request that moves on to anything but a claim.
LEMMA MovesClaimNothing ==
    ASSUME IInv, NEW r \in Requests, NEW s, s.phase # "claimed", Become(r, s)
    PROVE  NoNewClaim
  BY DEF NoNewClaim, Become, IInv, TypeOK

LEMMA RefreshSpares ==
    ASSUME IInv, EInv, NEW r \in Requests, Refreshing(r)
    PROVE  EInv'
  <1>1. CASE \E i \in Ids : RefreshFind(r, i)
    <2>1. NoNewClaim /\ UNCHANGED <<tokens, ended>>
      BY <1>1, MovesClaimNothing DEF RefreshFind
    <2> QED BY <2>1, QuietSpares
  <1>2. CASE RefreshUser(r)
    <2>1. NoNewClaim /\ UNCHANGED <<tokens, ended>>
      <3> DEFINE s == [phase |-> IF disabled[tokens[req[r].tok].user] THEN "reuse"
                                 ELSE "enabled", tok |-> req[r].tok]
      <3>1. s.phase # "claimed"
        OBVIOUS
      <3>2. Become(r, s) /\ UNCHANGED <<tokens, ended>>
        BY <1>2 DEF RefreshUser
      <3> HIDE DEF s
      <3> QED BY <3>1, <3>2, MovesClaimNothing
    <2> QED BY <2>1, QuietSpares
  <1>3. CASE RefreshReuse(r)
    <2>1. req[r].tok \in DOMAIN tokens
      BY <1>3, Carries DEF RefreshReuse, IInv
    <2>2. Revoked
      BY <1>3, Revokes DEF RefreshReuse, RevokeFamily, IInv
    <2>3. NoNewClaim
      BY <1>3, MovesClaimNothing DEF RefreshReuse
    <2>4. \A f \in ended' \ ended : f = tokens[req[r].tok].family /\ Claimed(f) = {}
      BY <1>3 DEF RefreshReuse, End, Families
    <2>5. \A k \in DOMAIN tokens :
             tokens[k].family = tokens[req[r].tok].family => ~Active(k)'
      BY <1>3 DEF RefreshReuse, RevokeFamily, RevokeAt, Family, Active, IInv, TypeOK, Token
    <2> QED BY <2>2, <2>3, <2>4, <2>5, RevokedSpares DEF Spares
  <1>4. CASE RefreshClaim(r)
    BY <1>4, ClaimSpares
  <1>5. CASE RefreshIssue(r)
    <2> DEFINE old == tokens[req[r].tok]
    <2>1. PICK i \in Ids \ DOMAIN tokens :
            /\ tokens' = Insert(i, NewToken(old.user, old.family, old.ends))
            /\ Become(r, [phase |-> "granted", tok |-> i])
      BY <1>5 DEF RefreshIssue
    <2>2. old \in Token
      BY <1>5, Carries DEF RefreshIssue, IInv, TypeOK
    <2>3. /\ NewToken(old.user, old.family, old.ends) \in Token
          /\ NewToken(old.user, old.family, old.ends).family = old.family
      <3>1. TypeOK
        BY DEF IInv
      <3>2. old.user \in Users /\ old.family \in Ids /\ old.ends \in Nat
        BY <2>2 DEF Token
      <3> HIDE DEF old
      <3> QED BY <3>1, <3>2, NewTokens
    <2>4. old.family \notin ended /\ ended' = ended
      BY <1>5 DEF RefreshIssue, EInv, NoRotationOfEnded
    <2> QED BY <2>1, <2>3, <2>4, InsertSpares
  <1>6. CASE RefreshFails(r)
    <2>1. NoNewClaim /\ UNCHANGED <<tokens, ended>>
      BY <1>6, MovesClaimNothing DEF RefreshFails
    <2> QED BY <2>1, QuietSpares
  <1> QED BY <1>1, <1>2, <1>3, <1>4, <1>5, <1>6 DEF Refreshing

\* Every step keeps the ended sessions ended.
LEMMA NextSpares == IInv /\ EInv /\ [Next]_vars => EInv'
  <1> SUFFICES ASSUME IInv, EInv, [Next]_vars
               PROVE  EInv'
    OBVIOUS
  <1>1. ASSUME NEW r \in Requests, Refreshing(r)
        PROVE  EInv'
    BY <1>1, RefreshSpares
  <1>2. ASSUME NEW r \in Requests, LoginIssue(r)
        PROVE  EInv'
    <2>1. PICK i \in Ids \ DOMAIN tokens :
            /\ tokens' = Insert(i, NewToken(req[r].user, i, now + SessionMaxAge))
            /\ Become(r, [phase |-> "granted", tok |-> i])
      BY <1>2 DEF LoginIssue
    <2>2. req[r].user \in Users /\ now + SessionMaxAge \in Nat
      BY <1>2, Carries, NowIsNat DEF LoginIssue, IInv
    <2>3. /\ NewToken(req[r].user, i, now + SessionMaxAge) \in Token
          /\ NewToken(req[r].user, i, now + SessionMaxAge).family = i
      BY <2>2, NewTokens DEF IInv
    <2>4. i \notin ended /\ ended' = ended
      BY <1>2 DEF LoginIssue, IInv, TypeOK
    <2> QED BY <2>1, <2>3, <2>4, InsertSpares
  <1>3. ASSUME NEW r \in Requests, LogoutRevoke(r)
        PROVE  EInv'
    <2>1. req[r].tok \in DOMAIN tokens
      BY <1>3, Carries DEF LogoutRevoke, IInv
    <2>2. NoNewClaim
      BY <1>3, MovesClaimNothing DEF LogoutRevoke, Idle
    <2>3. Revoked
      BY <1>3, Revokes DEF LogoutRevoke, IInv
    <2>4. Spares
      BY <1>3, <2>1, EndOneSpares DEF LogoutRevoke
    <2> QED BY <2>2, <2>3, <2>4, RevokedSpares
  <1>4. ASSUME NEW u \in Users, NEW i \in Ids, RevokeSession(u, i)
        PROVE  EInv'
    <2>1. i \in DOMAIN tokens /\ NoNewClaim
      BY <1>4 DEF RevokeSession, OfUser, NoNewClaim
    <2>2. Revoked
      BY <1>4, Revokes DEF RevokeSession, IInv
    <2>3. Spares
      BY <1>4, <2>1, EndOneSpares DEF RevokeSession
    <2> QED BY <2>1, <2>2, <2>3, RevokedSpares
  <1>5. ASSUME NEW u \in Users, NEW keep \in Keepable(u), EndOthers(u, keep), NoNewClaim
        PROVE  EInv'
    BY <1>5, EndOthersRevokes, EndOthersSpares, RevokedSpares
  <1>6. ASSUME NEW u \in Users,
               RevokeOtherSessions(u) \/ ChangePassword(u) \/ ConsumeAndResetPassword(u)
        PROVE  EInv'
    <2>1. PICK keep \in Keepable(u) : EndOthers(u, keep)
      BY <1>6 DEF RevokeOtherSessions, ChangePassword, ConsumeAndResetPassword, Keepable
    <2>2. NoNewClaim
      BY <1>6 DEF RevokeOtherSessions, ChangePassword, ConsumeAndResetPassword, NoNewClaim
    <2> QED BY <1>5, <2>1, <2>2
  <1>7. ASSUME NEW r \in Requests, RevokeAll(r)
        PROVE  EInv'
    <2>1. NoNewClaim
      BY <1>7, MovesClaimNothing DEF RevokeAll, Idle
    <2>2. req[r].user \in Users /\ {} \in Keepable(req[r].user)
      BY <1>7, Carries DEF RevokeAll, IInv, Keepable
    <2>3. CASE EndOthers(req[r].user, {})
      BY <1>5, <2>1, <2>2, <2>3
    <2>4. CASE UNCHANGED <<tokens, ended>>
      BY <2>1, <2>4, QuietSpares
    <2> QED BY <1>7, <2>3, <2>4 DEF RevokeAll
  <1>8. ASSUME NEW r \in Requests, NEW u \in Users,
               \/ Login(r, u) \/ VerifyTwoFactorLogin(r, u)
               \/ DisableUser(r, u) \/ ResetUserPassword(r, u)
        PROVE  EInv'
    <2>1. UNCHANGED <<tokens, ended>>
      BY <1>8 DEF Login, VerifyTwoFactorLogin, DisableUser, ResetUserPassword
    <2>2. NoNewClaim
      <3>1. CASE UNCHANGED req
        BY <3>1 DEF NoNewClaim
      <3>2. CASE ~UNCHANGED req
        <4>1. \/ Become(r, [phase |-> "login", user |-> u])
              \/ Become(r, [phase |-> "revokeAll", user |-> u])
          BY <1>8, <3>2 DEF Login, VerifyTwoFactorLogin, DisableUser, ResetUserPassword
        <4> QED BY <4>1, MovesClaimNothing
      <3> QED BY <3>1, <3>2
    <2> QED BY <2>1, <2>2, QuietSpares
  <1>9. CASE UNCHANGED <<tokens, ended, req>>
    BY <1>9, QuietSpares DEF NoNewClaim
  <1>10. ASSUME NEW r \in Requests, Answer(r) \/ \E i \in Ids : LogoutFind(r, i)
         PROVE  EInv'
    <2>1. NoNewClaim /\ UNCHANGED <<tokens, ended>>
      BY <1>10, MovesClaimNothing DEF Answer, LogoutFind, Idle
    <2> QED BY <2>1, QuietSpares
  <1> QED
    BY <1>1, <1>2, <1>3, <1>4, <1>6, <1>7, <1>8, <1>9, <1>10
    DEF Next, Tick, EnableUser, vars

-----------------------------------------------------------------------------
(* Theorems. *)

LEMMA SpecInvariant == Spec => []IInv
  BY InitInvariant, NextInvariant, PTL DEF Spec

\* Every reachable state is typed, for any number of users, tokens and requests.
THEOREM SessionsTypes == Spec => []TypeOK
  BY SpecInvariant, PTL DEF IInv

\* A session never has two usable tokens, however requests overlap: what
\* ClaimRefreshToken's conditional update is there for.
THEOREM OneTokenPerSession == Spec => []OneActivePerSession
  BY SpecInvariant, PTL DEF IInv

\* No sequence of refreshes keeps a session beyond the deadline of its login.
THEOREM SessionsEnd == Spec => []DeadlineHolds
  BY SpecInvariant, PTL DEF IInv

\* A session its user, an administrator or the reuse check has ended has no usable
\* token again, unless a rotation of it had claimed its token before.
THEOREM EndedSessionsStayEnded == Spec => []EndedStaysEnded
<1>1. Init => EInv
  BY DEF Init, EInv, EndedStaysEnded, NoRotationOfEnded, Idle
<1>2. IInv /\ EInv /\ [Next]_vars => EInv'
  BY NextSpares
<1>3. EInv => EndedStaysEnded
  BY DEF EInv
<1> QED
  BY <1>1, <1>2, <1>3, SpecInvariant, PTL DEF Spec

-----------------------------------------------------------------------------
(* Disabled accounts.  A disabled user that was not signing in when the      *)
(* account was disabled has nothing that will end in a token: no challenge, *)
(* no sign-in past its check, and no refresh past its own.                   *)

Challenged(u) == challenge[u] # Never /\ now <= challenge[u]

Underway(r, u) ==
    \/ req[r].phase = "login" /\ req[r].user = u
    \/ req[r].phase \in {"enabled", "claimed"} /\ tokens[req[r].tok].user = u

DisabledAreStopped ==
    \A u \in Users : disabled[u] /\ u \notin passed =>
        ~Challenged(u) /\ \A r \in Requests : ~Underway(r, u)

\* No row changes hands.
UsersKept ==
    /\ DOMAIN tokens \subseteq DOMAIN tokens'
    /\ \A i \in DOMAIN tokens : tokens'[i].user = tokens[i].user

LEMMA PassingMeans ==
    ASSUME NEW u
    PROVE  Passing(u) <=> Challenged(u) \/ \E r \in Requests : Underway(r, u)
  BY DEF Passing, Challenged, Underway

\* The requests a step leaves alone are under way for the users they were.
LEMMA OthersUnderway ==
    ASSUME TypeOK, UsersKept, NEW q \in Requests, req'[q] = req[q], NEW u, Underway(q, u)'
    PROVE  Underway(q, u)
  <1>1. req[q].phase \in {"enabled", "claimed"} => req[q].tok \in DOMAIN tokens
    BY Carries
  <1> QED BY <1>1 DEF Underway, UsersKept

\* A step that puts nobody under way but the users it found enabled or challenged.
LEMMA StopsKept ==
    ASSUME DisabledAreStopped, UNCHANGED <<disabled, passed>>,
           \A u \in Users : Challenged(u)' => Challenged(u) \/ ~disabled[u],
           \A u \in Users, q \in Requests : Underway(q, u)' =>
               Underway(q, u) \/ Challenged(u) \/ ~disabled[u]
    PROVE  DisabledAreStopped'
  BY DEF DisabledAreStopped

\* A request moves on, and carries nobody further but those.
LEMMA MoveStops ==
    ASSUME TypeOK, DisabledAreStopped, UsersKept, NEW r \in Requests, NEW s, Become(r, s),
           UNCHANGED <<disabled, challenge, now, passed>>,
           \A u \in Users : Underway(r, u)' =>
               Underway(r, u) \/ Challenged(u) \/ ~disabled[u]
    PROVE  DisabledAreStopped'
  <1>1. \A q \in Requests : q # r => req'[q] = req[q]
    BY DEF Become, TypeOK
  <1>2. \A u \in Users, q \in Requests : Underway(q, u)' =>
           Underway(q, u) \/ Challenged(u) \/ ~disabled[u]
    BY <1>1, OthersUnderway
  <1>3. \A u \in Users : Challenged(u)' => Challenged(u)
    BY DEF Challenged
  <1> QED BY <1>2, <1>3, StopsKept

\* The states in which a request will store no token.
LEMMA RestStops ==
    ASSUME TypeOK, DisabledAreStopped, UsersKept, NEW r \in Requests, NEW s, Become(r, s),
           s.phase \notin {"login", "enabled", "claimed"},
           UNCHANGED <<disabled, challenge, now, passed>>
    PROVE  DisabledAreStopped'
  <1>1. req'[r] = s
    BY DEF Become, TypeOK
  <1>2. \A u \in Users : ~Underway(r, u)'
    BY <1>1 DEF Underway
  <1> QED BY <1>2, MoveStops

LEMMA RevokedKeepsUsers ==
    ASSUME Revoked
    PROVE  UsersKept
  BY DEF Revoked, UsersKept

LEMMA InsertKeepsUsers ==
    ASSUME TypeOK, NEW i \in Ids \ DOMAIN tokens, NEW row, tokens' = Insert(i, row)
    PROVE  /\ UsersKept
           /\ DOMAIN tokens' \ DOMAIN tokens = {i}
           /\ tokens'[i] = row
  BY DEF Insert, UsersKept, TypeOK

LEMMA RefreshStops ==
    ASSUME TypeOK, DisabledAreStopped, NEW r \in Requests, Refreshing(r)
    PROVE  DisabledAreStopped'
  <1>0. UNCHANGED <<disabled, challenge, now, passed>>
    BY DEF Refreshing, RefreshFind, RefreshUser, RefreshReuse, RefreshClaim, RefreshIssue,
           RefreshFails
  <1>1. UNCHANGED tokens => UsersKept
    BY DEF UsersKept
  <1>2. CASE \E i \in Ids : RefreshFind(r, i)
    <2>1. PICK i \in Ids : RefreshFind(r, i)
      BY <1>2
    <2>2. UsersKept
      BY <1>1, <2>1 DEF RefreshFind
    <2> QED BY <1>0, <2>1, <2>2, RestStops DEF RefreshFind
  <1>3. CASE RefreshUser(r)
    <2> DEFINE t == req[r].tok
               s == [phase |-> IF disabled[tokens[t].user] THEN "reuse" ELSE "enabled",
                     tok |-> t]
    <2>1. UsersKept /\ Become(r, s)
      BY <1>1, <1>3 DEF RefreshUser
    <2>2. req'[r] = s /\ tokens' = tokens
      BY <1>3, <2>1 DEF Become, TypeOK, RefreshUser
    <2>3. \A u \in Users : Underway(r, u)' => ~disabled[u]
      BY <2>2 DEF Underway
    <2> HIDE DEF s
    <2> QED BY <1>0, <2>1, <2>3, MoveStops
  <1>4. CASE RefreshReuse(r)
    <2>1. UsersKept
      BY <1>4, Revokes, RevokedKeepsUsers DEF RefreshReuse, RevokeFamily
    <2> QED BY <1>0, <1>4, <2>1, RestStops DEF RefreshReuse
  <1>5. CASE RefreshClaim(r)
    <2>1. UsersKept
      BY <1>5, Revokes, RevokedKeepsUsers DEF RefreshClaim
    <2>2. CASE Become(r, [phase |-> "denied"])
      BY <1>0, <2>1, <2>2, RestStops
    <2>3. CASE Become(r, [phase |-> "claimed", tok |-> req[r].tok])
      <3>1. req'[r] = [phase |-> "claimed", tok |-> req[r].tok]
        BY <2>3 DEF Become, TypeOK
      <3>2. req[r].phase = "enabled" /\ req[r].tok \in DOMAIN tokens
        BY <1>5, Carries DEF RefreshClaim
      <3>3. \A u \in Users : Underway(r, u)' => Underway(r, u)
        BY <2>1, <3>1, <3>2 DEF Underway, UsersKept
      <3> QED BY <1>0, <2>1, <2>3, <3>3, MoveStops
    <2> QED BY <1>5, <2>2, <2>3 DEF RefreshClaim
  <1>6. CASE RefreshIssue(r)
    <2>1. PICK i \in Ids \ DOMAIN tokens : \E row :
            /\ tokens' = Insert(i, row)
            /\ Become(r, [phase |-> "granted", tok |-> i])
      BY <1>6 DEF RefreshIssue
    <2>2. UsersKept
      BY <2>1, InsertKeepsUsers
    <2> QED BY <1>0, <2>1, <2>2, RestStops
  <1>7. CASE RefreshFails(r)
    <2>1. UsersKept /\ Become(r, [phase |-> "failed"])
      BY <1>1, <1>7 DEF RefreshFails
    <2> QED BY <1>0, <2>1, RestStops
  <1> QED BY <1>2, <1>3, <1>4, <1>5, <1>6, <1>7 DEF Refreshing

\* Signing in, past the check of the account or with a challenge of before.
LEMMA SigningInStops ==
    ASSUME TypeOK, DisabledAreStopped, NEW r \in Requests, NEW u \in Users,
           Login(r, u) \/ VerifyTwoFactorLogin(r, u)
    PROVE  DisabledAreStopped'
  <1>1. UNCHANGED <<tokens, disabled, now, passed>> /\ UsersKept
    BY DEF Login, VerifyTwoFactorLogin, UsersKept
  <1>2. CASE Become(r, [phase |-> "login", user |-> u]) /\ UNCHANGED challenge
    <2>1. req'[r] = [phase |-> "login", user |-> u]
      BY <1>2 DEF Become, TypeOK
    <2>2. Challenged(u) \/ ~disabled[u]
      BY DEF Login, VerifyTwoFactorLogin, Challenged
    <2>3. \A v \in Users : Underway(r, v)' => v = u
      BY <2>1 DEF Underway
    <2> QED BY <1>1, <1>2, <2>2, <2>3, MoveStops
  <1>3. CASE challenge' = [challenge EXCEPT ![u] = now + MfaTTL] /\ UNCHANGED req /\ ~disabled[u]
    <2>1. \A v \in Users : Challenged(v)' => Challenged(v) \/ ~disabled[v]
      BY <1>1, <1>3 DEF Challenged, TypeOK
    <2>2. \A v \in Users, q \in Requests : Underway(q, v)' => Underway(q, v)
      BY <1>1, <1>3, OthersUnderway
    <2> QED BY <1>1, <2>1, <2>2, StopsKept
  <1> QED BY <1>2, <1>3 DEF Login, VerifyTwoFactorLogin

LEMMA NextStops == TypeOK /\ DisabledAreStopped /\ [Next]_vars => DisabledAreStopped'
  <1> SUFFICES ASSUME TypeOK, DisabledAreStopped, [Next]_vars
               PROVE  DisabledAreStopped'
    OBVIOUS
  <1>0. UNCHANGED tokens => UsersKept
    BY DEF UsersKept
  <1>1. ASSUME NEW r \in Requests, Refreshing(r)
        PROVE  DisabledAreStopped'
    BY <1>1, RefreshStops
  <1>2. ASSUME NEW r \in Requests, Answer(r) \/ \E i \in Ids : LogoutFind(r, i)
        PROVE  DisabledAreStopped'
    <2>1. UsersKept /\ UNCHANGED <<disabled, challenge, now, passed>>
      BY <1>0, <1>2 DEF Answer, LogoutFind
    <2> QED BY <1>2, <2>1, RestStops DEF Answer, LogoutFind, Idle
  <1>3. ASSUME NEW r \in Requests, NEW u \in Users, Login(r, u) \/ VerifyTwoFactorLogin(r, u)
        PROVE  DisabledAreStopped'
    BY <1>3, SigningInStops
  <1>4. ASSUME NEW r \in Requests, LoginIssue(r)
        PROVE  DisabledAreStopped'
    <2>1. PICK i \in Ids \ DOMAIN tokens : \E row :
            /\ tokens' = Insert(i, row)
            /\ Become(r, [phase |-> "granted", tok |-> i])
      BY <1>4 DEF LoginIssue
    <2>2. UsersKept /\ UNCHANGED <<disabled, challenge, now, passed>>
      BY <1>4, <2>1, InsertKeepsUsers DEF LoginIssue
    <2> QED BY <2>1, <2>2, RestStops
  <1>5. ASSUME NEW r \in Requests, LogoutRevoke(r) \/ RevokeAll(r)
        PROVE  DisabledAreStopped'
    <2>1. UsersKept /\ UNCHANGED <<disabled, challenge, now, passed>>
      BY <1>0, <1>5, Revokes, RevokedKeepsUsers DEF LogoutRevoke, RevokeAll, EndOthers
    <2> QED BY <1>5, <2>1, RestStops DEF LogoutRevoke, RevokeAll, Idle
  <1>6. ASSUME NEW r \in Requests, NEW u \in Users, DisableUser(r, u)
        PROVE  DisabledAreStopped'
    <2>1. /\ req'[r] = [phase |-> "revokeAll", user |-> u]
          /\ \A q \in Requests : q # r => req'[q] = req[q]
      BY <1>6 DEF DisableUser, Become, TypeOK
    <2>2. UsersKept /\ UNCHANGED <<challenge, now>>
      BY <1>0, <1>6 DEF DisableUser
    <2>3. \A v \in Users, q \in Requests : Underway(q, v)' => Underway(q, v)
      <3>1. \A v \in Users : ~Underway(r, v)'
        BY <2>1 DEF Underway
      <3> QED BY <2>1, <2>2, <3>1, OthersUnderway
    <2>4. ASSUME NEW v \in Users, disabled'[v], v \notin passed'
          PROVE  ~Challenged(v) /\ \A q \in Requests : ~Underway(q, v)
      <3>1. CASE v = u
        <4>1. ~Passing(u)
          BY <1>6, <2>4, <3>1 DEF DisableUser
        <4> QED BY <3>1, <4>1, PassingMeans
      <3>2. CASE v # u
        <4>1. disabled[v] /\ v \notin passed
          BY <1>6, <2>4, <3>2 DEF DisableUser, TypeOK
        <4> QED BY <4>1 DEF DisabledAreStopped
      <3> QED BY <3>1, <3>2
    <2>5. \A v \in Users : Challenged(v)' => Challenged(v)
      BY <2>2 DEF Challenged
    <2> QED BY <2>3, <2>4, <2>5 DEF DisabledAreStopped
  <1>7. ASSUME NEW r \in Requests, NEW u \in Users, ResetUserPassword(r, u)
        PROVE  DisabledAreStopped'
    <2>1. UsersKept /\ UNCHANGED <<disabled, challenge, now, passed>>
      BY <1>0, <1>7 DEF ResetUserPassword
    <2> QED BY <1>7, <2>1, RestStops DEF ResetUserPassword
  <1>8. ASSUME UsersKept, UNCHANGED <<disabled, challenge, now, passed, req>>
        PROVE  DisabledAreStopped'
    <2>1. \A u \in Users : Challenged(u)' => Challenged(u)
      BY <1>8 DEF Challenged
    <2>2. \A u \in Users, q \in Requests : Underway(q, u)' => Underway(q, u)
      BY <1>8, OthersUnderway
    <2> QED BY <1>8, <2>1, <2>2, StopsKept
  <1>9. ASSUME NEW u \in Users,
               \/ \E i \in Ids : RevokeSession(u, i)
               \/ RevokeOtherSessions(u)
               \/ ChangePassword(u)
               \/ ConsumeAndResetPassword(u)
        PROVE  DisabledAreStopped'
    <2>1. UNCHANGED <<disabled, challenge, now, passed, req>>
      BY <1>9 DEF RevokeSession, RevokeOtherSessions, ChangePassword, ConsumeAndResetPassword
    <2>2. \E S : tokens' = RevokeOnly(S)
      BY <1>9 DEF RevokeSession, RevokeOtherSessions, ChangePassword, ConsumeAndResetPassword,
                  EndOthers
    <2>3. UsersKept
      BY <2>2, Revokes, RevokedKeepsUsers
    <2> QED BY <1>8, <2>1, <2>3
  <1>10. ASSUME NEW u \in Users, EnableUser(u)
         PROVE  DisabledAreStopped'
    <2>1. UsersKept /\ UNCHANGED <<challenge, now, req>>
      BY <1>0, <1>10 DEF EnableUser
    <2>2. \A v \in Users : disabled'[v] /\ v \notin passed' => disabled[v] /\ v \notin passed
      BY <1>10 DEF EnableUser, TypeOK
    <2>3. \A v \in Users, q \in Requests : Underway(q, v)' => Underway(q, v)
      BY <2>1, OthersUnderway
    <2> QED BY <2>1, <2>2, <2>3 DEF DisabledAreStopped, Challenged
  <1>11. CASE Tick
    <2>1. UsersKept /\ UNCHANGED <<disabled, passed, req>>
      BY <1>0, <1>11 DEF Tick
    <2>2. \A u \in Users : Challenged(u)' => Challenged(u)
      BY <1>11, NowIsNat DEF Tick, Challenged, Never, TypeOK
    <2>3. \A u \in Users, q \in Requests : Underway(q, u)' => Underway(q, u)
      BY <2>1, OthersUnderway
    <2> QED BY <2>1, <2>2, <2>3, StopsKept
  <1>12. CASE UNCHANGED vars
    BY <1>0, <1>8, <1>12 DEF vars
  <1> QED
    BY <1>1, <1>2, <1>3, <1>4, <1>5, <1>6, <1>7, <1>9, <1>10, <1>11, <1>12 DEF Next

\* The step that stores a token stores it for a user under way.
LEMMA TokensForUnderway ==
    ASSUME TypeOK, DisabledAreStopped, [Next]_vars,
           NEW i \in DOMAIN tokens' \ DOMAIN tokens
    PROVE  disabled[tokens'[i].user] => tokens'[i].user \in passed
  <1>1. ASSUME NEW r \in Requests, NEW k \in Ids \ DOMAIN tokens, NEW row, NEW u \in Users,
               tokens' = Insert(k, row), row.user = u, Underway(r, u)
        PROVE  disabled[tokens'[i].user] => tokens'[i].user \in passed
    <2>1. tokens'[i] = row
      BY <1>1, InsertKeepsUsers
    <2> QED BY <1>1, <2>1 DEF DisabledAreStopped
  <1>2. ASSUME NEW r \in Requests, RefreshIssue(r)
        PROVE  disabled[tokens'[i].user] => tokens'[i].user \in passed
    <2> DEFINE old == tokens[req[r].tok]
               row == NewToken(old.user, old.family, old.ends)
    <2>1. PICK k \in Ids \ DOMAIN tokens : tokens' = Insert(k, row)
      BY <1>2 DEF RefreshIssue
    <2>2. old.user \in Users /\ Underway(r, old.user)
      BY <1>2, Carries DEF RefreshIssue, Underway, TypeOK, Token
    <2>3. row.user = old.user
      BY DEF NewToken
    <2> HIDE DEF old, row
    <2> QED BY <1>1, <2>1, <2>2, <2>3
  <1>3. ASSUME NEW r \in Requests, LoginIssue(r)
        PROVE  disabled[tokens'[i].user] => tokens'[i].user \in passed
    <2>1. PICK k \in Ids \ DOMAIN tokens :
            tokens' = Insert(k, NewToken(req[r].user, k, now + SessionMaxAge))
      BY <1>3 DEF LoginIssue
    <2> DEFINE row == NewToken(req[r].user, k, now + SessionMaxAge)
    <2>2. req[r].user \in Users /\ Underway(r, req[r].user)
      BY <1>3, Carries DEF LoginIssue, Underway
    <2>3. row.user = req[r].user
      BY DEF NewToken
    <2> HIDE DEF row
    <2> QED BY <1>1, <2>1, <2>2, <2>3 DEF row
  <1>4. CASE \E S : \/ tokens' = RevokeAt(S)
                    \/ tokens' = RevokeOnly(S)
                    \/ UNCHANGED tokens
    <2>1. DOMAIN tokens' = DOMAIN tokens
      BY <1>4, Revokes DEF Revoked
    <2> QED BY <2>1
  <1>5. ASSUME NEW r \in Requests, Refreshing(r), ~RefreshIssue(r)
        PROVE  \E S : tokens' = RevokeAt(S) \/ UNCHANGED tokens
    BY <1>5 DEF Refreshing, RefreshFind, RefreshUser, RefreshReuse, RefreshClaim, RefreshFails,
                RevokeFamily
  <1>6. ASSUME NEW u, NEW keep, EndOthers(u, keep)
        PROVE  \E S : tokens' = RevokeOnly(S)
    BY <1>6 DEF EndOthers
  <1>7. ASSUME NEW r \in Requests, LogoutRevoke(r) \/ RevokeAll(r)
        PROVE  \E S : \/ tokens' = RevokeAt(S)
                      \/ tokens' = RevokeOnly(S)
                      \/ UNCHANGED tokens
    BY <1>6, <1>7 DEF LogoutRevoke, RevokeAll
  <1>8. ASSUME NEW u \in Users,
               \/ \E k \in Ids : RevokeSession(u, k)
               \/ RevokeOtherSessions(u)
               \/ ChangePassword(u)
               \/ ConsumeAndResetPassword(u)
        PROVE  \E S : tokens' = RevokeOnly(S)
    BY <1>6, <1>8 DEF RevokeSession, RevokeOtherSessions, ChangePassword, ConsumeAndResetPassword
  <1>9. CASE UNCHANGED tokens
    BY <1>4, <1>9
  <1> QED
    BY <1>2, <1>3, <1>4, <1>5, <1>7, <1>8, <1>9
    DEF Next, Answer, Login, VerifyTwoFactorLogin, LogoutFind, DisableUser, ResetUserPassword,
        EnableUser, Tick, vars

\* A disabled account gets no token, unless a sign-in, a refresh or a challenge of
\* its user had passed the check when the account was disabled, whether or not
\* the revocation that follows the disabling is done.
THEOREM DisabledAccountsGetNoTokens == Spec => DisabledGetNoTokens
<1>1. Init => DisabledAreStopped
  BY DEF Init, DisabledAreStopped
<1>2. TypeOK /\ DisabledAreStopped /\ [Next]_vars => DisabledAreStopped'
  BY NextStops
<1>3. TypeOK /\ DisabledAreStopped /\ [Next]_vars =>
        [\A i \in DOMAIN tokens' \ DOMAIN tokens :
            disabled[tokens'[i].user] => tokens'[i].user \in passed]_vars
  BY TokensForUnderway
<1> QED
  BY <1>1, <1>2, <1>3, SessionsTypes, PTL DEF Spec, DisabledGetNoTokens

-----------------------------------------------------------------------------
(* The tabs of a browser.  Their steps are the server's or leave it alone;   *)
(* with the lock one tab at a time is between asking for new tokens and      *)
(* having them, and the stored token is the session's usable one but while *)
(* that tab's rotation is under way.                                         *)

\* The one session the browser knows; its user's account is good.
OneSession ==
    /\ \A i \in DOMAIN tokens : tokens[i].family = First /\ tokens[i].expires <= now + RefreshTTL
    /\ \A u \in Users : ~disabled[u]

LockHeld == \A t \in Tabs : tab[t].phase \in {"posting", "posted"} => HasLock(t)

TabsInv == TabsTypeOK /\ IInv /\ OneSession /\ LockHeld

Latest(i) == \A k \in DOMAIN tokens : tokens[k].expires <= tokens[i].expires

\* The request of a tab rotates the stored token, or has.
Rotating(t) ==
    \/ req[t].phase \in {"found", "enabled"} /\ req[t].tok = store /\ Active(store)
    \/ req[t].phase = "claimed" /\ req[t].tok = store
    \/ req[t].phase = "granted" /\ Active(req[t].tok) /\ Latest(req[t].tok)

StoreIsCurrent ==
    /\ store \in DOMAIN tokens
    /\ \A t \in Tabs : tab[t].phase = "posting" => tab[t].tok = store
    /\ \A t \in Tabs : IF tab[t].phase = "posted" THEN Rotating(t) ELSE req[t] = Idle
    /\ Active(store) \/ \E t \in Tabs : tab[t].phase = "posted"
    /\ Latest(store) \/ \E t \in Tabs : tab[t].phase = "posted" /\ req[t].phase = "granted"

\* Every token has run out, and no rotation will store another.
NothingToCome ==
    SessionOver /\ \A t \in Tabs : req[t].phase \notin {"found", "enabled", "claimed"}

Excused == out \/ SigningOut \/ lost \/ restored \/ NothingToCome

StoreInv == Excused \/ StoreIsCurrent

LEMMA TabsAre == Tabs = Requests
  BY TabsAssumption

\* What a tab's step is to the server.
LEMMA TabsStep ==
    ASSUME TypeOK, [TabsNext]_allVars
    PROVE  [Next]_vars
  <1>1. ASSUME NEW t \in Tabs, ServerStep(t)
        PROVE  Next
    BY <1>1, TabsAre DEF ServerStep, Next, Refreshing
  <1>2. ASSUME NEW t \in Tabs, Arrive(t)
        PROVE  Next
    <2>1. tab[t].tok \in Ids /\ RefreshFind(t, tab[t].tok)
      BY <1>2 DEF Arrive, RefreshFind, TypeOK
    <2> QED BY <2>1, TabsAre DEF Next, Refreshing
  <1>3. ASSUME NEW t \in Tabs, Deliver(t) \/ Lose(t)
        PROVE  [Next]_vars
    BY <1>3, TabsAre DEF Deliver, Lose, Next
  <1>4. ASSUME NEW t \in Tabs, LeaveArrive(t)
        PROVE  [Next]_vars
    <2>1. CASE LogoutFind(t, tab[t].tok)
      <3>1. tab[t].tok \in Ids
        BY <2>1 DEF LogoutFind, TypeOK
      <3> QED BY <2>1, <3>1, TabsAre DEF Next
    <2> QED BY <1>4, <2>1 DEF LeaveArrive
  <1>5. ASSUME NEW t \in Tabs,
               \/ Unauthorized(t) \/ RefreshOnce(t) \/ Rehydrate(t) \/ Persist(t) \/ SignOut(t)
               \/ Leave(t)
        PROVE  UNCHANGED vars
    BY <1>5 DEF Unauthorized, RefreshOnce, Rehydrate, Persist, SignOut, Leave
  <1>6. ASSUME NEW i \in Ids, ExpireAccess(i)
        PROVE  UNCHANGED vars
    BY <1>6 DEF ExpireAccess
  <1>7. CASE Tick
    BY <1>7 DEF Next
  <1>8. CASE UNCHANGED allVars
    BY <1>8 DEF allVars
  <1> QED BY <1>1, <1>2, <1>3, <1>4, <1>5, <1>6, <1>7, <1>8 DEF TabsNext

\* The first token is a session's.
LEMMA FirstTokens ==
    ASSUME TabsInit
    PROVE  /\ DOMAIN tokens = {First}
           /\ tokens[First] \in Token
           /\ tokens[First].family = First
           /\ tokens[First].expires <= tokens[First].ends
           /\ tokens[First].expires <= now + RefreshTTL
           /\ ~tokens[First].revoked
  <1>1. PICK u \in Users : tokens = [i \in {First} |-> NewToken(u, First, now + SessionMaxAge)]
    BY DEF TabsInit
  <1>2. now = 0 /\ First \in Ids
    BY TabsAssumption DEF TabsInit
  <1> QED BY <1>1, <1>2, TimesAssumption DEF NewToken, Token

LEMMA TabsInitInvariant == TabsInit => TabsInv /\ StoreInv
  <1> SUFFICES ASSUME TabsInit
               PROVE  TabsInv /\ StoreInv
    OBVIOUS
  <1> USE FirstTokens, TabsAssumption, TimesAssumption
  <1>1. \A r \in Requests : req[r] = Idle /\ req[r].phase = "idle"
    BY DEF TabsInit, Idle
  <1>2. TypeOK
    <2>1. Idle \in Request
      BY DEF Request
    <2>2. DOMAIN tokens \subseteq Ids /\ \A i \in DOMAIN tokens : tokens[i] \in Token
      OBVIOUS
    <2>3. now \in 0..MaxTime
      BY DEF TabsInit
    <2>4. \A r \in Requests : "tok" \notin DOMAIN req[r]
      BY <1>1 DEF Idle
    <2> QED BY <2>1, <2>2, <2>3, <2>4 DEF TabsInit, TypeOK
  <1>3. IInv
    BY <1>1, <1>2
    DEF IInv, DeadlineHolds, OneActivePerSession, OneRotationPerSession, Claimed
  <1>4. TabsTypeOK
    <2>1. queue \in Seq(Tabs) /\ Ready \in TabState
      BY DEF TabsInit, TabState
    <2>2. tab \in [Tabs -> TabState] /\ mem \in [Tabs -> Ids \cup {None}] /\ store \in Ids
      BY <2>1 DEF TabsInit
    <2>3. stale \subseteq DOMAIN tokens /\ {out, lost, restored} \subseteq BOOLEAN
      BY DEF TabsInit
    <2> QED BY <1>2, <2>1, <2>2, <2>3 DEF TabsTypeOK
  <1>5. OneSession /\ LockHeld
    BY DEF TabsInit, OneSession, LockHeld, Ready
  <1>6. StoreIsCurrent
    <2>1. store = First /\ Active(store)
      BY DEF TabsInit, Active
    <2>2. \A t \in Tabs : tab[t].phase = "ready" /\ req[t] = Idle
      BY <1>1 DEF TabsInit, Ready
    <2>3. tokens[First].expires \in Nat
      BY DEF Token
    <2>4. Latest(First)
      BY <2>3 DEF Latest
    <2> QED BY <2>1, <2>2, <2>4 DEF StoreIsCurrent
  <1> QED BY <1>3, <1>4, <1>5, <1>6 DEF TabsInv, StoreInv

-----------------------------------------------------------------------------
(* The lock's queue. *)

Asking(t) == tab[t].phase \in {"posting", "posted"}

\* Only the tab at the head of the queue is asking for new tokens.
LEMMA OneHolder ==
    ASSUME Locks, LockHeld, NEW t \in Tabs, NEW q \in Tabs, Asking(t), Asking(q)
    PROVE  t = q
  BY DEF LockHeld, HasLock, Asking

\* A tab's new state, and the queue after the holder is done.
LEMMA DoneFrees ==
    ASSUME TabsTypeOK, LockHeld, NEW t \in Tabs, HasLock(t), Done(t)
    PROVE  /\ tab' \in [Tabs -> TabState]
           /\ tab'[t] = Ready
           /\ \A q \in Tabs : q # t => tab'[q] = tab[q]
           /\ queue' \in Seq(Tabs)
           /\ LockHeld'
  <1>1. /\ tab' \in [Tabs -> TabState]
        /\ tab'[t] = Ready
        /\ \A q \in Tabs : q # t => tab'[q] = tab[q]
    BY DEF Done, TabsTypeOK, TabState
  <1>2. queue' \in Seq(Tabs)
    <2>1. CASE Locks
      <3>1. queue \in Seq(Tabs) /\ queue # <<>> /\ queue' = Tail(queue)
        BY <2>1 DEF HasLock, Done, TabsTypeOK
      <3> QED BY <3>1
    <2>2. CASE ~Locks
      BY <2>2 DEF Done, TabsTypeOK
    <2> QED BY <2>1, <2>2
  <1>3. LockHeld'
    <2>1. CASE Locks
      <3>1. \A q \in Tabs : Asking(q) => q = t
        BY <2>1 DEF HasLock, LockHeld, Asking
      <3>2. \A q \in Tabs : ~Asking(q)'
        BY <1>1, <3>1 DEF Asking, Ready
      <3> QED BY <3>2 DEF LockHeld, Asking
    <2>2. CASE ~Locks
      BY <2>2 DEF LockHeld, HasLock
    <2> QED BY <2>1, <2>2
  <1> QED BY <1>1, <1>2, <1>3

\* A tab changes what it does, and asks only while it has the lock.
LEMMA TabMoves ==
    ASSUME TabsTypeOK, LockHeld, NEW t \in Tabs, NEW s \in TabState,
           tab' = [tab EXCEPT ![t] = s], UNCHANGED queue,
           s.phase \in {"posting", "posted"} => HasLock(t)
    PROVE  /\ tab' \in [Tabs -> TabState]
           /\ tab'[t] = s
           /\ \A q \in Tabs : q # t => tab'[q] = tab[q]
           /\ LockHeld'
  <1>1. /\ tab' \in [Tabs -> TabState]
        /\ tab'[t] = s
        /\ \A q \in Tabs : q # t => tab'[q] = tab[q]
    BY DEF TabsTypeOK
  <1>2. \A q \in Tabs : HasLock(q)' <=> HasLock(q)
    BY DEF HasLock
  <1> QED BY <1>1, <1>2 DEF LockHeld

\* A tab joins the queue.
LEMMA TabWaits ==
    ASSUME TabsTypeOK, LockHeld, NEW t \in Tabs, Unauthorized(t)
    PROVE  /\ tab' \in [Tabs -> TabState]
           /\ tab'[t].phase = "waiting"
           /\ \A q \in Tabs : q # t => tab'[q] = tab[q]
           /\ queue' \in Seq(Tabs)
           /\ LockHeld'
  <1>1. mem[t] \in Ids
    BY DEF Unauthorized, TabsTypeOK
  <1>2. /\ tab' \in [Tabs -> TabState]
        /\ tab'[t].phase = "waiting"
        /\ \A q \in Tabs : q # t => tab'[q] = tab[q]
    <2> DEFINE s == [phase |-> "waiting", tok |-> mem[t]]
    <2>1. s \in TabState /\ s.phase = "waiting"
      BY <1>1 DEF TabState
    <2>2. tab' = [tab EXCEPT ![t] = s]
      BY DEF Unauthorized
    <2> HIDE DEF s
    <2> QED BY <2>1, <2>2 DEF TabsTypeOK
  <1>3. queue' \in Seq(Tabs)
    BY DEF Unauthorized, TabsTypeOK
  <1>4. LockHeld'
    <2>1. \A q \in Tabs : HasLock(q) /\ Asking(q) => HasLock(q)'
      <3>1. CASE Locks
        <4>1. queue' = Append(queue, t) /\ queue \in Seq(Tabs)
          BY <3>1 DEF Unauthorized, TabsTypeOK
        <4>2. queue # <<>> => queue' # <<>> /\ Head(queue') = Head(queue)
          BY <4>1
        <4> QED BY <3>1, <4>2 DEF HasLock
      <3>2. CASE ~Locks
        BY <3>2 DEF HasLock
      <3> QED BY <3>1, <3>2
    <2> QED BY <1>2, <2>1 DEF LockHeld, Asking
  <1> QED BY <1>2, <1>3, <1>4

-----------------------------------------------------------------------------
(* The server's steps for a tab. *)

\* A rotation's new row: of the same session, and no older row runs out later.
LEMMA IssuedRow ==
    ASSUME IInv, OneSession, NEW r \in Requests, RefreshIssue(r)
    PROVE  \E i \in Ids \ DOMAIN tokens :
             /\ req' = [req EXCEPT ![r] = [phase |-> "granted", tok |-> i]]
             /\ DOMAIN tokens' = DOMAIN tokens \cup {i}
             /\ \A k \in DOMAIN tokens : tokens'[k] = tokens[k]
             /\ tokens'[i].family = First
             /\ ~tokens'[i].revoked
             /\ tokens'[i].expires <= now + RefreshTTL
             /\ \A k \in DOMAIN tokens' : tokens'[k].expires <= tokens'[i].expires
  <1> DEFINE old == tokens[req[r].tok]
             row == NewToken(old.user, old.family, old.ends)
  <1>1. PICK i \in Ids \ DOMAIN tokens :
          /\ tokens' = Insert(i, row)
          /\ Become(r, [phase |-> "granted", tok |-> i])
    BY DEF RefreshIssue
  <1>2. TypeOK /\ req[r].tok \in DOMAIN tokens
    BY Carries DEF RefreshIssue, IInv
  <1>3. old \in Token /\ old.family = First
    BY <1>2 DEF TypeOK, OneSession
  <1>4. old.user \in Users /\ old.family \in Ids /\ old.ends \in Nat
    BY <1>3 DEF Token
  <1>5. /\ row \in Token /\ row.family = First /\ ~row.revoked
        /\ row.expires = IF now + RefreshTTL > old.ends THEN old.ends ELSE now + RefreshTTL
    <2>1. row \in Token /\ row.family = old.family /\ ~row.revoked
      <3> HIDE DEF old
      <3> QED BY <1>2, <1>4, NewTokens
    <2> QED BY <2>1, <1>3 DEF NewToken
  <1>6. \A k \in DOMAIN tokens :
           /\ tokens[k].expires \in Nat
           /\ tokens[k].expires <= now + RefreshTTL
           /\ tokens[k].expires <= old.ends
    <2>1. old.ends = tokens[First].ends
      BY <1>2, <1>3 DEF IInv, DeadlineHolds
    <2> QED BY <2>1, <1>2 DEF IInv, DeadlineHolds, OneSession, TypeOK, Token
  <1> HIDE DEF row
  <1>7. /\ DOMAIN tokens' = DOMAIN tokens \cup {i}
        /\ tokens'[i] = row
        /\ \A k \in DOMAIN tokens : tokens'[k] = tokens[k]
    BY <1>1, <1>2, <1>5, Inserts
  <1>8. \A k \in DOMAIN tokens : tokens[k].expires <= row.expires
    BY <1>5, <1>6
  <1>9. row.expires <= row.expires /\ row.expires <= now + RefreshTTL
    <2>1. now \in Nat /\ RefreshTTL \in Nat
      BY <1>2, NowIsNat
    <2> HIDE DEF old
    <2> QED BY <1>4, <1>5, <2>1
  <1> HIDE DEF old
  <1> QED BY <1>1, <1>5, <1>7, <1>8, <1>9 DEF Become

\* No row goes, and every row stays the session's.
LEMMA ServerRows ==
    ASSUME IInv, OneSession, NEW t \in Tabs, ServerStep(t)
    PROVE  DOMAIN tokens \subseteq DOMAIN tokens' /\ OneSession'
  <1>0. TypeOK /\ t \in Requests /\ UNCHANGED <<now, disabled>>
    BY TabsAre
    DEF IInv, ServerStep, RefreshUser, RefreshReuse, RefreshClaim, RefreshIssue, RefreshFails,
        LogoutRevoke
  <1>1. CASE RefreshIssue(t)
    <2>1. PICK i \in Ids \ DOMAIN tokens :
            /\ DOMAIN tokens' = DOMAIN tokens \cup {i}
            /\ \A k \in DOMAIN tokens : tokens'[k] = tokens[k]
            /\ tokens'[i].family = First
            /\ tokens'[i].expires <= now + RefreshTTL
      BY <1>0, <1>1, IssuedRow
    <2> QED BY <1>0, <2>1 DEF OneSession
  <1>2. CASE ~RefreshIssue(t)
    <2>1. \E S : tokens' = RevokeAt(S) \/ UNCHANGED tokens
      BY <1>2 DEF ServerStep, RefreshUser, RefreshReuse, RefreshClaim, RefreshFails,
                  LogoutRevoke, RevokeFamily
    <2>2. Revoked
      BY <1>0, <2>1, Revokes
    <2> QED BY <1>0, <2>2 DEF Revoked, OneSession
  <1> QED BY <1>1, <1>2

-----------------------------------------------------------------------------
(* Types, one session, and the lock. *)

LEMMA TabsNextInvariant == TabsInv /\ [TabsNext]_allVars => TabsInv'
  <1> SUFFICES ASSUME TabsInv, [TabsNext]_allVars
               PROVE  TabsInv'
    OBVIOUS
  <1>0. TabsTypeOK /\ TypeOK /\ IInv /\ OneSession /\ LockHeld
    BY DEF TabsInv, IInv
  <1>1. IInv' /\ TypeOK'
    <2>1. IInv'
      BY <1>0, TabsStep, NextInvariant
    <2> QED BY <2>1 DEF IInv
  <1>2. ASSUME UNCHANGED <<tokens, now, disabled>>
        PROVE  OneSession' /\ DOMAIN tokens \subseteq DOMAIN tokens'
    BY <1>0, <1>2 DEF OneSession
  <1>3. ASSUME NEW t \in Tabs, ServerStep(t)
        PROVE  TabsInv'
    <2>1. DOMAIN tokens \subseteq DOMAIN tokens' /\ OneSession'
      BY <1>0, <1>3, ServerRows
    <2>2. lost' \in BOOLEAN /\ UNCHANGED <<store, mem, tab, queue, stale, out, restored>>
      BY <1>0, <1>3 DEF ServerStep, TabsTypeOK
    <2>3. LockHeld'
      BY <1>0, <2>2 DEF LockHeld, HasLock
    <2>4. TabsTypeOK'
      BY <1>0, <1>1, <2>1, <2>2 DEF TabsTypeOK
    <2> QED BY <1>1, <2>1, <2>3, <2>4 DEF TabsInv
  <1>4. ASSUME NEW t \in Tabs, Unauthorized(t)
        PROVE  TabsInv'
    <2>1. UNCHANGED <<vars, store, mem, stale, out, lost, restored>>
      BY <1>4 DEF Unauthorized
    <2>2. tab' \in [Tabs -> TabState] /\ queue' \in Seq(Tabs) /\ LockHeld'
      BY <1>0, <1>4, TabWaits
    <2>3. TabsTypeOK' /\ OneSession'
      BY <1>0, <1>1, <1>2, <2>1, <2>2 DEF TabsTypeOK, vars
    <2> QED BY <1>1, <2>2, <2>3 DEF TabsInv
  <1>5. ASSUME NEW t \in Tabs, HasLock(t), Done(t),
               store' \in Ids \cup {None}, mem' \in [Tabs -> Ids \cup {None}],
               UNCHANGED <<tokens, now, disabled, stale, out, restored>>, lost' \in BOOLEAN
        PROVE  TabsInv'
    <2>1. tab' \in [Tabs -> TabState] /\ queue' \in Seq(Tabs) /\ LockHeld'
      BY <1>0, <1>5, DoneFrees
    <2>2. TabsTypeOK' /\ OneSession'
      BY <1>0, <1>1, <1>2, <1>5, <2>1 DEF TabsTypeOK
    <2> QED BY <1>1, <2>1, <2>2 DEF TabsInv
  <1>6. ASSUME NEW t \in Tabs, NEW s \in TabState,
               tab' = [tab EXCEPT ![t] = s], UNCHANGED queue,
               s.phase \in {"posting", "posted"} => HasLock(t),
               store' \in Ids \cup {None}, mem' \in [Tabs -> Ids \cup {None}],
               UNCHANGED <<tokens, now, disabled, stale, lost, restored>>, out' \in BOOLEAN
        PROVE  TabsInv'
    <2>1. tab' \in [Tabs -> TabState] /\ LockHeld'
      BY <1>0, <1>6, TabMoves
    <2>2. queue' \in Seq(Tabs)
      BY <1>0, <1>6 DEF TabsTypeOK
    <2>3. TabsTypeOK' /\ OneSession'
      BY <1>0, <1>1, <1>2, <1>6, <2>1, <2>2 DEF TabsTypeOK
    <2> QED BY <1>1, <2>1, <2>3 DEF TabsInv
  <1>7. ASSUME NEW t \in Tabs, NEW i \in Ids \cup {None},
               SetTokens(t, i) \/ (i = None /\ ForceLogout(t))
        PROVE  store' \in Ids \cup {None} /\ mem' \in [Tabs -> Ids \cup {None}]
    BY <1>0, <1>7 DEF SetTokens, ForceLogout, TabsTypeOK
  <1>8. store \in Ids \cup {None} /\ mem \in [Tabs -> Ids \cup {None}] /\ {out, lost, restored} \subseteq BOOLEAN
    BY <1>0 DEF TabsTypeOK
  <1>9. ASSUME NEW t \in Tabs, RefreshOnce(t)
        PROVE  TabsInv'
    <2>0. HasLock(t) /\ UNCHANGED <<tokens, now, disabled, stale, out, lost, restored>>
      BY <1>9 DEF RefreshOnce, vars
    <2>1. CASE RotatedByOther(t) /\ SetTokens(t, store) /\ Done(t)
      BY <1>5, <1>7, <1>8, <2>0, <2>1
    <2>2. CASE ForceLogout(t) /\ Done(t)
      BY <1>5, <1>7, <1>8, <2>0, <2>2
    <2>3. CASE /\ Presented(t) # None
               /\ tab' = [tab EXCEPT ![t] = [phase |-> "posting", tok |-> Presented(t)]]
               /\ UNCHANGED <<store, mem, queue>>
      <3> DEFINE s == [phase |-> "posting", tok |-> Presented(t)]
      <3>1. s \in TabState
        BY <1>8, <2>3 DEF Presented, TabState
      <3> HIDE DEF s
      <3> QED BY <1>6, <1>8, <2>0, <2>3, <3>1 DEF s
    <2> QED BY <1>9, <2>1, <2>2, <2>3 DEF RefreshOnce
  <1>10. ASSUME NEW t \in Tabs, Arrive(t)
         PROVE  TabsInv'
    <2>1. HasLock(t) /\ UNCHANGED <<tokens, now, disabled, store, mem, queue, stale, out, lost, restored>>
      BY <1>0, <1>10 DEF Arrive, RefreshFind, LockHeld
    <2>2. tab' = [tab EXCEPT ![t] = [phase |-> "posted"]] /\ [phase |-> "posted"] \in TabState
      BY <1>10 DEF Arrive, TabState
    <2> QED BY <1>6, <1>8, <2>1, <2>2
  <1>11. ASSUME NEW t \in Tabs, Deliver(t)
         PROVE  TabsInv'
    <2>1. HasLock(t) /\ Done(t) /\ UNCHANGED <<tokens, now, disabled, stale, out, lost, restored>>
      BY <1>0, <1>11 DEF Deliver, Answer, LockHeld
    <2>2. store' \in Ids \cup {None} /\ mem' \in [Tabs -> Ids \cup {None}]
      <3>1. CASE req[t].phase = "granted" /\ SetTokens(t, req[t].tok)
        <4>1. req[t].tok \in Ids
          BY <1>0, <3>1, TabsAre, Carries
        <4> QED BY <1>7, <3>1, <4>1
      <3>2. CASE ForceLogout(t)
        BY <1>7, <3>2
      <3>3. CASE UNCHANGED <<store, mem>>
        BY <1>8, <3>3
      <3> QED BY <1>11, <3>1, <3>2, <3>3 DEF Deliver
    <2> QED BY <1>5, <1>8, <2>1, <2>2
  <1>12. ASSUME NEW t \in Tabs, Lose(t)
         PROVE  TabsInv'
    <2>1. HasLock(t) /\ Done(t) /\ UNCHANGED <<tokens, now, disabled, store, mem, stale, out, restored>>
      BY <1>0, <1>12 DEF Lose, Answer, LockHeld, vars
    <2>2. lost' \in BOOLEAN
      BY <1>8, <1>12 DEF Lose
    <2> QED BY <1>5, <1>8, <2>1, <2>2
  <1>13. ASSUME NEW t \in Tabs, SignOut(t)
         PROVE  TabsInv'
    <2> DEFINE s == [phase |-> "leaving", tok |-> mem[t]]
    <2>1. s \in TabState /\ s.phase = "leaving"
      BY <1>8, <1>13 DEF SignOut, TabState
    <2>2. tab' = [tab EXCEPT ![t] = s]
          /\ UNCHANGED <<tokens, now, disabled, store, mem, queue, stale, out, lost, restored>>
      BY <1>13 DEF SignOut, vars
    <2> HIDE DEF s
    <2> QED BY <1>6, <1>8, <2>1, <2>2
  <1>14. ASSUME NEW t \in Tabs, LeaveArrive(t)
         PROVE  TabsInv'
    <2>1. tab' = [tab EXCEPT ![t] = [phase |-> "left"]]
          /\ UNCHANGED <<tokens, now, disabled, store, mem, queue, stale, out, lost, restored>>
      BY <1>14 DEF LeaveArrive, LogoutFind, vars
    <2>2. [phase |-> "left"] \in TabState
      BY DEF TabState
    <2> QED BY <1>6, <1>8, <2>1, <2>2
  <1>15. ASSUME NEW t \in Tabs, Leave(t)
         PROVE  TabsInv'
    <2>1. tab' = [tab EXCEPT ![t] = Ready] /\ ForceLogout(t) /\ out' = TRUE
          /\ UNCHANGED <<tokens, now, disabled, queue, stale, lost, restored>>
      BY <1>15 DEF Leave, vars
    <2>2. Ready \in TabState /\ Ready.phase = "ready"
      BY DEF TabState, Ready
    <2> QED BY <1>6, <1>7, <1>8, <2>1, <2>2
  <1>16. ASSUME UNCHANGED <<tokens, disabled, tab, queue, out, lost>>, restored' \in BOOLEAN,
                store' \in Ids \cup {None}, mem' \in [Tabs -> Ids \cup {None}], stale' \subseteq DOMAIN tokens, OneSession'
         PROVE  TabsInv'
    <2>1. LockHeld'
      BY <1>0, <1>16 DEF LockHeld, HasLock
    <2>2. TabsTypeOK'
      BY <1>0, <1>1, <1>16 DEF TabsTypeOK
    <2> QED BY <1>1, <1>16, <2>1, <2>2 DEF TabsInv
  <1>17. stale \subseteq DOMAIN tokens
    BY <1>0 DEF TabsTypeOK
  <1>18. ASSUME NEW t \in Tabs, Rehydrate(t)
         PROVE  TabsInv'
    BY <1>2, <1>8, <1>16, <1>17, <1>18 DEF Rehydrate, vars
  <1>19. ASSUME NEW i \in Ids, ExpireAccess(i)
         PROVE  TabsInv'
    BY <1>2, <1>8, <1>16, <1>17, <1>19 DEF ExpireAccess, vars
  <1>20. ASSUME NEW t \in Tabs, Persist(t)
         PROVE  TabsInv'
    <2>1. mem[t] \in Ids \cup {None}
      BY <1>8
    <2> QED BY <1>2, <1>8, <1>16, <1>17, <1>20, <2>1 DEF Persist, vars
  <1>21. CASE Tick /\ UNCHANGED tabVars
    <2>1. \A k \in DOMAIN tokens : tokens[k].expires <= now' + RefreshTTL
      BY <1>0, <1>21, NowIsNat DEF Tick, OneSession, TypeOK, Token
    <2>2. OneSession'
      BY <1>0, <1>21, <2>1 DEF Tick, OneSession
    <2> QED BY <1>8, <1>16, <1>17, <1>21, <2>2 DEF Tick, tabVars
  <1>22. CASE UNCHANGED allVars
    BY <1>2, <1>8, <1>16, <1>17, <1>22 DEF allVars, tabVars, vars
  <1> QED
    BY <1>3, <1>4, <1>9, <1>10, <1>11, <1>12, <1>13, <1>14, <1>15, <1>18, <1>19, <1>20,
       <1>21, <1>22
    DEF TabsNext

-----------------------------------------------------------------------------
(* Why the browser may be signed out does not go away again. *)

LEMMA OtherTabs ==
    ASSUME TabsTypeOK, NEW t \in Tabs, NEW s, tab' = [tab EXCEPT ![t] = s]
    PROVE  tab'[t] = s /\ \A q \in Tabs : q # t => tab'[q] = tab[q]
  BY DEF TabsTypeOK

LEMMA LeavingStays ==
    ASSUME TabsTypeOK, [TabsNext]_allVars, NEW q \in Tabs, tab[q].phase \in {"leaving", "left"}
    PROVE  out' = TRUE \/ tab'[q].phase \in {"leaving", "left"}
  <1>1. ASSUME NEW t \in Tabs, NEW s, tab' = [tab EXCEPT ![t] = s], t # q
        PROVE  tab'[q] = tab[q]
    BY <1>1, OtherTabs
  <1>2. ASSUME NEW t \in Tabs,
               \/ Unauthorized(t) \/ RefreshOnce(t) \/ Arrive(t) \/ Deliver(t) \/ Lose(t)
               \/ SignOut(t)
        PROVE  tab'[q] = tab[q]
    <2>1. tab[t].phase \in {"ready", "waiting", "posting", "posted"}
      BY <1>2 DEF Unauthorized, RefreshOnce, Arrive, Deliver, Lose, SignOut, Ready
    <2>2. \E s : tab' = [tab EXCEPT ![t] = s]
      BY <1>2 DEF Unauthorized, RefreshOnce, Arrive, Deliver, Lose, SignOut, Done
    <2> QED BY <1>1, <2>1, <2>2
  <1>3. ASSUME NEW t \in Tabs, LeaveArrive(t)
        PROVE  tab'[q].phase \in {"leaving", "left"}
    <2>1. tab' = [tab EXCEPT ![t] = [phase |-> "left"]]
      BY <1>3 DEF LeaveArrive
    <2>2. tab'[t] = [phase |-> "left"] /\ (t # q => tab'[q] = tab[q])
      BY <2>1, OtherTabs
    <2> QED BY <2>2
  <1>4. ASSUME NEW t \in Tabs, Leave(t)
        PROVE  out' = TRUE
    BY <1>4 DEF Leave
  <1>5. ASSUME NEW t \in Tabs, ServerStep(t) \/ Rehydrate(t) \/ Persist(t)
        PROVE  tab' = tab
    BY <1>5 DEF ServerStep, Rehydrate, Persist
  <1>6. ASSUME NEW i \in Ids, ExpireAccess(i)
        PROVE  tab' = tab
    BY <1>6 DEF ExpireAccess
  <1> QED BY <1>2, <1>3, <1>4, <1>5, <1>6 DEF TabsNext, allVars, tabVars

\* The flags of the history are never taken back.
LEMMA HistoryStays ==
    ASSUME TabsTypeOK, [TabsNext]_allVars
    PROVE  /\ out = TRUE => out' = TRUE
           /\ lost = TRUE => lost' = TRUE
           /\ restored = TRUE => restored' = TRUE
  <1>1. ASSUME NEW t \in Tabs, ServerStep(t) \/ Lose(t)
        PROVE  out' = out /\ (lost = TRUE => lost' = TRUE) /\ restored' = restored
    <2>1. lost \in BOOLEAN
      BY DEF TabsTypeOK
    <2> QED BY <1>1, <2>1 DEF ServerStep, Lose
  <1>2. ASSUME NEW t \in Tabs,
               \/ Unauthorized(t) \/ RefreshOnce(t) \/ Arrive(t) \/ Deliver(t) \/ Rehydrate(t)
               \/ SignOut(t) \/ LeaveArrive(t)
        PROVE  UNCHANGED <<out, lost, restored>>
    BY <1>2 DEF Unauthorized, RefreshOnce, Arrive, Deliver, Rehydrate, SignOut, LeaveArrive
  <1>3. ASSUME NEW t \in Tabs, Leave(t)
        PROVE  out' = TRUE /\ UNCHANGED <<lost, restored>>
    BY <1>3 DEF Leave
  <1>4. ASSUME NEW t \in Tabs, Persist(t)
        PROVE  restored' = TRUE /\ UNCHANGED <<out, lost>>
    BY <1>4 DEF Persist
  <1>5. ASSUME NEW i \in Ids, ExpireAccess(i)
        PROVE  UNCHANGED <<out, lost, restored>>
    BY <1>5 DEF ExpireAccess
  <1> QED BY <1>1, <1>2, <1>3, <1>4, <1>5 DEF TabsNext, allVars, tabVars

\* A server with every token run out and no rotation past its check.
Spent ==
    /\ \A i \in DOMAIN tokens : Expired(i)
    /\ \A r \in Requests : req[r].phase \notin {"found", "enabled", "claimed"}

LEMMA SpentStays ==
    ASSUME TypeOK, Spent,
           \/ \E r \in Requests :
                \/ Refreshing(r) \/ Answer(r) \/ LogoutRevoke(r)
                \/ \E i \in Ids : LogoutFind(r, i)
           \/ Tick
           \/ UNCHANGED vars
    PROVE  Spent'
  <1>1. ASSUME NEW r \in Requests, NEW s, Become(r, s), Revoked, now' = now,
               s.phase \notin {"found", "enabled", "claimed"}
        PROVE  Spent'
    <2>1. \A q \in Requests : req'[q] = IF q = r THEN s ELSE req[q]
      BY <1>1 DEF Become, TypeOK
    <2> QED BY <1>1, <2>1 DEF Spent, Revoked, Expired
  <1>2. UNCHANGED tokens => Revoked
    BY DEF Revoked, TypeOK
  <1>3. ASSUME NEW r \in Requests, Refreshing(r)
        PROVE  Spent'
    <2>1. RefreshReuse(r) \/ \E i \in Ids : RefreshFind(r, i)
      BY <1>3 DEF Spent, Refreshing, RefreshUser, RefreshClaim, RefreshIssue, RefreshFails
    <2>2. CASE RefreshReuse(r)
      <3>1. Revoked
        BY <2>2, Revokes DEF RefreshReuse, RevokeFamily
      <3> QED BY <1>1, <2>2, <3>1 DEF RefreshReuse
    <2>3. ASSUME NEW i \in Ids, RefreshFind(r, i)
          PROVE  Spent'
      <3>1. Revoked /\ now' = now
        BY <1>2, <2>3 DEF RefreshFind
      <3>2. Become(r, [phase |-> "reuse", tok |-> i]) \/ Become(r, [phase |-> "denied"])
        BY <2>3 DEF RefreshFind, Spent
      <3> QED BY <1>1, <3>1, <3>2
    <2> QED BY <2>1, <2>2, <2>3
  <1>4. ASSUME NEW r \in Requests, Answer(r) \/ LogoutRevoke(r) \/ \E i \in Ids : LogoutFind(r, i)
        PROVE  Spent'
    <2>1. Revoked /\ now' = now
      BY <1>2, <1>4, Revokes DEF Answer, LogoutRevoke, LogoutFind
    <2> QED BY <1>1, <1>4, <2>1 DEF Answer, LogoutRevoke, LogoutFind, Idle
  <1>5. CASE Tick
    BY <1>5 DEF Tick, Spent, Expired, TypeOK, Token
  <1>6. CASE UNCHANGED vars
    BY <1>6 DEF vars, Spent, Expired
  <1> QED BY <1>3, <1>4, <1>5, <1>6

\* What the tabs make the server do.
LEMMA TabsServerStep ==
    ASSUME TypeOK, [TabsNext]_allVars
    PROVE  \/ \E r \in Requests :
                \/ Refreshing(r) \/ Answer(r) \/ LogoutRevoke(r)
                \/ \E i \in Ids : LogoutFind(r, i)
           \/ Tick
           \/ UNCHANGED vars
  <1>1. ASSUME NEW t \in Tabs, ServerStep(t)
        PROVE  t \in Requests /\ (Refreshing(t) \/ LogoutRevoke(t))
    BY <1>1, TabsAre DEF ServerStep, Refreshing
  <1>2. ASSUME NEW t \in Tabs, Arrive(t)
        PROVE  t \in Requests /\ Refreshing(t)
    <2>1. tab[t].tok \in Ids /\ RefreshFind(t, tab[t].tok)
      BY <1>2 DEF Arrive, RefreshFind, TypeOK
    <2> QED BY <2>1, TabsAre DEF Refreshing
  <1>3. ASSUME NEW t \in Tabs, Deliver(t) \/ Lose(t)
        PROVE  t \in Requests /\ (Answer(t) \/ UNCHANGED vars)
    BY <1>3, TabsAre DEF Deliver, Lose
  <1>4. ASSUME NEW t \in Tabs, LeaveArrive(t)
        PROVE  t \in Requests /\ (UNCHANGED vars \/ \E i \in Ids : LogoutFind(t, i))
    BY <1>4, TabsAre DEF LeaveArrive, LogoutFind, TypeOK
  <1>5. ASSUME NEW t \in Tabs,
               \/ Unauthorized(t) \/ RefreshOnce(t) \/ Rehydrate(t) \/ Persist(t) \/ SignOut(t)
               \/ Leave(t)
        PROVE  UNCHANGED vars
    BY <1>5 DEF Unauthorized, RefreshOnce, Rehydrate, Persist, SignOut, Leave
  <1>6. ASSUME NEW i \in Ids, ExpireAccess(i)
        PROVE  UNCHANGED vars
    BY <1>6 DEF ExpireAccess
  <1> QED BY <1>1, <1>2, <1>3, <1>4, <1>5, <1>6 DEF TabsNext, allVars

LEMMA ExcusedStays ==
    ASSUME TabsInv, Excused, [TabsNext]_allVars
    PROVE  Excused'
  <1>1. TabsTypeOK /\ TypeOK /\ {out, lost, restored} \subseteq BOOLEAN
    BY DEF TabsInv, TabsTypeOK
  <1>2. /\ out = TRUE => out' = TRUE
        /\ lost = TRUE => lost' = TRUE
        /\ restored = TRUE => restored' = TRUE
    BY <1>1, HistoryStays
  <1>3. SigningOut => out' = TRUE \/ SigningOut'
    BY <1>1, LeavingStays DEF SigningOut
  <1>4. NothingToCome => NothingToCome'
    <2>1. NothingToCome <=> Spent
      BY TabsAre DEF NothingToCome, SessionOver, Spent
    <2>2. (NothingToCome <=> Spent)'
      BY TabsAre DEF NothingToCome, SessionOver, Spent
    <2> QED BY <1>1, <2>1, <2>2, SpentStays, TabsServerStep
  <1> QED BY <1>1, <1>2, <1>3, <1>4 DEF Excused

-----------------------------------------------------------------------------
(* With the lock, the stored token is the session's own. *)

\* Nobody's request is under way but the lock holder's.
LEMMA OthersRest ==
    ASSUME Locks, LockHeld, StoreIsCurrent, NEW t \in Tabs, Asking(t)
    PROVE  \A q \in Tabs : q # t => /\ tab[q].phase \notin {"posting", "posted"}
                                    /\ req[q] = Idle
  BY OneHolder DEF Asking, StoreIsCurrent

\* A step that leaves the server, the store and the asking tabs as they were.
LEMMA StoreStays ==
    ASSUME StoreIsCurrent, UNCHANGED <<tokens, req>>, store' = store,
           \A q \in Tabs : Asking(q) \/ Asking(q)' => tab'[q] = tab[q]
    PROVE  StoreIsCurrent'
  <1>1. \A q \in Tabs : tab'[q].phase = "posting" => tab[q].phase = "posting" /\ tab'[q] = tab[q]
    BY DEF Asking
  <1>2. \A q \in Tabs : tab'[q].phase = "posted" <=> tab[q].phase = "posted"
    BY DEF Asking
  <1>3. \A q \in Tabs : Rotating(q) => Rotating(q)'
    BY DEF Rotating, Active, Latest
  <1>4. Active(store)' <=> Active(store)
    BY DEF Active
  <1>5. Latest(store)' <=> Latest(store)
    BY DEF Latest
  <1> QED BY <1>1, <1>2, <1>3, <1>4, <1>5 DEF StoreIsCurrent

\* The holder is done without having reached the server.
LEMMA StoreKept ==
    ASSUME Locks, TabsTypeOK, LockHeld, StoreIsCurrent, NEW t \in Tabs,
           HasLock(t), tab[t].phase # "posted", Done(t), UNCHANGED <<tokens, req>>, store' = store
    PROVE  StoreIsCurrent'
  <1>1. \A q \in Tabs : Asking(q) => q = t
    BY DEF LockHeld, HasLock, Asking
  <1>2. tab'[t] = Ready /\ \A q \in Tabs : q # t => tab'[q] = tab[q]
    BY DoneFrees
  <1>3. \A q \in Tabs : tab'[q].phase \notin {"posting", "posted"} /\ tab[q].phase # "posted"
    BY <1>1, <1>2 DEF Asking, Ready
  <1>4. Active(store)' /\ Latest(store)'
    BY <1>3 DEF StoreIsCurrent, Active, Latest
  <1> QED BY <1>3, <1>4 DEF StoreIsCurrent

\* The server works on the holder's request.
LEMMA ServerStores ==
    ASSUME Locks, TabsInv, StoreIsCurrent, NEW t \in Tabs, ServerStep(t)
    PROVE  StoreInv'
  <1>0. /\ TypeOK /\ IInv /\ OneSession /\ LockHeld /\ t \in Requests
        /\ UNCHANGED <<store, tab>>
    BY TabsAre DEF TabsInv, IInv, ServerStep
  <1>1. req[t].phase # "idle"
    BY DEF ServerStep, RefreshUser, RefreshReuse, RefreshClaim, RefreshIssue, RefreshFails,
           LogoutRevoke
  <1>2. tab[t].phase = "posted" /\ Rotating(t)
    BY <1>1 DEF StoreIsCurrent, Idle
  <1>3. Asking(t) /\ \A q \in Tabs : q # t => tab[q].phase \notin {"posting", "posted"} /\ req[q] = Idle
    BY <1>0, <1>2, OthersRest DEF Asking
  <1>4. \A q \in Tabs : q # t => req'[q] = Idle
    <2>1. \A q \in Requests : q # t => req'[q] = req[q]
      BY <1>0 DEF ServerStep, RefreshUser, RefreshReuse, RefreshClaim, RefreshIssue, RefreshFails,
                  LogoutRevoke, Become, TypeOK
    <2> QED BY <1>3, <2>1, TabsAre
  <1>5. /\ store \in DOMAIN tokens /\ DOMAIN tokens \subseteq DOMAIN tokens'
        /\ (req[t].phase # "granted" => Latest(store))
    <2>1. DOMAIN tokens \subseteq DOMAIN tokens'
      BY <1>0, ServerRows
    <2> QED BY <1>3, <2>1 DEF StoreIsCurrent, Idle
  <1>6. ASSUME Rotating(t)', req'[t].phase # "granted" => Latest(store)'
        PROVE  StoreIsCurrent'
    BY <1>0, <1>2, <1>3, <1>4, <1>5, <1>6 DEF StoreIsCurrent
  <1>7. CASE RefreshUser(t)
    <2> DEFINE s == [phase |-> IF disabled[tokens[req[t].tok].user] THEN "reuse" ELSE "enabled",
                     tok   |-> req[t].tok]
    <2>1. req'[t] = s /\ tokens' = tokens
      BY <1>0, <1>7 DEF RefreshUser, Become, TypeOK
    <2>2. ~disabled[tokens[req[t].tok].user]
      <3>1. req[t].tok \in DOMAIN tokens
        BY <1>0, <1>7, Carries DEF RefreshUser
      <3> QED BY <1>0, <3>1 DEF OneSession, TypeOK, Token
    <2>3. req'[t].phase = "enabled" /\ req'[t].tok = req[t].tok
      BY <2>1, <2>2
    <2>4. req[t].phase = "found"
      BY <1>7 DEF RefreshUser
    <2>5. Rotating(t)'
      BY <1>0, <1>2, <2>1, <2>3, <2>4 DEF Rotating, Active
    <2>6. Latest(store)'
      BY <1>0, <1>5, <2>1, <2>4 DEF Latest
    <2>7. StoreIsCurrent'
      BY <1>6, <2>5, <2>6
    <2> QED BY <2>7 DEF StoreInv
  <1>8. CASE RefreshClaim(t)
    <2>1. req[t].phase = "enabled" /\ req[t].tok = store /\ Active(store)
      BY <1>2, <1>8 DEF RefreshClaim, Rotating
    <2>2. tokens' = RevokeAt({store}) /\ req'[t] = [phase |-> "claimed", tok |-> store]
      BY <1>0, <1>8, <2>1 DEF RefreshClaim, Become, TypeOK
    <2>3. Rotating(t)'
      BY <1>0, <2>2 DEF Rotating
    <2>4. Revoked
      BY <1>0, <2>2, Revokes
    <2>5. Latest(store)'
      BY <1>0, <1>5, <2>1, <2>4 DEF Latest, Revoked
    <2>6. StoreIsCurrent'
      BY <1>6, <2>3, <2>5
    <2> QED BY <2>6 DEF StoreInv
  <1>9. CASE RefreshIssue(t)
    <2>1. PICK i \in Ids \ DOMAIN tokens :
            /\ req' = [req EXCEPT ![t] = [phase |-> "granted", tok |-> i]]
            /\ ~tokens'[i].revoked
            /\ \A k \in DOMAIN tokens' : tokens'[k].expires <= tokens'[i].expires
      BY <1>0, <1>9, IssuedRow
    <2>2. req'[t] = [phase |-> "granted", tok |-> i]
      BY <1>0, <2>1 DEF TypeOK
    <2>3. Rotating(t)'
      BY <2>1, <2>2 DEF Rotating, Active, Latest
    <2>4. StoreIsCurrent'
      BY <1>6, <2>2, <2>3
    <2> QED BY <2>4 DEF StoreInv
  <1>10. CASE RefreshFails(t)
    <2>1. req'[t].phase = "failed"
      BY <1>0, <1>10 DEF RefreshFails, Become, TypeOK
    <2>2. lost' = TRUE
      BY <2>1 DEF ServerStep
    <2> QED BY <2>2 DEF StoreInv, Excused
  <1>11. ~RefreshReuse(t) /\ ~LogoutRevoke(t)
    BY <1>2 DEF Rotating, RefreshReuse, LogoutRevoke
  <1> QED BY <1>7, <1>8, <1>9, <1>10, <1>11 DEF ServerStep

\* The holder's request reaches the server with the stored token: it finds the
\* token usable, or the session over.
LEMMA ArriveStores ==
    ASSUME Locks, TabsInv, StoreIsCurrent, NEW t \in Tabs, Arrive(t)
    PROVE  StoreInv'
  <1>0. /\ TypeOK /\ TabsTypeOK /\ IInv /\ OneSession /\ LockHeld /\ t \in Requests
        /\ tokens' = tokens /\ now' = now /\ store' = store
    BY TabsAre DEF TabsInv, IInv, Arrive, RefreshFind
  <1>1. tab[t].phase = "posting" /\ tab[t].tok = store /\ RefreshFind(t, store)
    BY DEF Arrive, StoreIsCurrent
  <1>2. Asking(t) /\ \A q \in Tabs : q # t => tab[q].phase \notin {"posting", "posted"} /\ req[q] = Idle
    BY <1>0, <1>1, OthersRest DEF Asking
  <1>3. Active(store) /\ Latest(store) /\ store \in DOMAIN tokens
    BY <1>1, <1>2 DEF StoreIsCurrent
  <1>4. tab'[t] = [phase |-> "posted"] /\ \A q \in Tabs : q # t => tab'[q] = tab[q]
    BY <1>0, OtherTabs DEF Arrive
  <1>5. CASE Expired(store)
    <2>1. req'[t] = [phase |-> "denied"]
      BY <1>0, <1>1, <1>3, <1>5 DEF RefreshFind, Become, TypeOK
    <2>2. \A q \in Tabs : q # t => req'[q] = Idle
      BY <1>0, <1>1, <1>2, TabsAre DEF RefreshFind, Become, TypeOK
    <2>3. ASSUME NEW k \in DOMAIN tokens
          PROVE  Expired(k)
      <3>1. tokens[k].expires <= tokens[store].expires /\ tokens[k].ends = tokens[store].ends
        BY <1>0, <1>3 DEF Latest, OneSession, IInv, DeadlineHolds
      <3>2. now \in Nat /\ tokens[k].expires \in Nat /\ tokens[store].expires \in Nat
        BY <1>0, <1>3, NowIsNat DEF TypeOK, Token
      <3> QED BY <1>5, <3>1, <3>2 DEF Expired
    <2>4. SessionOver'
      BY <1>0, <2>3 DEF SessionOver, Expired
    <2>5. NothingToCome'
      BY <2>1, <2>2, <2>4 DEF NothingToCome, Idle
    <2> QED BY <2>5 DEF StoreInv, Excused
  <1>6. CASE ~Expired(store)
    <2>1. req'[t] = [phase |-> "found", tok |-> store]
      BY <1>0, <1>1, <1>3, <1>6 DEF RefreshFind, Become, TypeOK
    <2>2. \A q \in Tabs : q # t => req'[q] = Idle
      BY <1>0, <1>1, <1>2, TabsAre DEF RefreshFind, Become, TypeOK
    <2>3. Rotating(t)'
      BY <1>0, <1>3, <2>1 DEF Rotating, Active
    <2>4. Latest(store)'
      BY <1>0, <1>3 DEF Latest
    <2>5. StoreIsCurrent'
      BY <1>0, <1>2, <1>3, <1>4, <2>2, <2>3, <2>4 DEF StoreIsCurrent
    <2> QED BY <2>5 DEF StoreInv
  <1> QED BY <1>5, <1>6

\* The answer is the session's new token, and the tab stores it.
LEMMA DeliverStores ==
    ASSUME Locks, TabsInv, StoreIsCurrent, NEW t \in Tabs, Deliver(t)
    PROVE  StoreIsCurrent'
  <1>0. /\ TypeOK /\ TabsTypeOK /\ LockHeld /\ t \in Requests
        /\ tokens' = tokens
    BY TabsAre DEF TabsInv, IInv, Deliver, Answer
  <1>1. tab[t].phase = "posted" /\ Rotating(t) /\ HasLock(t)
    BY <1>0 DEF Deliver, StoreIsCurrent, LockHeld
  <1>2. /\ req[t].phase = "granted" /\ store' = req[t].tok
        /\ Active(req[t].tok) /\ Latest(req[t].tok)
    BY <1>1 DEF Deliver, Rotating, SetTokens
  <1>3. \A q \in Tabs : q # t => tab[q].phase \notin {"posting", "posted"} /\ req[q] = Idle
    BY <1>0, <1>1, OthersRest DEF Asking
  <1>4. tab'[t] = Ready /\ \A q \in Tabs : q # t => tab'[q] = tab[q]
    BY <1>0, <1>1, DoneFrees DEF Deliver
  <1>5. \A q \in Tabs : req'[q] = Idle
    <2>1. req'[t] = Idle /\ \A q \in Requests : q # t => req'[q] = req[q]
      BY <1>0 DEF Deliver, Answer, Become, TypeOK
    <2> QED BY <1>3, <2>1, TabsAre
  <1>6. store' \in DOMAIN tokens'
    BY <1>0, <1>2, Carries
  <1>7. Active(store)' /\ Latest(store)'
    BY <1>0, <1>2 DEF Active, Latest
  <1>8. \A q \in Tabs : tab'[q].phase \notin {"posting", "posted"}
    BY <1>3, <1>4 DEF Ready
  <1> QED BY <1>5, <1>6, <1>7, <1>8 DEF StoreIsCurrent

LEMMA StoreNext == Locks /\ TabsInv /\ StoreInv /\ [TabsNext]_allVars => StoreInv'
  <1> SUFFICES ASSUME Locks, TabsInv, StoreInv, [TabsNext]_allVars
               PROVE  StoreInv'
    OBVIOUS
  <1>1. CASE Excused
    BY <1>1, ExcusedStays DEF StoreInv
  <1>2. CASE ~Excused
    <2>0. /\ StoreIsCurrent /\ ~SigningOut /\ TypeOK /\ TabsTypeOK /\ LockHeld
          /\ store # None
      <3>1. StoreIsCurrent /\ ~SigningOut /\ TypeOK /\ TabsTypeOK /\ LockHeld
        BY <1>2 DEF StoreInv, Excused, TabsInv, IInv
      <3> QED BY <3>1, NoneAssumption DEF StoreIsCurrent, TypeOK
    <2>1. StoreIsCurrent' => StoreInv'
      BY DEF StoreInv
    <2>2. ASSUME NEW t \in Tabs, ServerStep(t)
          PROVE  StoreInv'
      BY <2>0, <2>2, ServerStores
    <2>3. ASSUME NEW t \in Tabs, Unauthorized(t)
          PROVE  StoreIsCurrent'
      <3>1. \A q \in Tabs : Asking(q) \/ Asking(q)' => tab'[q] = tab[q]
        <4>1. tab'[t].phase = "waiting" /\ \A q \in Tabs : q # t => tab'[q] = tab[q]
          BY <2>0, <2>3, TabWaits
        <4>2. tab[t].phase = "ready"
          BY <2>3 DEF Unauthorized, Ready
        <4> QED BY <4>1, <4>2 DEF Asking
      <3> QED BY <2>0, <2>3, <3>1, StoreStays DEF Unauthorized, vars
    <2>4. ASSUME NEW t \in Tabs, RefreshOnce(t)
          PROVE  StoreIsCurrent'
      <3>1. HasLock(t) /\ tab[t].phase = "waiting" /\ UNCHANGED <<tokens, req>> /\ ~Asking(t)
        BY <2>4 DEF RefreshOnce, vars, Asking
      <3>2. Presented(t) = store
        BY <2>0 DEF Presented
      <3>3. CASE SetTokens(t, store) /\ Done(t)
        BY <2>0, <3>1, <3>3, StoreKept DEF SetTokens
      <3>4. CASE /\ tab' = [tab EXCEPT ![t] = [phase |-> "posting", tok |-> store]]
                 /\ UNCHANGED <<store, mem, queue>>
        <4>1. /\ tab'[t] = [phase |-> "posting", tok |-> store]
              /\ \A q \in Tabs : q # t => tab'[q] = tab[q]
          BY <2>0, <3>4, OtherTabs
        <4>2. \A q \in Tabs : tab'[q].phase = "posted" <=> tab[q].phase = "posted"
          BY <3>1, <4>1
        <4>3. \A q \in Tabs : Rotating(q)' <=> Rotating(q)
          BY <3>1, <3>4 DEF Rotating, Active, Latest
        <4>4. (Active(store)' <=> Active(store)) /\ (Latest(store)' <=> Latest(store))
          BY <3>1, <3>4 DEF Active, Latest
        <4> QED BY <2>0, <3>1, <3>4, <4>1, <4>2, <4>3, <4>4 DEF StoreIsCurrent
      <3> QED BY <2>0, <2>4, <3>2, <3>3, <3>4 DEF RefreshOnce
    <2>5. ASSUME NEW t \in Tabs, Arrive(t)
          PROVE  StoreInv'
      BY <2>0, <2>5, ArriveStores
    <2>6. ASSUME NEW t \in Tabs, Deliver(t)
          PROVE  StoreIsCurrent'
      BY <2>0, <2>6, DeliverStores
    <2>7. ASSUME NEW t \in Tabs, Lose(t)
          PROVE  StoreInv'
      <3>1. CASE tab[t].phase = "posting" /\ UNCHANGED <<vars, lost>>
        <4>1. HasLock(t)
          BY <2>0, <3>1 DEF LockHeld
        <4>2. Done(t) /\ store' = store /\ UNCHANGED <<tokens, req>>
          BY <2>7, <3>1 DEF Lose, vars
        <4>3. StoreIsCurrent'
          BY <2>0, <3>1, <4>1, <4>2, StoreKept
        <4> QED BY <2>1, <4>3
      <3>2. CASE /\ tab[t].phase = "posted"
                 /\ Answer(t)
                 /\ lost' = (lost \/ req[t].phase = "granted")
        <4>1. req[t].phase = "granted"
          BY <2>0, <3>2 DEF Answer, StoreIsCurrent, Rotating
        <4>2. lost \/ req[t].phase = "granted"
          BY <4>1
        <4>3. lost'
          BY <3>2, <4>2
        <4> QED BY <4>3 DEF StoreInv, Excused
      <3> QED BY <2>7, <3>1, <3>2 DEF Lose
    <2>8. ASSUME NEW t \in Tabs, SignOut(t)
          PROVE  SigningOut'
      <3>1. tab'[t].phase = "leaving"
        <4> DEFINE s == [phase |-> "leaving", tok |-> mem[t]]
        <4>1. s.phase = "leaving" /\ tab' = [tab EXCEPT ![t] = s]
          BY <2>8 DEF SignOut
        <4> HIDE DEF s
        <4> QED BY <2>0, <4>1, OtherTabs
      <3>2. tab'[t].phase \in {"leaving", "left"}
        BY <3>1
      <3> QED BY <3>2 DEF SigningOut
    <2>9. \A t \in Tabs : ~LeaveArrive(t) /\ ~Leave(t)
      BY <2>0 DEF SigningOut, LeaveArrive, Leave
    <2>10. ASSUME UNCHANGED <<tokens, req, store, tab>>
           PROVE  StoreIsCurrent'
      <3>1. /\ UNCHANGED <<tokens, req>> /\ store' = store
            /\ \A q \in Tabs : Asking(q) \/ Asking(q)' => tab'[q] = tab[q]
        BY <2>10
      <3> QED BY <2>0, <3>1, StoreStays
    <2>11. ASSUME NEW t \in Tabs, Rehydrate(t)
           PROVE  UNCHANGED <<tokens, req, store, tab>>
      BY <2>11 DEF Rehydrate, vars
    <2>12. ASSUME NEW i \in Ids, ExpireAccess(i)
           PROVE  UNCHANGED <<tokens, req, store, tab>>
      BY <2>12 DEF ExpireAccess, vars
    <2>13. CASE Tick /\ UNCHANGED tabVars
      <3>1. UNCHANGED <<tokens, req, store, tab>>
        BY <2>13 DEF Tick, tabVars
      <3> QED BY <2>1, <2>10, <3>1
    <2>14. CASE UNCHANGED allVars
      <3>1. UNCHANGED <<tokens, req, store, tab>>
        BY <2>14 DEF allVars, tabVars, vars
      <3> QED BY <2>1, <2>10, <3>1
    <2>15. ASSUME NEW t \in Tabs, Persist(t)
          PROVE  StoreInv'
      <3>1. restored' = TRUE
        BY <2>15 DEF Persist
      <3> QED BY <3>1 DEF StoreInv, Excused
    <2>16. SigningOut' => StoreInv'
      BY DEF StoreInv, Excused
    <2> QED
      BY <2>1, <2>2, <2>3, <2>4, <2>5, <2>6, <2>7, <2>8, <2>9, <2>10, <2>11, <2>12, <2>13, <2>14,
         <2>16, <2>15
      DEF TabsNext
  <1> QED BY <1>1, <1>2

-----------------------------------------------------------------------------
(* The theorems about a browser's tabs. *)

LEMMA TabsInvariant == TabsSpec => []TabsInv
<1>1. TabsInit => TabsInv
  BY TabsInitInvariant
<1>2. TabsInv /\ [TabsNext]_allVars => TabsInv'
  BY TabsNextInvariant
<1> QED BY <1>1, <1>2, PTL DEF TabsSpec

\* The server's and the browser's states are typed, for any number of tabs.
THEOREM TabsTypes == TabsSpec => []TabsTypeOK
  BY TabsInvariant, PTL DEF TabsInv

\* Whatever a browser's tabs do, the server takes only steps of its own, so that
\* what is proved of the sessions holds of the tabs' session too.
THEOREM TabsLeaveTheServerItsSteps == TabsSpec => [][Next]_vars /\ []IInv
<1>1. TabsInv /\ [TabsNext]_allVars => [Next]_vars
  BY TabsStep DEF TabsInv, IInv
<1>2. TabsInv => IInv
  BY DEF TabsInv
<1> QED BY <1>1, <1>2, TabsInvariant, PTL DEF TabsSpec

\* In a browser that has Web Locks the tabs stay signed in until a user signs out,
\* the session is over, the answer to a rotation is lost or a tab stores its memory
\* over tokens it has not read: refreshOnce never presents a token that another tab
\* has rotated and that its own tab did not put back.
THEOREM TabsStaySignedIn ==
    ASSUME Locks
    PROVE  TabsSpec => []SignedInUntilOver
<1>1. TabsInit => StoreInv
  BY TabsInitInvariant
<1>2. TabsInv /\ StoreInv /\ [TabsNext]_allVars => StoreInv'
  BY StoreNext
<1>3. TabsInv /\ StoreInv => SignedInUntilOver
  <2> SUFFICES ASSUME TabsInv, StoreIsCurrent, store = None
               PROVE  FALSE
    BY DEF StoreInv, Excused, NothingToCome, SignedInUntilOver
  <2> QED BY NoneAssumption DEF TabsInv, TabsTypeOK, TypeOK, StoreIsCurrent
<1> QED BY <1>1, <1>2, <1>3, TabsInvariant, PTL DEF TabsSpec
=============================================================================
