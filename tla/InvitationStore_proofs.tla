----------------------- MODULE InvitationStore_proofs -----------------------
(***************************************************************************)
(* Proofs about InvitationStore, for every set of logins and tokens, every *)
(* allowlist and every lifetime of a refresh token.                        *)
(***************************************************************************)
EXTENDS InvitationStore, TLAPS

Unrevoked(t) == token[t] # None /\ ~token[t].revoked

\* A replacement belongs to the session of a token that began one.
FamilyBegun ==
  \A t \in Tokens :
    token[t] # None =>
      token[token[t].family] # None /\ token[token[t].family].family = token[t].family

\* Stronger than OneLiveTokenPerSession: expired tokens count too, so that the
\* clock cannot be what keeps two tokens apart.
OneUnrevoked ==
  \A t, u \in Tokens :
    Unrevoked(t) /\ Unrevoked(u) /\ token[t].family = token[u].family => t = u

StoreInv == StoreTypeOK /\ FamilyBegun /\ OneUnrevoked

\* An absent row is no row, and an absent expiry no number.
LEMMA NoneIsNoRow ==
  None \notin Nat /\ None \notin Invitation /\ None \notin RefreshToken
  BY InvitationStoreAssumption DEF Invitation, RefreshToken

LEMMA FreshIsRow ==
  ASSUME StoreTypeOK, NEW l \in Logins, NEW f \in Tokens
  PROVE  /\ Fresh(l, f) \in RefreshToken
         /\ Fresh(l, f) # None
         /\ ~Fresh(l, f).revoked
         /\ Fresh(l, f).family = f
         /\ Fresh(l, f).expires > now
<1>1. now + RefreshSeconds \in Nat /\ now + RefreshSeconds > now
  BY InvitationStoreAssumption DEF StoreTypeOK
<1>2. Fresh(l, f) \in RefreshToken
  BY <1>1 DEF Fresh, RefreshToken
<1> QED
  BY <1>1, <1>2, NoneIsNoRow DEF Fresh

\* Revoking a token changes nothing else about it.
LEMMA RevokedRow ==
  ASSUME NEW r \in RefreshToken
  PROVE  /\ [r EXCEPT !.revoked = TRUE] \in RefreshToken
         /\ [r EXCEPT !.revoked = TRUE].revoked
         /\ [r EXCEPT !.revoked = TRUE].family = r.family
  BY DEF RefreshToken

\* The three kinds of step: no token row changes; some rows are revoked and no
\* other row changes; a row is added, which begins a session or replaces a
\* live token of one.
Revoking ==
  \E S \in SUBSET Tokens :
    /\ \A t \in S : token[t] # None
    /\ token' = [t \in Tokens |->
                   IF t \in S THEN [token[t] EXCEPT !.revoked = TRUE] ELSE token[t]]
    /\ now' = now

Beginning ==
  \E l \in Logins, t \in Tokens :
    /\ token[t] = None
    /\ token' = [token EXCEPT ![t] = Fresh(l, t)]
    /\ now' = now

Replacing ==
  \E t, r \in Tokens :
    /\ token[r] = None
    /\ Live(t)
    /\ token' = [token EXCEPT ![t].revoked = TRUE,
                              ![r] = Fresh(token[t].login, token[t].family)]
    /\ now' = now

Quiet == token' = token /\ (now' = now \/ (now' = now + 1))

LEMMA StepKinds ==
  ASSUME StoreTypeOK, [StoreNext]_storeVars
  PROVE  Quiet \/ Revoking \/ Beginning \/ Replacing
<1>1. ASSUME NEW l \in Logins, NEW e, Invite(l, e) PROVE Quiet
  BY <1>1 DEF Invite, Quiet
<1>2. ASSUME NEW l \in Logins, Revoke(l) PROVE Revoking
  <2> DEFINE S == {t \in Tokens : token[t] # None /\ token[t].login = l}
  <2>1. S \in SUBSET Tokens /\ \A t \in S : token[t] # None
    OBVIOUS
  <2>2. token' = [t \in Tokens |->
                   IF t \in S THEN [token[t] EXCEPT !.revoked = TRUE] ELSE token[t]]
    BY <1>2 DEF Revoke
  <2> QED
    BY <1>2, <2>1, <2>2 DEF Revoke, Revoking
<1>3. ASSUME NEW l \in Logins, NEW t \in Tokens, CreateRefreshToken(l, t) PROVE Beginning
  BY <1>3 DEF CreateRefreshToken, Beginning
<1>4. ASSUME NEW t \in Tokens, NEW r \in Tokens, Rotate(t, r) PROVE Replacing
  BY <1>4 DEF Rotate, Replacing
<1>5. ASSUME NEW t \in Tokens, token[t] # None, now' = now,
             token' = [token EXCEPT ![t].revoked = TRUE]
      PROVE  Revoking
  <2> DEFINE S == {t}
  <2>1. token' = [u \in Tokens |->
                   IF u \in S THEN [token[u] EXCEPT !.revoked = TRUE] ELSE token[u]]
    BY <1>5 DEF StoreTypeOK
  <2>2. S \in SUBSET Tokens /\ \A u \in S : token[u] # None
    BY <1>5
  <2> QED
    BY <1>5, <2>1, <2>2 DEF Revoking
<1>6. ASSUME NEW t \in Tokens, RotateRefused(t) PROVE Revoking
  BY <1>6, <1>5 DEF RotateRefused, Live
<1>7. ASSUME NEW t \in Tokens, RevokeRefreshToken(t) PROVE Quiet \/ Revoking
  BY <1>7, <1>5 DEF RevokeRefreshToken, Quiet
<1>8. CASE Tick
  BY <1>8 DEF Tick, Quiet
<1>9. CASE UNCHANGED storeVars
  BY <1>9 DEF storeVars, Quiet
<1> QED
  BY <1>1, <1>2, <1>3, <1>4, <1>6, <1>7, <1>8, <1>9 DEF StoreNext

LEMMA StoreTypeStep == StoreTypeOK /\ [StoreNext]_storeVars => StoreTypeOK'
<1> SUFFICES ASSUME StoreTypeOK, [StoreNext]_storeVars PROVE StoreTypeOK'
  OBVIOUS
<1>1. now' \in Nat
  BY DEF StoreNext, storeVars, StoreTypeOK, Invite, Revoke, CreateRefreshToken, Rotate,
         RotateRefused, RevokeRefreshToken, Tick
<1>2. invitation' \in [Logins -> Invitation \cup {None}]
  <2>1. ASSUME NEW l \in Logins, NEW e \in (1 .. MaxTime + 1) \cup {None}, Invite(l, e)
        PROVE  invitation' \in [Logins -> Invitation \cup {None}]
    <3>1. [enabled |-> TRUE, expires |-> e] \in Invitation
      BY InvitationStoreAssumption DEF Invitation
    <3> QED
      BY <3>1, <2>1 DEF Invite, StoreTypeOK
  <2>2. ASSUME NEW l \in Logins, Revoke(l)
        PROVE  invitation' \in [Logins -> Invitation \cup {None}]
    <3>1. invitation[l] # None => [invitation[l] EXCEPT !.enabled = FALSE] \in Invitation
      BY DEF StoreTypeOK, Invitation
    <3>2. \/ invitation' = [invitation EXCEPT ![l] = None]
          \/ /\ invitation[l] # None
             /\ invitation' = [invitation EXCEPT ![l] = [invitation[l] EXCEPT !.enabled = FALSE]]
      BY <2>2 DEF Revoke, StoreTypeOK
    <3> QED
      BY <3>1, <3>2 DEF StoreTypeOK
  <2>3. CASE invitation' = invitation
    BY <2>3 DEF StoreTypeOK
  <2> QED
    BY <2>1, <2>2, <2>3 DEF StoreNext, storeVars, CreateRefreshToken, Rotate,
         RotateRefused, RevokeRefreshToken, Tick
<1>3. token' \in [Tokens -> RefreshToken \cup {None}]
  <2>0. Quiet \/ Revoking \/ Beginning \/ Replacing
    BY StepKinds
  <2>1. CASE Quiet
    BY <2>1 DEF Quiet, StoreTypeOK
  <2>2. CASE Revoking
    <3>1. \A t \in Tokens : token[t] # None => [token[t] EXCEPT !.revoked = TRUE] \in RefreshToken
      BY RevokedRow DEF StoreTypeOK
    <3> QED
      BY <2>2, <3>1 DEF Revoking, StoreTypeOK
  <2>3. CASE Beginning
    BY <2>3, FreshIsRow DEF Beginning, StoreTypeOK
  <2>4. CASE Replacing
    <3>1. PICK t \in Tokens, r \in Tokens :
            /\ token[r] = None
            /\ Live(t)
            /\ token' = [token EXCEPT ![t].revoked = TRUE,
                                      ![r] = Fresh(token[t].login, token[t].family)]
      BY <2>4 DEF Replacing
    <3>2. token[t] \in RefreshToken
      BY <3>1 DEF Live, StoreTypeOK
    <3>3. [token[t] EXCEPT !.revoked = TRUE] \in RefreshToken
      BY <3>2, RevokedRow
    <3>4. Fresh(token[t].login, token[t].family) \in RefreshToken
      BY <3>2, FreshIsRow DEF RefreshToken
    <3> QED
      BY <3>1, <3>3, <3>4 DEF StoreTypeOK
  <2> QED
    BY <2>0, <2>1, <2>2, <2>3, <2>4
<1> QED
  BY <1>1, <1>2, <1>3 DEF StoreTypeOK

\* What each token row is after a replacement of t by r.
LEMMA ReplacedRows ==
  ASSUME StoreTypeOK, NEW t \in Tokens, NEW r \in Tokens, token[r] = None, Live(t),
         token' = [token EXCEPT ![t].revoked = TRUE,
                                ![r] = Fresh(token[t].login, token[t].family)]
  PROVE  /\ t # r
         /\ token'[t] # None /\ token'[t].revoked /\ token'[t].family = token[t].family
         /\ token'[r] # None /\ ~token'[r].revoked /\ token'[r].family = token[t].family
         /\ token'[r].expires > now
         /\ \A u \in Tokens \ {t, r} : token'[u] = token[u]
<1>1. t # r /\ token[t] \in RefreshToken
  BY DEF Live, StoreTypeOK
<1>2. token'[t] = [token[t] EXCEPT !.revoked = TRUE]
      /\ token'[r] = Fresh(token[t].login, token[t].family)
      /\ \A u \in Tokens \ {t, r} : token'[u] = token[u]
  BY <1>1 DEF StoreTypeOK
<1>3. token[t].login \in Logins /\ token[t].family \in Tokens
  BY <1>1 DEF RefreshToken
<1>4. token'[t] # None /\ token'[t].revoked /\ token'[t].family = token[t].family
  BY <1>1, <1>2, RevokedRow, NoneIsNoRow
<1>5. /\ token'[r] # None /\ ~token'[r].revoked /\ token'[r].family = token[t].family
      /\ token'[r].expires > now
  BY <1>2, <1>3, FreshIsRow
<1> QED
  BY <1>1, <1>2, <1>4, <1>5

LEMMA RevokedRows ==
  ASSUME StoreTypeOK, NEW S \in SUBSET Tokens, \A t \in S : token[t] # None,
         token' = [t \in Tokens |->
                     IF t \in S THEN [token[t] EXCEPT !.revoked = TRUE] ELSE token[t]]
  PROVE  \A t \in Tokens :
           /\ token'[t] = None <=> token[t] = None
           /\ token[t] # None => /\ token'[t].family = token[t].family
                                 /\ token'[t].expires = token[t].expires
                                 /\ ~token'[t].revoked => token'[t] = token[t]
<1>1. ASSUME NEW t \in S
      PROVE  /\ token'[t] # None
             /\ token'[t].family = token[t].family
             /\ token'[t].expires = token[t].expires
             /\ token'[t].revoked
  <2>1. token[t] \in RefreshToken
    BY DEF StoreTypeOK
  <2>2. token'[t] = [token[t] EXCEPT !.revoked = TRUE]
    OBVIOUS
  <2> QED
    BY <2>1, <2>2, RevokedRow, NoneIsNoRow DEF RefreshToken
<1>2. \A t \in Tokens \ S : token'[t] = token[t]
  OBVIOUS
<1> QED
  BY <1>1, <1>2

LEMMA StoreInvStep == StoreInv /\ [StoreNext]_storeVars => StoreInv'
<1> SUFFICES ASSUME StoreInv, [StoreNext]_storeVars PROVE StoreInv'
  OBVIOUS
<1>t. StoreTypeOK /\ FamilyBegun /\ OneUnrevoked
  BY DEF StoreInv
<1>y. StoreTypeOK'
  BY <1>t, StoreTypeStep
<1>f. \A t \in Tokens : token[t] # None => token[t].family \in Tokens
  BY <1>t DEF StoreTypeOK, RefreshToken
<1>0. Quiet \/ Revoking \/ Beginning \/ Replacing
  BY <1>t, StepKinds
<1>1. CASE Quiet
  BY <1>1, <1>t, <1>y DEF Quiet, StoreInv, FamilyBegun, OneUnrevoked, Unrevoked
<1>2. CASE Revoking
  <2>1. PICK S \in SUBSET Tokens :
          /\ \A t \in S : token[t] # None
          /\ token' = [t \in Tokens |->
                         IF t \in S THEN [token[t] EXCEPT !.revoked = TRUE] ELSE token[t]]
    BY <1>2 DEF Revoking
  <2>2. \A t \in Tokens :
          /\ token'[t] = None <=> token[t] = None
          /\ token[t] # None => /\ token'[t].family = token[t].family
                                /\ ~token'[t].revoked => token'[t] = token[t]
    BY <2>1, <1>t, RevokedRows
  <2>3. FamilyBegun'
    BY <2>2, <1>t, <1>f DEF FamilyBegun
  <2>4. OneUnrevoked'
    BY <2>2, <1>t DEF OneUnrevoked, Unrevoked
  <2> QED
    BY <1>y, <2>3, <2>4 DEF StoreInv
<1>3. CASE Beginning
  <2>1. PICK l \in Logins, b \in Tokens :
          token[b] = None /\ token' = [token EXCEPT ![b] = Fresh(l, b)]
    BY <1>3 DEF Beginning
  <2>2. /\ token'[b] # None /\ token'[b].family = b
        /\ \A u \in Tokens \ {b} : token'[u] = token[u]
    BY <2>1, <1>t, FreshIsRow DEF StoreTypeOK
  <2>3. FamilyBegun'
    BY <2>1, <2>2, <1>t, <1>f DEF FamilyBegun
  <2>4. OneUnrevoked'
    BY <2>1, <2>2, <1>t, <1>f DEF OneUnrevoked, Unrevoked, FamilyBegun
  <2> QED
    BY <1>y, <2>3, <2>4 DEF StoreInv
<1>4. CASE Replacing
  <2>1. PICK t \in Tokens, r \in Tokens :
          /\ token[r] = None
          /\ Live(t)
          /\ token' = [token EXCEPT ![t].revoked = TRUE,
                                    ![r] = Fresh(token[t].login, token[t].family)]
    BY <1>4 DEF Replacing
  <2>2. /\ t # r
        /\ token'[t] # None /\ token'[t].revoked /\ token'[t].family = token[t].family
        /\ token'[r] # None /\ ~token'[r].revoked /\ token'[r].family = token[t].family
        /\ \A u \in Tokens \ {t, r} : token'[u] = token[u]
    BY <2>1, <1>t, ReplacedRows
  <2>3. FamilyBegun'
    <3>1. ASSUME NEW u \in Tokens, token[u] # None
          PROVE  token'[u] # None /\ token'[u].family = token[u].family
      <4>1. u # r
        BY <2>1, <3>1
      <4> QED
        BY <4>1, <3>1, <2>2
    <3>2. ASSUME NEW u \in Tokens, token'[u] # None
          PROVE  \E w \in Tokens : token[w] # None /\ token'[u].family = token[w].family
      <4>1. token[t] # None
        BY <2>1 DEF Live
      <4>2. CASE u = r
        BY <4>1, <4>2, <2>2
      <4>3. CASE u = t
        BY <4>1, <4>3, <2>2
      <4>4. CASE u \in Tokens \ {t, r}
        BY <4>4, <3>2, <2>2
      <4> QED
        BY <4>2, <4>3, <4>4
    <3> SUFFICES ASSUME NEW u \in Tokens, token'[u] # None
                 PROVE  /\ token'[token'[u].family] # None
                        /\ token'[token'[u].family].family = token'[u].family
      BY DEF FamilyBegun
    <3>3. PICK w \in Tokens : token[w] # None /\ token'[u].family = token[w].family
      BY <3>2
    <3>4. token[w].family \in Tokens /\ token[token[w].family] # None
          /\ token[token[w].family].family = token[w].family
      BY <3>3, <1>t, <1>f DEF FamilyBegun
    <3> QED
      BY <3>1, <3>3, <3>4
  <2>4. OneUnrevoked'
    <3>1. Unrevoked(t)
      BY <2>1 DEF Live, Unrevoked
    <3>2. \A u \in Tokens \ {t, r} : Unrevoked(u) => token[u].family # token[t].family
      BY <3>1, <1>t DEF OneUnrevoked
    <3> QED
      BY <3>2, <2>2, <1>t DEF OneUnrevoked, Unrevoked
  <2> QED
    BY <1>y, <2>3, <2>4 DEF StoreInv
<1> QED
  BY <1>0, <1>1, <1>2, <1>3, <1>4

LEMMA StoreInvInit == StoreInit => StoreInv
  BY DEF StoreInit, StoreInv, StoreTypeOK, FamilyBegun, OneUnrevoked, Unrevoked

\* The tables keep their types under every sequence of transactions.
THEOREM StoreTypeCorrect == StoreSpec => []StoreTypeOK
<1>1. StoreInit => StoreTypeOK
  BY StoreInvInit DEF StoreInv
<1> QED
  BY <1>1, StoreTypeStep, PTL DEF StoreSpec

\* Rotation under BEGIN IMMEDIATE makes refresh tokens single-use: a session
\* never has two tokens that work.
THEOREM SingleUse == StoreSpec => []OneLiveTokenPerSession
<1>1. StoreInv => OneLiveTokenPerSession
  BY DEF StoreInv, OneUnrevoked, OneLiveTokenPerSession, Unrevoked, Live
<1> QED
  BY <1>1, StoreInvInit, StoreInvStep, PTL DEF StoreSpec
----------------------------------------------------------------------------
(***************************************************************************)
(* Refinement of SessionLife.                                              *)
(***************************************************************************)

\* Session f has a token that works.
Usable(f) == \E t \in Tokens : Live(t) /\ token[t].family = f

\* Token f began a session.
Begun(f) == token[f] # None /\ token[f].family = f

LEMMA PhaseOf ==
  ASSUME NEW f \in Tokens
  PROVE  /\ ~Begun(f) => SessionPhase[f] = "none"
         /\ Begun(f) /\ Usable(f) => SessionPhase[f] = "live"
         /\ Begun(f) /\ ~Usable(f) => SessionPhase[f] = "over"
  BY DEF SessionPhase, Begun, Usable

LEMMA NextPhaseOf ==
  ASSUME NEW f \in Tokens
  PROVE  /\ ~Begun(f)' => SessionPhase'[f] = "none"
         /\ Begun(f)' /\ Usable(f)' => SessionPhase'[f] = "live"
         /\ Begun(f)' /\ ~Usable(f)' => SessionPhase'[f] = "over"
  BY DEF SessionPhase, Begun, Usable

\* A step that begins no session and revives none closes some of them.
LEMMA ClosingStep ==
  ASSUME \A f \in Tokens : Begun(f)' <=> Begun(f),
         \A f \in Tokens : Begun(f) /\ Usable(f)' => Usable(f)
  PROVE  Life!Next
<1> DEFINE S == {f \in Tokens : Begun(f) /\ Usable(f) /\ ~Usable(f)'}
<1>1. \A f \in S : SessionPhase[f] = "live"
  BY PhaseOf
<1>2. \A f \in Tokens : SessionPhase'[f] = IF f \in S THEN "over" ELSE SessionPhase[f]
  BY PhaseOf, NextPhaseOf
<1>3. SessionPhase' = [f \in Tokens |-> IF f \in S THEN "over" ELSE SessionPhase[f]]
  BY <1>2 DEF SessionPhase
<1>4. Life!Close(S)
  BY <1>1, <1>3 DEF Life!Close
<1> QED
  BY <1>4 DEF Life!Next

LEMMA LifeStep == StoreInv /\ [StoreNext]_storeVars => Life!Next
<1> SUFFICES ASSUME StoreInv, [StoreNext]_storeVars PROVE Life!Next
  OBVIOUS
<1>t. StoreTypeOK /\ FamilyBegun
  BY DEF StoreInv
<1>f. \A t \in Tokens : token[t] # None =>
        token[t].family \in Tokens /\ token[t].expires \in Nat
  BY <1>t DEF StoreTypeOK, RefreshToken
<1>n. now \in Nat
  BY <1>t DEF StoreTypeOK
<1>0. Quiet \/ Revoking \/ Beginning \/ Replacing
  BY <1>t, StepKinds
<1>1. CASE Quiet
  <2>1. \A t \in Tokens : Live(t)' => Live(t)
    BY <1>1, <1>f, <1>n DEF Quiet, Live
  <2>2. \A f \in Tokens : Usable(f)' => Usable(f)
    BY <2>1, <1>1 DEF Quiet, Usable
  <2>3. \A f \in Tokens : Begun(f)' <=> Begun(f)
    BY <1>1 DEF Quiet, Begun
  <2> QED
    BY <2>2, <2>3, ClosingStep
<1>2. CASE Revoking
  <2>1. PICK S \in SUBSET Tokens :
          /\ \A t \in S : token[t] # None
          /\ token' = [t \in Tokens |->
                         IF t \in S THEN [token[t] EXCEPT !.revoked = TRUE] ELSE token[t]]
          /\ now' = now
    BY <1>2 DEF Revoking
  <2>2. \A t \in Tokens :
          /\ token'[t] = None <=> token[t] = None
          /\ token[t] # None => /\ token'[t].family = token[t].family
                                /\ ~token'[t].revoked => token'[t] = token[t]
    BY <2>1, <1>t, RevokedRows
  <2>3. \A t \in Tokens : Live(t)' => Live(t) /\ token'[t] = token[t]
    BY <2>1, <2>2 DEF Live
  <2>4. \A f \in Tokens : Usable(f)' => Usable(f)
    BY <2>3 DEF Usable
  <2>5. \A f \in Tokens : Begun(f)' <=> Begun(f)
    BY <2>2 DEF Begun
  <2> QED
    BY <2>4, <2>5, ClosingStep
<1>3. CASE Beginning
  <2>1. PICK l \in Logins, b \in Tokens :
          token[b] = None /\ token' = [token EXCEPT ![b] = Fresh(l, b)] /\ now' = now
    BY <1>3 DEF Beginning
  <2>2. /\ token'[b] # None /\ ~token'[b].revoked
        /\ token'[b].family = b /\ token'[b].expires > now
        /\ \A u \in Tokens \ {b} : token'[u] = token[u]
    BY <2>1, <1>t, FreshIsRow DEF StoreTypeOK
  <2>3. \A u \in Tokens : token[u] # None => token[u].family # b /\ u # b
    BY <2>1, <1>t DEF FamilyBegun
  <2>4. ~Begun(b) /\ Begun(b)' /\ Usable(b)'
    BY <2>1, <2>2 DEF Begun, Usable, Live
  <2>5. ASSUME NEW f \in Tokens \ {b}
        PROVE  (Begun(f)' <=> Begun(f)) /\ (Usable(f)' <=> Usable(f))
    <3>1. Begun(f)' <=> Begun(f)
      BY <2>2, <2>5 DEF Begun
    <3>2. \A t \in Tokens \ {b} : Live(t)' <=> Live(t)
      BY <2>1, <2>2 DEF Live
    <3>3. ~Live(b)
      BY <2>1 DEF Live
    <3> QED
      BY <3>1, <3>2, <3>3, <2>2, <2>5 DEF Usable
  <2>6. \A f \in Tokens \ {b} : SessionPhase'[f] = SessionPhase[f]
    BY <2>5, PhaseOf, NextPhaseOf
  <2>7. SessionPhase[b] = "none" /\ SessionPhase'[b] = "live"
    BY <2>4, PhaseOf, NextPhaseOf
  <2>8. /\ SessionPhase \in [Tokens -> {"none", "live", "over"}]
        /\ SessionPhase' \in [Tokens -> {"none", "live", "over"}]
    BY DEF SessionPhase
  <2>9. SessionPhase' = [SessionPhase EXCEPT ![b] = "live"]
    BY ONLY <2>6, <2>7, <2>8, b \in Tokens
  <2> QED
    BY <2>7, <2>9 DEF Life!Next, Life!Open
<1>4. CASE Replacing
  <2>1. PICK t \in Tokens, r \in Tokens :
          /\ token[r] = None
          /\ Live(t)
          /\ token' = [token EXCEPT ![t].revoked = TRUE,
                                    ![r] = Fresh(token[t].login, token[t].family)]
          /\ now' = now
    BY <1>4 DEF Replacing
  <2>2. /\ t # r
        /\ token'[t] # None /\ token'[t].revoked /\ token'[t].family = token[t].family
        /\ token'[r] # None /\ token'[r].family = token[t].family
        /\ \A u \in Tokens \ {t, r} : token'[u] = token[u]
    BY <2>1, <1>t, ReplacedRows
  <2>3. token[t] # None /\ token[t].family \in Tokens /\ token[token[t].family] # None
    BY <2>1, <1>t, <1>f DEF Live, FamilyBegun
  <2>4. token[t].family # r
    BY <2>1, <2>3
  <2>5. \A f \in Tokens : Begun(f)' <=> Begun(f)
    <3>1. Begun(t)' <=> Begun(t)
      BY <2>2, <2>3 DEF Begun
    <3>2. ~Begun(r) /\ ~Begun(r)'
      BY <2>1, <2>2, <2>4 DEF Begun
    <3>3. \A f \in Tokens \ {t, r} : Begun(f)' <=> Begun(f)
      BY <2>2 DEF Begun
    <3> QED
      BY <3>1, <3>2, <3>3
  <2>6. \A u \in Tokens \ {t, r} : Live(u)' => Live(u)
    BY <2>1, <2>2 DEF Live
  <2>7. ASSUME NEW f \in Tokens, Usable(f)' PROVE Usable(f)
    <3>1. PICK u \in Tokens : Live(u)' /\ token'[u].family = f
      BY <2>7 DEF Usable
    <3>2. CASE u = r
      BY <3>1, <3>2, <2>1, <2>2 DEF Usable
    <3>3. CASE u # r
      <4>1. u # t
        BY <3>1, <2>2 DEF Live
      <4> QED
        BY <4>1, <3>1, <3>3, <2>2, <2>6 DEF Usable
    <3> QED
      BY <3>2, <3>3
  <2> QED
    BY <2>5, <2>7, ClosingStep
<1> QED
  BY <1>0, <1>1, <1>2, <1>3, <1>4

\* The store implements SessionLife: whatever ends a session ends it for good,
\* for every interleaving of exchanges, rotations, logouts and revocations.
THEOREM StoreImplementsSessionLife == StoreSpec => SessionsStayOver
<1>1. StoreInit => Life!Init
  BY DEF StoreInit, Life!Init, SessionPhase
<1>2. StoreInv /\ [StoreNext]_storeVars => [Life!Next]_SessionPhase
  BY LifeStep
<1> QED
  BY <1>1, <1>2, StoreInvInit, StoreInvStep, PTL DEF StoreSpec, SessionsStayOver, Life!Spec
=============================================================================
