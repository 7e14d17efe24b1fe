-------------------------- MODULE InvitationStore --------------------------
(***************************************************************************)
(* InvitationStore of gateway/auth.py: invitations and refresh tokens in   *)
(* one SQLite database, used by the gateway's handlers and by the operator *)
(* command line.  Every method is one transaction, hence one action.       *)
(*                                                                         *)
(* A refresh token is identified by its hash.  The session a token belongs *)
(* to (its family) is the token that exchange created, of which it is the  *)
(* replacement of the replacement ...; the database does not record it.    *)
(***************************************************************************)
EXTENDS Integers, FiniteSets

CONSTANTS
  Logins,          \* GitHub logins, normalised
  Tokens,          \* refresh tokens that secrets.token_urlsafe may return
  Allowlist,       \* ZIPCODE_GITHUB_ALLOWLIST
  RefreshSeconds,  \* REFRESH_TOKEN_SECONDS
  MaxTime,         \* bound: the clock stops here
  None             \* absent row, no expiry

ASSUME InvitationStoreAssumption ==
  /\ RefreshSeconds \in Nat \ {0}
  /\ MaxTime \in Nat
  /\ Allowlist \subseteq Logins
  /\ None \notin Nat
  /\ None \notin [enabled : BOOLEAN, expires : Nat \cup {None}]
  /\ None \notin [login : Logins, expires : Nat, revoked : BOOLEAN, family : Tokens]

VARIABLES
  now,         \* time.time()
  invitation,  \* table invitations, by login
  token        \* table refresh_tokens, by token

storeVars == <<now, invitation, token>>

Invitation   == [enabled : BOOLEAN, expires : Nat \cup {None}]
RefreshToken == [login : Logins, expires : Nat, revoked : BOOLEAN, family : Tokens]

StoreInit ==
  /\ now = 0
  /\ invitation = [l \in Logins |-> None]
  /\ token = [t \in Tokens |-> None]

\* _is_invited
Invited(l) ==
  /\ invitation[l] # None
  /\ invitation[l].enabled
  /\ invitation[l].expires # None => invitation[l].expires > now

\* is_allowed
Allowed(l) == l \in Allowlist \/ Invited(l)

\* The row that rotate_refresh_token selects.
Live(t) == token[t] # None /\ ~token[t].revoked /\ token[t].expires > now

\* Mutant: expires_at is not set.
FreshNoExpiry(l, f) ==
  [login |-> l, expires |-> None, revoked |-> FALSE, family |-> f]

\* A row as both inserts write it.
Fresh(l, f) ==
  [login |-> l, expires |-> now + RefreshSeconds, revoked |-> FALSE, family |-> f]

----------------------------------------------------------------------------
\* invite: inserts, or renews and enables, the row.
Invite(l, e) ==
  /\ invitation' = [invitation EXCEPT ![l] = [enabled |-> TRUE, expires |-> e]]
  /\ UNCHANGED <<now, token>>

\* revoke: the invitation and every session of the login.
Revoke(l) ==
  /\ invitation' = [invitation EXCEPT ![l] =
                      IF @ = None THEN None ELSE [@ EXCEPT !.enabled = FALSE]]
  /\ token' = [t \in Tokens |->
                 IF token[t] # None /\ token[t].login = l
                 THEN [token[t] EXCEPT !.revoked = TRUE] ELSE token[t]]
  /\ UNCHANGED now

\* create_refresh_token: the invitation is the caller's business.
CreateRefreshToken(l, t) ==
  /\ token[t] = None
  /\ token' = [token EXCEPT ![t] = Fresh(l, t)]
  /\ UNCHANGED <<now, invitation>>

\* Mutant: the replaced token stays valid.
RotateKeepsOld(t, r) ==
  /\ token[r] = None
  /\ Live(t)
  /\ Allowed(token[t].login)
  /\ token' = [token EXCEPT ![r] = Fresh(token[t].login, token[t].family)]
  /\ UNCHANGED <<now, invitation>>

\* Mutant: the row is selected by its hash alone.
RotateAnyRow(t, r) ==
  /\ token[r] = None
  /\ token[t] # None
  /\ Allowed(token[t].login)
  /\ token' = [token EXCEPT ![t].revoked = TRUE,
                            ![r] = Fresh(token[t].login, token[t].family)]
  /\ UNCHANGED <<now, invitation>>

\* rotate_refresh_token, under BEGIN IMMEDIATE: the token is replaced by r ...
Rotate(t, r) ==
  /\ token[r] = None
  /\ Live(t)
  /\ Allowed(token[t].login)
  /\ token' = [token EXCEPT ![t].revoked = TRUE,
                            ![r] = Fresh(token[t].login, token[t].family)]
  /\ UNCHANGED <<now, invitation>>

\* ... or revoked, because its login is no longer allowed ...
RotateRefused(t) ==
  /\ Live(t)
  /\ ~Allowed(token[t].login)
  /\ token' = [token EXCEPT ![t].revoked = TRUE]
  /\ UNCHANGED <<now, invitation>>

\* ... or no row is found.
RotateMissing(t) == ~Live(t) /\ UNCHANGED storeVars

\* revoke_refresh_token: the time of an earlier revocation is overwritten.
RevokeRefreshToken(t) ==
  /\ token' = IF token[t] = None THEN token ELSE [token EXCEPT ![t].revoked = TRUE]
  /\ UNCHANGED <<now, invitation>>

Tick ==
  /\ now < MaxTime
  /\ now' = now + 1
  /\ UNCHANGED <<invitation, token>>

StoreNext ==
  \/ \E l \in Logins, e \in (1 .. MaxTime + 1) \cup {None} : Invite(l, e)
  \/ \E l \in Logins : Revoke(l)
  \/ \E l \in Logins, t \in Tokens : CreateRefreshToken(l, t)
  \/ \E t, r \in Tokens : Rotate(t, r)
  \/ \E t \in Tokens : RotateRefused(t) \/ RevokeRefreshToken(t)
  \/ Tick

StoreSpec == StoreInit /\ [][StoreNext]_storeVars
----------------------------------------------------------------------------
(***************************************************************************)
(* Properties                                                              *)
(***************************************************************************)

\* Type invariant of the two tables.
StoreTypeOK ==
  /\ now \in Nat
  /\ invitation \in [Logins -> Invitation \cup {None}]
  /\ token \in [Tokens -> RefreshToken \cup {None}]

\* Rotation leaves a session one usable refresh token: however requests that
\* carry old and new tokens of a session interleave, no two are valid at once.
OneLiveTokenPerSession ==
  \A t, u \in Tokens :
    Live(t) /\ Live(u) /\ token[t].family = token[u].family => t = u

\* The session that token f began, seen from outside.  A replacement begins
\* none.
SessionPhase ==
  [f \in Tokens |->
     IF token[f] = None \/ token[f].family # f THEN "none"
     ELSE IF \E t \in Tokens : Live(t) /\ token[t].family = f THEN "live" ELSE "over"]

Life == INSTANCE SessionLife WITH Sessions <- Tokens, phase <- SessionPhase

\* The store keeps the promise of SessionLife: logging out, revoking, expiry
\* and a refused rotation end a session for good, and no replay of one of its
\* tokens, used or not, opens it again.
SessionsStayOver == Life!Spec
=============================================================================
