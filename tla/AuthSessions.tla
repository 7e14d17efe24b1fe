---------------------------- MODULE AuthSessions ----------------------------
(***************************************************************************)
(* The gateway's /v1/auth handlers (gateway/auth.py), the operator command *)
(* line (gateway/invitations.py) and the client's login, refresh, logout   *)
(* and credential storage (zipcode-cli/src/main.rs), over InvitationStore. *)
(*                                                                         *)
(* One user runs several client processes at once: launchers, and the      *)
(* `zip-code auth-token` that the coding runtime starts for each request.  *)
(* They share the keyring entry and ~/.zipcode/auth.json without a lock.   *)
(* An access token may be near its expiry at any time, so every load of a  *)
(* session may be followed by a refresh.                                   *)
(***************************************************************************)
EXTENDS InvitationStore

CONSTANTS
  User,       \* the login of the user
  Clients,    \* client processes of the user
  Commands,   \* which of "login", "refresh", "logout" the user runs, and
              \* "invite", "revoke", "tick" when the environment acts
  RingUp,     \* the operating system's credential store works at the start
  MaxFlips,   \* bound: changes of the credential store's availability
  MaxFaults   \* bound: lost answers, failed calls and killed clients

ASSUME AuthSessionsAssumption ==
  /\ User \in Logins
  /\ RingUp \in BOOLEAN
  /\ MaxFlips \in Nat
  /\ MaxFaults \in Nat
  /\ None \notin Tokens

VARIABLES
  ring,       \* the keyring entry: the refresh token of the session in it
  up,         \* the credential store answers
  file,       \* auth.json: the refresh token of the session in it
  client,     \* client[c]: where client c is, and the tokens it holds
  flips,
  faults

clientVars == <<ring, up, file, client, flips, faults>>
authVars   == <<storeVars, clientVars>>

\* held: the session that load_session returned; new: the one received.
Idle == [at |-> "idle", held |-> None, new |-> None]

AuthInit ==
  /\ StoreInit
  /\ ring = None
  /\ up = RingUp
  /\ file = None
  /\ client = [c \in Clients |-> Idle]
  /\ flips = 0
  /\ faults = 0

At(c, l) == client[c].at = l
Go(c, l) == client' = [client EXCEPT ![c].at = l]
Done(c)  == client' = [client EXCEPT ![c] = Idle]

Fault   == faults < MaxFaults /\ faults' = faults + 1
NoFault == UNCHANGED faults

\* load_session: the keyring when it has a session, else the file.
LoadSession == IF up /\ ring # None THEN ring ELSE file

----------------------------------------------------------------------------
(***************************************************************************)
(* login, and exchange in the gateway                                      *)
(***************************************************************************)

\* GitHub's device flow has given the client a GitHub token.
LoginStart(c) ==
  /\ "login" \in Commands
  /\ At(c, "idle")
  /\ Go(c, "exchange")
  /\ UNCHANGED <<storeVars, ring, up, file, flips, faults>>

\* Mutant: any GitHub account is let in.
ExchangeUnchecked(c) ==
  /\ At(c, "exchange")
  /\ Go(c, "issue")
  /\ UNCHANGED <<storeVars, ring, up, file, flips, faults>>

\* exchange: is_allowed is a transaction of its own ...
ExchangeCheck(c) ==
  /\ At(c, "exchange")
  /\ IF Allowed(User) THEN Go(c, "issue") ELSE Done(c)
  /\ UNCHANGED <<storeVars, ring, up, file, flips, faults>>

\* ... and issue_session creates the token in another.
ExchangeIssue(c, t) ==
  /\ At(c, "issue")
  /\ CreateRefreshToken(User, t)
  /\ client' = [client EXCEPT ![c].at = "save", ![c].new = t]
  /\ UNCHANGED <<ring, up, file, flips, faults>>

----------------------------------------------------------------------------
(***************************************************************************)
(* access_token, and refresh in the gateway                                *)
(***************************************************************************)

\* A session whose access token has at most 60 s left.
RefreshLoad(c) ==
  /\ "refresh" \in Commands
  /\ At(c, "idle")
  /\ LoadSession # None
  /\ client' = [client EXCEPT ![c].at = "refresh", ![c].held = LoadSession]
  /\ UNCHANGED <<storeVars, ring, up, file, flips, faults>>

\* Mutant: the session is saved again with its old refresh token.
RefreshKeepsToken(c) ==
  /\ At(c, "refresh")
  /\ \/ \E r \in Tokens :
          /\ Rotate(client[c].held, r)
          /\ client' = [client EXCEPT ![c].at = "save", ![c].new = client[c].held]
     \/ (RotateRefused(client[c].held) \/ RotateMissing(client[c].held)) /\ Done(c)
  /\ UNCHANGED <<ring, up, file, flips, faults>>

\* 200 carries the replacement; 401 ends the command and stores nothing.
Refresh(c) ==
  /\ At(c, "refresh")
  /\ \/ \E r \in Tokens :
          /\ Rotate(client[c].held, r)
          /\ client' = [client EXCEPT ![c].at = "save", ![c].new = r]
     \/ (RotateRefused(client[c].held) \/ RotateMissing(client[c].held)) /\ Done(c)
  /\ UNCHANGED <<ring, up, file, flips, faults>>

----------------------------------------------------------------------------
(***************************************************************************)
(* save_session                                                            *)
(***************************************************************************)

SaveKeyring(c) ==
  /\ At(c, "save")
  /\ IF up THEN ring' = client[c].new /\ Go(c, "unlink")
           ELSE UNCHANGED ring /\ Go(c, "write")
  /\ UNCHANGED <<storeVars, up, file, flips, faults>>

\* The keyring has the session: the fallback file goes.
SaveUnlink(c) ==
  /\ At(c, "unlink")
  /\ file' = None
  /\ Done(c)
  /\ UNCHANGED <<storeVars, ring, up, flips, faults>>

\* The keyring refused: the session goes to the fallback file.
SaveFile(c) ==
  /\ At(c, "write")
  /\ file' = client[c].new
  /\ Done(c)
  /\ UNCHANGED <<storeVars, ring, up, flips, faults>>

----------------------------------------------------------------------------
(***************************************************************************)
(* logout                                                                  *)
(***************************************************************************)

LogoutLoad(c) ==
  /\ "logout" \in Commands
  /\ At(c, "idle")
  /\ client' = [client EXCEPT ![c].at = IF LoadSession = None THEN "forget" ELSE "logout",
                              ![c].held = LoadSession]
  /\ UNCHANGED <<storeVars, ring, up, file, flips, faults>>

\* The answer is ignored, and so is its absence.
LogoutPost(c) ==
  /\ At(c, "logout")
  /\ \/ RevokeRefreshToken(client[c].held) /\ NoFault
     \/ Fault /\ UNCHANGED storeVars
  /\ Go(c, "forget")
  /\ UNCHANGED <<ring, up, file, flips>>

\* delete_session: a keyring that refuses is ignored.
DeleteKeyring(c) ==
  /\ At(c, "forget")
  /\ ring' = IF up THEN None ELSE ring
  /\ Go(c, "erase")
  /\ UNCHANGED <<storeVars, up, file, flips, faults>>

DeleteFile(c) ==
  /\ At(c, "erase")
  /\ file' = None
  /\ Done(c)
  /\ UNCHANGED <<storeVars, ring, up, flips, faults>>

----------------------------------------------------------------------------
(***************************************************************************)
(* The operator, the clock, the credential store, and failures             *)
(***************************************************************************)

Operator ==
  /\ \/ /\ "invite" \in Commands
        /\ \E l \in Logins, e \in (1 .. MaxTime + 1) \cup {None} : Invite(l, e)
     \/ "revoke" \in Commands /\ \E l \in Logins : Revoke(l)
     \/ "tick" \in Commands /\ Tick
  /\ UNCHANGED clientVars

\* The keyring service stops or comes back, or the keyring is (un)locked.
Flip ==
  /\ flips < MaxFlips
  /\ flips' = flips + 1
  /\ up' = ~up
  /\ UNCHANGED <<storeVars, ring, file, client, faults>>

\* The client is killed, or an error ends its command: save_model_catalog
\* fails after exchange, the answer of refresh is lost, a file is not writable.
Stop(c) ==
  /\ ~At(c, "idle")
  /\ Fault
  /\ Done(c)
  /\ UNCHANGED <<storeVars, ring, up, file, flips>>

ClientStep(c) ==
  \/ LoginStart(c) \/ ExchangeCheck(c) \/ (\E t \in Tokens : ExchangeIssue(c, t))
  \/ RefreshLoad(c) \/ Refresh(c)
  \/ SaveKeyring(c) \/ SaveUnlink(c) \/ SaveFile(c)
  \/ LogoutLoad(c) \/ LogoutPost(c) \/ DeleteKeyring(c) \/ DeleteFile(c)

AuthNext ==
  \/ \E c \in Clients : ClientStep(c) \/ Stop(c)
  \/ Operator
  \/ Flip

AuthSpec == AuthInit /\ [][AuthNext]_authVars
----------------------------------------------------------------------------
(***************************************************************************)
(* Properties                                                              *)
(***************************************************************************)

\* Type invariant of the stored sessions and the clients.
AuthTypeOK ==
  /\ StoreTypeOK
  /\ ring \in Tokens \cup {None}
  /\ file \in Tokens \cup {None}
  /\ up \in BOOLEAN
  /\ flips \in 0 .. MaxFlips
  /\ faults \in 0 .. MaxFaults
  /\ client \in [Clients -> [at : {"idle", "exchange", "issue", "refresh", "save",
                                   "unlink", "write", "logout", "forget", "erase"},
                             held : Tokens \cup {None}, new : Tokens \cup {None}]]

\* A client that is about to store a session whose token works.
Carries(c, f) ==
  /\ client[c].at \in {"save", "write", "unlink"}
  /\ Live(client[c].new)
  /\ token[client[c].new].family = f

\* Logins, refreshes and logouts in several processes never lose the login,
\* unless a call fails: while the session that load_session finds lives in the
\* gateway, its stored token can be refreshed, or the process that replaced the
\* token still holds the replacement and is about to store it, or a logout is
\* about to delete it.
SessionNotLost ==
  faults = 0 /\ LoadSession # None /\ SessionPhase[token[LoadSession].family] = "live" =>
    \/ Live(LoadSession)
    \/ \E c \in Clients : Carries(c, token[LoadSession].family)
    \/ \E c \in Clients : client[c].at \in {"forget", "erase"}

\* Only invited logins ever get a session, whatever the operator does between
\* the two transactions of exchange and whichever tokens are presented later.
InvitedOnly ==
  \A t \in Tokens :
    token[t] # None => token[t].login \in Allowlist \/ invitation[token[t].login] # None

\* Revoking an invitation invalidates the refresh sessions of its login: while
\* the invitation is disabled, every refresh token of the login is revoked or
\* expired, so that none works again when the login is invited once more.
RevokedHasNoSession ==
  \A l \in Logins \ Allowlist :
    invitation[l] # None /\ ~invitation[l].enabled
      => \A t \in Tokens : Live(t) => token[t].login # l
=============================================================================
