------------------------ MODULE AuthSessions_proofs ------------------------
(***************************************************************************)
(* Proofs about AuthSessions, for every number of client processes, every  *)
(* set of tokens and every mix of commands and failures.                   *)
(***************************************************************************)
EXTENDS AuthSessions, InvitationStore_proofs

ClientState ==
  [at : {"idle", "exchange", "issue", "refresh", "save", "unlink", "write", "logout",
         "forget", "erase"},
   held : Tokens \cup {None}, new : Tokens \cup {None}]

\* Sessions in storage, and in the hands of clients, are tokens.
HeldTokens ==
  /\ ring \in Tokens \cup {None}
  /\ file \in Tokens \cup {None}
  /\ client \in [Clients -> ClientState]
  /\ \A c \in Clients :
       /\ client[c].at \in {"refresh", "logout"} => client[c].held \in Tokens
       /\ client[c].at \in {"save", "write"} => client[c].new \in Tokens

\* The transactions of the store that a step of the composition makes: those
\* of StoreNext, but for the arguments that clients supply.
LEMMA StepIsTransaction ==
  HeldTokens /\ [AuthNext]_authVars => [StoreNext]_storeVars
<1> SUFFICES ASSUME HeldTokens, [AuthNext]_authVars PROVE [StoreNext]_storeVars
  OBVIOUS
<1>u. User \in Logins
  BY AuthSessionsAssumption
<1>1. ASSUME NEW c \in Clients, ClientStep(c) PROVE [StoreNext]_storeVars
  <2>1. ASSUME NEW t \in Tokens, ExchangeIssue(c, t) PROVE StoreNext
    BY <2>1, <1>u DEF ExchangeIssue, StoreNext
  <2>2. CASE Refresh(c)
    <3>1. client[c].held \in Tokens
      BY <2>2 DEF HeldTokens, Refresh, At
    <3> QED
      BY <3>1, <2>2 DEF Refresh, StoreNext, RotateMissing
  <2>3. CASE LogoutPost(c)
    <3>1. client[c].held \in Tokens
      BY <2>3 DEF HeldTokens, LogoutPost, At
    <3> QED
      BY <3>1, <2>3 DEF LogoutPost, StoreNext
  <2>4. CASE UNCHANGED storeVars
    BY <2>4
  <2> QED
    BY <1>1, <2>1, <2>2, <2>3, <2>4
       DEF ClientStep, LoginStart, ExchangeCheck, RefreshLoad, SaveKeyring, SaveUnlink,
           SaveFile, LogoutLoad, DeleteKeyring, DeleteFile
<1>2. CASE Operator
  BY <1>2 DEF Operator, StoreNext
<1>3. ASSUME NEW c \in Clients, Stop(c) PROVE [StoreNext]_storeVars
  BY <1>3 DEF Stop
<1>4. CASE Flip
  BY <1>4 DEF Flip
<1>5. CASE UNCHANGED authVars
  BY <1>5 DEF authVars
<1> QED
  BY <1>1, <1>2, <1>3, <1>4, <1>5 DEF AuthNext

LEMMA HeldTokensInit == AuthInit => HeldTokens
  BY DEF AuthInit, HeldTokens, Idle, ClientState

\* A client that moves on keeps well-typed tokens.
LEMMA ClientMoves ==
  ASSUME HeldTokens, NEW c \in Clients, NEW x \in ClientState,
         client' = [client EXCEPT ![c] = x],
         x.at \in {"refresh", "logout"} => x.held \in Tokens,
         x.at \in {"save", "write"} => x.new \in Tokens,
         ring' \in Tokens \cup {None}, file' \in Tokens \cup {None}
  PROVE  HeldTokens'
  BY DEF HeldTokens

LEMMA HeldTokensStep == HeldTokens /\ [AuthNext]_authVars => HeldTokens'
<1> SUFFICES ASSUME HeldTokens, [AuthNext]_authVars PROVE HeldTokens'
  OBVIOUS
<1>i. Idle \in ClientState /\ Idle.at = "idle"
  BY DEF Idle, ClientState
<1>s. ring \in Tokens \cup {None} /\ file \in Tokens \cup {None} /\ LoadSession \in Tokens \cup {None}
  BY DEF HeldTokens, LoadSession
<1>1. ASSUME NEW c \in Clients, ClientStep(c) PROVE HeldTokens'
  <2>c. client[c] \in ClientState
    BY DEF HeldTokens
  <2>d. ASSUME Done(c), ring' \in Tokens \cup {None}, file' \in Tokens \cup {None}
        PROVE  HeldTokens'
    BY <2>d, <1>i, ClientMoves DEF Done
  <2>g. ASSUME NEW l \in {"exchange", "issue", "unlink", "forget", "erase"}, Go(c, l),
               ring' \in Tokens \cup {None}, file' \in Tokens \cup {None}
        PROVE  HeldTokens'
    <3>1. client' = [client EXCEPT ![c] = [client[c] EXCEPT !.at = l]]
      BY <2>g DEF Go, HeldTokens
    <3>2. [client[c] EXCEPT !.at = l] \in ClientState /\ [client[c] EXCEPT !.at = l].at = l
      BY <2>c DEF ClientState
    <3> QED
      BY <3>1, <3>2, <2>g, ClientMoves
  <2>n. ASSUME NEW t \in Tokens, UNCHANGED <<ring, file>>,
               client' = [client EXCEPT ![c].at = "save", ![c].new = t]
        PROVE  HeldTokens'
    <3>1. client' = [client EXCEPT ![c] = [client[c] EXCEPT !.at = "save", !.new = t]]
      BY <2>n DEF HeldTokens
    <3>2. /\ [client[c] EXCEPT !.at = "save", !.new = t] \in ClientState
          /\ [client[c] EXCEPT !.at = "save", !.new = t].at = "save"
          /\ [client[c] EXCEPT !.at = "save", !.new = t].new = t
      BY <2>c DEF ClientState
    <3> QED
      BY <3>1, <3>2, <2>n, <1>s, ClientMoves
  <2>h. ASSUME NEW l \in {"refresh", "logout", "forget"}, l # "forget" => LoadSession # None,
               UNCHANGED <<ring, file>>,
               client' = [client EXCEPT ![c].at = l, ![c].held = LoadSession]
        PROVE  HeldTokens'
    <3>1. client' = [client EXCEPT ![c] = [client[c] EXCEPT !.at = l, !.held = LoadSession]]
      BY <2>h DEF HeldTokens
    <3>2. /\ [client[c] EXCEPT !.at = l, !.held = LoadSession] \in ClientState
          /\ [client[c] EXCEPT !.at = l, !.held = LoadSession].at = l
          /\ [client[c] EXCEPT !.at = l, !.held = LoadSession].held = LoadSession
      BY <2>c, <1>s DEF ClientState
    <3> QED
      BY <3>1, <3>2, <2>h, <1>s, ClientMoves
  <2>1. CASE LoginStart(c) \/ ExchangeCheck(c)
    BY <2>1, <2>g, <2>d, <1>s DEF LoginStart, ExchangeCheck
  <2>2. ASSUME NEW t \in Tokens, ExchangeIssue(c, t) PROVE HeldTokens'
    BY <2>2, <2>n DEF ExchangeIssue
  <2>3. CASE RefreshLoad(c)
    BY <2>3, <2>h DEF RefreshLoad
  <2>4. CASE Refresh(c)
    BY <2>4, <2>n, <2>d, <1>s DEF Refresh
  <2>5. CASE SaveKeyring(c)
    <3>1. client[c].new \in Tokens
      BY <2>5 DEF SaveKeyring, At, HeldTokens
    <3>2. CASE Go(c, "unlink") /\ ring' = client[c].new
      BY <3>1, <3>2, <2>5, <2>g, <1>s DEF SaveKeyring
    <3>3. CASE Go(c, "write") /\ UNCHANGED ring
      <4>1. client' = [client EXCEPT ![c] = [client[c] EXCEPT !.at = "write"]]
        BY <3>3 DEF Go, HeldTokens
      <4>2. /\ [client[c] EXCEPT !.at = "write"] \in ClientState
            /\ [client[c] EXCEPT !.at = "write"].at = "write"
            /\ [client[c] EXCEPT !.at = "write"].new = client[c].new
        BY <2>c DEF ClientState
      <4> QED
        BY <4>1, <4>2, <3>1, <3>3, <2>5, <1>s, ClientMoves DEF SaveKeyring
    <3> QED
      BY <3>2, <3>3, <2>5 DEF SaveKeyring
  <2>6. CASE SaveUnlink(c)
    BY <2>6, <2>d, <1>s DEF SaveUnlink
  <2>7. CASE SaveFile(c)
    <3>1. client[c].new \in Tokens
      BY <2>7 DEF SaveFile, At, HeldTokens
    <3> QED
      BY <3>1, <2>7, <2>d, <1>s DEF SaveFile
  <2>8. CASE LogoutLoad(c)
    BY <2>8, <2>h DEF LogoutLoad
  <2>9. CASE LogoutPost(c)
    BY <2>9, <2>g, <1>s DEF LogoutPost
  <2>10. CASE DeleteKeyring(c)
    BY <2>10, <2>g, <1>s DEF DeleteKeyring
  <2>11. CASE DeleteFile(c)
    BY <2>11, <2>d, <1>s DEF DeleteFile
  <2> QED
    BY <1>1, <2>1, <2>2, <2>3, <2>4, <2>5, <2>6, <2>7, <2>8, <2>9, <2>10, <2>11
       DEF ClientStep
<1>2. CASE Operator
  BY <1>2 DEF Operator, clientVars, HeldTokens
<1>3. ASSUME NEW c \in Clients, Stop(c) PROVE HeldTokens'
  BY <1>3, <1>i, <1>s, ClientMoves DEF Stop, Done
<1>4. CASE Flip
  BY <1>4 DEF Flip, HeldTokens
<1>5. CASE UNCHANGED authVars
  BY <1>5 DEF authVars, clientVars, HeldTokens
<1> QED
  BY <1>1, <1>2, <1>3, <1>4, <1>5 DEF AuthNext

\* Whatever clients, handlers and the operator do, the database sees one of
\* the store's transactions at a time, so what is proved of the store holds of
\* the whole system.
THEOREM ServiceImplementsStore == AuthSpec => StoreSpec
<1>1. AuthInit => StoreInit
  BY DEF AuthInit
<1> QED
  BY <1>1, HeldTokensInit, HeldTokensStep, StepIsTransaction, PTL DEF AuthSpec, StoreSpec

\* The credential store's availability and the bounds on what goes wrong.
Environment ==
  /\ up \in BOOLEAN
  /\ flips \in 0 .. MaxFlips
  /\ faults \in 0 .. MaxFaults

LEMMA EnvironmentStep == Environment /\ [AuthNext]_authVars => Environment'
<1> SUFFICES ASSUME Environment, [AuthNext]_authVars PROVE Environment'
  OBVIOUS
<1>n. MaxFlips \in Nat /\ MaxFaults \in Nat
  BY AuthSessionsAssumption
<1>1. ASSUME Fault PROVE faults' \in 0 .. MaxFaults
  BY <1>1, <1>n DEF Fault, Environment
<1>2. ASSUME NEW c \in Clients, ClientStep(c) PROVE Environment'
  <2>1. UNCHANGED <<up, flips>>
    BY <1>2 DEF ClientStep, LoginStart, ExchangeCheck, ExchangeIssue, RefreshLoad, Refresh,
         SaveKeyring, SaveUnlink, SaveFile, LogoutLoad, LogoutPost, DeleteKeyring, DeleteFile
  <2>2. Fault \/ faults' = faults
    BY <1>2 DEF ClientStep, LoginStart, ExchangeCheck, ExchangeIssue, RefreshLoad, Refresh,
         SaveKeyring, SaveUnlink, SaveFile, LogoutLoad, LogoutPost, DeleteKeyring, DeleteFile,
         NoFault
  <2> QED
    BY <2>1, <2>2, <1>1 DEF Environment
<1>3. ASSUME NEW c \in Clients, Stop(c) PROVE Environment'
  BY <1>3, <1>1 DEF Stop, Environment
<1>4. CASE Flip
  <2>1. flips' \in 0 .. MaxFlips
    BY <1>4, <1>n DEF Flip, Environment
  <2>2. up' \in BOOLEAN /\ faults' = faults
    BY <1>4 DEF Flip
  <2> QED
    BY <2>1, <2>2 DEF Environment
<1>5. CASE Operator \/ UNCHANGED authVars
  BY <1>5 DEF Operator, authVars, clientVars, Environment
<1> QED
  BY <1>2, <1>3, <1>4, <1>5 DEF AuthNext

\* Tables, stored sessions and the tokens in the hands of clients are well
\* typed for any number of processes: a client never presents or saves
\* anything but a token.
THEOREM AuthTypeCorrect == AuthSpec => []AuthTypeOK
<1>1. AuthInit => Environment
  BY AuthSessionsAssumption DEF AuthInit, Environment
<1>2. StoreTypeOK /\ HeldTokens /\ Environment => AuthTypeOK
  BY DEF HeldTokens, Environment, ClientState, AuthTypeOK
<1>3. AuthSpec => []StoreTypeOK
  BY ServiceImplementsStore, StoreTypeCorrect, PTL
<1>4. AuthSpec => [][AuthNext]_authVars /\ AuthInit
  BY DEF AuthSpec
<1> QED
  BY <1>1, <1>2, <1>3, <1>4, HeldTokensInit, HeldTokensStep, EnvironmentStep, PTL

\* Refresh tokens are single-use in the composed system.
THEOREM ServiceSingleUse == AuthSpec => []OneLiveTokenPerSession
  BY ServiceImplementsStore, SingleUse, PTL

\* A session that ended is never opened again by any client.
THEOREM ServiceSessionsStayOver == AuthSpec => SessionsStayOver
  BY ServiceImplementsStore, StoreImplementsSessionLife, PTL

----------------------------------------------------------------------------
(***************************************************************************)
(* Only invited logins get sessions.                                       *)
(***************************************************************************)

Known(l) == l \in Allowlist \/ invitation[l] # None

\* An exchange that passed is_allowed found an invitation, and rows of the
\* table are never deleted, so it is still there when the token is created.
InvitedInv ==
  /\ InvitedOnly
  /\ \A c \in Clients : client[c].at = "issue" => Known(User)

\* Rows of the table invitations are never deleted.
LEMMA RowsRemain ==
  StoreTypeOK /\ [StoreNext]_storeVars => \A l \in Logins : Known(l) => Known(l)'
<1> SUFFICES ASSUME StoreTypeOK, [StoreNext]_storeVars, NEW l \in Logins, Known(l)
             PROVE  Known(l)'
  OBVIOUS
<1>1. ASSUME NEW k \in Logins, NEW e \in (1 .. MaxTime + 1) \cup {None}, Invite(k, e)
      PROVE  Known(l)'
  <2>1. [enabled |-> TRUE, expires |-> e] # None
    <3>1. [enabled |-> TRUE, expires |-> e] \in Invitation
      BY InvitationStoreAssumption DEF Invitation
    <3> QED
      BY <3>1, NoneIsNoRow
  <2> QED
    BY <1>1, <2>1 DEF Invite, Known, StoreTypeOK
<1>2. ASSUME NEW k \in Logins, Revoke(k) PROVE Known(l)'
  <2>1. invitation[k] # None => [invitation[k] EXCEPT !.enabled = FALSE] # None
    <3>1. invitation[k] # None => [invitation[k] EXCEPT !.enabled = FALSE] \in Invitation
      BY DEF StoreTypeOK, Invitation
    <3> QED
      BY <3>1, NoneIsNoRow
  <2>2. \/ invitation[k] = None /\ invitation' = [invitation EXCEPT ![k] = None]
        \/ /\ invitation[k] # None
           /\ invitation' = [invitation EXCEPT ![k] = [invitation[k] EXCEPT !.enabled = FALSE]]
    BY <1>2 DEF Revoke, StoreTypeOK
  <2> QED
    BY <2>1, <2>2 DEF Known, StoreTypeOK
<1>3. CASE UNCHANGED invitation
  BY <1>3 DEF Known
<1> QED
  BY <1>1, <1>2, <1>3 DEF StoreNext, storeVars, CreateRefreshToken, Rotate,
     RotateRefused, RevokeRefreshToken, Tick

\* A token row keeps its login; a new one has the login of a live token, or is
\* the user's.
LEMMA LoginOfRow ==
  ASSUME StoreTypeOK, HeldTokens, [AuthNext]_authVars, NEW t \in Tokens, token'[t] # None
  PROVE  \/ \E u \in Tokens : token[u] # None /\ token'[t].login = token[u].login
         \/ token'[t].login = User /\ \E c \in Clients : client[c].at = "issue"
<1>r. \A u \in Tokens : token[u] # None => token[u] \in RefreshToken
  BY DEF StoreTypeOK
<1>1. ASSUME NEW c \in Clients, NEW b \in Tokens, ExchangeIssue(c, b)
      PROVE  \/ token'[t] = token[t]
             \/ token'[t].login = User /\ client[c].at = "issue"
  BY <1>1 DEF ExchangeIssue, At, CreateRefreshToken, Fresh, StoreTypeOK
<1>2. ASSUME NEW u \in Tokens, NEW r \in Tokens, Rotate(u, r)
      PROVE  \E w \in Tokens : token[w] # None /\ token'[t].login = token[w].login
  <2>1. token[u] # None /\ token[u] \in RefreshToken /\ u # r
    BY <1>2, <1>r DEF Rotate, Live
  <2>2. token'[r] = Fresh(token[u].login, token[u].family)
        /\ token'[u] = [token[u] EXCEPT !.revoked = TRUE]
        /\ \A w \in Tokens \ {u, r} : token'[w] = token[w]
    BY <1>2, <2>1 DEF Rotate, StoreTypeOK
  <2>3. CASE t = r
    BY <2>1, <2>2, <2>3 DEF Fresh
  <2>4. CASE t = u
    BY <2>1, <2>2, <2>4 DEF RefreshToken
  <2>5. CASE t \in Tokens \ {u, r}
    BY <2>2, <2>5
  <2> QED
    BY <2>3, <2>4, <2>5
<1>3. ASSUME token[t] # None, token'[t] = [token[t] EXCEPT !.revoked = TRUE]
      PROVE  token'[t].login = token[t].login
  BY <1>3, <1>r DEF RefreshToken
<1>4. ASSUME NEW u \in Tokens, RotateRefused(u)
      PROVE  token[t] # None /\ token'[t].login = token[t].login
  <2>1. token[u] # None
    BY <1>4 DEF RotateRefused, Live
  <2>2. \/ token'[t] = token[t]
        \/ t = u /\ token'[t] = [token[t] EXCEPT !.revoked = TRUE]
    BY <1>4 DEF RotateRefused, StoreTypeOK
  <2> QED
    BY <2>1, <2>2, <1>3
<1>5. ASSUME NEW u \in Tokens, RevokeRefreshToken(u)
      PROVE  token[t] # None /\ token'[t].login = token[t].login
  <2>1. \/ token'[t] = token[t]
        \/ t = u /\ token[t] # None /\ token'[t] = [token[t] EXCEPT !.revoked = TRUE]
    BY <1>5 DEF RevokeRefreshToken, StoreTypeOK
  <2> QED
    BY <2>1, <1>3
<1>6. ASSUME NEW l \in Logins, Revoke(l)
      PROVE  token[t] # None /\ token'[t].login = token[t].login
  <2>1. \/ token'[t] = token[t]
        \/ token[t] # None /\ token'[t] = [token[t] EXCEPT !.revoked = TRUE]
    BY <1>6 DEF Revoke
  <2> QED
    BY <2>1, <1>3
<1>7. CASE token' = token
  BY <1>7
<1>8. ASSUME NEW c \in Clients, ClientStep(c), token' # token
      PROVE  (\E b \in Tokens : ExchangeIssue(c, b)) \/ Refresh(c) \/ LogoutPost(c)
  BY <1>8 DEF ClientStep, storeVars, LoginStart, ExchangeCheck, RefreshLoad, SaveKeyring,
              SaveUnlink, SaveFile, LogoutLoad, DeleteKeyring, DeleteFile
<1>9. ASSUME NEW c \in Clients, Refresh(c) \/ LogoutPost(c)
      PROVE  \/ \E r \in Tokens : Rotate(client[c].held, r)
             \/ RotateRefused(client[c].held)
             \/ RevokeRefreshToken(client[c].held)
             \/ token' = token
  BY <1>9 DEF Refresh, LogoutPost, RotateMissing, storeVars
<1>10. ASSUME NEW c \in Clients, Refresh(c) \/ LogoutPost(c) PROVE client[c].held \in Tokens
  BY <1>10 DEF Refresh, LogoutPost, HeldTokens, At
<1>11. \/ \E c \in Clients : ClientStep(c)
       \/ \E l \in Logins : Revoke(l)
       \/ token' = token
  BY DEF AuthNext, authVars, storeVars, Operator, Invite, Tick, Stop, Flip
<1> QED
  BY <1>1, <1>2, <1>4, <1>5, <1>6, <1>7, <1>8, <1>9, <1>10, <1>11

LEMMA InvitedStep ==
  StoreTypeOK /\ HeldTokens /\ InvitedInv /\ [AuthNext]_authVars => InvitedInv'
<1> SUFFICES ASSUME StoreTypeOK, HeldTokens, InvitedInv, [AuthNext]_authVars
             PROVE  InvitedInv'
  OBVIOUS
<1>u. User \in Logins
  BY AuthSessionsAssumption
<1>k. \A l \in Logins : Known(l) => Known(l)'
  BY RowsRemain, StepIsTransaction
<1>l. \A t \in Tokens : token[t] # None => token[t].login \in Logins /\ Known(token[t].login)
  BY DEF InvitedInv, InvitedOnly, StoreTypeOK, RefreshToken, Known
<1>1. InvitedOnly'
  <2> SUFFICES ASSUME NEW t \in Tokens, token'[t] # None
               PROVE  token'[t].login \in Allowlist \/ invitation'[token'[t].login] # None
    BY DEF InvitedOnly
  <2>1. CASE \E u \in Tokens : token[u] # None /\ token'[t].login = token[u].login
    BY <2>1, <1>l, <1>k DEF Known
  <2>2. CASE token'[t].login = User /\ \E c \in Clients : client[c].at = "issue"
    BY <2>2, <1>u, <1>k DEF InvitedInv, Known
  <2> QED
    BY <2>1, <2>2, LoginOfRow
<1>2. ASSUME NEW c \in Clients, client'[c].at = "issue" PROVE Known(User)'
  <2>1. client[c].at = "issue" \/ (\E d \in Clients : ExchangeCheck(d) /\ Allowed(User))
    <3>c. client \in [Clients -> ClientState]
      BY DEF HeldTokens
    <3>1. ASSUME NEW d \in Clients, ExchangeCheck(d)
          PROVE  client[c].at = "issue" \/ Allowed(User)
      BY <3>1, <1>2, <3>c DEF ExchangeCheck, Done, Idle
    <3>2. ASSUME NEW d \in Clients, ClientStep(d), ~ExchangeCheck(d)
          PROVE  client[c].at = "issue"
      <4>1. \/ \E l \in {"exchange", "unlink", "write", "forget", "erase"} : Go(d, l)
            \/ \E t : client' = [client EXCEPT ![d].at = "save", ![d].new = t]
            \/ \E l \in {"refresh", "logout", "forget"} :
                 client' = [client EXCEPT ![d].at = l, ![d].held = LoadSession]
            \/ Done(d)
        BY <3>2 DEF ClientStep, LoginStart, ExchangeIssue, RefreshLoad, Refresh,
             SaveKeyring, SaveUnlink, SaveFile, LogoutLoad, LogoutPost, DeleteKeyring,
             DeleteFile
      <4> QED
        BY <4>1, <1>2, <3>c DEF Go, Done, Idle, ClientState
    <3>3. ASSUME NEW d \in Clients, Stop(d) PROVE client[c].at = "issue"
      BY <3>3, <1>2, <3>c DEF Stop, Done, Idle
    <3>4. CASE UNCHANGED client
      BY <3>4, <1>2
    <3> QED
      BY <3>1, <3>2, <3>3, <3>4 DEF AuthNext, authVars, clientVars, Operator, Flip
  <2>2. Known(User)
    BY <2>1 DEF InvitedInv, Allowed, Invited, Known
  <2> QED
    BY <2>2, <1>k, <1>u
<1> QED
  BY <1>1, <1>2 DEF InvitedInv, Known

\* The service accepts only invited logins, although exchange checks the
\* invitation in one transaction and creates the session in another.
THEOREM OnlyInvited == AuthSpec => []InvitedOnly
<1>1. AuthInit => InvitedInv
  BY DEF AuthInit, StoreInit, InvitedInv, InvitedOnly, Idle
<1>2. InvitedInv => InvitedOnly
  BY DEF InvitedInv
<1>3. AuthSpec => []StoreTypeOK
  BY ServiceImplementsStore, StoreTypeCorrect, PTL
<1>4. AuthSpec => [][AuthNext]_authVars /\ AuthInit
  BY DEF AuthSpec
<1> QED
  BY <1>1, <1>2, <1>3, <1>4, HeldTokensInit, HeldTokensStep, InvitedStep, PTL
----------------------------------------------------------------------------
(***************************************************************************)
(* The login is not lost.                                                  *)
(*                                                                         *)
(* The keyring may come up, and break down, but not come back after that.  *)
(* Then a session that some process saved where it is no longer looked for *)
(* is never found again in place of a newer one.                           *)
(***************************************************************************)

Saving(c)   == client[c].at \in {"save", "write"}
Presents(c) == client[c].at \in {"refresh", "logout"}

\* x is the last token of its session: no other token of the session works.
Newest(x) ==
  \A t \in Tokens : Live(t) /\ token[t].family = token[x].family => t = x

\* Tokens in storage and on their way to or from it have a row in the table.
RowsExist ==
  /\ ring # None => token[ring] # None
  /\ file # None => token[file] # None
  /\ \A c \in Clients : /\ Presents(c) => token[client[c].held] # None
                        /\ Saving(c) => token[client[c].new] # None

\* What a process has received and not saved is known to it alone, so nobody
\* can have replaced it.
Unshared(c) ==
  /\ Newest(client[c].new)
  /\ client[c].new # ring /\ client[c].new # file
  /\ \A d \in Clients : Presents(d) => client[d].held # client[c].new
  /\ \A d \in Clients \ {c} : Saving(d) => client[d].new # client[c].new

UnsharedOK == \A c \in Clients : Saving(c) => Unshared(c)

\* Until the keyring's availability changes, one of the two places is unused.
OnePlace ==
  /\ flips = 0 /\ up => file = None /\ \A c \in Clients : client[c].at # "write"
  /\ flips = 0 /\ ~up => ring = None
  /\ flips = 0 => up = RingUp
  /\ flips = 1 => up = ~RingUp

\* The token of x's session that works, if any, is x or is held by a process
\* that is about to save it.
Kept(x, S) ==
  \A t \in Tokens :
    Live(t) /\ token[t].family = token[x].family =>
      t = x \/ \E c \in Clients : client[c].at \in S /\ client[c].new = t

RingOK == up /\ ring # None => Kept(ring, {"save"})

FileOK ==
  file # None => \/ Kept(file, {"save", "write", "unlink"})
                 \/ \E c \in Clients : client[c].at = "erase"

LoginInv ==
  /\ RowsExist
  /\ UnsharedOK
  /\ OnePlace
  /\ faults = 0 => RingOK /\ FileOK

\* Rows stay, sessions keep their tokens, and no token works again.
Ages(S) ==
  \A t \in S : /\ token[t] # None => token'[t] # None /\ token'[t].family = token[t].family
               /\ Live(t)' => Live(t)

LEMMA StoreAges ==
  ASSUME StoreTypeOK,
         \/ \E l \in Logins, e \in (1 .. MaxTime + 1) \cup {None} : Invite(l, e)
         \/ \E l \in Logins : Revoke(l)
         \/ \E t \in Tokens : RotateRefused(t) \/ RotateMissing(t) \/ RevokeRefreshToken(t)
         \/ Tick
         \/ UNCHANGED storeVars
  PROVE  Ages(Tokens)
<1>n. now \in Nat /\ \A t \in Tokens : token[t] # None => token[t].expires \in Nat
  BY DEF StoreTypeOK, RefreshToken
<1>q. ASSUME token' = token, now' = now \/ now' = now + 1 PROVE Ages(Tokens)
  BY <1>q, <1>n DEF Ages, Live
<1>r. ASSUME NEW S \in SUBSET Tokens, \A t \in S : token[t] # None, now' = now,
             token' = [t \in Tokens |->
                         IF t \in S THEN [token[t] EXCEPT !.revoked = TRUE] ELSE token[t]]
      PROVE  Ages(Tokens)
  <2>1. \A t \in Tokens :
           /\ token'[t] = None <=> token[t] = None
           /\ token[t] # None => /\ token'[t].family = token[t].family
                                 /\ ~token'[t].revoked => token'[t] = token[t]
    BY <1>r, RevokedRows
  <2> QED
    BY <2>1, <1>r DEF Ages, Live
<1>1. ASSUME NEW l \in Logins, NEW e, Invite(l, e) PROVE Ages(Tokens)
  BY <1>1, <1>q DEF Invite
<1>2. ASSUME NEW l \in Logins, Revoke(l) PROVE Ages(Tokens)
  <2> DEFINE S == {t \in Tokens : token[t] # None /\ token[t].login = l}
  <2>1. token' = [t \in Tokens |->
                   IF t \in S THEN [token[t] EXCEPT !.revoked = TRUE] ELSE token[t]]
    BY <1>2 DEF Revoke
  <2>2. now' = now /\ S \in SUBSET Tokens /\ \A t \in S : token[t] # None
    BY <1>2 DEF Revoke
  <2> HIDE DEF S
  <2> QED
    BY <2>1, <2>2, <1>r
<1>3. ASSUME NEW t \in Tokens, token[t] # None, now' = now,
             token' = [token EXCEPT ![t].revoked = TRUE]
      PROVE  Ages(Tokens)
  <2>1. token' = [u \in Tokens |->
                   IF u \in {t} THEN [token[u] EXCEPT !.revoked = TRUE] ELSE token[u]]
    BY <1>3 DEF StoreTypeOK
  <2> QED
    BY <2>1, <1>3, <1>r
<1>4. ASSUME NEW t \in Tokens, RotateRefused(t) PROVE Ages(Tokens)
  BY <1>4, <1>3 DEF RotateRefused, Live
<1>5. ASSUME NEW t \in Tokens, RevokeRefreshToken(t) PROVE Ages(Tokens)
  BY <1>5, <1>3, <1>q DEF RevokeRefreshToken
<1>6. CASE Tick
  BY <1>6, <1>q DEF Tick
<1>7. CASE UNCHANGED storeVars
  BY <1>7, <1>q DEF storeVars
<1> QED
  BY <1>1, <1>2, <1>4, <1>5, <1>6, <1>7 DEF RotateMissing

\* Time, and the ends of sessions, take nothing from the inventory.
LEMMA Fades ==
  ASSUME Ages(Tokens), NEW x \in Tokens, token[x] # None
  PROVE  /\ Newest(x) => Newest(x)'
         /\ \A t \in Tokens : Live(t)' /\ token'[t].family = token'[x].family
                                => Live(t) /\ token[t].family = token[x].family
<1>1. \A t \in Tokens : Live(t)' /\ token'[t].family = token'[x].family
                          => Live(t) /\ token[t].family = token[x].family
  BY DEF Ages, Live
<1> QED
  BY <1>1 DEF Newest

\* How the clients move.
LEMMA GoFacts ==
  ASSUME HeldTokens, NEW c \in Clients, NEW l, Go(c, l)
  PROVE  /\ client'[c].at = l /\ client'[c].new = client[c].new
         /\ client'[c].held = client[c].held
         /\ \A d \in Clients \ {c} : client'[d] = client[d]
  BY DEF Go, HeldTokens, ClientState

LEMMA DoneFacts ==
  ASSUME HeldTokens, NEW c \in Clients, Done(c)
  PROVE  /\ client'[c].at = "idle"
         /\ \A d \in Clients \ {c} : client'[d] = client[d]
  BY DEF Done, Idle, HeldTokens

LEMMA LoadFacts ==
  ASSUME HeldTokens, NEW c \in Clients, NEW l,
         client' = [client EXCEPT ![c].at = l, ![c].held = LoadSession]
  PROVE  /\ client'[c].at = l /\ client'[c].held = LoadSession
         /\ \A d \in Clients \ {c} : client'[d] = client[d]
  BY DEF HeldTokens, ClientState

LEMMA ReceiveFacts ==
  ASSUME HeldTokens, NEW c \in Clients, NEW t,
         client' = [client EXCEPT ![c].at = "save", ![c].new = t]
  PROVE  /\ client'[c].at = "save" /\ client'[c].new = t
         /\ \A d \in Clients \ {c} : client'[d] = client[d]
  BY DEF HeldTokens, ClientState

\* Steps that neither save nor delete a session, nor receive one.
Calm ==
  /\ Ages(Tokens)
  /\ UNCHANGED <<ring, file, up, flips>>
  /\ faults' = 0 => faults = 0
  /\ \A d \in Clients :
       /\ {client[d].at, client'[d].at} \cap {"save", "write", "unlink"} # {} =>
            client'[d].at = client[d].at /\ client'[d].new = client[d].new
       /\ client'[d].at \in {"refresh", "logout"} =>
            \/ client[d].at \in {"refresh", "logout"} /\ client'[d].held = client[d].held
            \/ client'[d].held \in {ring, file} \ {None}
       /\ client'[d].at = "erase" <=> client[d].at = "erase"

LEMMA CalmStep ==
  ASSUME StoreTypeOK, HeldTokens, LoginInv, Calm
  PROVE  LoginInv'
<1>r. RowsExist /\ UnsharedOK /\ OnePlace /\ (faults = 0 => RingOK /\ FileOK)
  BY DEF LoginInv
<1>t. /\ ring \in Tokens \cup {None} /\ file \in Tokens \cup {None}
      /\ \A d \in Clients : /\ Saving(d) => client[d].new \in Tokens
                            /\ Presents(d) => client[d].held \in Tokens
  BY DEF HeldTokens, Saving, Presents
<1>a. \A x \in Tokens : token[x] # None => token'[x] # None
  BY DEF Calm, Ages
<1>n. \A x \in Tokens : token[x] # None /\ Newest(x) => Newest(x)'
  BY Fades DEF Calm
<1>s. \A d \in Clients : /\ Saving(d)' <=> Saving(d)
                         /\ Saving(d) => client'[d].at = client[d].at
                                         /\ client'[d].new = client[d].new
  BY DEF Calm, Saving
<1>p. \A d \in Clients : Presents(d)' =>
        \/ Presents(d) /\ client'[d].held = client[d].held
        \/ client'[d].held \in {ring, file} \ {None}
  BY DEF Calm, Presents
<1>c. UNCHANGED <<ring, file, up, flips>>
  BY DEF Calm
<1>1. RowsExist'
  BY <1>r, <1>t, <1>a, <1>s, <1>p, <1>c DEF RowsExist
<1>2. UnsharedOK'
  <2> SUFFICES ASSUME NEW c \in Clients, Saving(c)' PROVE Unshared(c)'
    BY DEF UnsharedOK
  <2>1. Saving(c) /\ Unshared(c) /\ client'[c].new = client[c].new /\ client[c].new \in Tokens
        /\ token[client[c].new] # None
    BY <1>s, <1>r, <1>t DEF UnsharedOK, RowsExist
  <2>2. Newest(client[c].new)'
    BY <2>1, <1>n DEF Unshared, Newest
  <2>3. client'[c].new # ring' /\ client'[c].new # file'
    BY <2>1, <1>c DEF Unshared
  <2>4. \A d \in Clients : Presents(d)' => client'[d].held # client'[c].new
    BY <2>1, <1>p DEF Unshared
  <2>5. \A d \in Clients \ {c} : Saving(d)' => client'[d].new # client'[c].new
    BY <2>1, <1>s DEF Unshared
  <2> QED
    BY <2>2, <2>3, <2>4, <2>5 DEF Unshared
<1>3. OnePlace'
  BY <1>r, <1>c, <1>s DEF OnePlace, Saving
<1>k. ASSUME NEW x \in Tokens, token[x] # None,
             NEW S \in SUBSET {"save", "write", "unlink"}, Kept(x, S)
      PROVE  Kept(x, S)'
  <2> SUFFICES ASSUME NEW t \in Tokens, Live(t)', token'[t].family = token'[x].family, t # x
               PROVE  \E c \in Clients : client'[c].at \in S /\ client'[c].new = t
    BY DEF Kept
  <2>1. Live(t) /\ token[t].family = token[x].family
    BY <1>k, Fades DEF Calm
  <2>2. PICK c \in Clients : client[c].at \in S /\ client[c].new = t
    BY <2>1, <1>k DEF Kept
  <2> QED
    BY <2>2 DEF Calm
<1>4. ASSUME faults' = 0 PROVE RingOK' /\ FileOK'
  <2>0. RingOK /\ FileOK
    BY <1>4, <1>r DEF Calm
  <2>1. RingOK'
    <3> SUFFICES ASSUME up, ring # None PROVE Kept(ring, {"save"})'
      BY <1>c DEF RingOK, Kept
    <3>1. ring \in Tokens /\ token[ring] # None /\ Kept(ring, {"save"})
      BY <2>0, <1>r, <1>t DEF RingOK, RowsExist
    <3>2. \A x \in Tokens : x = ring => Kept(x, {"save"})'
      BY <3>1, <1>k
    <3> QED
      BY <3>1, <3>2, <1>c DEF Kept
  <2>2. FileOK'
    <3> SUFFICES ASSUME file # None, ~\E c \in Clients : client[c].at = "erase"
                 PROVE  Kept(file, {"save", "write", "unlink"})'
      BY <1>c DEF FileOK, Kept, Calm
    <3>1. file \in Tokens /\ token[file] # None /\ Kept(file, {"save", "write", "unlink"})
      BY <2>0, <1>r, <1>t DEF FileOK, RowsExist
    <3>2. \A x \in Tokens : x = file => Kept(x, {"save", "write", "unlink"})'
      BY <3>1, <1>k
    <3> QED
      BY <3>1, <3>2, <1>c DEF Kept
  <2> QED
    BY <2>1, <2>2
<1> QED
  BY <1>1, <1>2, <1>3, <1>4 DEF LoginInv

\* A process receives a token that nobody else knows.
LEMMA ReceiveStep ==
  ASSUME StoreTypeOK, HeldTokens, LoginInv, NEW c \in Clients, NEW r \in Tokens,
         ~Saving(c), client[c].at \notin {"unlink", "erase"},
         client' = [client EXCEPT ![c].at = "save", ![c].new = r],
         UNCHANGED <<ring, file, up, flips, faults>>,
         token[r] = None, token'[r] # None, Ages(Tokens \ {r}), Newest(r)',
         \A d \in Clients : Saving(d) => token'[client[d].new].family # token'[r].family
  PROVE  LoginInv'
<1>r. RowsExist /\ UnsharedOK /\ OnePlace /\ (faults = 0 => RingOK /\ FileOK)
  BY DEF LoginInv
<1>t. /\ ring \in Tokens \cup {None} /\ file \in Tokens \cup {None}
      /\ \A d \in Clients : /\ Saving(d) => client[d].new \in Tokens
                            /\ Presents(d) => client[d].held \in Tokens
  BY DEF HeldTokens, Saving, Presents
<1>c. /\ client'[c].at = "save" /\ client'[c].new = r
      /\ \A d \in Clients \ {c} : client'[d] = client[d]
  BY ReceiveFacts
<1>m. /\ Saving(c)' /\ ~Presents(c)'
      /\ \A d \in Clients \ {c} : (Saving(d)' <=> Saving(d)) /\ (Presents(d)' <=> Presents(d))
  BY <1>c DEF Saving, Presents
<1>a. \A x \in Tokens : token[x] # None =>
        token'[x] # None /\ token'[x].family = token[x].family /\ x # r
  BY DEF Ages
<1>l. \A t \in Tokens \ {r} : Live(t)' => Live(t) /\ token[t] # None
  BY DEF Ages, Live
<1>1. RowsExist'
  <2>1. (ring # None => token'[ring] # None) /\ (file # None => token'[file] # None)
    BY <1>r, <1>t, <1>a DEF RowsExist
  <2>2. ASSUME NEW d \in Clients
        PROVE  /\ Presents(d)' => token'[client'[d].held] # None
               /\ Saving(d)' => token'[client'[d].new] # None
    <3>1. CASE d = c
      BY <3>1, <1>c, <1>m
    <3>2. CASE d # c
      <4>1. /\ client'[d] = client[d]
            /\ Presents(d)' => Presents(d) /\ client[d].held \in Tokens
            /\ Saving(d)' => Saving(d) /\ client[d].new \in Tokens
        BY <3>2, <1>t, <1>c, <1>m
      <4>2. /\ Presents(d) => token[client[d].held] # None
            /\ Saving(d) => token[client[d].new] # None
        BY <1>r DEF RowsExist
      <4> QED
        BY <4>1, <4>2, <1>a
    <3> QED
      BY <3>1, <3>2
  <2> QED
    BY <2>1, <2>2 DEF RowsExist
<1>2. Unshared(c)'
  <2>1. Newest(client[c].new)'
    BY <1>c DEF Newest
  <2>2. r # ring /\ r # file
    BY <1>r, <1>t, AuthSessionsAssumption DEF RowsExist
  <2>3. \A d \in Clients \ {c} : /\ Presents(d) => client[d].held # r
                                 /\ Saving(d) => client[d].new # r
    BY <1>r, <1>t DEF RowsExist
  <2> QED
    BY <2>1, <2>2, <2>3, <1>c, <1>m DEF Unshared
<1>3. ASSUME NEW d \in Clients \ {c}, Saving(d) PROVE Unshared(d)'
  <2>0. Unshared(d) /\ client[d].new \in Tokens /\ token[client[d].new] # None
        /\ client'[d] = client[d]
    BY <1>3, <1>r, <1>t, <1>c DEF UnsharedOK, RowsExist
  <2>1. Newest(client[d].new)'
    <3> SUFFICES ASSUME NEW t \in Tokens, Live(t)',
                        token'[t].family = token'[client[d].new].family
                 PROVE  t = client[d].new
      BY <2>0 DEF Newest
    <3>1. t # r
      BY <1>3
    <3>2. Live(t) /\ token[t].family = token[client[d].new].family
      BY <3>1, <1>l, <1>a, <2>0
    <3> QED
      BY <3>2, <2>0 DEF Unshared, Newest
  <2>2. \A e \in Clients : Presents(e)' => client'[e].held # client[d].new
    BY <2>0, <1>c, <1>m DEF Unshared
  <2>3. \A e \in Clients \ {d} : Saving(e)' => client'[e].new # client[d].new
    BY <2>0, <1>c, <1>m DEF Unshared
  <2> QED
    BY <2>0, <2>1, <2>2, <2>3 DEF Unshared
<1>4. UnsharedOK'
  BY <1>2, <1>3, <1>m DEF UnsharedOK
<1>5. OnePlace'
  BY <1>r, <1>c DEF OnePlace
<1>k. ASSUME NEW x \in Tokens, token[x] # None,
             NEW S \in SUBSET {"save", "write", "unlink"}, "save" \in S, Kept(x, S)
      PROVE  Kept(x, S)'
  <2> SUFFICES ASSUME NEW t \in Tokens, Live(t)', token'[t].family = token'[x].family, t # x
               PROVE  \E d \in Clients : client'[d].at \in S /\ client'[d].new = t
    BY DEF Kept
  <2>1. CASE t = r
    BY <2>1, <1>k, <1>c
  <2>2. CASE t # r
    <3>1. Live(t) /\ token[t].family = token[x].family
      BY <2>2, <1>l, <1>a, <1>k
    <3>2. PICK d \in Clients : client[d].at \in S /\ client[d].new = t
      BY <3>1, <1>k DEF Kept
    <3>3. d # c
      BY <3>2 DEF Saving
    <3> QED
      BY <3>2, <3>3, <1>c
  <2> QED
    BY <2>1, <2>2
<1>6. ASSUME faults' = 0 PROVE RingOK' /\ FileOK'
  <2>0. RingOK /\ FileOK
    BY <1>6, <1>r
  <2>1. RingOK'
    <3> SUFFICES ASSUME up, ring # None PROVE Kept(ring, {"save"})'
      BY DEF RingOK, Kept
    <3>1. ring \in Tokens /\ token[ring] # None /\ Kept(ring, {"save"})
      BY <2>0, <1>r, <1>t DEF RingOK, RowsExist
    <3>2. \A x \in Tokens : x = ring => Kept(x, {"save"})'
      BY <3>1, <1>k
    <3> QED
      BY <3>1, <3>2 DEF Kept
  <2>2. FileOK'
    <3>e. \A d \in Clients : client[d].at = "erase" => client'[d].at = "erase"
      BY <1>c
    <3> SUFFICES ASSUME file # None, ~\E d \in Clients : client[d].at = "erase"
                 PROVE  Kept(file, {"save", "write", "unlink"})'
      BY <3>e DEF FileOK, Kept
    <3>1. file \in Tokens /\ token[file] # None /\ Kept(file, {"save", "write", "unlink"})
      BY <2>0, <1>r, <1>t DEF FileOK, RowsExist
    <3>2. PICK x \in Tokens : x = file
      BY <3>1
    <3>3. Kept(x, {"save", "write", "unlink"})'
      BY <3>1, <3>2, <1>k
    <3> QED
      BY <3>2, <3>3 DEF Kept
  <2> QED
    BY <2>1, <2>2
<1> QED
  BY <1>1, <1>4, <1>5, <1>6 DEF LoginInv

\* A login begins a session of its own ...
LEMMA LoginReceives ==
  ASSUME StoreInv, HeldTokens, LoginInv, NEW c \in Clients, NEW r \in Tokens, ExchangeIssue(c, r)
  PROVE  LoginInv'
<1>t. StoreTypeOK /\ FamilyBegun
  BY DEF StoreInv
<1>u. User \in Logins
  BY AuthSessionsAssumption
<1>1. /\ token[r] = None /\ now' = now
      /\ token'[r] = Fresh(User, r)
      /\ \A t \in Tokens \ {r} : token'[t] = token[t]
  BY <1>t DEF ExchangeIssue, CreateRefreshToken, StoreTypeOK
<1>2. token'[r] # None /\ token'[r].family = r
  BY <1>1, <1>t, <1>u, FreshIsRow
<1>3. Ages(Tokens \ {r})
  BY <1>1 DEF Ages, Live
<1>4. \A t \in Tokens : token[t] # None => t # r /\ token'[t] = token[t] /\ token[t].family # r
  BY <1>1, <1>t DEF FamilyBegun
<1>5. Newest(r)'
  BY <1>1, <1>2, <1>4 DEF Newest, Live
<1>6. \A d \in Clients : Saving(d) => token'[client[d].new].family # token'[r].family
  BY <1>2, <1>4 DEF LoginInv, RowsExist, HeldTokens, Saving
<1>7. ~Saving(c) /\ client[c].at \notin {"unlink", "erase"}
  BY DEF ExchangeIssue, At, Saving
<1> QED
  BY <1>t, <1>1, <1>2, <1>3, <1>5, <1>6, <1>7, ReceiveStep DEF ExchangeIssue

\* ... and a refresh replaces a token that no other process is about to save.
LEMMA RefreshReceives ==
  ASSUME StoreInv, HeldTokens, LoginInv, NEW c \in Clients, NEW r \in Tokens,
         At(c, "refresh"), Rotate(client[c].held, r),
         client' = [client EXCEPT ![c].at = "save", ![c].new = r],
         UNCHANGED <<ring, file, up, flips, faults>>
  PROVE  LoginInv'
<1>h. PICK h : h = client[c].held
  OBVIOUS
<1>t. StoreTypeOK /\ OneUnrevoked /\ h \in Tokens /\ Presents(c)
  BY <1>h DEF StoreInv, HeldTokens, At, Presents
<1>0. token[r] = None /\ Live(h) /\ now' = now
  BY <1>h DEF Rotate
<1>w. token' = [token EXCEPT ![h].revoked = TRUE, ![r] = Fresh(token[h].login, token[h].family)]
  BY <1>h DEF Rotate
<1>1. /\ h # r
      /\ token'[h] # None /\ token'[h].revoked /\ token'[h].family = token[h].family
      /\ token'[r] # None /\ token'[r].family = token[h].family
      /\ \A u \in Tokens \ {h, r} : token'[u] = token[u]
  BY <1>t, <1>0, <1>w, ReplacedRows
<1>2. Ages(Tokens \ {r})
  <2>1. ASSUME NEW t \in Tokens \ {r}
        PROVE  /\ token[t] # None => token'[t] # None /\ token'[t].family = token[t].family
               /\ Live(t)' => Live(t)
    <3>1. CASE t = h
      BY <3>1, <1>0, <1>1
    <3>2. CASE t # h
      BY <2>1, <3>2, <1>0, <1>1 DEF Live
    <3> QED
      BY <3>1, <3>2
  <2> QED
    BY <2>1 DEF Ages
<1>3. Newest(r)'
  <2> SUFFICES ASSUME NEW t \in Tokens, Live(t)', token'[t].family = token'[r].family, t # r
               PROVE  FALSE
    BY DEF Newest
  <2>1. t # h
    BY <1>1 DEF Live
  <2>2. token'[t] = token[t] /\ Live(t)
    BY <2>1, <1>1, <1>0 DEF Live
  <2>3. Unrevoked(t) /\ Unrevoked(h) /\ token[t].family = token[h].family
    BY <2>2, <1>0, <1>1 DEF Live, Unrevoked
  <2> QED
    BY <2>1, <2>3, <1>t DEF OneUnrevoked
<1>4. ASSUME NEW d \in Clients, Saving(d)
      PROVE  token'[client[d].new].family # token'[r].family
  <2>1. client[d].new \in Tokens /\ token[client[d].new] # None /\ Unshared(d)
    BY <1>4 DEF HeldTokens, Saving, LoginInv, RowsExist, UnsharedOK
  <2>2. client[d].new # h
    BY <2>1, <1>t, <1>h DEF Unshared
  <2>3. token[client[d].new].family # token[h].family
    BY <2>1, <2>2, <1>t, <1>0 DEF Unshared, Newest
  <2>4. token'[client[d].new] = token[client[d].new]
    BY <2>1, <2>2, <1>0, <1>1
  <2> QED
    BY <2>3, <2>4, <1>1
<1>5. ~Saving(c) /\ client[c].at \notin {"unlink", "erase"}
  BY DEF At, Saving
<1> QED
  BY <1>t, <1>0, <1>1, <1>2, <1>3, <1>4, <1>5, ReceiveStep

\* What is kept for auth.json stays kept while its holder goes on saving it.
LEMMA StillKept ==
  ASSUME NEW c \in Clients, UNCHANGED <<now, token, file>>, FileOK,
         client[c].at = "save", client'[c].at \in {"write", "unlink"},
         client'[c].new = client[c].new, \A d \in Clients \ {c} : client'[d] = client[d]
  PROVE  FileOK'
<1> SUFFICES ASSUME file # None, ~\E d \in Clients : client[d].at = "erase"
             PROVE  Kept(file, {"save", "write", "unlink"})'
  BY DEF FileOK
<1> SUFFICES ASSUME NEW t \in Tokens, Live(t)', token'[t].family = token'[file'].family, t # file
             PROVE  \E d \in Clients : client'[d].at \in {"save", "write", "unlink"}
                                      /\ client'[d].new = t
  BY DEF Kept
<1>1. PICK d \in Clients : client[d].at \in {"save", "write", "unlink"} /\ client[d].new = t
  BY DEF FileOK, Kept, Live
<1> QED
  BY <1>1

\* save_session.
LEMMA SaveKeyringStep ==
  ASSUME HeldTokens, LoginInv, NEW c \in Clients, SaveKeyring(c)
  PROVE  LoginInv'
<1>r. RowsExist /\ UnsharedOK /\ OnePlace /\ (faults = 0 => RingOK /\ FileOK)
  BY DEF LoginInv
<1>c. /\ client[c].at = "save" /\ UNCHANGED <<now, invitation, token, up, file, flips, faults>>
      /\ Saving(c) /\ Unshared(c) /\ client[c].new \in Tokens /\ token[client[c].new] # None
  BY <1>r DEF SaveKeyring, At, storeVars, Saving, UnsharedOK, HeldTokens, RowsExist
<1>n. client[c].new # None
  BY <1>c, AuthSessionsAssumption
<1>l. /\ \A t \in Tokens : Live(t)' <=> Live(t)
      /\ \A x \in Tokens : Newest(x)' <=> Newest(x)
  BY <1>c DEF Live, Newest
<1>1. CASE up
  <2>1. ring' = client[c].new /\ Go(c, "unlink")
    BY <1>1 DEF SaveKeyring
  <2>2. /\ client'[c].at = "unlink" /\ client'[c].new = client[c].new
        /\ \A d \in Clients \ {c} : client'[d] = client[d]
    BY <2>1, GoFacts
  <2>3. /\ ~Saving(c)' /\ ~Presents(c)'
        /\ \A d \in Clients \ {c} : (Saving(d)' <=> Saving(d)) /\ (Presents(d)' <=> Presents(d))
    BY <2>2 DEF Saving, Presents
  <2>4. RowsExist'
    BY <1>r, <1>c, <2>1, <2>2, <2>3 DEF RowsExist
  <2>5. ASSUME NEW d \in Clients \ {c}, Saving(d) PROVE Unshared(d)'
    <3>1. Unshared(d) /\ client[d].new \in Tokens /\ client'[d] = client[d]
          /\ client[d].new # client[c].new
      BY <2>5, <1>r, <1>c, <2>2 DEF UnsharedOK, HeldTokens, Saving, Unshared
    <3>2. Newest(client[d].new)'
      BY <3>1, <1>l DEF Unshared, Newest
    <3>3. \A e \in Clients : /\ Presents(e)' => client'[e].held # client[d].new
                             /\ Saving(e)' /\ e # d => client'[e].new # client[d].new
      BY <3>1, <2>2, <2>3 DEF Unshared
    <3> QED
      BY <3>1, <3>2, <3>3, <2>1, <1>c DEF Unshared
  <2>6. UnsharedOK'
    BY <2>5, <2>3 DEF UnsharedOK
  <2>7. OnePlace'
    BY <1>r, <1>c, <1>1, <2>2 DEF OnePlace
  <2>8. RingOK'
    <3>1. Kept(ring, {"save"})'
      BY <1>c, <1>l, <2>1 DEF Unshared, Newest, Kept
    <3> QED
      BY <3>1 DEF RingOK
  <2>9. FileOK => FileOK'
    BY <2>2, <1>c, StillKept
  <2> QED
    BY <2>4, <2>6, <2>7, <2>8, <2>9, <1>r, <1>c DEF LoginInv
<1>2. CASE ~up
  <2>1. ring' = ring /\ Go(c, "write")
    BY <1>2 DEF SaveKeyring
  <2>2. /\ client'[c].at = "write" /\ client'[c].new = client[c].new
        /\ \A d \in Clients \ {c} : client'[d] = client[d]
    BY <2>1, GoFacts
  <2>3. \A d \in Clients : /\ (Saving(d)' <=> Saving(d)) /\ (Presents(d)' <=> Presents(d))
                           /\ client'[d].new = client[d].new
                           /\ Presents(d) => client'[d].held = client[d].held
    BY <2>2, <1>c DEF Saving, Presents
  <2>4. RowsExist'
    BY <1>r, <1>c, <2>1, <2>3 DEF RowsExist
  <2>5. ASSUME NEW d \in Clients, Saving(d) PROVE Unshared(d)'
    <3>1. Unshared(d) /\ client[d].new \in Tokens
      BY <2>5, <1>r DEF UnsharedOK, HeldTokens, Saving
    <3>2. Newest(client[d].new)'
      BY <3>1, <1>l, <2>3 DEF Unshared, Newest
    <3> QED
      BY <3>1, <3>2, <2>1, <2>3, <1>c DEF Unshared
  <2>6. UnsharedOK'
    BY <2>5, <2>3 DEF UnsharedOK
  <2>7. OnePlace'
    BY <1>r, <1>c, <1>2, <2>1 DEF OnePlace
  <2>8. FileOK => FileOK'
    BY <2>2, <1>c, StillKept
  <2> QED
    BY <2>4, <2>6, <2>7, <2>8, <1>2, <1>r, <1>c DEF LoginInv, RingOK
<1> QED
  BY <1>1, <1>2

\* Steps after which the client is no longer about to save its session, and
\* storage holds the sessions it held or that session: what a later process can
\* present is known already.
LEMMA PlacesStep ==
  ASSUME HeldTokens, LoginInv, NEW c \in Clients, UNCHANGED <<now, invitation, token>>,
         ~Saving(c)', ~Presents(c)', \A d \in Clients \ {c} : client'[d] = client[d],
         ring' \in {ring, None} \/ (Saving(c) /\ ring' = client[c].new),
         file' \in {file, None} \/ (Saving(c) /\ file' = client[c].new)
  PROVE  RowsExist' /\ UnsharedOK'
<1>r. RowsExist /\ UnsharedOK
  BY DEF LoginInv
<1>t. \A d \in Clients : Saving(d) => client[d].new \in Tokens
  BY DEF HeldTokens, Saving
<1>l. \A x \in Tokens : Newest(x)' <=> Newest(x)
  BY DEF Live, Newest
<1>m. \A d \in Clients \ {c} : (Saving(d)' <=> Saving(d)) /\ (Presents(d)' <=> Presents(d))
  BY DEF Saving, Presents
<1>1. RowsExist'
  BY <1>r, <1>m DEF RowsExist
<1>2. ASSUME NEW d \in Clients \ {c}, Saving(d) PROVE Unshared(d)'
  <2>1. Unshared(d) /\ client[d].new \in Tokens /\ client'[d] = client[d]
        /\ client[d].new # None
    BY <1>2, <1>r, <1>t, AuthSessionsAssumption DEF UnsharedOK
  <2>2. Newest(client[d].new)'
    BY <2>1, <1>l DEF Unshared, Newest
  <2>3. \A e \in Clients : /\ Presents(e)' => client'[e].held # client[d].new
                           /\ Saving(e)' /\ e # d => client'[e].new # client[d].new
    BY <2>1, <1>m DEF Unshared
  <2>4. ring' # client[d].new /\ file' # client[d].new
    BY <2>1 DEF Unshared
  <2> QED
    BY <2>1, <2>2, <2>3, <2>4 DEF Unshared
<1> QED
  BY <1>1, <1>2, <1>m DEF UnsharedOK

LEMMA SaveFileStep ==
  ASSUME HeldTokens, LoginInv, NEW c \in Clients, SaveFile(c)
  PROVE  LoginInv'
<1>r. RowsExist /\ UnsharedOK /\ OnePlace /\ (faults = 0 => RingOK /\ FileOK)
  BY DEF LoginInv
<1>c. /\ client[c].at = "write" /\ UNCHANGED <<now, invitation, token, up, ring, flips, faults>>
      /\ Saving(c) /\ Unshared(c) /\ client[c].new \in Tokens /\ file' = client[c].new
  BY <1>r DEF SaveFile, At, storeVars, Saving, UnsharedOK, HeldTokens
<1>d. /\ client'[c].at = "idle"
      /\ \A d \in Clients \ {c} : client'[d] = client[d]
  BY DoneFacts DEF SaveFile
<1>l. \A t \in Tokens : Live(t)' <=> Live(t)
  BY <1>c DEF Live
<1>1. RowsExist' /\ UnsharedOK'
  BY <1>c, <1>d, PlacesStep DEF Saving, Presents
<1>2. OnePlace'
  BY <1>r, <1>c, <1>d DEF OnePlace
<1>3. FileOK'
  BY <1>c, <1>l DEF FileOK, Kept, Unshared, Newest
<1>4. RingOK => RingOK'
  <2> SUFFICES ASSUME up, ring # None, Kept(ring, {"save"}) PROVE Kept(ring, {"save"})'
    BY <1>c DEF RingOK
  <2> SUFFICES ASSUME NEW t \in Tokens, Live(t)', token'[t].family = token'[ring'].family, t # ring
               PROVE  \E d \in Clients : client'[d].at \in {"save"} /\ client'[d].new = t
    BY <1>c DEF Kept
  <2>1. PICK d \in Clients : client[d].at \in {"save"} /\ client[d].new = t
    BY <1>c, <1>l DEF Kept
  <2> QED
    BY <2>1, <1>c, <1>d
<1> QED
  BY <1>1, <1>2, <1>3, <1>4, <1>r, <1>c DEF LoginInv

\* save_session and delete_session remove the file.
LEMMA NoFileStep ==
  ASSUME HeldTokens, LoginInv, NEW c \in Clients, SaveUnlink(c) \/ DeleteFile(c)
  PROVE  LoginInv'
<1>r. RowsExist /\ UnsharedOK /\ OnePlace /\ (faults = 0 => RingOK /\ FileOK)
  BY DEF LoginInv
<1>c. /\ client[c].at # "save" /\ UNCHANGED <<now, invitation, token, up, ring, flips, faults>>
      /\ file' = None
  BY DEF SaveUnlink, DeleteFile, At, storeVars
<1>d. /\ client'[c].at = "idle"
      /\ \A d \in Clients \ {c} : client'[d] = client[d]
  BY DoneFacts DEF SaveUnlink, DeleteFile
<1>l. \A t \in Tokens : Live(t)' <=> Live(t)
  BY <1>c DEF Live
<1>1. RowsExist' /\ UnsharedOK'
  BY <1>c, <1>d, PlacesStep DEF Saving, Presents
<1>2. OnePlace'
  BY <1>r, <1>c, <1>d DEF OnePlace
<1>3. FileOK'
  BY <1>c DEF FileOK
<1>4. RingOK => RingOK'
  <2> SUFFICES ASSUME up, ring # None, Kept(ring, {"save"}) PROVE Kept(ring, {"save"})'
    BY <1>c DEF RingOK
  <2> SUFFICES ASSUME NEW t \in Tokens, Live(t)', token'[t].family = token'[ring'].family, t # ring
               PROVE  \E d \in Clients : client'[d].at \in {"save"} /\ client'[d].new = t
    BY <1>c DEF Kept
  <2>1. PICK d \in Clients : client[d].at \in {"save"} /\ client[d].new = t
    BY <1>c, <1>l DEF Kept
  <2> QED
    BY <2>1, <1>c, <1>d
<1> QED
  BY <1>1, <1>2, <1>3, <1>4, <1>r, <1>c DEF LoginInv

\* Once the keyring entry is gone, the client goes on to remove the file.
LEMMA DeleteKeyringStep ==
  ASSUME HeldTokens, LoginInv, NEW c \in Clients, DeleteKeyring(c)
  PROVE  LoginInv'
<1>r. RowsExist /\ UnsharedOK /\ OnePlace /\ (faults = 0 => RingOK /\ FileOK)
  BY DEF LoginInv
<1>c. /\ client[c].at = "forget" /\ UNCHANGED <<now, invitation, token, up, file, flips, faults>>
      /\ ring' \in {ring, None} /\ (up => ring' = None)
  BY DEF DeleteKeyring, At, storeVars
<1>d. /\ client'[c].at = "erase"
      /\ \A d \in Clients \ {c} : client'[d] = client[d]
  BY GoFacts DEF DeleteKeyring
<1>1. RowsExist' /\ UnsharedOK'
  BY <1>c, <1>d, PlacesStep DEF Saving, Presents
<1>2. OnePlace'
  BY <1>r, <1>c, <1>d DEF OnePlace
<1>3. FileOK' /\ RingOK'
  BY <1>c, <1>d DEF FileOK, RingOK
<1> QED
  BY <1>1, <1>2, <1>3 DEF LoginInv

LEMMA StopStep ==
  ASSUME HeldTokens, Environment, LoginInv, NEW c \in Clients, Stop(c)
  PROVE  LoginInv'
<1>c. UNCHANGED <<now, invitation, token, ring, up, file, flips>>
  BY DEF Stop, storeVars
<1>d. /\ client'[c].at = "idle"
      /\ \A d \in Clients \ {c} : client'[d] = client[d]
  BY DoneFacts DEF Stop
<1>1. RowsExist' /\ UnsharedOK'
  BY <1>c, <1>d, PlacesStep DEF Saving, Presents
<1>2. OnePlace'
  BY <1>c, <1>d DEF LoginInv, OnePlace
<1>3. faults' # 0
  BY AuthSessionsAssumption DEF Stop, Fault, Environment
<1> QED
  BY <1>1, <1>2, <1>3 DEF LoginInv

\* The keyring comes up at most once, while it holds nothing.
Steady == MaxFlips <= 1 \/ (MaxFlips <= 2 /\ ~RingUp)

\* A change of the keyring: one that comes up holds nothing, and auth.json,
\* which is looked at when it breaks down, is as up to date as before.
LEMMA FlipStep ==
  ASSUME Steady, Environment, LoginInv, Flip
  PROVE  LoginInv'
<1>c. UNCHANGED <<now, invitation, token, ring, file, client, faults>>
  BY DEF Flip, storeVars
<1>n. MaxFlips \in Nat /\ RingUp \in BOOLEAN
  BY AuthSessionsAssumption
<1>u. up' = ~up /\ up \in BOOLEAN
  BY DEF Flip, Environment
<1>f. \/ flips = 0 /\ flips' = 1
      \/ flips = 1 /\ flips' = 2 /\ ~RingUp
  BY <1>n DEF Flip, Environment, Steady
<1>p. /\ flips = 0 => up = RingUp
      /\ flips = 1 => up = ~RingUp
      /\ flips = 0 /\ ~up => ring = None
  BY DEF LoginInv, OnePlace
<1>1. RowsExist' /\ UnsharedOK'
  BY <1>c DEF LoginInv, RowsExist, UnsharedOK, Unshared, Newest, Live, Saving, Presents
<1>2. OnePlace'
  BY <1>f, <1>p, <1>u, <1>n DEF OnePlace
<1>3. RingOK'
  <2>1. up' => ring' = None
    BY <1>f, <1>p, <1>u, <1>c, <1>n
  <2> QED
    BY <2>1 DEF RingOK
<1>4. FileOK => FileOK'
  BY <1>c DEF FileOK, Kept, Live
<1> QED
  BY <1>1, <1>2, <1>3, <1>4, <1>c DEF LoginInv

\* The steps that leave storage and received tokens alone.
LEMMA CalmActions ==
  ASSUME StoreTypeOK, HeldTokens, Environment,
         \/ \E c \in Clients :
              \/ LoginStart(c) \/ ExchangeCheck(c) \/ RefreshLoad(c) \/ LogoutLoad(c)
              \/ LogoutPost(c)
              \/ /\ At(c, "refresh")
                 /\ RotateRefused(client[c].held) \/ RotateMissing(client[c].held)
                 /\ Done(c)
                 /\ UNCHANGED <<ring, up, file, flips, faults>>
         \/ Operator
         \/ UNCHANGED authVars
  PROVE  Calm
<1>t. \A c \in Clients : Presents(c) => client[c].held \in Tokens
  BY DEF HeldTokens, Presents
<1>s. LoadSession # None => LoadSession \in {ring, file} \ {None}
  BY DEF LoadSession
<1>1. ASSUME NEW c \in Clients, LoginStart(c) \/ ExchangeCheck(c) PROVE Calm
  <2>1. Ages(Tokens) /\ UNCHANGED <<ring, file, up, flips, faults>>
    BY <1>1, StoreAges DEF LoginStart, ExchangeCheck
  <2>2. client[c].at \in {"idle", "exchange"} /\ client'[c].at \in {"exchange", "issue", "idle"}
        /\ \A d \in Clients \ {c} : client'[d] = client[d]
    BY <1>1, GoFacts, DoneFacts DEF LoginStart, ExchangeCheck, At
  <2> QED
    BY <2>1, <2>2 DEF Calm
<1>2. ASSUME NEW c \in Clients, RefreshLoad(c) \/ LogoutLoad(c) PROVE Calm
  <2>1. Ages(Tokens) /\ UNCHANGED <<ring, file, up, flips, faults>>
    BY <1>2, StoreAges DEF RefreshLoad, LogoutLoad
  <2>2. client[c].at = "idle" /\ client'[c].at \in {"refresh", "logout", "forget"}
        /\ (client'[c].at \in {"refresh", "logout"} =>
              LoadSession # None /\ client'[c].held = LoadSession)
        /\ \A d \in Clients \ {c} : client'[d] = client[d]
    <3>1. CASE RefreshLoad(c)
      <4>1. /\ client' = [client EXCEPT ![c].at = "refresh", ![c].held = LoadSession]
            /\ At(c, "idle") /\ LoadSession # None
        BY <3>1 DEF RefreshLoad
      <4>2. client'[c].at = "refresh" /\ client'[c].held = LoadSession
            /\ \A d \in Clients \ {c} : client'[d] = client[d]
        BY <4>1, LoadFacts
      <4> QED
        BY <4>1, <4>2 DEF At
    <3>2. CASE LogoutLoad(c)
      <4> DEFINE l == IF LoadSession = None THEN "forget" ELSE "logout"
      <4>1. client' = [client EXCEPT ![c].at = l, ![c].held = LoadSession] /\ At(c, "idle")
        BY <3>2 DEF LogoutLoad
      <4> HIDE DEF l
      <4>2. client'[c].at = l /\ client'[c].held = LoadSession
            /\ \A d \in Clients \ {c} : client'[d] = client[d]
        BY <4>1, LoadFacts
      <4>3. l \in {"forget", "logout"} /\ (l = "logout" => LoadSession # None)
        BY DEF l
      <4>4. client[c].at = "idle"
        BY <4>1 DEF At
      <4> QED
        BY <4>2, <4>3, <4>4
    <3> QED
      BY <1>2, <3>1, <3>2
  <2> QED
    BY <2>1, <2>2, <1>s DEF Calm
<1>3. ASSUME NEW c \in Clients, LogoutPost(c) PROVE Calm
  <2>1. client[c].at = "logout" /\ client[c].held \in Tokens /\ UNCHANGED <<ring, file, up, flips>>
    BY <1>3, <1>t DEF LogoutPost, At, Presents
  <2>2. Ages(Tokens)
    <3>1. RevokeRefreshToken(client[c].held) \/ UNCHANGED storeVars
      BY <1>3 DEF LogoutPost
    <3> QED
      BY <3>1, <2>1, StoreAges
  <2>3. faults' = 0 => faults = 0
    BY <1>3, AuthSessionsAssumption DEF LogoutPost, NoFault, Fault, Environment
  <2>4. client'[c].at = "forget" /\ \A d \in Clients \ {c} : client'[d] = client[d]
    BY <1>3, GoFacts DEF LogoutPost
  <2> QED
    BY <2>1, <2>2, <2>3, <2>4 DEF Calm
<1>4. ASSUME NEW c \in Clients, At(c, "refresh"),
             RotateRefused(client[c].held) \/ RotateMissing(client[c].held), Done(c),
             UNCHANGED <<ring, up, file, flips, faults>>
      PROVE  Calm
  <2>1. client[c].at = "refresh" /\ client[c].held \in Tokens
    BY <1>4, <1>t DEF At, Presents
  <2>2. Ages(Tokens)
    BY <2>1, <1>4, StoreAges
  <2>3. client'[c].at = "idle" /\ \A d \in Clients \ {c} : client'[d] = client[d]
    BY <1>4, DoneFacts
  <2> QED
    BY <2>1, <2>2, <2>3, <1>4 DEF Calm
<1>5. CASE Operator \/ UNCHANGED authVars
  <2>1. Ages(Tokens)
    BY <1>5, StoreAges DEF Operator, authVars
  <2>2. UNCHANGED <<ring, up, file, client, flips, faults>>
    BY <1>5 DEF Operator, authVars, clientVars
  <2> QED
    BY <2>1, <2>2 DEF Calm
<1> QED
  BY <1>1, <1>2, <1>3, <1>4, <1>5

LEMMA LoginStep ==
  ASSUME Steady, StoreInv, HeldTokens, Environment, LoginInv, [AuthNext]_authVars
  PROVE  LoginInv'
<1>t. StoreTypeOK
  BY DEF StoreInv
<1>1. ASSUME NEW c \in Clients, ClientStep(c) PROVE LoginInv'
  <2>1. CASE LoginStart(c) \/ ExchangeCheck(c) \/ RefreshLoad(c) \/ LogoutLoad(c) \/ LogoutPost(c)
    BY <2>1, <1>t, CalmActions, CalmStep
  <2>2. ASSUME NEW r \in Tokens, ExchangeIssue(c, r) PROVE LoginInv'
    BY <2>2, LoginReceives
  <2>3. CASE Refresh(c)
    <3>1. ASSUME NEW r \in Tokens, Rotate(client[c].held, r),
                 client' = [client EXCEPT ![c].at = "save", ![c].new = r]
          PROVE  LoginInv'
      BY <3>1, <2>3, RefreshReceives DEF Refresh
    <3>2. CASE (RotateRefused(client[c].held) \/ RotateMissing(client[c].held)) /\ Done(c)
      <4>1. /\ At(c, "refresh")
            /\ RotateRefused(client[c].held) \/ RotateMissing(client[c].held)
            /\ Done(c)
            /\ UNCHANGED <<ring, up, file, flips, faults>>
        BY <3>2, <2>3 DEF Refresh
      <4>2. Calm
        BY <4>1, <1>t, CalmActions
      <4> QED
        BY <4>2, <1>t, CalmStep
    <3> QED
      BY <2>3, <3>1, <3>2 DEF Refresh
  <2>4. CASE SaveKeyring(c)
    BY <2>4, SaveKeyringStep
  <2>5. CASE SaveFile(c)
    BY <2>5, SaveFileStep
  <2>6. CASE SaveUnlink(c) \/ DeleteFile(c)
    BY <2>6, NoFileStep
  <2>7. CASE DeleteKeyring(c)
    BY <2>7, DeleteKeyringStep
  <2> QED
    BY <1>1, <2>1, <2>2, <2>3, <2>4, <2>5, <2>6, <2>7 DEF ClientStep
<1>2. ASSUME NEW c \in Clients, Stop(c) PROVE LoginInv'
  BY <1>2, StopStep
<1>3. CASE Operator \/ UNCHANGED authVars
  BY <1>3, <1>t, CalmActions, CalmStep
<1>4. CASE Flip
  BY <1>4, FlipStep
<1> QED
  BY <1>1, <1>2, <1>3, <1>4 DEF AuthNext

\* While the session that load_session finds lives, its token works, or the
\* process that replaced it is about to store the replacement, or a logout is
\* about to delete it; for any number of processes, as long as the keyring
\* does not come back after it broke down.  (If it does, its old entry hides the
\* newer session in auth.json.)
THEOREM LoginSurvives == Steady => (AuthSpec => []SessionNotLost)
<1> SUFFICES ASSUME Steady PROVE AuthSpec => []SessionNotLost
  OBVIOUS
<1>1. AuthInit => Environment /\ LoginInv
  <2> SUFFICES ASSUME AuthInit PROVE Environment /\ LoginInv
    OBVIOUS
  <2>1. \A c \in Clients : client[c].at = "idle"
    BY DEF AuthInit, Idle
  <2>2. RowsExist /\ UnsharedOK /\ OnePlace /\ RingOK /\ FileOK
    BY <2>1 DEF AuthInit, RowsExist, UnsharedOK, OnePlace, RingOK, FileOK, Saving, Presents
  <2> QED
    BY <2>2, AuthSessionsAssumption DEF AuthInit, Environment, LoginInv
<1>2. StoreInv /\ HeldTokens /\ LoginInv => SessionNotLost
  <2> SUFFICES ASSUME StoreInv, HeldTokens, LoginInv, faults = 0, LoadSession # None,
                      SessionPhase[token[LoadSession].family] = "live",
                      ~\E c \in Clients : client[c].at \in {"forget", "erase"}
               PROVE  \/ Live(LoadSession)
                      \/ \E c \in Clients : Carries(c, token[LoadSession].family)
    BY DEF SessionNotLost
  <2>1. Kept(LoadSession, {"save", "write", "unlink"})
    <3>1. CASE up /\ ring # None
      BY <3>1 DEF LoginInv, RingOK, Kept, LoadSession
    <3>2. CASE ~(up /\ ring # None)
      BY <3>2 DEF LoginInv, FileOK, LoadSession
    <3> QED
      BY <3>1, <3>2
  <2>2. PICK t \in Tokens : Live(t) /\ token[t].family = token[LoadSession].family
    <3>1. token[LoadSession].family \in Tokens
      <4>1. LoadSession \in Tokens /\ token[LoadSession] # None
        BY DEF HeldTokens, LoadSession, LoginInv, RowsExist
      <4> QED
        BY <4>1 DEF StoreInv, StoreTypeOK, RefreshToken
    <3>2. token[LoadSession].family \in Tokens
          => \E t \in Tokens : Live(t) /\ token[t].family = token[LoadSession].family
      BY DEF SessionPhase
    <3> QED
      BY <3>1, <3>2
  <2>3. CASE t = LoadSession
    BY <2>2, <2>3
  <2>4. CASE t # LoadSession
    <3>1. PICK c \in Clients : client[c].at \in {"save", "write", "unlink"} /\ client[c].new = t
      BY <2>1, <2>2, <2>4 DEF Kept
    <3> QED
      BY <3>1, <2>2 DEF Carries
  <2> QED
    BY <2>3, <2>4
<1>3. AuthSpec => []StoreInv
  BY ServiceImplementsStore, StoreInvInit, StoreInvStep, PTL DEF StoreSpec
<1>4. AuthSpec => [][AuthNext]_authVars /\ AuthInit
  BY DEF AuthSpec
<1>5. StoreInv /\ HeldTokens /\ Environment /\ LoginInv /\ [AuthNext]_authVars => LoginInv'
  BY LoginStep
<1> QED
  BY <1>1, <1>2, <1>3, <1>4, <1>5, HeldTokensInit, HeldTokensStep, EnvironmentStep, PTL
=============================================================================
