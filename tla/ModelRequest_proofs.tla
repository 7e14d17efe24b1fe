------------------------ MODULE ModelRequest_proofs -------------------------
(* Proofs about ModelRequest, for any number of requests, tokens, calls of    *)
(* auth() and connections.                                                    *)
EXTENDS ModelRequest, FiniteSetTheorems, TLAPS

(* Who holds the mutex and the permit, and that a token on its way to the     *)
(* cache is at least as new as what a refresh has returned: the mutex keeps   *)
(* refresh() from storing while resolve() fetches, the permit keeps a second  *)
(* refresh() from overtaking the first.                                       *)
BearerInv ==
  /\ cached_token <= issued /\ refreshed <= issued /\ refreshed <= cached_token
  /\ \A c \in Callers :
       /\ pc[c] \in {"fetching", "fetched"} => locked = c
       /\ pc[c] \in {"refreshing", "refreshed", "commit"} => refresh_lock = c
       /\ pc[c] \in {"fetched", "refreshed"} => refreshed <= tok[c] /\ tok[c] <= issued

(* The requests that the gateway has begun and not completed.                 *)
Serving == {r \in Requests : hop["gw"][r] \notin {"idle", "done"}}

(* Of these, the ones being proxied and the ones that nobody will complete.   *)
Proxied == {r \in Requests : hop["gw"][r] \notin {"idle", "done", "error", "stuck"}}
Leaked == {r \in Requests : hop["gw"][r] \in {"error", "stuck"}}

(* The gateway's handler of a request starts when the multiplexer sends it,   *)
(* and so only once.                                                          *)
Idle(r) == hop["mux"][r] \in {"idle", "auth", "body", "pool"} => hop["gw"][r] = "idle"

GatewayInv ==
  /\ INFLIGHT = Cardinality(Serving)
  /\ \A r \in Requests : Idle(r)

(* A request that is on its way was sent by a caller that waits for it, or    *)
(* has left and forgotten its token.                                          *)
LinkInv ==
  \A c \in Callers :
    /\ hop["mux"][c] # "idle" => pc[c] \in {"sent", "ended"}
    /\ pc[c] = "ended" => tok[c] = NoToken

RequestInv == RequestTypeOK /\ BearerInv /\ GatewayInv /\ LinkInv

----------------------------------------------------------------------------
(* The steps of a caller that concern the caches. *)
BearerAction(c) == Begin(c) \/ AuthStep(c) \/ Unauthorized(c) \/ Interrupt(c)

(* A step of the bearer cache keeps the types. *)
LEMMA BearerTypeStep ==
  ASSUME BearerTypeOK, NEW c \in Callers,
         BearerAction(c)
  PROVE  BearerTypeOK'
<1> USE BearerAssumption DEF BearerTypeOK, Places, NoToken, Goto, Take, bearer, manager
<1>1. CASE Begin(c)
  BY <1>1 DEF Begin
<1>2. CASE ResolveCached(c)
  BY <1>2 DEF ResolveCached, Usable
<1>3. CASE ResolveMiss(c)
  BY <1>3 DEF ResolveMiss
<1>4. CASE FetchPrints(c)
  BY <1>4 DEF FetchPrints, Prints
<1>5. CASE FetchStore(c)
  BY <1>5 DEF FetchStore
<1>6. CASE FetchFails(c)
  BY <1>6 DEF FetchFails
<1>7. CASE SetCachedAuth(c)
  BY <1>7 DEF SetCachedAuth
<1>8. CASE AuthCached(c)
  BY <1>8 DEF AuthCached
<1>9. CASE Unauthorized(c)
  BY <1>9 DEF Unauthorized, Finish
<1>10. CASE RefreshBegin(c)
  BY <1>10 DEF RefreshBegin
<1>11. CASE RefreshPrints(c)
  BY <1>11 DEF RefreshPrints, Prints
<1>12. CASE RefreshFails(c)
  BY <1>12 DEF RefreshFails, Finish
<1>13. CASE RefreshStore(c)
  BY <1>13 DEF RefreshStore
<1>14. CASE Commit(c)
  BY <1>14 DEF Commit
<1>15. CASE Interrupt(c)
  BY <1>15 DEF Interrupt, Finish, Waiting
<1>16. QED
  BY <1>1, <1>2, <1>3, <1>4, <1>5, <1>6, <1>7, <1>8, <1>9, <1>10, <1>11, <1>12, <1>13,
       <1>14, <1>15 DEF BearerAction, AuthStep

(* The heart of RefreshIsCurrent. *)
LEMMA BearerInvStep ==
  ASSUME BearerTypeOK, BearerTypeOK', BearerInv, NEW c \in Callers,
         BearerAction(c)
  PROVE  BearerInv'
<1> USE BearerAssumption DEF BearerTypeOK, BearerInv, Goto, Take, bearer, manager
<1>1. CASE Begin(c)
  BY <1>1 DEF Begin
<1>2. CASE ResolveCached(c)
  BY <1>2 DEF ResolveCached, Usable
<1>3. CASE ResolveMiss(c)
  BY <1>3 DEF ResolveMiss
<1>4. CASE FetchPrints(c)
  BY <1>4 DEF FetchPrints, Prints
<1>5. CASE FetchStore(c)
  BY <1>5 DEF FetchStore
<1>6. CASE FetchFails(c)
  BY <1>6 DEF FetchFails
<1>7. CASE SetCachedAuth(c)
  BY <1>7 DEF SetCachedAuth
<1>8. CASE AuthCached(c)
  BY <1>8 DEF AuthCached
<1>9. CASE Unauthorized(c)
  BY <1>9 DEF Unauthorized, Finish
<1>10. CASE RefreshBegin(c)
  BY <1>10 DEF RefreshBegin
<1>11. CASE RefreshPrints(c)
  BY <1>11 DEF RefreshPrints, Prints
<1>12. CASE RefreshFails(c)
  BY <1>12 DEF RefreshFails, Finish
<1>13. CASE RefreshStore(c)
  BY <1>13 DEF RefreshStore
<1>14. CASE Commit(c)
  BY <1>14 DEF Commit
<1>15. CASE Interrupt(c)
  BY <1>15 DEF Interrupt, Finish, Waiting
<1>16. QED
  BY <1>1, <1>2, <1>3, <1>4, <1>5, <1>6, <1>7, <1>8, <1>9, <1>10, <1>11, <1>12, <1>13,
       <1>14, <1>15 DEF BearerAction, AuthStep

(* The rest of a round: sending, the answer of authenticate_request that is   *)
(* no 401, the end of the stream, and the passing of refresh_interval.        *)
RoundAction(c) ==
  /\ pc[c] \in {"send", "sent"}
  /\ \/ Goto(c, "sent") /\ UNCHANGED <<tok, step>>
     \/ Take(c, NoToken) /\ UNCHANGED <<pc, step>>
     \/ Finish(c)
  /\ UNCHANGED <<bearer, manager, issued, calls>>

(* Sending a request and reading its answer keep the bearer invariant. *)
LEMMA RoundStep ==
  ASSUME BearerTypeOK, BearerInv, NEW c \in Callers, RoundAction(c)
  PROVE  BearerTypeOK' /\ BearerInv'
BY DEF RoundAction, BearerTypeOK, BearerInv, Places, NoToken, Goto, Take, Finish, bearer, manager

(* So does the passing of the refresh interval. *)
LEMMA ElapseStep ==
  ASSUME BearerTypeOK, BearerInv, Elapse
  PROVE  BearerTypeOK' /\ BearerInv'
BY DEF Elapse, BearerTypeOK, BearerInv, manager

----------------------------------------------------------------------------
(* The steps of the multiplexer before it forwards a request. *)
FrontStep(r) == Connect(r) \/ Admit(r) \/ Refuse(r) \/ Forbid(r) \/ ClientLeaves(r)

(* A step of a proxy leaves the gauge and the requests being served alone, or *)
(* begins a request, or completes one.                                        *)
Accounts(r) ==
  \/ INFLIGHT' = INFLIGHT /\ Serving' = Serving
  \/ INFLIGHT' = INFLIGHT + 1 /\ r \notin Serving /\ Serving' = Serving \cup {r}
  \/ /\ INFLIGHT' = IF INFLIGHT > 0 THEN INFLIGHT - 1 ELSE INFLIGHT
     /\ r \in Serving /\ Serving' = Serving \ {r}

(* A step of either proxy takes at most one connection, and only a free one.  *)
LEMMA PoolStep ==
  ASSUME GatewayTypeOK, NEW h \in Hops, NEW r \in Requests,
         HopStep(h, r) \/ FrontStep(r)
  PROVE  PoolsBounded'
<1> DEFINE n(g) == Cardinality(open[g])
<1>1. open \in [Hops -> SUBSET Requests] /\ MaxConnections \in Nat
  BY GatewayAssumption DEF GatewayTypeOK
<1>2. ASSUME NEW g \in Hops PROVE IsFiniteSet(open[g]) /\ n(g) \in Nat /\ n(g) <= MaxConnections
  <2>1. IsFiniteSet(open[g])
    BY <1>1, RequestAssumption, FS_Subset
  <2>2. QED
    BY <2>1, FS_CardinalityType DEF GatewayTypeOK, PoolsBounded
<1>3. \/ open' = open
      \/ open' = [open EXCEPT ![h] = @ \cup {r}] /\ n(h) < MaxConnections
      \/ open' = [open EXCEPT ![h] = @ \ {r}]
  BY DEF HopStep, FrontStep, Body, Invalid, BodyRaises, Send, Unavailable, Head, Iterate,
     NeverIterates, End, Read, ReadRaises, Connect, Admit, Refuse, Forbid, ClientLeaves, Close
<1>4. SUFFICES ASSUME NEW g \in Hops PROVE Cardinality(open'[g]) <= MaxConnections
  BY DEF PoolsBounded
<1>5. CASE open'[g] = open[g]
  BY <1>2, <1>5
<1>6. CASE g = h /\ open'[g] = open[g] \cup {r} /\ n(g) < MaxConnections
  <2>1. CASE r \in open[g]
    <3>1. open[g] \cup {r} = open[g]
      BY <2>1
    <3>2. QED
      BY <1>2, <1>6, <3>1
  <2>2. CASE r \notin open[g]
    <3>1. Cardinality(open[g] \cup {r}) = n(g) + 1
      BY <1>2, <2>2, FS_AddElement
    <3>2. QED
      BY <1>1, <1>2, <1>6, <3>1
  <2>3. QED
    BY <2>1, <2>2
<1>7. CASE open'[g] = open[g] \ {r}
  <2>1. /\ open[g] \ {r} \in SUBSET open[g]
        /\ Cardinality(open[g] \ {r}) <= n(g) /\ Cardinality(open[g] \ {r}) \in Nat
    BY <1>2, FS_Subset, FS_CardinalityType
  <2>2. QED
    BY <1>1, <1>2, <1>7, <2>1
<1>8. QED
  BY <1>1, <1>3, <1>5, <1>6, <1>7

(* A step of either proxy keeps the types. *)
LEMMA GatewayTypeStep ==
  ASSUME GatewayTypeOK, NEW h \in Hops, NEW r \in Requests,
         HopStep(h, r) \/ FrontStep(r)
  PROVE  GatewayTypeOK'
<1>p. PoolsBounded'
  BY PoolStep
<1> USE <1>p DEF GatewayTypeOK, Handler, Hops, At, Go
<1>1. CASE Body(h, r)
  BY <1>1 DEF Body
<1>2. CASE Invalid(h, r)
  BY <1>2 DEF Invalid, Ends, MetricComplete
<1>3. CASE BodyRaises(h, r)
  BY <1>3 DEF BodyRaises, Ends
<1>4. CASE Send(h, r)
  BY <1>4 DEF Send
<1>5. CASE Unavailable(h, r)
  BY <1>5 DEF Unavailable, Ends, Close, MetricComplete
<1>6. CASE Head(h, r)
  BY <1>6 DEF Head, Upstream
<1>7. CASE Iterate(h, r)
  BY <1>7 DEF Iterate
<1>8. CASE NeverIterates(h, r)
  BY <1>8 DEF NeverIterates
<1>9. CASE End(h, r)
  BY <1>9 DEF End, Ends, Close, MetricComplete
<1>10. CASE Read(h, r)
  BY <1>10 DEF Read, Ends, Close, MetricComplete
<1>11. CASE ReadRaises(h, r)
  BY <1>11 DEF ReadRaises, Ends, Close
<1>12. CASE Connect(r)
  BY <1>12 DEF Connect
<1>13. CASE Admit(r)
  BY <1>13 DEF Admit
<1>14. CASE Refuse(r)
  BY <1>14 DEF Refuse, Ends
<1>15. CASE Forbid(r)
  BY <1>15 DEF Forbid, Ends
<1>16. CASE ClientLeaves(r)
  BY <1>16 DEF ClientLeaves
<1>17. QED
  BY <1>1, <1>2, <1>3, <1>4, <1>5, <1>6, <1>7, <1>8, <1>9, <1>10, <1>11, <1>12, <1>13,
       <1>14, <1>15, <1>16 DEF HopStep, FrontStep

(* No step starts a handler of the gateway before the multiplexer sends. *)
LEMMA IdleStep ==
  ASSUME GatewayTypeOK, \A q \in Requests : Idle(q), NEW h \in Hops, NEW r \in Requests,
         HopStep(h, r) \/ FrontStep(r)
  PROVE  \A q \in Requests : Idle(q)'
<1> USE DEF GatewayTypeOK, Handler, Idle, Hops, At, Go
<1>1. CASE Body(h, r)
  BY <1>1 DEF Body
<1>2. CASE Invalid(h, r)
  BY <1>2 DEF Invalid, Ends, MetricComplete
<1>3. CASE BodyRaises(h, r)
  BY <1>3 DEF BodyRaises, Ends
<1>4. CASE Send(h, r)
  BY <1>4 DEF Send
<1>5. CASE Unavailable(h, r)
  BY <1>5 DEF Unavailable, Ends, Close, MetricComplete
<1>6. CASE Head(h, r)
  BY <1>6 DEF Head, Upstream
<1>7. CASE Iterate(h, r)
  BY <1>7 DEF Iterate
<1>8. CASE NeverIterates(h, r)
  BY <1>8 DEF NeverIterates
<1>9. CASE End(h, r)
  BY <1>9 DEF End, Ends, Close, MetricComplete
<1>10. CASE Read(h, r)
  BY <1>10 DEF Read, Ends, Close, MetricComplete
<1>11. CASE ReadRaises(h, r)
  BY <1>11 DEF ReadRaises, Ends, Close
<1>12. CASE Connect(r)
  BY <1>12 DEF Connect
<1>13. CASE Admit(r)
  BY <1>13 DEF Admit
<1>14. CASE Refuse(r)
  BY <1>14 DEF Refuse, Ends
<1>15. CASE Forbid(r)
  BY <1>15 DEF Forbid, Ends
<1>16. CASE ClientLeaves(r)
  BY <1>16 DEF ClientLeaves
<1>17. QED
  BY <1>1, <1>2, <1>3, <1>4, <1>5, <1>6, <1>7, <1>8, <1>9, <1>10, <1>11, <1>12, <1>13,
       <1>14, <1>15, <1>16 DEF HopStep, FrontStep

(* A step of either proxy moves the gauge with the set it counts. *)
LEMMA AccountsStep ==
  ASSUME GatewayTypeOK, NEW h \in Hops, NEW r \in Requests, Idle(r),
         HopStep(h, r) \/ FrontStep(r)
  PROVE  Accounts(r)
<1> USE DEF GatewayTypeOK, Handler, Idle, Accounts, Serving, Hops, At, Go
<1>1. CASE Body(h, r)
  BY <1>1 DEF Body
<1>2. CASE Invalid(h, r)
  BY <1>2 DEF Invalid, Ends, MetricComplete
<1>3. CASE BodyRaises(h, r)
  BY <1>3 DEF BodyRaises, Ends
<1>4. CASE Send(h, r)
  BY <1>4 DEF Send
<1>5. CASE Unavailable(h, r)
  BY <1>5 DEF Unavailable, Ends, Close, MetricComplete
<1>6. CASE Head(h, r)
  BY <1>6 DEF Head, Upstream
<1>7. CASE Iterate(h, r)
  BY <1>7 DEF Iterate
<1>8. CASE NeverIterates(h, r)
  BY <1>8 DEF NeverIterates
<1>9. CASE End(h, r)
  BY <1>9 DEF End, Ends, Close, MetricComplete
<1>10. CASE Read(h, r)
  BY <1>10 DEF Read, Ends, Close, MetricComplete
<1>11. CASE ReadRaises(h, r)
  BY <1>11 DEF ReadRaises, Ends, Close
<1>12. CASE Connect(r)
  BY <1>12 DEF Connect
<1>13. CASE Admit(r)
  BY <1>13 DEF Admit
<1>14. CASE Refuse(r)
  BY <1>14 DEF Refuse, Ends
<1>15. CASE Forbid(r)
  BY <1>15 DEF Forbid, Ends
<1>16. CASE ClientLeaves(r)
  BY <1>16 DEF ClientLeaves
<1>17. QED
  BY <1>1, <1>2, <1>3, <1>4, <1>5, <1>6, <1>7, <1>8, <1>9, <1>10, <1>11, <1>12, <1>13,
       <1>14, <1>15, <1>16 DEF HopStep, FrontStep

(* The gauge follows, by counting.                                            *)
LEMMA GatewayInvStep ==
  ASSUME GatewayTypeOK, GatewayInv, NEW h \in Hops, NEW r \in Requests,
         HopStep(h, r) \/ FrontStep(r)
  PROVE  GatewayInv'
<1>1. \A q \in Requests : Idle(q)'
  BY IdleStep DEF GatewayInv
<1>2. Accounts(r)
  BY AccountsStep DEF GatewayInv
<1>3. IsFiniteSet(Serving)
  <2>1. Serving \in SUBSET Requests
    BY DEF Serving
  <2>2. QED
    BY <2>1, RequestAssumption, FS_Subset
<1>4. INFLIGHT = Cardinality(Serving) /\ Cardinality(Serving) \in Nat
  BY <1>3, FS_CardinalityType DEF GatewayInv
<1>5. INFLIGHT' = Cardinality(Serving')
  <2>1. CASE INFLIGHT' = INFLIGHT /\ Serving' = Serving
    BY <1>4, <2>1
  <2>2. CASE INFLIGHT' = INFLIGHT + 1 /\ r \notin Serving /\ Serving' = Serving \cup {r}
    BY <1>3, <1>4, <2>2, FS_AddElement
  <2>3. CASE /\ INFLIGHT' = IF INFLIGHT > 0 THEN INFLIGHT - 1 ELSE INFLIGHT
             /\ r \in Serving /\ Serving' = Serving \ {r}
    <3>1. Cardinality(Serving) # 0
      BY <1>3, <2>3, FS_EmptySet
    <3>2. Cardinality(Serving \ {r}) = Cardinality(Serving) - 1
      BY <1>3, <2>3, FS_RemoveElement
    <3>3. QED
      BY <1>4, <2>3, <3>1, <3>2
  <2>4. QED
    BY <1>2, <2>1, <2>2, <2>3 DEF Accounts
<1>6. QED
  BY <1>1, <1>5 DEF GatewayInv

(* A proxy that has received a request goes on until it is done with it.      *)
LEMMA LinkHopStep ==
  ASSUME GatewayTypeOK, LinkInv, NEW h \in Hops, NEW r \in Requests, HopStep(h, r),
         UNCHANGED <<pc, tok>>
  PROVE  LinkInv'
<1> USE RequestAssumption DEF GatewayTypeOK, LinkInv, Hops, At, Go
<1>1. CASE Body(h, r)
  BY <1>1 DEF Body
<1>2. CASE Invalid(h, r)
  BY <1>2 DEF Invalid, Ends
<1>3. CASE BodyRaises(h, r)
  BY <1>3 DEF BodyRaises, Ends
<1>4. CASE Send(h, r)
  BY <1>4 DEF Send
<1>5. CASE Unavailable(h, r)
  BY <1>5 DEF Unavailable, Ends
<1>6. CASE Head(h, r)
  BY <1>6 DEF Head, Upstream
<1>7. CASE Iterate(h, r)
  BY <1>7 DEF Iterate
<1>8. CASE NeverIterates(h, r)
  BY <1>8 DEF NeverIterates
<1>9. CASE End(h, r)
  BY <1>9 DEF End, Ends
<1>10. CASE Read(h, r)
  BY <1>10 DEF Read, Ends
<1>11. CASE ReadRaises(h, r)
  BY <1>11 DEF ReadRaises, Ends
<1>12. QED
  BY <1>1, <1>2, <1>3, <1>4, <1>5, <1>6, <1>7, <1>8, <1>9, <1>10, <1>11 DEF HopStep

(* A caller that works on its token has no request on its way.                *)
LEMMA LinkAuthStep ==
  ASSUME BearerTypeOK, LinkInv, NEW c \in Callers,
         Begin(c) \/ AuthStep(c) \/ Interrupt(c), UNCHANGED hop
  PROVE  LinkInv'
<1> USE DEF BearerTypeOK, LinkInv, Goto, Take
<1>1. CASE Begin(c)
  BY <1>1 DEF Begin
<1>2. CASE ResolveCached(c)
  BY <1>2 DEF ResolveCached
<1>3. CASE ResolveMiss(c)
  BY <1>3 DEF ResolveMiss
<1>4. CASE FetchPrints(c)
  BY <1>4 DEF FetchPrints, Prints
<1>5. CASE FetchStore(c)
  BY <1>5 DEF FetchStore
<1>6. CASE FetchFails(c)
  BY <1>6 DEF FetchFails
<1>7. CASE SetCachedAuth(c)
  BY <1>7 DEF SetCachedAuth
<1>8. CASE AuthCached(c)
  BY <1>8 DEF AuthCached
<1>9. CASE RefreshBegin(c)
  BY <1>9 DEF RefreshBegin
<1>10. CASE RefreshPrints(c)
  BY <1>10 DEF RefreshPrints, Prints
<1>11. CASE RefreshFails(c)
  BY <1>11 DEF RefreshFails, Finish
<1>12. CASE RefreshStore(c)
  BY <1>12 DEF RefreshStore
<1>13. CASE Commit(c)
  BY <1>13 DEF Commit
<1>14. CASE Interrupt(c)
  BY <1>14 DEF Interrupt, Finish, Waiting
<1>15. QED
  BY <1>1, <1>2, <1>3, <1>4, <1>5, <1>6, <1>7, <1>8, <1>9, <1>10, <1>11, <1>12, <1>13,
       <1>14 DEF AuthStep

----------------------------------------------------------------------------
(* The invariant holds when the process starts. *)
LEMMA RequestInvInit == RequestInit => RequestInv
<1> SUFFICES ASSUME RequestInit PROVE RequestInv
  OBVIOUS
<1> USE DEF RequestInit, BearerInit, GatewayInit
<1>1. BearerTypeOK /\ BearerInv
  <2>1. /\ pc = [c \in Callers |-> "idle"]
        /\ cached_token = 0 /\ refreshed = 0 /\ issued = 0
    BY DEF NoToken
  <2>2. BearerTypeOK
    <3> "idle" \in Places
      BY DEF Places
    <3> QED
      BY DEF BearerTypeOK, NoToken
  <2>3. BearerInv
    BY <2>1 DEF BearerInv
  <2>4. QED
    BY <2>2, <2>3
<1>2. GatewayTypeOK
  <2>1. PoolsBounded
    BY GatewayAssumption, FS_EmptySet DEF PoolsBounded, Hops
  <2>2. QED
    BY <2>1 DEF GatewayTypeOK, Handler
<1>3. LinkInv /\ \A r \in Requests : Idle(r)
  BY RequestAssumption DEF LinkInv, Idle, Hops
<1>4. Serving = {} /\ INFLIGHT = 0
  BY DEF Serving, Hops
<1>5. QED
  BY <1>1, <1>2, <1>3, <1>4, FS_EmptySet DEF RequestInv, RequestTypeOK, GatewayInv

(* Every step of the composition preserves the invariant. *)
LEMMA RequestInvStep ==
  ASSUME RequestInv, [RequestNext]_requestVars
  PROVE  RequestInv'
<1> USE DEF RequestInv, RequestTypeOK
<1>1. ASSUME UNCHANGED gatewayVars PROVE GatewayTypeOK' /\ GatewayInv' /\ UNCHANGED hop
  BY <1>1 DEF gatewayVars, GatewayTypeOK, PoolsBounded, GatewayInv, Serving, Idle
<1>2. ASSUME UNCHANGED bearerVars PROVE BearerTypeOK' /\ BearerInv' /\ UNCHANGED <<pc, tok>>
  BY <1>2 DEF bearerVars, bearer, manager, BearerTypeOK, BearerInv
<1>3. ASSUME NEW c \in Callers, Begin(c) \/ AuthStep(c) \/ Interrupt(c), UNCHANGED gatewayVars
      PROVE  RequestInv'
  BY <1>1, <1>3, BearerTypeStep, BearerInvStep, LinkAuthStep DEF BearerAction
<1>4. ASSUME NEW c \in Callers, SendRequest(c) PROVE RequestInv'
  <2>1. RoundAction(c) /\ FrontStep(c)
    BY <1>4 DEF SendRequest, RoundAction, FrontStep
  <2>2. LinkInv'
    BY <1>4, RequestAssumption
    DEF SendRequest, Connect, LinkInv, BearerTypeOK, GatewayTypeOK, Goto, At, Go, Hops
  <2>3. QED
    BY <2>1, <2>2, RequestAssumption, RoundStep, GatewayTypeStep, GatewayInvStep DEF Hops
<1>5. ASSUME NEW c \in Callers, Authenticate(c) PROVE RequestInv'
  <2>1. FrontStep(c)
    BY <1>5 DEF Authenticate, FrontStep
  <2>2. GatewayTypeOK' /\ GatewayInv'
    BY <2>1, RequestAssumption, GatewayTypeStep, GatewayInvStep DEF Hops
  <2>3. hop["mux"][c] = "auth"
    BY <1>5 DEF Authenticate, Admit, Forbid, Refuse, At
  <2>4. CASE tok[c] # NoToken /\ (Admit(c) \/ Forbid(c)) /\ Take(c, NoToken)
             /\ UNCHANGED <<bearer, manager, issued, pc, calls, step>>
    <3>1. pc[c] = "sent"
      BY <2>3, <2>4 DEF LinkInv
    <3>2. BearerTypeOK' /\ BearerInv'
      BY <2>4, <3>1, RoundStep DEF RoundAction
    <3>3. LinkInv'
      BY <2>4, <3>1, RequestAssumption
      DEF LinkInv, Admit, Forbid, Ends, Take, Go, At, BearerTypeOK, GatewayTypeOK, Hops
    <3>4. QED
      BY <2>2, <3>2, <3>3
  <2>5. CASE Refuse(c) /\ UNCHANGED bearerVars
    <3>1. LinkInv'
      BY <1>2, <2>5, RequestAssumption DEF LinkInv, Refuse, Ends, Go, GatewayTypeOK, Hops
    <3>2. QED
      BY <1>2, <2>2, <2>5, <3>1
  <2>6. CASE Refuse(c) /\ Unauthorized(c)
    <3>1. BearerTypeOK' /\ BearerInv'
      BY <2>6, BearerTypeStep, BearerInvStep DEF BearerAction
    <3>2. LinkInv'
      BY <2>6, RequestAssumption
      DEF LinkInv, Refuse, Unauthorized, Finish, Goto, Take, Ends, Go, BearerTypeOK,
          GatewayTypeOK, Hops
    <3>3. QED
      BY <2>2, <3>1, <3>2
  <2>7. QED
    BY <1>5, <2>4, <2>5, <2>6 DEF Authenticate
<1>6. ASSUME NEW c \in Callers, Responds(c) PROVE RequestInv'
  <2>1. RoundAction(c) /\ UNCHANGED gatewayVars
    BY <1>6 DEF Responds, RoundAction
  <2>2. LinkInv'
    BY <1>1, <1>6, <2>1 DEF Responds, LinkInv, Finish, Goto, Take, BearerTypeOK
  <2>3. QED
    BY <1>1, <2>1, <2>2, RoundStep
<1>7. ASSUME NEW c \in Callers, pc[c] = "sent", Finish(c), ClientLeaves(c),
             UNCHANGED <<bearer, manager, issued, calls>>
      PROVE  RequestInv'
  <2>1. RoundAction(c) /\ FrontStep(c)
    BY <1>7 DEF RoundAction, FrontStep
  <2>2. LinkInv'
    BY <1>7 DEF ClientLeaves, LinkInv, Finish, Goto, Take, BearerTypeOK
  <2>3. QED
    BY <2>1, <2>2, RequestAssumption, RoundStep, GatewayTypeStep, GatewayInvStep DEF Hops
<1>8. ASSUME NEW h \in Hops, NEW c \in Requests, ProxyPhase(h, c) PROVE RequestInv'
  BY <1>2, <1>8, GatewayTypeStep, GatewayInvStep, LinkHopStep DEF ProxyPhase
<1>9. ASSUME Elapse, UNCHANGED gatewayVars PROVE RequestInv'
  BY <1>1, <1>9, ElapseStep DEF Elapse, LinkInv
<1>10. ASSUME UNCHANGED requestVars PROVE RequestInv'
  BY <1>1, <1>2, <1>10 DEF requestVars, LinkInv
<1>11. QED
  BY <1>3, <1>4, <1>5, <1>6, <1>7, <1>8, <1>9, <1>10 DEF RequestNext, AuthPhase, Stop

(* The inductive invariant of the composition holds throughout. *)
THEOREM RequestInvariant == RequestSpec => []RequestInv
BY RequestInvInit, RequestInvStep, PTL DEF RequestSpec

(* Caches, locks, callers, proxies and gauge keep their types; in particular  *)
(* INFLIGHT is never negative (_metric_complete) and no proxy has more        *)
(* connections than its client's limit allows.                                *)
THEOREM RequestTypeCorrect == RequestSpec => []RequestTypeOK
<1>1. RequestInv => RequestTypeOK
  BY DEF RequestInv
<1>2. QED
  BY RequestInvariant, <1>1, PTL

(* No resolve() or refresh() replaces what a refresh() has returned by an     *)
(* older token, for any number of concurrent requests (BearerTokenRefresher). *)
THEOREM RefreshStaysCurrent == RequestSpec => []RefreshIsCurrent
<1>1. RequestInv => RefreshIsCurrent
  BY DEF RequestInv, RequestTypeOK, BearerTypeOK, BearerInv, RefreshIsCurrent
<1>2. QED
  BY RequestInvariant, <1>1, PTL

(* By how much the gauge exceeds the requests that are being proxied: by the  *)
(* requests whose handler raised and those whose iterator never started, each *)
(* once and for ever; max(0, ...) never hides a request (_metric_start,       *)
(* _metric_complete and their callers).                                       *)
THEOREM GaugeDrift ==
  RequestSpec => [](INFLIGHT = Cardinality(Proxied) + Cardinality(Leaked))
<1>1. RequestInv => INFLIGHT = Cardinality(Proxied) + Cardinality(Leaked)
  <2> SUFFICES ASSUME RequestInv
               PROVE  INFLIGHT = Cardinality(Proxied) + Cardinality(Leaked)
    OBVIOUS
  <2>1. Proxied \in SUBSET Requests /\ Leaked \in SUBSET Requests
    BY DEF Proxied, Leaked
  <2>2. IsFiniteSet(Proxied) /\ IsFiniteSet(Leaked)
    BY <2>1, RequestAssumption, FS_Subset
  <2>3. Serving = Proxied \cup Leaked /\ Proxied \cap Leaked = {}
    BY DEF Serving, Proxied, Leaked
  <2>4. Cardinality(Proxied \cap Leaked) = 0
    BY <2>3, FS_EmptySet
  <2>5. Cardinality(Proxied) \in Nat /\ Cardinality(Leaked) \in Nat
    BY <2>2, FS_CardinalityType
  <2>6. Cardinality(Serving) = Cardinality(Proxied) + Cardinality(Leaked)
    <3>1. Cardinality(Proxied \cup Leaked) =
            Cardinality(Proxied) + Cardinality(Leaked) - Cardinality(Proxied \cap Leaked)
      BY <2>2, FS_Union
    <3>2. QED
      BY <2>3, <2>4, <2>5, <3>1
  <2>7. QED
    BY <2>6 DEF RequestInv, GatewayInv
<1>2. QED
  BY RequestInvariant, <1>1, PTL
=============================================================================
