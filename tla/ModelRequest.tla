---------------------------- MODULE ModelRequest ----------------------------
(* Model requests of one core process, from the bearer token to the end of   *)
(* the response stream (core/src/client.rs, stream_responses_api), through   *)
(* the token caches of ExternalBearer and the two proxies of Gateway.  The   *)
(* multiplexer's authenticate_request decides about the token that the       *)
(* caches supplied.                                                          *)
EXTENDS ExternalBearer, Gateway

(* Every caller has one request, and a core makes finitely many. *)
ASSUME RequestAssumption == Requests = Callers /\ IsFiniteSet(Callers)

requestVars == <<bearerVars, gatewayVars>>

RequestTypeOK == BearerTypeOK /\ GatewayTypeOK

RequestInit == BearerInit /\ GatewayInit

(* One round of the loop sends the request with the token it read. *)
SendRequest(c) ==
    /\ pc[c] = "send"
    /\ Goto(c, "sent")
    /\ Connect(c)
    /\ UNCHANGED <<bearer, manager, issued, tok, calls, step>>

(* decode_access_token and is_allowed, with the token of the request, which  *)
(* may have expired since the command printed it.                            *)
Authenticate(c) ==
    \/ /\ tok[c] # NoToken
       /\ Admit(c) \/ Forbid(c)
       /\ Take(c, NoToken)
       /\ UNCHANGED <<bearer, manager, issued, pc, calls, step>>
    \/ /\ Refuse(c)
       /\ IF client[c] = "gone" THEN UNCHANGED bearerVars ELSE Unauthorized(c)

(* The whole response, a stream or an error, has reached the client. *)
Responds(c) ==
    /\ pc[c] = "sent" /\ hop["mux"][c] \in {"done", "error"}
    /\ Finish(c)
    /\ UNCHANGED <<bearer, manager, issued, calls, gatewayVars>>

(* The turn is interrupted: before the request, or while it is under way. *)
Stop(c) ==
    \/ Interrupt(c) /\ UNCHANGED gatewayVars
    \/ /\ pc[c] = "sent"
       /\ Finish(c)
       /\ ClientLeaves(c)
       /\ UNCHANGED <<bearer, manager, issued, calls>>

AuthPhase(c) == AuthStep(c) /\ UNCHANGED gatewayVars
ProxyPhase(h, c) == HopStep(h, c) /\ UNCHANGED bearerVars

RequestNext ==
    \/ \E c \in Callers :
        \/ Begin(c) /\ UNCHANGED gatewayVars
        \/ AuthPhase(c) \/ SendRequest(c) \/ Authenticate(c)
        \/ Responds(c) \/ Stop(c)
    \/ \E h \in Hops, c \in Requests : ProxyPhase(h, c)
    \/ Elapse /\ UNCHANGED gatewayVars

(* A stream ends when its source has ended, or its peer has left. *)
StreamOver(h, c) ==
    \/ PeerGone(h, c)
    \/ IF h = "mux" THEN At("gw", c, "done") ELSE At("mux", c, "stream")

(* What the processes do by themselves: no interruption, no new request, and *)
(* a stream ends only when it is over.                                       *)
Progress(c) ==
    \/ AuthPhase(c) \/ SendRequest(c) \/ Authenticate(c) \/ Responds(c)
    \/ \E h \in Hops : ProxyPhase(h, c) /\ (At(h, c, "stream") => StreamOver(h, c))

(* Some process takes a step while one can: tokio and asyncio run what is    *)
(* ready, the provider command is killed by its timeout, and the inference   *)
(* server answers and ends its streams.  No process takes infinitely many    *)
(* steps, so no fairness between them is needed.                             *)
RequestFairness == WF_requestVars(\E c \in Callers : Progress(c))

RequestSpec == RequestInit /\ [][RequestNext]_requestVars /\ RequestFairness

----------------------------------------------------------------------------
(* An iterator that never started keeps its connection for ever. *)
Stuck == \E h \in Hops, c \in Requests : At(h, c, "stuck")

(* Every model request ends: the caches' locks and permits are given back,   *)
(* the recovery of a rejected token is tried once, and a request that waits  *)
(* for one of the proxies' connections gets it, unless an iterator that      *)
(* never started has taken it (stream_responses_api, handle_unauthorized,    *)
(* the two proxy handlers).                                                  *)
EveryRequestEnds ==
    \A c \in Callers : (pc[c] = "resolve") ~> (pc[c] = "ended" \/ Stuck)

(* When the client of a stream leaves, both proxies close their upstream     *)
(* responses, which stops the generation, unless an iterator never started   *)
(* (the finally of _stream and of _sse_body).                                *)
AbandonedStreamsClose ==
    \A c \in Callers :
        (client[c] = "gone") ~> ((\A h \in Hops : c \notin open[h]) \/ Stuck)
=============================================================================
