------------------------------ MODULE Gateway -------------------------------
(* The two proxies between the client and the inference server: the model    *)
(* multiplexer (gateway/model_mux.py) and the Responses gateway              *)
(* (gateway/codex_gateway.py).  The handlers have one shape: read the body,  *)
(* open an upstream response, then read it whole or hand it to a             *)
(* StreamingResponse, whose iterator alone closes it.  The multiplexer       *)
(* authenticates first; the gateway counts the requests it is serving.       *)
(* Starlette starts the iterator after the handler has returned, so a peer   *)
(* that is already gone may keep it from ever starting.                      *)
EXTENDS Naturals, FiniteSets

CONSTANTS
    Requests,         \* the requests on their way through the two proxies
    MaxConnections    \* max_connections of each proxy's httpx client

ASSUME GatewayAssumption == MaxConnections \in Nat \ {0}

VARIABLES
    client,     \* what the sender of a request does
    hop,        \* where the two handlers are
    open,       \* the upstream responses, and so the connections, of each proxy
    INFLIGHT    \* the gateway's gauge

gatewayVars == <<client, hop, open, INFLIGHT>>

Hops == {"mux", "gw"}
Handler == {"idle", "auth", "body", "pool", "head", "ready", "stream", "read",
            "done", "error", "stuck"}

(* No proxy has more connections than its client's limit (httpx.Limits). *)
PoolsBounded == \A h \in Hops : Cardinality(open[h]) <= MaxConnections

GatewayTypeOK ==
    /\ client \in [Requests -> {"none", "waiting", "gone"}]
    /\ hop \in [Hops -> [Requests -> Handler]]
    /\ open \in [Hops -> SUBSET Requests]
    /\ PoolsBounded
    /\ INFLIGHT \in Nat

GatewayInit ==
    /\ client = [r \in Requests |-> "none"]
    /\ hop = [h \in Hops |-> [r \in Requests |-> "idle"]]
    /\ open = [h \in Hops |-> {}]
    /\ INFLIGHT = 0

At(h, r, s) == hop[h][r] = s
Go(h, r, s) == hop' = [hop EXCEPT ![h][r] = s]
(* The handler ends, and with it the exchange with its peer. *)
Ends(h, r, s) ==
    /\ Go(h, r, s)
    /\ client' = IF h = "mux" THEN [client EXCEPT ![r] = "none"] ELSE client
Close(h, r) == open' = [open EXCEPT ![h] = @ \ {r}]

(* The client of the gateway is the multiplexer. *)
PeerGone(h, r) == IF h = "mux" THEN client[r] = "gone" ELSE r \notin open["mux"]

(* _metric_complete *)
MetricComplete(h) ==
    INFLIGHT' = IF h = "gw" /\ INFLIGHT > 0 THEN INFLIGHT - 1 ELSE INFLIGHT

----------------------------------------------------------------------------
Connect(r) ==
    /\ At("mux", r, "idle")
    /\ client' = [client EXCEPT ![r] = "waiting"]
    /\ Go("mux", r, "auth")
    /\ UNCHANGED <<open, INFLIGHT>>

(* authenticate_request admits the bearer token ... *)
Admit(r) ==
    /\ At("mux", r, "auth")
    /\ Go("mux", r, "body")
    /\ UNCHANGED <<client, open, INFLIGHT>>

(* ... refuses it with 401, which the client may follow by another try ... *)
Refuse(r) ==
    /\ At("mux", r, "auth")
    /\ Ends("mux", r, "idle")
    /\ UNCHANGED <<open, INFLIGHT>>

(* ... or finds the invitation revoked: 403. *)
Forbid(r) ==
    /\ At("mux", r, "auth")
    /\ Ends("mux", r, "done")
    /\ UNCHANGED <<open, INFLIGHT>>

Body(h, r) ==
    /\ At(h, r, "body")
    /\ Go(h, r, "pool")
    /\ UNCHANGED <<client, open, INFLIGHT>>

(* 400: the multiplexer has no route for the model, or the gateway no JSON. *)
Invalid(h, r) ==
    /\ At(h, r, "body")
    /\ Ends(h, r, "done")
    /\ MetricComplete(h)
    /\ UNCHANGED open

(* request.body() raises because the client left, or, in the gateway, the    *)
(* JSON is not an object: the request is not completed in the metrics.       *)
BodyRaises(h, r) ==
    /\ At(h, r, "body") /\ (h = "mux" => PeerGone(h, r))
    /\ Ends(h, r, "error")
    /\ UNCHANGED <<open, INFLIGHT>>

(* Mutant: every request has an httpx client, and so a pool, of its own. *)
SendOwnClient(h, r) ==
    /\ At(h, r, "pool")
    /\ open' = [open EXCEPT ![h] = @ \cup {r}]
    /\ IF h = "mux"
       THEN /\ hop' = [hop EXCEPT !["mux"][r] = "head", !["gw"][r] = "body"]
            /\ INFLIGHT' = INFLIGHT + 1
       ELSE Go(h, r, "head") /\ UNCHANGED INFLIGHT
    /\ UNCHANGED client

(* client.send takes a connection, waiting for one without a timeout.  That  *)
(* of the multiplexer starts the gateway's handler, which counts the request *)
(* before it reads the body.                                                 *)
Send(h, r) ==
    /\ At(h, r, "pool") /\ Cardinality(open[h]) < MaxConnections
    /\ open' = [open EXCEPT ![h] = @ \cup {r}]
    /\ IF h = "mux"
       THEN /\ hop' = [hop EXCEPT !["mux"][r] = "head", !["gw"][r] = "body"]
            /\ INFLIGHT' = INFLIGHT + 1
       ELSE Go(h, r, "head") /\ UNCHANGED INFLIGHT
    /\ UNCHANGED client

(* An httpx.HTTPError instead of a response: 502. *)
Unavailable(h, r) ==
    /\ At(h, r, "head")
    /\ Close(h, r)
    /\ Ends(h, r, "done")
    /\ MetricComplete(h)

(* The response headers: those of the gateway, or what the server sends. *)
Upstream(h, r) ==
    IF h = "gw" THEN {"ready", "read"}
    ELSE {s \in {"ready"} : At("gw", r, "stream")} \cup
         {s \in {"read"} : hop["gw"][r] \in {"done", "error"}}

Head(h, r) ==
    /\ At(h, r, "head")
    /\ \E next \in Upstream(h, r) : Go(h, r, next)
    /\ UNCHANGED <<client, open, INFLIGHT>>

(* The response starts, and with it _stream or _sse_body. *)
Iterate(h, r) ==
    /\ At(h, r, "ready")
    /\ Go(h, r, "stream")
    /\ UNCHANGED <<client, open, INFLIGHT>>

(* The peer is gone, the iterator never starts and its finally never runs. *)
NeverIterates(h, r) ==
    /\ At(h, r, "ready") /\ PeerGone(h, r)
    /\ Go(h, r, "stuck")
    /\ UNCHANGED <<client, open, INFLIGHT>>

(* Mutant: the iterator's finally does not close the response. *)
EndLeavesOpen(h, r) ==
    /\ At(h, r, "stream") /\ (h = "gw" => ~At("mux", r, "head"))
    /\ Ends(h, r, "done")
    /\ MetricComplete(h)
    /\ UNCHANGED open

(* The iterator ends, fails or is closed because the peer left: finally.     *)
(* The headers of the stream have reached the peer before its end does.      *)
End(h, r) ==
    /\ At(h, r, "stream") /\ (h = "gw" => ~At("mux", r, "head"))
    /\ Close(h, r)
    /\ Ends(h, r, "done")
    /\ MetricComplete(h)

(* aread, aclose and the answer. *)
Read(h, r) ==
    /\ At(h, r, "read")
    /\ Close(h, r)
    /\ Ends(h, r, "done")
    /\ MetricComplete(h)

(* aread raises: httpx closes the response, nobody completes the request. *)
ReadRaises(h, r) ==
    /\ At(h, r, "read")
    /\ Close(h, r)
    /\ Ends(h, r, "error")
    /\ UNCHANGED INFLIGHT

ClientLeaves(r) ==
    /\ client[r] = "waiting"
    /\ client' = [client EXCEPT ![r] = "gone"]
    /\ UNCHANGED <<hop, open, INFLIGHT>>

HopStep(h, r) ==
    \/ Body(h, r) \/ Invalid(h, r) \/ BodyRaises(h, r) \/ Send(h, r)
    \/ Unavailable(h, r) \/ Head(h, r)
    \/ Iterate(h, r) \/ NeverIterates(h, r) \/ End(h, r)
    \/ Read(h, r) \/ ReadRaises(h, r)

----------------------------------------------------------------------------
(* The gauge INFLIGHT is what its help text says, the number of "Requests    *)
(* currently being proxied": those whose handler, or the iterator that it    *)
(* returned, has yet to end (_metric_start, _metric_complete and their       *)
(* callers).                                                                 *)
InflightIsProxied ==
    INFLIGHT = Cardinality({r \in Requests :
                              hop["gw"][r] \notin {"idle", "done", "error", "stuck"}})
=============================================================================
