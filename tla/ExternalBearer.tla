--------------------------- MODULE ExternalBearer ---------------------------
(* The core's bearer token when a provider command supplies it               *)
(* (login/src/auth/external_bearer.rs, and the external path of AuthManager  *)
(* in login/src/auth/manager.rs): a cache behind an async mutex, filled by   *)
(* resolve() while it holds the mutex and by refresh() after a command that  *)
(* runs outside it; a second cache in the manager, written by every auth()   *)
(* and by a recovery; and a permit that lets one recovery run at a time.     *)
(* Tokens are numbered in the order in which the command prints them.        *)
EXTENDS Naturals

CONSTANTS
    Callers,     \* the model requests of one core process
    None,        \* nobody holds the lock
    AuthCalls,   \* how often current_client_setup calls auth()
    MaxIssued    \* bound: tokens the command prints before it only fails

ASSUME BearerAssumption ==
    None \notin Callers /\ AuthCalls \in Nat \ {0} /\ MaxIssued \in Nat

NoToken == 0

VARIABLES
    cached_token,   \* ExternalBearerAuthState.cached_token
    fresh,          \* the cached token is younger than refresh_interval
    locked,         \* who holds the mutex of cached_token
    auth,           \* CachedAuth.auth of the manager
    refresh_lock,   \* who holds the permit of refresh_lock
    issued,         \* tokens printed so far
    refreshed,      \* newest token that a refresh() has returned
    pc, tok, calls, \* a caller's place, its token, its auth() calls so far
    step            \* UnauthorizedRecoveryStep of its request

bearer == <<cached_token, fresh, locked, refreshed>>
manager == <<auth, refresh_lock>>
bearerVars == <<bearer, manager, issued, pc, tok, calls, step>>

Places == {"idle", "resolve", "fetching", "fetched", "loaded", "read", "send", "sent",
           "recover", "refreshing", "refreshed", "commit", "ended"}

BearerTypeOK ==
    /\ cached_token \in Nat /\ auth \in Nat /\ issued \in Nat /\ refreshed \in Nat
    /\ fresh \in BOOLEAN
    /\ locked \in Callers \cup {None} /\ refresh_lock \in Callers \cup {None}
    /\ pc \in [Callers -> Places]
    /\ tok \in [Callers -> Nat]
    /\ calls \in [Callers -> Nat]
    /\ step \in [Callers -> {"ExternalRefresh", "Done"}]

(* external_bearer_only: both caches empty. *)
BearerInit ==
    /\ cached_token = NoToken /\ fresh = FALSE /\ locked = None
    /\ auth = NoToken /\ refresh_lock = None
    /\ issued = 0 /\ refreshed = NoToken
    /\ pc = [c \in Callers |-> "idle"]
    /\ tok = [c \in Callers |-> NoToken]
    /\ calls = [c \in Callers |-> 0]
    /\ step = [c \in Callers |-> "ExternalRefresh"]

Goto(c, place) == pc' = [pc EXCEPT ![c] = place]
Take(c, t) == tok' = [tok EXCEPT ![c] = t]
(* The request returns, and its local variables with it. *)
Finish(c) ==
    /\ Goto(c, "ended")
    /\ Take(c, NoToken)
    /\ step' = [step EXCEPT ![c] = "ExternalRefresh"]
Usable == cached_token # NoToken /\ fresh

----------------------------------------------------------------------------
(* stream_responses_api starts: a recovery of its own, then the loop's setup *)
Begin(c) ==
    /\ pc[c] = "idle"
    /\ Goto(c, "resolve")
    /\ UNCHANGED <<bearer, manager, issued, tok, calls, step>>

(* resolve() finds a token that is young enough. *)
ResolveCached(c) ==
    /\ pc[c] = "resolve" /\ locked = None /\ Usable
    /\ Take(c, cached_token)
    /\ Goto(c, "loaded")
    /\ UNCHANGED <<bearer, manager, issued, calls, step>>

(* Mutant: the mutex is released while the command runs. *)
ResolveMissUnlocked(c) ==
    /\ pc[c] = "resolve" /\ locked = None /\ ~Usable
    /\ Goto(c, "fetching")
    /\ UNCHANGED <<bearer, manager, issued, tok, calls, step>>

(* resolve() misses: the mutex stays locked while the command runs. *)
ResolveMiss(c) ==
    /\ pc[c] = "resolve" /\ locked = None /\ ~Usable
    /\ locked' = c
    /\ Goto(c, "fetching")
    /\ UNCHANGED <<cached_token, fresh, refreshed, manager, issued, tok, calls, step>>

(* The command has obtained the token it is about to print. *)
Prints(c, before, after) ==
    /\ pc[c] = before /\ issued < MaxIssued
    /\ issued' = issued + 1
    /\ Take(c, issued + 1)
    /\ Goto(c, after)
    /\ UNCHANGED <<bearer, manager, calls, step>>

FetchPrints(c) == Prints(c, "fetching", "fetched")

FetchStore(c) ==
    /\ pc[c] = "fetched"
    /\ cached_token' = tok[c] /\ fresh' = TRUE /\ locked' = None
    /\ Goto(c, "loaded")
    /\ UNCHANGED <<refreshed, manager, issued, tok, calls, step>>

(* It exits with an error, prints nothing or is killed by its timeout: a     *)
(* transient error, so load_auth returns None.                               *)
FetchFails(c) ==
    /\ pc[c] = "fetching"
    /\ locked' = None
    /\ Take(c, NoToken)
    /\ Goto(c, "loaded")
    /\ UNCHANGED <<cached_token, fresh, refreshed, manager, issued, calls, step>>

(* reload() stores what load_auth returned, under no lock but its own. *)
SetCachedAuth(c) ==
    /\ pc[c] = "loaded"
    /\ auth' = tok[c]
    /\ Goto(c, "read")
    /\ UNCHANGED <<bearer, refresh_lock, issued, tok, calls, step>>

(* auth() returns the cached value; the last call's value signs the request. *)
AuthCached(c) ==
    /\ pc[c] = "read"
    /\ Take(c, auth)
    /\ IF calls[c] + 1 < AuthCalls
       THEN Goto(c, "resolve") /\ calls' = [calls EXCEPT ![c] = @ + 1]
       ELSE Goto(c, "send") /\ calls' = [calls EXCEPT ![c] = 0]
    /\ UNCHANGED <<bearer, manager, issued, step>>

----------------------------------------------------------------------------
(* The server answers 401: one recovery per request, then the error stands. *)
Unauthorized(c) ==
    /\ pc[c] = "sent"
    /\ IF step[c] = "Done"
       THEN Finish(c)
       ELSE Goto(c, "recover") /\ UNCHANGED <<tok, step>>
    /\ UNCHANGED <<bearer, manager, issued, calls>>

(* refresh_token_from_authority *)
RefreshBegin(c) ==
    /\ pc[c] = "recover" /\ refresh_lock = None
    /\ refresh_lock' = c
    /\ Goto(c, "refreshing")
    /\ UNCHANGED <<bearer, auth, issued, tok, calls, step>>

RefreshPrints(c) == Prints(c, "refreshing", "refreshed")

(* Mutant: the error path keeps the permit. *)
RefreshFailsKeepsPermit(c) ==
    /\ pc[c] = "refreshing"
    /\ Finish(c)
    /\ UNCHANGED <<bearer, manager, issued, calls>>

RefreshFails(c) ==
    /\ pc[c] = "refreshing"
    /\ refresh_lock' = None
    /\ Finish(c)
    /\ UNCHANGED <<bearer, auth, issued, calls>>

(* refresh() of BearerTokenRefresher takes the mutex only to store. *)
RefreshStore(c) ==
    /\ pc[c] = "refreshed" /\ locked = None
    /\ cached_token' = tok[c] /\ fresh' = TRUE
    /\ refreshed' = IF tok[c] > refreshed THEN tok[c] ELSE refreshed
    /\ Goto(c, "commit")
    /\ UNCHANGED <<locked, manager, issued, tok, calls, step>>

(* commit_external_auth, the end of the permit, and the step becomes Done. *)
Commit(c) ==
    /\ pc[c] = "commit"
    /\ auth' = tok[c] /\ refresh_lock' = None
    /\ step' = [step EXCEPT ![c] = "Done"]
    /\ Goto(c, "resolve")
    /\ UNCHANGED <<bearer, issued, tok, calls>>

(* The turn is interrupted at an await: the future is dropped, and with it   *)
(* the guards it holds; a running command is killed.                         *)
Waiting == {"resolve", "fetching", "fetched", "recover", "refreshing", "refreshed"}

Interrupt(c) ==
    /\ pc[c] \in Waiting
    /\ locked' = IF locked = c THEN None ELSE locked
    /\ refresh_lock' = IF refresh_lock = c THEN None ELSE refresh_lock
    /\ Finish(c)
    /\ calls' = [calls EXCEPT ![c] = 0]
    /\ UNCHANGED <<cached_token, fresh, refreshed, auth, issued>>

(* refresh_interval passes. *)
Elapse ==
    /\ fresh /\ fresh' = FALSE
    /\ UNCHANGED <<cached_token, locked, refreshed, manager, issued, pc, tok, calls, step>>

AuthStep(c) ==
    \/ ResolveCached(c) \/ ResolveMiss(c) \/ FetchPrints(c) \/ FetchStore(c) \/ FetchFails(c)
    \/ SetCachedAuth(c) \/ AuthCached(c)
    \/ RefreshBegin(c) \/ RefreshPrints(c) \/ RefreshFails(c) \/ RefreshStore(c) \/ Commit(c)

----------------------------------------------------------------------------
(* What a refresh() has returned is current for every later resolve(): the   *)
(* cache never again holds an older token, although resolve() and refresh()  *)
(* of other requests fetch and store tokens at the same time                 *)
(* (ExternalAuth::refresh; resolve's mutex and the refresh permit).          *)
RefreshIsCurrent == cached_token >= refreshed
=============================================================================
