------------------------ MODULE MCModelRequestRetry ------------------------
(* ModelRequest with a history variable: the token that the server refused. *)
EXTENDS MCModelRequest

VARIABLE rejected   \* the token for which a request last got its 401

RetryInit == RequestInit /\ rejected = [c \in Callers |-> NoToken]

RetryNext ==
    /\ RequestNext
    /\ rejected' = [c \in Callers |->
                      IF pc[c] = "sent" /\ pc'[c] = "recover" THEN tok[c] ELSE rejected[c]]

RetrySpec == RetryInit /\ [][RetryNext]_<<requestVars, rejected>>

(* A request that was answered with 401 and has recovered is sent again with *)
(* another token than the one that was refused (handle_unauthorized, reload  *)
(* and auth_cached; docs/authentication.md).                                 *)
RetryIsFresh ==
    \A c \in Callers :
        pc[c] = "sent" /\ step[c] = "Done" /\ rejected[c] # NoToken => tok[c] # rejected[c]
=============================================================================
