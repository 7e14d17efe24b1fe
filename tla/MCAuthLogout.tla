---------------------------- MODULE MCAuthLogout ----------------------------
(* AuthSessions with two history variables: who is signing out, and whether  *)
(* the user has.                                                             *)
EXTENDS MCAuthSessions

VARIABLES
  leaving,     \* clients that run a logout with which no login has overlapped
  signed_out   \* such a logout has finished, and no login has started since

LogoutInit == AuthInit /\ leaving = {} /\ signed_out = FALSE

\* A login loads no session; a refresh, which also saves one, does.
SigningIn ==
  \E c \in Clients :
    client[c].at \in {"exchange", "issue", "save", "write", "unlink"} /\ client[c].held = None

LogoutNext ==
  /\ AuthNext
  /\ leaving' = {c \in Clients :
                   /\ ~SigningIn'
                   /\ client'[c].at \in {"logout", "forget", "erase"}
                   /\ c \in leaving \/ At(c, "idle")}
  /\ signed_out' =
       /\ ~SigningIn'
       /\ signed_out \/ \E c \in leaving : client'[c].at = "idle"

LogoutSpec == LogoutInit /\ [][LogoutNext]_<<authVars, leaving, signed_out>>

\* `zip-code logout` removes the session: once it has finished, and until the
\* user logs in again, no session that the gateway would still refresh is
\* stored, whichever other process was refreshing it (logout, save_session and
\* revoke_refresh_token, docs/authentication.md).
LogoutRemovesSession ==
  signed_out /\ LoadSession # None => ~Live(LoadSession)
=============================================================================
