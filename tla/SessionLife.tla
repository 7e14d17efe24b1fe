---------------------------- MODULE SessionLife ----------------------------
(***************************************************************************)
(* What the authentication service promises about a login session: it is   *)
(* opened once, and when it is over (logged out, revoked, expired, refused *)
(* for want of an invitation) it never comes back.                         *)
(***************************************************************************)
CONSTANT Sessions

VARIABLE phase   \* phase[s]: "none", "live" or "over"

Init == phase = [s \in Sessions |-> "none"]

Open(s) ==
  /\ phase[s] = "none"
  /\ phase' = [phase EXCEPT ![s] = "live"]

\* Revoking an invitation, and the clock, end several sessions at once.
Close(S) ==
  /\ \A s \in S : phase[s] = "live"
  /\ phase' = [s \in Sessions |-> IF s \in S THEN "over" ELSE phase[s]]

Next == \/ \E s \in Sessions : Open(s)
        \/ \E S \in SUBSET Sessions : Close(S)

Spec == Init /\ [][Next]_phase
=============================================================================
