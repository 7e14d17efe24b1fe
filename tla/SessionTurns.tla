---------------------------- MODULE SessionTurns ----------------------------
(***************************************************************************)
(* What a session promises about its turns: a turn starts when no other    *)
(* one runs, stops running by finishing or by being aborted, never both,   *)
(* and only then sends its one terminal event.  It does not promise that   *)
(* the next turn waits for that event.                                     *)
(***************************************************************************)
EXTENDS Naturals

CONSTANT Turns

VARIABLES
  status,  \* status[t]: "none", "running", "finished" or "aborted"
  ends     \* ends[t]: terminal events sent for turn t

Init ==
  /\ status = [t \in Turns |-> "none"]
  /\ ends = [t \in Turns |-> 0]

Start(t) ==
  /\ status[t] = "none"
  /\ \A u \in Turns : status[u] # "running"
  /\ status' = [status EXCEPT ![t] = "running"]
  /\ UNCHANGED ends

Stop(t) ==
  /\ status[t] = "running"
  /\ \E how \in {"finished", "aborted"} : status' = [status EXCEPT ![t] = how]
  /\ UNCHANGED ends

Report(t) ==
  /\ status[t] \in {"finished", "aborted"}
  /\ ends[t] = 0
  /\ ends' = [ends EXCEPT ![t] = 1]
  /\ UNCHANGED status

Next == \E t \in Turns : Start(t) \/ Stop(t) \/ Report(t)

Spec == Init /\ [][Next]_<<status, ends>>
=============================================================================
