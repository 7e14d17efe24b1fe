-------------------------- MODULE MCTurnLifecycle --------------------------
(* Small instances of TurnLifecycle for TLC. *)
EXTENDS TurnLifecycle, TLC

CONSTANTS t1, t2, t3, t4, s1, s2, s3, s4, u1, u2, u3, v1, m1, m2, q1, q2, i1

\* Mail and input that needs an idle session; input of both kinds and interrupt;
\* user input with compact, interrupt and shutdown, or with the guardian and a hook.
LiveWorkloads ==
  {{v1, m1, m2, q1, "start_hook"},
   {v1, u1, "interrupt"},
   {u1, "interrupt", "compact", "shutdown"},
   {u1, "guardian", "stop_hook"}}

\* A session that sees one of the workloads, run fairly.
LiveSpec ==
  /\ \E w \in LiveWorkloads : InitWithout((Items \union Controls) \ w)
  /\ [][Next]_vars
  /\ Fairness
=============================================================================
