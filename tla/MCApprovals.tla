---------------------------- MODULE MCApprovals ----------------------------
(* A small instance of Approvals for TLC. *)
EXTENDS Approvals, TLC

CONSTANTS t1, t2, t3, s1, s2, s3, s4, u1, u2, i1, q1, q2, a1, p1, r1, k1, k2

\* Turns alone; turns and the guardian; turns whose calls wait for answers.
MCWorkloads ==
  {{u1, u2, q1, "interrupt", "compact", "stop_hook"},
   {u1, q1, q2, i1, "interrupt", "guardian", "shutdown"},
   {u1, u2, "interrupt", a1, p1},
   {u1, "interrupt", "guardian", a1, p1},
   {u1, u2, "interrupt", r1, p1},
   {u1, u2, "interrupt", k1, k2}}
=============================================================================
