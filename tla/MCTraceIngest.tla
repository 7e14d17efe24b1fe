--------------------------- MODULE MCTraceIngest ---------------------------
(* Small instances of TraceIngest for TLC. *)
EXTENDS TraceIngest, TLC

CONSTANTS h1, h2, alice, bob, t1, v1

\* An archive of two parts: 3 bytes, cut every 2 bytes.
MCSize == [v \in Versions |-> 3]

Symmetry == Permutations(Handlers) \cup Permutations(Logins)
=============================================================================
