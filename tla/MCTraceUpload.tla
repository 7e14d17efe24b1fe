--------------------------- MODULE MCTraceUpload ---------------------------
(* Small instances of TraceUpload for TLC. *)
EXTENDS TraceUpload, TLC

CONSTANTS h1, h2, alice, p1, p2

MCVersions == 1 .. MaxTime

\* Archives of two parts: 3 bytes, cut every 2 bytes.
MCSize == [v \in Versions |-> 3]

Symmetry == Permutations({h1, h2}) \cup Permutations({p1, p2})
=============================================================================
