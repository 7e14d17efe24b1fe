--------------------------- MODULE MCAuthSessions ---------------------------
(* Small instances of AuthSessions for TLC. *)
EXTENDS AuthSessions, TLC

CONSTANTS alice, c1, c2, r1, r2, r3, r4

Symmetry == Permutations({c1, c2}) \cup Permutations(Tokens)
=============================================================================
