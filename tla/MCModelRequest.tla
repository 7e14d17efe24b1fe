--------------------------- MODULE MCModelRequest ---------------------------
(* A small instance of ModelRequest for TLC. *)
EXTENDS ModelRequest

CONSTANTS c1, c2
=============================================================================
