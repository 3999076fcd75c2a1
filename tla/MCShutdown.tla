------------------------------ MODULE MCShutdown -------------------------------
(* A small instance of Shutdown for TLC. *)
EXTENDS Shutdown

CONSTANTS f1, f2, bad, short, r1, s1, w1

AllPayloads == {f1, f2, r1}
=============================================================================
