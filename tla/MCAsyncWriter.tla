----------------------------- MODULE MCAsyncWriter -----------------------------
(* A small instance of AsyncWriter for TLC. *)
EXTENDS AsyncWriter

FourOps == 1..4
=============================================================================
