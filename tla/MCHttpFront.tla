------------------------------ MODULE MCHttpFront ------------------------------
(* A small instance of HttpFront for TLC. *)
EXTENDS HttpFront, TLC

CONSTANTS s1, s2, c1, i1, i2, i3

Symmetry == Permutations({s1, s2}) \cup Permutations({i1, i2, i3})
=============================================================================
