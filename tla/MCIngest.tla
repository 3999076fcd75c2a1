------------------------------- MODULE MCIngest --------------------------------
(* Small instances of Ingest for TLC. *)
EXTENDS Ingest, TLC

CONSTANTS s1, s2, s3

TwoSlots == {s1, s2}
ThreeSlots == {s1, s2, s3}

Symmetry == Permutations(Slots)
=============================================================================
