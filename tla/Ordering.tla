------------------------------- MODULE Ordering --------------------------------
(***************************************************************************)
(* Sequences given by what is in them and in which order: the rows of a    *)
(* SELECT with ORDER BY, what a loop keeps of a slice.  They are defined   *)
(* by their property, not by a loop, so that it can be reasoned about.     *)
(***************************************************************************)
EXTENDS Integers, Sequences, FiniteSets, SequencesExt

\* The elements of a finite set, each once, in an order given as a set of pairs
InOrder(S, before) ==
  CHOOSE p \in SetToSeqs(S) : \A i, j \in DOMAIN p : i < j => <<p[i], p[j]>> \in before

\* The elements of a sequence at some of its places
Those(s, places) ==
  LET at == InOrder(places, {p \in places \X places : p[1] < p[2]})
  IN [k \in DOMAIN at |-> s[at[k]]]
=============================================================================
