---------------------------- MODULE MCDeliveryQueue ----------------------------
(* Small instances of DeliveryQueue for TLC. *)
EXTENDS DeliveryQueue, TLC

CONSTANTS w1, w2, r

OneWorker == {w1}
TwoWorkers == {w1, w2}

\* Workers are interchangeable.
Symmetry == Permutations(Workers)

AllFaultKinds == {"replyLost", "pendingError", "ackNone", "ackOnly"}
=============================================================================
