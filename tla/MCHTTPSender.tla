----------------------------- MODULE MCHTTPSender ------------------------------
(* A small instance of HTTPSender for TLC. *)
EXTENDS HTTPSender

CONSTANTS s1, s2

TwoSenders == {s1, s2}
LastHealthy == {NumServers - 1}
OneDelay == {1}
=============================================================================
