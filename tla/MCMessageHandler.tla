--------------------------- MODULE MCMessageHandler ----------------------------
(* A small instance of MessageHandler for TLC.  Devices do not share state, so *)
(* one device shows what its messages do to each other.                        *)
EXTENDS MessageHandler

CONSTANTS d1

OneDevice == {d1}

Stop(d) == [imei |-> d, stop |-> TRUE, finite |-> TRUE]
Move(d) == [imei |-> d, stop |-> FALSE, finite |-> TRUE]

\* A stop with a coordinate "NaN"
OddStop(d) == [imei |-> d, stop |-> TRUE, finite |-> FALSE]

ThreeMsgs == 1..3

\* The device stops, moves and stops again, and reports a late stop.
Trip == <<<<Stop(d1)>>, <<Move(d1), Stop(d1)>>, <<Stop(d1)>>>>

\* The device stops, and moves and stops twice, once with an odd coordinate.
OddTrip == <<<<Stop(d1)>>, <<Move(d1), Stop(d1)>>, <<Move(d1), OddStop(d1)>>>>
=============================================================================
