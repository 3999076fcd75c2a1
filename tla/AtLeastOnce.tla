----------------------------- MODULE AtLeastOnce ------------------------------
(***************************************************************************)
(* What the queue of internal/queue promises its producers, without        *)
(* streams, groups or workers: an accepted message is owed a successful    *)
(* handling.  The debt is discharged only after the handler returned nil   *)
(* for the message or after MaxRetries deliveries; otherwise it can only   *)
(* be lost by Redis itself (eviction by MAXLEN, a wiped database).         *)
(***************************************************************************)
EXTENDS Integers

CONSTANTS Msgs, MaxRetries

VARIABLES
  accepted,    \* messages the queue took over
  owed,        \* accepted messages that will still be delivered
  deliveries,  \* how often each message was handed out
  handled,     \* messages some handler call returned nil for
  lost         \* messages Redis removed on its own

vars == <<accepted, owed, deliveries, handled, lost>>

Init ==
  /\ accepted = {} /\ owed = {} /\ handled = {} /\ lost = {}
  /\ deliveries = [m \in Msgs |-> 0]

\* MaxRetries = 0 means that no number of deliveries is enough.
Exhausted == {m \in Msgs : MaxRetries > 0 /\ deliveries[m] >= MaxRetries}

\* A producer hands over m; making room may evict others.
Accept(m) ==
  /\ m \in Msgs \ accepted
  /\ accepted' = accepted \cup {m}
  /\ \E S \in SUBSET accepted :
       /\ owed' = (owed \cup {m}) \ S
       /\ lost' = lost \cup S
  /\ UNCHANGED <<deliveries, handled>>

Deliver(S) ==
  /\ S \subseteq owed
  /\ deliveries' = [m \in Msgs |-> deliveries[m] + (IF m \in S THEN 1 ELSE 0)]
  /\ UNCHANGED <<accepted, owed, handled, lost>>

Succeed(m) ==
  /\ m \in Msgs /\ deliveries[m] > 0
  /\ handled' = handled \cup {m}
  /\ UNCHANGED <<accepted, owed, deliveries, lost>>

Discharge(S) ==
  /\ S \subseteq handled \cup Exhausted
  /\ owed' = owed \ S
  /\ UNCHANGED <<accepted, deliveries, handled, lost>>

Lose(S) ==
  /\ S \subseteq accepted
  /\ owed' = owed \ S
  /\ lost' = lost \cup S
  /\ UNCHANGED <<accepted, deliveries, handled>>

\* A recreated consumer group starts over: settled messages may be due again.
Revive(S) ==
  /\ S \subseteq accepted \ lost
  /\ owed' = owed \cup S
  /\ UNCHANGED <<accepted, deliveries, handled, lost>>

Next ==
  \/ \E m \in Msgs : Accept(m) \/ Succeed(m)
  \/ \E S \in SUBSET Msgs : Deliver(S) \/ Discharge(S) \/ Lose(S) \/ Revive(S)

Spec == Init /\ [][Next]_vars
=============================================================================
