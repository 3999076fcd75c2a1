----------------------------- MODULE MessageHandler -----------------------------
(***************************************************************************)
(* The message handler of cmd/server/main.go with the stoppage filter of   *)
(* internal/filter (enabled) between parser and sender.  Handlers of       *)
(* several messages run concurrently; a message whose handler returns an   *)
(* error is delivered again, from the start, as DeliveryQueue shows.  The  *)
(* filter's state is shared, saved to Redis from time to time and reloaded *)
(* when the process restarts.                                              *)
(***************************************************************************)
EXTENDS Integers, Sequences, FiniteSets, SequencesExt

CONSTANTS
  Devices,      \* IMEIs
  Msgs,         \* messages in the queue
  Records,      \* Records[m]: what the parser finds in m, a sequence of
                \* [imei |-> device, stop |-> is the speed 0?,
                \*  finite |-> are its numbers neither NaN nor infinite?]
  MaxInFlight,  \* handlers running at a time
  MaxRetries,   \* deliveries of a message before it is dropped
  MaxFailures,  \* bound on failed sends
  MaxCrashes    \* bound on crashes

ASSUME HandlerAssumption ==
  /\ \A m \in Msgs : Records[m] \in Seq([imei : Devices, stop : BOOLEAN, finite : BOOLEAN])
  /\ MaxInFlight \in Nat \ {0} /\ MaxRetries \in Nat \ {0}
  /\ MaxFailures \in Nat /\ MaxCrashes \in Nat

VARIABLES
  status,    \* where each message is
  tries,     \* deliveries of each message
  pos,       \* records of it FilterData has gone through in this delivery
  kept,      \* and the numbers of the ones it kept, in order
  state,     \* the shards: "stop", "move" or "none" for every device
  copy,      \* stateCopy of a sync in progress
  syncing,   \* is a sync between its copy and its write?
  saved,     \* the stoppage_state:* keys in Redis
  sent,      \* history: records in the order destinations accepted them
  failures, crashes

message == <<status, tries, pos, kept>>
filter == <<state, copy, syncing, saved>>
vars == <<message, filter, sent, failures, crashes>>

Kinds == {"none", "move", "stop"}

TypeOK ==
  /\ status \in [Msgs -> {"queued", "filtering", "sending", "acked", "discarded", "dropped"}]
  /\ tries \in [Msgs -> 0..MaxRetries]
  /\ pos \in [Msgs -> Nat] /\ kept \in [Msgs -> Seq(Nat)]
  /\ \A m \in Msgs : pos[m] <= Len(Records[m]) /\ kept[m] \in Seq(1..pos[m])
  /\ state \in [Devices -> Kinds] /\ copy \in [Devices -> Kinds]
  /\ saved \in [Devices -> Kinds] /\ syncing \in BOOLEAN
  /\ sent \in Seq([imei : Devices, stop : BOOLEAN, msg : Msgs, nr : Nat])
  /\ failures \in 0..MaxFailures /\ crashes \in 0..MaxCrashes

None == [d \in Devices |-> "none"]

Init ==
  /\ status = [m \in Msgs |-> "queued"]
  /\ tries = [m \in Msgs |-> 0]
  /\ pos = [m \in Msgs |-> 0] /\ kept = [m \in Msgs |-> <<>>]
  /\ state = None /\ copy = None /\ syncing = FALSE /\ saved = None
  /\ sent = <<>>
  /\ failures = 0 /\ crashes = 0

-----------------------------------------------------------------------------
(* The handler *)

InFlight == {m \in Msgs : status[m] \in {"filtering", "sending"}}

Become(m, s) == status' = [status EXCEPT ![m] = s]

\* A worker calls the handler: the payload is parsed.  A payload without a valid
\* record only leaves invalid rows, and is acknowledged.
Deliver(m) ==
  /\ status[m] = "queued" /\ tries[m] < MaxRetries
  /\ Cardinality(InFlight) < MaxInFlight
  /\ Become(m, IF Records[m] = <<>> THEN "acked" ELSE "filtering")
  /\ tries' = [tries EXCEPT ![m] = @ + 1]
  /\ pos' = [pos EXCEPT ![m] = 0] /\ kept' = [kept EXCEPT ![m] = <<>>]
  /\ UNCHANGED <<filter, sent, failures, crashes>>

\* Mutation of Redundant: every record of a standing device is redundant.
RedundantAlways(rec) == state[rec.imei] = "stop"

\* Mutation of Redundant: a stoppage is redundant for a known device.
RedundantKnown(rec) == rec.stop /\ state[rec.imei] # "none"

\* A stoppage is redundant when the state says the last record was one.
Redundant(rec) == rec.stop /\ state[rec.imei] = "stop"

\* Mutation of FilterRecord: the loop ends before the last record.
FilterRecordButLast(m) ==
  LET k == pos[m] + 1  rec == Records[m][k] IN
  /\ status[m] = "filtering" /\ k < Len(Records[m])
  /\ pos' = [pos EXCEPT ![m] = k]
  /\ kept' = [kept EXCEPT ![m] = IF Redundant(rec) THEN @ ELSE Append(@, k)]
  /\ state' = [state EXCEPT ![rec.imei] = IF rec.stop THEN "stop" ELSE "move"]
  /\ UNCHANGED <<status, tries, copy, syncing, saved, sent, failures, crashes>>

\* FilterData, one record under its shard's lock.
FilterRecord(m) ==
  LET k == pos[m] + 1  rec == Records[m][k] IN
  /\ status[m] = "filtering" /\ k \in DOMAIN Records[m]
  /\ pos' = [pos EXCEPT ![m] = k]
  /\ kept' = [kept EXCEPT ![m] = IF Redundant(rec) THEN @ ELSE Append(@, k)]
  /\ state' = [state EXCEPT ![rec.imei] = IF rec.stop THEN "stop" ELSE "move"]
  /\ UNCHANGED <<status, tries, copy, syncing, saved, sent, failures, crashes>>

\* The records that were kept can be encoded: JSON has no NaN and no infinity, which
\* parseFloat lets through.
Encodable(m) == \A k \in ToSet(kept[m]) : Records[m][k].finite

\* FilterData returned and something is left to send.
Filtered(m) ==
  /\ status[m] = "filtering" /\ pos[m] = Len(Records[m])
  /\ kept[m] # <<>> /\ Encodable(m)
  /\ Become(m, "sending")
  /\ UNCHANGED <<tries, pos, kept, filter, sent, failures, crashes>>

\* Nothing is left: the handler returns nil, which acknowledges the message.
AllFiltered(m) ==
  /\ status[m] = "filtering" /\ pos[m] = Len(Records[m]) /\ kept[m] = <<>>
  /\ Become(m, "acked")
  /\ UNCHANGED <<tries, pos, kept, filter, sent, failures, crashes>>

\* Marshal fails: the handler returns nil too, and the message is acknowledged
\* although nothing of it was sent.
Discard(m) ==
  /\ status[m] = "filtering" /\ pos[m] = Len(Records[m]) /\ ~Encodable(m)
  /\ Become(m, "discarded")
  /\ UNCHANGED <<tries, pos, kept, filter, sent, failures, crashes>>

\* The records of m that were kept, in order, with where they come from.
Kept(m) ==
  LET Source(k) == [imei |-> Records[m][k].imei, stop |-> Records[m][k].stop,
                    msg |-> m, nr |-> k]
  IN  [j \in DOMAIN kept[m] |-> Source(kept[m][j])]

\* Send succeeded: the handler returns nil and the message is acknowledged.
SendOk(m) ==
  /\ status[m] = "sending"
  /\ sent' = sent \o Kept(m)
  /\ Become(m, "acked")
  /\ UNCHANGED <<tries, pos, kept, filter, failures, crashes>>

\* Send failed, perhaps after the destination took the records: the handler
\* returns the error and the message waits for its next delivery.
SendFails(m) ==
  /\ status[m] = "sending" /\ failures < MaxFailures
  /\ failures' = failures + 1
  /\ sent' \in {sent, sent \o Kept(m)}
  /\ Become(m, "queued")
  /\ UNCHANGED <<tries, pos, kept, filter, crashes>>

\* dropExcessiveRetries.
Drop(m) ==
  /\ status[m] = "queued" /\ tries[m] >= MaxRetries
  /\ Become(m, "dropped")
  /\ UNCHANGED <<tries, pos, kept, filter, sent, failures, crashes>>

-----------------------------------------------------------------------------
(* Saving and loading the filter's state *)

\* syncToRedis, first part: the shards are copied, each under its own lock.
SyncCopy ==
  /\ ~syncing /\ state # saved
  /\ copy' = state /\ syncing' = TRUE
  /\ UNCHANGED <<message, state, saved, sent, failures, crashes>>

\* syncToRedis, second part: the pipeline of SETs, which may fail.
SyncWrite ==
  /\ syncing
  /\ saved' \in {saved, [d \in Devices |-> IF copy[d] = "none" THEN saved[d] ELSE copy[d]]}
  /\ copy' = None /\ syncing' = FALSE
  /\ UNCHANGED <<message, state, sent, failures, crashes>>

\* The process dies and restarts: messages in progress are pending, and the
\* filter has what loadFromRedis finds (keys may have expired, or the scan fail).
Crash ==
  /\ crashes < MaxCrashes
  /\ crashes' = crashes + 1
  /\ status' = [m \in Msgs |-> IF m \in InFlight THEN "queued" ELSE status[m]]
  /\ state' \in {f \in [Devices -> Kinds] : \A d \in Devices : f[d] \in {saved[d], "none"}}
  /\ copy' = None /\ syncing' = FALSE
  /\ UNCHANGED <<tries, pos, kept, saved, sent, failures>>

Next ==
  \/ \E m \in Msgs : \/ Deliver(m) \/ FilterRecord(m) \/ Filtered(m)
                     \/ AllFiltered(m) \/ Discard(m) \/ SendOk(m) \/ SendFails(m) \/ Drop(m)
  \/ SyncCopy \/ SyncWrite \/ Crash

Spec == Init /\ [][Next]_vars

FairSpec ==
  /\ Spec
  /\ \A m \in Msgs :
       /\ WF_vars(FilterRecord(m) \/ Filtered(m) \/ AllFiltered(m) \/ Discard(m))
       /\ WF_vars(SendOk(m) \/ SendFails(m))
       /\ SF_vars(Deliver(m) \/ Drop(m))

-----------------------------------------------------------------------------
(* Properties *)

SentOf(d) == SelectSeq(sent, LAMBDA rec : rec.imei = d)

\* The filter's state is what the comment says, "whether the last sent record was
\* a stoppage or movement" (stoppage_filter.go:28), when no message is in progress.
StateIsLastSent ==
  InFlight = {} =>
    \A d \in Devices :
      state[d] # "none" =>
        /\ SentOf(d) # <<>>
        /\ Last(SentOf(d)).stop <=> state[d] = "stop"

Acknowledged == {m \in Msgs : status[m] \in {"acked", "discarded"}}

\* All movement records are always kept: once a message is acknowledged each of
\* its movements has reached a destination, through failures, redeliveries,
\* concurrent messages and restarts; only a kept record that cannot be encoded takes
\* the others of its message with it (messageHandler, FilterData).
MovesDelivered ==
  \A m \in Acknowledged : Encodable(m) =>
    \A k \in DOMAIN Records[m] : ~Records[m][k].stop =>
      \E j \in DOMAIN sent : sent[j].msg = m /\ sent[j].nr = k

\* The messages whose kept records are on their way, or went with the message.
Holding == InFlight \cup {m \in Msgs : status[m] = "discarded"}

\* A device that stops is not hidden altogether: as long as no send fails and
\* nothing crashes, a stoppage of an acknowledged message that was not sent is
\* covered by another one sent, about to be sent, or discarded with its message
\* because a record of it could not be encoded (FilterData, messageHandler).
StopCovered ==
  failures = 0 /\ crashes = 0 =>
    \A m \in Acknowledged :
      \A k \in DOMAIN Records[m] : Records[m][k].stop =>
        \/ \E j \in DOMAIN sent :
             sent[j].stop /\ sent[j].imei = Records[m][k].imei
        \/ \E n \in Holding : \E i \in ToSet(kept[n]) :
             Records[n][i].stop /\ Records[n][i].imei = Records[m][k].imei

\* Every message leaves the queue: sent, filtered out, discarded or dropped.
AllSettle == <>(\A m \in Msgs : m \in Acknowledged \/ status[m] = "dropped")
=============================================================================
