----------------------------- MODULE DeliveryQueue -----------------------------
(***************************************************************************)
(* internal/queue: producers append to the stream (redis_queue.go), worker *)
(* goroutines read batches, handle every message of a batch concurrently   *)
(* and acknowledge the successful ones at the end of the batch, and one    *)
(* reclaimer drops messages delivered too often and takes over the ones    *)
(* that stay unacknowledged (consumer.go).  The process may be stopped,    *)
(* crash and restart, Redis calls may fail half-way and Redis may forget   *)
(* the group.  The message handler is any function that returns nil or an  *)
(* error.                                                                  *)
(***************************************************************************)
EXTENDS RedisStream

CONSTANTS
  Workers,        \* the WORKER_COUNT worker goroutines
  Reclaimer,      \* the reclaimPending goroutine
  BatchSize,      \* WORKER_BATCH_SIZE
  MaxRetries,     \* MAX_RETRY_ATTEMPTS; 0: never drop
  PendingWindow,  \* Count of XPENDING: 200
  FaultKinds,     \* which Redis calls may fail
  MaxFaults, MaxExits, MaxResets, MaxDeliveries   \* bounds on what may go wrong

ASSUME QueueAssumption ==
  /\ Reclaimer \notin Workers
  /\ BatchSize \in Nat \ {0} /\ MaxRetries \in Nat /\ PendingWindow \in Nat \ {0}
  /\ FaultKinds \subseteq {"replyLost", "pendingError", "ackNone", "ackOnly"}
  /\ MaxFaults \in Nat /\ MaxExits \in Nat /\ MaxResets \in Nat
  /\ MaxDeliveries \in Nat

Consumers == Workers \cup {Reclaimer}

VARIABLES
  phase,       \* "run", "stopping" (consumer ctx cancelled) or "down"
  pc,          \* where each goroutine of the consumer is
  todo,        \* messages of its batch whose handler has not returned
  acks,        \* ackIDs of its batch
  dead,        \* deadIDs found by dropExcessiveRetries
  faults, exits, resets,      \* how much has gone wrong
  handled,     \* history: messages some handler call returned nil for
  deliveries,  \* history: times each message was handed out by Redis
  lost         \* history: entries evicted by MAXLEN or wiped

process == <<phase, pc, todo, acks, dead>>
budgets == <<faults, exits, resets>>
history == <<handled, deliveries, lost>>
vars == <<redis, process, budgets, history>>

TypeOK ==
  /\ RedisTypeOK
  /\ phase \in {"run", "stopping", "down"}
  /\ pc \in [Consumers -> {"idle", "nogroup", "batch", "drop", "claim"}]
  /\ todo \in [Consumers -> SUBSET Ids]
  /\ acks \in [Consumers -> SUBSET Ids]
  /\ dead \subseteq Ids
  /\ faults \in 0..MaxFaults /\ exits \in 0..MaxExits /\ resets \in 0..MaxResets
  /\ handled \subseteq Ids
  /\ deliveries \in [Ids -> Nat]
  /\ lost \subseteq Ids

Init ==
  /\ RedisInit
  /\ phase = "run"
  /\ pc = [c \in Consumers |-> "idle"]
  /\ todo = [c \in Consumers |-> {}] /\ acks = [c \in Consumers |-> {}]
  /\ dead = {}
  /\ faults = 0 /\ exits = 0 /\ resets = 0
  /\ handled = {} /\ deliveries = [i \in Ids |-> 0] /\ lost = {}

-----------------------------------------------------------------------------
(* Helpers *)

\* A Redis call of kind k fails, within the bound on failures.
Fault(k) == k \in FaultKinds /\ faults < MaxFaults /\ faults' = faults + 1

\* The call does not fail, or its ctx is already cancelled, at no cost.
NoFault == UNCHANGED faults

Goto(c, label) == pc' = [pc EXCEPT ![c] = label]

CountDelivery(ids) ==
  /\ \A i \in ids : deliveries[i] < MaxDeliveries
  /\ deliveries' = [i \in Ids |-> deliveries[i] + (IF i \in ids THEN 1 ELSE 0)]

Exhausted == {i \in Ids : MaxRetries > 0 /\ deliveries[i] >= MaxRetries}

\* Mutation of BatchAck: the entries are acknowledged but not deleted.
BatchAckKeep(ids) == NoFault /\ XAck(ids) /\ UNCHANGED stream

\* batchAck: one pipeline XACK, XDEL without a transaction; an error is only
\* logged, whether nothing was applied or only the XACK.
BatchAck(ids) ==
  \/ NoFault /\ XAck(ids) /\ stream' = stream \ ids
  \/ ids # {} /\ Fault("ackOnly") /\ XAck(ids) /\ UNCHANGED stream
  \/ ids # {} /\ Fault("ackNone") /\ UNCHANGED redis

-----------------------------------------------------------------------------
(* Producers *)

\* Enqueue and EnqueueWithDepth; when the reply to an XADD is lost, the copy that
\* the client may add is one more entry.
Enqueue ==
  /\ phase # "down"
  /\ XAdd
  /\ lost' = lost \cup (stream \ stream')
  /\ UNCHANGED <<process, budgets, handled, deliveries>>

-----------------------------------------------------------------------------
(* Workers *)

\* processMessages: XREADGROUP returned a batch, the fan-out starts.
ReadBatch(w) ==
  LET ids == FirstN(Unread, BatchSize) IN
  /\ phase = "run" /\ pc[w] = "idle"
  /\ XReadGroup(ids) /\ CountDelivery(ids)
  /\ Goto(w, "batch")
  /\ todo' = [todo EXCEPT ![w] = ids]
  /\ UNCHANGED <<phase, acks, dead, budgets, handled, lost>>

\* XREADGROUP took effect in Redis, but its reply is lost, or arrives after the
\* ctx was cancelled so that no message of it is handled.
ReadReplyLost(w) ==
  LET ids == FirstN(Unread, BatchSize) IN
  /\ pc[w] = "idle"
  /\ \/ phase = "run" /\ Fault("replyLost")
     \/ phase = "stopping" /\ NoFault
  /\ XReadGroup(ids) /\ CountDelivery(ids)
  /\ UNCHANGED <<process, exits, resets, handled, lost>>

\* XREADGROUP answered NOGROUP ...
ReadNoGroup(w) ==
  /\ phase = "run" /\ pc[w] = "idle" /\ ~group
  /\ Goto(w, "nogroup")
  /\ UNCHANGED <<redis, phase, todo, acks, dead, budgets, history>>

\* Mutation of EnsureGroup: NOGROUP is treated like an empty read.
EnsureGroupIgnored(w) ==
  /\ pc[w] = "nogroup"
  /\ Goto(w, "idle")
  /\ UNCHANGED <<redis, phase, todo, acks, dead, budgets, history>>

\* ... and the worker recreates the group at 0 (unless its ctx is cancelled).
EnsureGroup(w) ==
  /\ pc[w] = "nogroup"
  /\ \/ phase = "run" /\ XGroupCreate
     \/ phase = "stopping" /\ UNCHANGED redis
  /\ Goto(w, "idle")
  /\ UNCHANGED <<phase, todo, acks, dead, budgets, history>>

\* Mutation of HandleOk: the id of the next message is collected.
HandleOkNextId(c, i) ==
  /\ i \in todo[c]
  /\ todo' = [todo EXCEPT ![c] = @ \ {i}]
  /\ acks' = [acks EXCEPT ![c] = @ \cup {i + 1}]
  /\ handled' = handled \cup {i}
  /\ UNCHANGED <<redis, phase, pc, dead, budgets, deliveries, lost>>

\* handleMessage returns true: the handler returned nil for message i.
HandleOk(c, i) ==
  /\ i \in todo[c]
  /\ todo' = [todo EXCEPT ![c] = @ \ {i}]
  /\ acks' = [acks EXCEPT ![c] = @ \cup {i}]
  /\ handled' = handled \cup {i}
  /\ UNCHANGED <<redis, phase, pc, dead, budgets, deliveries, lost>>

\* Mutation of HandleFail: the id is collected whatever the handler returned.
HandleFailAcked(c, i) ==
  /\ i \in todo[c]
  /\ todo' = [todo EXCEPT ![c] = @ \ {i}]
  /\ acks' = [acks EXCEPT ![c] = @ \cup {i}]
  /\ UNCHANGED <<redis, phase, pc, dead, budgets, history>>

\* The handler failed or panicked, or the fan-out broke off before message i
\* because the ctx was cancelled: it is left pending.
HandleFail(c, i) ==
  /\ i \in todo[c]
  /\ todo' = [todo EXCEPT ![c] = @ \ {i}]
  /\ UNCHANGED <<redis, phase, pc, acks, dead, budgets, history>>

\* Every handler of the batch has returned: batchAck(ackIDs).
FinishBatch(c) ==
  /\ pc[c] = "batch" /\ todo[c] = {}
  /\ BatchAck(acks[c])
  /\ acks' = [acks EXCEPT ![c] = {}]
  /\ Goto(c, "idle")
  /\ UNCHANGED <<phase, todo, dead, exits, resets, history>>

-----------------------------------------------------------------------------
(* The reclaimer, at every tick: claimStaleMessages *)

\* Mutation of DeadIds: drop only what was delivered more than MaxRetries times.
DeadIdsLate(ids) == {i \in ids : MaxRetries > 0 /\ count[i] > MaxRetries}

DeadIds(ids) == {i \in ids : MaxRetries > 0 /\ count[i] >= MaxRetries}

\* dropExcessiveRetries, first half: XPENDING - + PendingWindow.
Inspect ==
  /\ phase = "run" /\ pc[Reclaimer] = "idle"
  /\ \/ NoFault /\ dead' = DeadIds(FirstN(pel, PendingWindow))
     \/ Fault("pendingError") /\ dead' = {}
  /\ Goto(Reclaimer, IF dead' = {} THEN "claim" ELSE "drop")
  /\ UNCHANGED <<redis, phase, todo, acks, exits, resets, history>>

\* dropExcessiveRetries, second half: batchAck(deadIDs).
DropDead ==
  /\ pc[Reclaimer] = "drop"
  /\ BatchAck(dead)
  /\ dead' = {}
  /\ Goto(Reclaimer, "claim")
  /\ UNCHANGED <<phase, todo, acks, exits, resets, history>>

\* XAUTOCLAIM returned messages (processed by the reclaimer itself) or none.
Claim ==
  LET ids == AutoClaimable(BatchSize) \cap stream IN
  /\ phase = "run" /\ pc[Reclaimer] = "claim"
  /\ XAutoClaim(BatchSize) /\ CountDelivery(ids)
  /\ Goto(Reclaimer, IF ids = {} THEN "idle" ELSE "batch")
  /\ todo' = [todo EXCEPT ![Reclaimer] = ids]
  /\ UNCHANGED <<phase, acks, dead, budgets, handled, lost>>

\* XAUTOCLAIM took effect but its reply is lost or comes after cancellation.
ClaimReplyLost ==
  /\ pc[Reclaimer] = "claim"
  /\ \/ phase = "run" /\ Fault("replyLost")
     \/ phase = "stopping" /\ NoFault
  /\ XAutoClaim(BatchSize) /\ CountDelivery(AutoClaimable(BatchSize) \cap stream)
  /\ Goto(Reclaimer, "idle")
  /\ UNCHANGED <<phase, todo, acks, dead, exits, resets, handled, lost>>

\* XAUTOCLAIM was refused: no group, or the ctx is cancelled.
ClaimRefused ==
  /\ pc[Reclaimer] = "claim"
  /\ ~group \/ phase = "stopping"
  /\ Goto(Reclaimer, "idle")
  /\ UNCHANGED <<redis, phase, todo, acks, dead, budgets, history>>

-----------------------------------------------------------------------------
(* The process and its environment *)

\* Stop: the ctx is cancelled; goroutines finish the batch they are in.
Stop ==
  /\ phase = "run" /\ exits < MaxExits
  /\ phase' = "stopping" /\ exits' = exits + 1
  /\ UNCHANGED <<redis, pc, todo, acks, dead, faults, resets, history>>

\* wg.Wait returned and main ends.
Exit ==
  /\ phase = "stopping" /\ \A c \in Consumers : pc[c] = "idle"
  /\ phase' = "down"
  /\ UNCHANGED <<redis, pc, todo, acks, dead, budgets, history>>

\* The process dies: everything the goroutines hold is gone.
Crash ==
  /\ phase # "down" /\ exits < MaxExits
  /\ phase' = "down" /\ exits' = exits + 1
  /\ pc' = [c \in Consumers |-> "idle"]
  /\ todo' = [c \in Consumers |-> {}] /\ acks' = [c \in Consumers |-> {}]
  /\ dead' = {}
  /\ UNCHANGED <<redis, faults, resets, history>>

\* NewRedisQueue ensures the group, Start launches the goroutines.
Restart ==
  /\ phase = "down"
  /\ XGroupCreate
  /\ phase' = "run"
  /\ UNCHANGED <<pc, todo, acks, dead, budgets, history>>

\* Redis loses the group, with or without the stream.
RedisForgets ==
  /\ group /\ resets < MaxResets
  /\ \E kept \in {{}, stream} :
       XForget(kept) /\ lost' = lost \cup (stream \ kept)
  /\ resets' = resets + 1
  /\ UNCHANGED <<process, faults, exits, handled, deliveries>>

\* A pending message reaches an idle time of 60 s, also while it is handled: a
\* handler has 30 s, a Retry-After delay 30 s more, and its batch mates as much.
GrowStale(i) == XIdle(i) /\ UNCHANGED <<process, budgets, history>>

-----------------------------------------------------------------------------
WorkerStep(w) ==
  \/ ReadBatch(w) \/ ReadReplyLost(w) \/ ReadNoGroup(w) \/ EnsureGroup(w)

BatchStep(c) ==
  \/ \E i \in Ids : HandleOk(c, i) \/ HandleFail(c, i)
  \/ FinishBatch(c)

ReclaimerStep == Inspect \/ DropDead \/ Claim \/ ClaimReplyLost \/ ClaimRefused

Environment == Stop \/ Exit \/ Crash \/ Restart \/ RedisForgets

Next ==
  \/ Enqueue
  \/ \E w \in Workers : WorkerStep(w)
  \/ \E c \in Consumers : BatchStep(c)
  \/ ReclaimerStep
  \/ Environment
  \/ \E i \in Ids : GrowStale(i)

Spec == Init /\ [][Next]_vars

\* Goroutines keep running, handlers return (their ctx expires after 30 s), time
\* passes, a stopped process ends and docker restarts a process that is down.
Fairness ==
  /\ \A w \in Workers : WF_vars(ReadBatch(w) \/ ReadNoGroup(w) \/ EnsureGroup(w))
  /\ \A c \in Consumers : WF_vars(BatchStep(c))
  /\ WF_vars(Inspect \/ DropDead \/ Claim \/ ClaimRefused)
  /\ WF_vars(Exit \/ Restart)
  /\ \A i \in Ids : WF_vars(GrowStale(i))

FairSpec == Spec /\ Fairness

-----------------------------------------------------------------------------
(* Properties *)

\* No message is lost silently: whatever fails, crashes, restarts or interleaves,
\* an enqueued message will still be delivered, or some handler call returned nil
\* for it, or it was delivered MaxRetries times, or Redis itself evicted or wiped
\* it (consumer.go: batchAck, dropExcessiveRetries, EnsureConsumerGroup at "0").
NoSilentLoss ==
  \A i \in 1..lastId : i \in Owed \cup handled \cup Exhausted \cup lost

\* Entries nobody will ever read, claim or delete, although they count for the
\* depth and for MAXLEN.
LeftBehind == stream \ Owed

\* Only a failed call leaves an entry behind in the stream: no interleaving of two
\* batches that hold the same message, no drop, claim, crash or recreated group
\* does (consumer.go: batchAck, whose XACK and XDEL are one pipeline but no
\* transaction; EnsureConsumerGroup at "0").
OnlyFailuresLeaveEntries ==
  [][LeftBehind' \subseteq LeftBehind \/ faults' > faults]_vars

\* "maxRetries controls how many total delivery attempts a message gets before
\* being permanently dropped" (consumer.go:41): with dropping enabled no message
\* is handed out more often, over restarts too, as long as Redis answers and
\* keeps the group's counters.
DeliveryBound ==
  MaxRetries > 0 /\ resets = 0 /\ faults = 0 =>
    \A i \in Ids : deliveries[i] <= MaxRetries

\* Every enqueued message is eventually settled: it is not owed any more.
Settles == \A i \in Ids : (i <= lastId) ~> (i \notin Owed)

\* When the producers have finished, the stream drains: the queue depth that the
\* HTTP handler's backpressure looks at comes back to zero, but for what failed
\* acknowledgements have left behind (consumer.go: batchAck).
Drains ==
  (lastId = MaxMsgs) ~> (stream = LeftBehind /\ (faults = 0 => stream = {}))

\* The queue implements its promise (AtLeastOnce).
Promise == INSTANCE AtLeastOnce WITH
  Msgs <- Ids, accepted <- 1..lastId, owed <- Owed

KeepsPromise == Promise!Spec
=============================================================================
