-------------------------- MODULE DeliveryQueue_proofs --------------------------
(***************************************************************************)
(* Proofs about DeliveryQueue for every number of workers, batch size,     *)
(* retry limit, inspection window and bound: its types, NoSilentLoss, that *)
(* only failures leave entries behind, the bound on the deliveries, and    *)
(* the refinement of AtLeastOnce.                                          *)
(***************************************************************************)
EXTENDS DeliveryQueue, FiniteSetTheorems, TLAPS

-----------------------------------------------------------------------------
(* The inductive invariant *)

\* An id is collected in ackIDs only after its handler returned nil.
AcksHandled == \A c \in Consumers : acks[c] \subseteq handled

\* Redis' delivery counters never run ahead of the deliveries.
CountsBounded == \A i \in Ids : count[i] <= deliveries[i]

\* What the reclaimer is about to drop has used up its deliveries, also when
\* the message is claimed, acknowledged or read again in the meantime.
DeadExhausted == dead \subseteq Exhausted

\* The stream, the pending list and the cursor only know ids already given out.
Issued == stream \subseteq 1..lastId /\ cursor <= lastId

IInv ==
  /\ TypeOK
  /\ AcksHandled /\ CountsBounded /\ DeadExhausted /\ Issued
  /\ NoSilentLoss

-----------------------------------------------------------------------------
(* Lemmas about listings *)

\* A listing of ids is finite.
LEMMA IdsFinite == ASSUME NEW S, S \subseteq Ids PROVE IsFiniteSet(S)
<1>1. MaxMsgs \in Int /\ 1 \in Int
  BY StreamAssumption
<1>2. IsFiniteSet(1..MaxMsgs)
  BY <1>1, FS_Interval
<1> QED
  BY <1>2, FS_Subset DEF Ids

\* A listing cut by COUNT contains every listed id below one it returns; this is
\* why advancing the group's cursor to the last id returned skips nothing.
LEMMA FirstNPrefix ==
  ASSUME NEW S, S \subseteq Ids, NEW n \in Nat,
         NEW i \in S, NEW m \in FirstN(S, n), i <= m
  PROVE  i \in FirstN(S, n)
<1> DEFINE Below(k) == {j \in S : j < k}
<1>1. m \in S /\ i \in Int /\ m \in Int /\ S \subseteq Int
  BY StreamAssumption DEF FirstN, Ids
<1>2. Below(i) \subseteq Below(m)
  <2>1. ASSUME NEW j \in S, j < i PROVE j < m
    BY <1>1, <2>1
  <2> QED
    BY <2>1
<1>3. IsFiniteSet(Below(m)) /\ IsFiniteSet(Below(i))
  BY IdsFinite
<1>4. Cardinality(Below(i)) <= Cardinality(Below(m))
  BY <1>2, <1>3, FS_Subset
<1>5. Cardinality(Below(m)) < n
  BY DEF FirstN
<1>6. Cardinality(Below(i)) \in Nat /\ Cardinality(Below(m)) \in Nat
  BY <1>3, FS_CardinalityType
<1>7. Cardinality(Below(i)) < n
  BY <1>4, <1>5, <1>6
<1> QED
  BY <1>7 DEF FirstN

\* What the listings used by the model return is a set of ids.
LEMMA ListingType ==
  ASSUME TypeOK
  PROVE  /\ Unread \subseteq Ids
         /\ FirstN(Unread, BatchSize) \subseteq Ids
         /\ AutoClaimable(BatchSize) \subseteq pel
         /\ FirstN(pel, PendingWindow) \subseteq pel
         /\ pel \subseteq Ids
BY DEF TypeOK, RedisTypeOK, Unread, FirstN, AutoClaimable

-----------------------------------------------------------------------------
(* Type correctness *)

LEMMA XAddType == ASSUME TypeOK, XAdd PROVE RedisTypeOK'
<1>1. lastId \in Nat /\ lastId + 1 \in Ids /\ lastId' \in 0..MaxMsgs
  BY StreamAssumption DEF TypeOK, RedisTypeOK, XAdd, Ids
<1>2. stream' \subseteq Ids
  BY <1>1 DEF TypeOK, RedisTypeOK, XAdd
<1> QED
  BY <1>1, <1>2 DEF TypeOK, RedisTypeOK, XAdd

LEMMA XGroupCreateType == ASSUME TypeOK, XGroupCreate PROVE RedisTypeOK'
<1>1. cursor' \in 0..MaxMsgs
  <2>1. CASE group
    BY <2>1 DEF TypeOK, RedisTypeOK, XGroupCreate
  <2>2. CASE ~group
    BY <2>2, StreamAssumption DEF XGroupCreate
  <2> QED
    BY <2>1, <2>2
<1> QED
  BY <1>1 DEF TypeOK, RedisTypeOK, XGroupCreate

LEMMA XForgetType ==
  ASSUME TypeOK, NEW kept, kept \subseteq stream, XForget(kept)
  PROVE  RedisTypeOK'
<1>1. cursor' \in 0..MaxMsgs
  BY StreamAssumption DEF XForget
<1>2. count' \in [Ids -> Nat]
  BY DEF XForget
<1> QED
  BY <1>1, <1>2 DEF TypeOK, RedisTypeOK, XForget

LEMMA XReadGroupType ==
  ASSUME TypeOK, NEW ids, ids \subseteq Ids, XReadGroup(ids)
  PROVE  RedisTypeOK'
<1>1. cursor' \in 0..MaxMsgs
  BY StreamAssumption DEF XReadGroup, Ids
<1>2. count' \in [Ids -> Nat]
  BY DEF TypeOK, RedisTypeOK, XReadGroup
<1> QED
  BY <1>1, <1>2 DEF TypeOK, RedisTypeOK, XReadGroup

LEMMA XAutoClaimType ==
  ASSUME TypeOK, XAutoClaim(BatchSize) PROVE RedisTypeOK'
<1>1. count' \in [Ids -> Nat]
  BY DEF TypeOK, RedisTypeOK, XAutoClaim
<1> QED
  BY <1>1 DEF TypeOK, RedisTypeOK, XAutoClaim

LEMMA BatchAckType ==
  ASSUME TypeOK, NEW ids, BatchAck(ids)
  PROVE  RedisTypeOK' /\ faults' \in 0..MaxFaults
<1>1. CASE NoFault /\ XAck(ids) /\ stream' = stream \ ids
  BY <1>1 DEF NoFault, XAck, TypeOK, RedisTypeOK
<1>2. CASE Fault("ackOnly") /\ XAck(ids) /\ UNCHANGED stream
  BY <1>2, QueueAssumption DEF Fault, XAck, TypeOK, RedisTypeOK
<1>3. CASE Fault("ackNone") /\ UNCHANGED redis
  BY <1>3, QueueAssumption DEF Fault, redis, TypeOK, RedisTypeOK
<1> QED
  BY <1>1, <1>2, <1>3 DEF BatchAck

LEMMA CountDeliveryType ==
  ASSUME TypeOK, NEW ids, CountDelivery(ids)
  PROVE  deliveries' \in [Ids -> Nat]
BY DEF TypeOK, CountDelivery

LEMMA TypeStep == ASSUME TypeOK, [Next]_vars PROVE TypeOK'
<1> USE DEF process, budgets, history, NoFault, Goto
<1>1. CASE Enqueue
  BY <1>1, XAddType DEF Enqueue, TypeOK, RedisTypeOK
<1>2. ASSUME NEW w \in Workers, WorkerStep(w) PROVE TypeOK'
  <2>1. CASE ReadBatch(w)
    <3>1. RedisTypeOK' /\ deliveries' \in [Ids -> Nat]
      BY <2>1, ListingType, XReadGroupType, CountDeliveryType DEF ReadBatch
    <3>2. pc' \in [Consumers -> {"idle", "nogroup", "batch", "drop", "claim"}]
      BY <2>1 DEF ReadBatch, TypeOK
    <3>3. todo' \in [Consumers -> SUBSET Ids]
      BY <2>1, ListingType DEF ReadBatch, TypeOK
    <3> QED
      BY <2>1, <3>1, <3>2, <3>3 DEF ReadBatch, TypeOK
  <2>2. CASE ReadReplyLost(w)
    <3>1. RedisTypeOK' /\ deliveries' \in [Ids -> Nat]
      BY <2>2, ListingType, XReadGroupType, CountDeliveryType DEF ReadReplyLost
    <3>2. faults' \in 0..MaxFaults
      BY <2>2, QueueAssumption DEF ReadReplyLost, Fault, TypeOK
    <3> QED
      BY <2>2, <3>1, <3>2 DEF ReadReplyLost, TypeOK
  <2>3. CASE ReadNoGroup(w)
    BY <2>3 DEF ReadNoGroup, TypeOK, RedisTypeOK, redis
  <2>4. CASE EnsureGroup(w)
    <3>1. RedisTypeOK'
      BY <2>4, XGroupCreateType DEF EnsureGroup, redis, TypeOK, RedisTypeOK
    <3> QED
      BY <2>4, <3>1 DEF EnsureGroup, TypeOK
  <2> QED
    BY <1>2, <2>1, <2>2, <2>3, <2>4 DEF WorkerStep
<1>3. ASSUME NEW c \in Consumers, BatchStep(c) PROVE TypeOK'
  <2>1. ASSUME NEW i \in Ids, HandleOk(c, i) PROVE TypeOK'
    BY <2>1 DEF HandleOk, TypeOK, RedisTypeOK, redis
  <2>2. ASSUME NEW i \in Ids, HandleFail(c, i) PROVE TypeOK'
    BY <2>2 DEF HandleFail, TypeOK, RedisTypeOK, redis
  <2>3. CASE FinishBatch(c)
    <3>1. RedisTypeOK' /\ faults' \in 0..MaxFaults
      BY <2>3, BatchAckType DEF FinishBatch
    <3> QED
      BY <2>3, <3>1 DEF FinishBatch, TypeOK
  <2> QED
    BY <1>3, <2>1, <2>2, <2>3 DEF BatchStep
<1>4. CASE ReclaimerStep
  <2>1. CASE Inspect
    <3>1. dead' \subseteq Ids
      BY <2>1, ListingType DEF Inspect, DeadIds
    <3>2. faults' \in 0..MaxFaults
      BY <2>1, QueueAssumption DEF Inspect, Fault, TypeOK
    <3>3. pc' \in [Consumers -> {"idle", "nogroup", "batch", "drop", "claim"}]
      BY <2>1 DEF Inspect, TypeOK
    <3> QED
      BY <2>1, <3>1, <3>2, <3>3 DEF Inspect, TypeOK, RedisTypeOK, redis
  <2>2. CASE DropDead
    <3>1. RedisTypeOK' /\ faults' \in 0..MaxFaults
      BY <2>2, BatchAckType DEF DropDead
    <3> QED
      BY <2>2, <3>1 DEF DropDead, TypeOK
  <2>3. CASE Claim
    <3>1. RedisTypeOK' /\ deliveries' \in [Ids -> Nat]
      BY <2>3, XAutoClaimType, CountDeliveryType DEF Claim
    <3>2. pc' \in [Consumers -> {"idle", "nogroup", "batch", "drop", "claim"}]
      BY <2>3 DEF Claim, TypeOK
    <3>3. todo' \in [Consumers -> SUBSET Ids]
      BY <2>3, ListingType DEF Claim, TypeOK
    <3> QED
      BY <2>3, <3>1, <3>2, <3>3 DEF Claim, TypeOK
  <2>4. CASE ClaimReplyLost
    <3>1. RedisTypeOK' /\ deliveries' \in [Ids -> Nat]
      BY <2>4, XAutoClaimType, CountDeliveryType DEF ClaimReplyLost
    <3>2. faults' \in 0..MaxFaults
      BY <2>4, QueueAssumption DEF ClaimReplyLost, Fault, TypeOK
    <3> QED
      BY <2>4, <3>1, <3>2 DEF ClaimReplyLost, TypeOK
  <2>5. CASE ClaimRefused
    BY <2>5 DEF ClaimRefused, TypeOK, RedisTypeOK, redis
  <2> QED
    BY <1>4, <2>1, <2>2, <2>3, <2>4, <2>5 DEF ReclaimerStep
<1>5. CASE Environment
  <2>1. CASE Stop
    BY <2>1, QueueAssumption DEF Stop, TypeOK, RedisTypeOK, redis
  <2>2. CASE Exit
    BY <2>2 DEF Exit, TypeOK, RedisTypeOK, redis
  <2>3. CASE Crash
    BY <2>3, QueueAssumption DEF Crash, TypeOK, RedisTypeOK, redis
  <2>4. CASE Restart
    BY <2>4, XGroupCreateType DEF Restart, TypeOK
  <2>5. CASE RedisForgets
    <3>1. PICK kept \in {{}, stream} :
            XForget(kept) /\ lost' = lost \cup (stream \ kept)
      BY <2>5 DEF RedisForgets
    <3>2. RedisTypeOK'
      BY <3>1, XForgetType
    <3> QED
      BY <2>5, <3>1, <3>2, QueueAssumption
      DEF RedisForgets, TypeOK, RedisTypeOK
  <2> QED
    BY <1>5, <2>1, <2>2, <2>3, <2>4, <2>5 DEF Environment
<1>6. ASSUME NEW i \in Ids, GrowStale(i) PROVE TypeOK'
  BY <1>6 DEF GrowStale, XIdle, TypeOK, RedisTypeOK
<1>7. CASE UNCHANGED vars
  BY <1>7 DEF vars, redis, TypeOK, RedisTypeOK
<1> QED
  BY <1>1, <1>2, <1>3, <1>4, <1>5, <1>6, <1>7 DEF Next

\* Every variable of the queue, the consumer and Redis keeps its type.
THEOREM TypeCorrect == Spec => []TypeOK
<1>1. Init => TypeOK
  BY StreamAssumption, QueueAssumption
  DEF Init, RedisInit, TypeOK, RedisTypeOK, Ids
<1>2. TypeOK /\ [Next]_vars => TypeOK'
  BY TypeStep
<1> QED
  BY <1>1, <1>2, PTL DEF Spec

-----------------------------------------------------------------------------
(* What the Redis commands do to the messages owed *)

LEMMA OwedAfterRead ==
  ASSUME TypeOK, XReadGroup(FirstN(Unread, BatchSize))
  PROVE  Owed \subseteq Owed'
<1> DEFINE ids == FirstN(Unread, BatchSize)
<1>1. PICK last \in ids : (\A j \in ids : j <= last) /\ cursor' = last
  BY DEF XReadGroup
<1>2. SUFFICES ASSUME NEW i \in Owed PROVE i \in Owed'
  OBVIOUS
<1>3. i \in stream' /\ pel' = pel \cup ids
  BY DEF Owed, XReadGroup
<1>4. CASE i \in pel
  BY <1>3, <1>4 DEF Owed
<1>5. CASE i > last
  BY <1>1, <1>3, <1>5 DEF Owed
<1>6. CASE i > cursor /\ ~(i > last)
  <2>1. i \in Unread
    BY <1>6 DEF Unread, Owed
  <2>2. Unread \subseteq Ids /\ last \in Ids
    BY <1>1, ListingType
  <2>3. i <= last
    BY <1>6, <2>1, <2>2, StreamAssumption DEF Ids
  <2>4. i \in ids
    BY <1>1, <2>1, <2>2, <2>3, FirstNPrefix, QueueAssumption
  <2> QED
    BY <1>3, <2>4 DEF Owed
<1> QED
  BY <1>4, <1>5, <1>6 DEF Owed

LEMMA OwedAfterClaim == ASSUME TypeOK, XAutoClaim(BatchSize) PROVE Owed \subseteq Owed'
BY DEF XAutoClaim, Owed

LEMMA OwedAfterAck ==
  ASSUME NEW ids, BatchAck(ids) PROVE Owed \subseteq Owed' \cup ids
<1>1. CASE NoFault /\ XAck(ids) /\ stream' = stream \ ids
  BY <1>1 DEF XAck, Owed
<1>2. CASE Fault("ackOnly") /\ XAck(ids) /\ UNCHANGED stream
  BY <1>2 DEF XAck, Owed
<1>3. CASE Fault("ackNone") /\ UNCHANGED redis
  BY <1>3 DEF redis, Owed
<1> QED
  BY <1>1, <1>2, <1>3 DEF BatchAck

LEMMA OwedAfterGroupCreate ==
  ASSUME TypeOK, XGroupCreate PROVE Owed \subseteq Owed'
<1>1. CASE group
  BY <1>1 DEF XGroupCreate, Owed
<1>2. CASE ~group
  <2>1. \A i \in stream : i > 0
    BY StreamAssumption DEF TypeOK, RedisTypeOK, Ids
  <2> QED
    BY <1>2, <2>1 DEF XGroupCreate, Owed
<1> QED
  BY <1>1, <1>2

-----------------------------------------------------------------------------
(* History only grows *)

LEMMA DeliveriesGrow ==
  ASSUME TypeOK, NEW ids, CountDelivery(ids)
  PROVE  \A i \in Ids : deliveries[i] <= deliveries'[i]
BY DEF TypeOK, CountDelivery

LEMMA HistoryGrows ==
  ASSUME TypeOK, [Next]_vars
  PROVE  /\ handled \subseteq handled' /\ lost \subseteq lost'
         /\ \A i \in Ids : deliveries[i] <= deliveries'[i]
         /\ Exhausted \subseteq Exhausted'
<1> USE DEF history
<1>1. \A i \in Ids : deliveries[i] \in Nat /\ deliveries[i] <= deliveries[i]
  BY DEF TypeOK
<1>2. \A i \in Ids : deliveries[i] <= deliveries'[i]
  <2>1. ASSUME NEW w \in Workers, WorkerStep(w)
        PROVE  \A i \in Ids : deliveries[i] <= deliveries'[i]
    BY <2>1, <1>1, DeliveriesGrow
    DEF WorkerStep, ReadBatch, ReadReplyLost, ReadNoGroup, EnsureGroup
  <2>2. CASE ReclaimerStep
    BY <2>2, <1>1, DeliveriesGrow
    DEF ReclaimerStep, Inspect, DropDead, Claim, ClaimReplyLost, ClaimRefused
  <2>3. CASE deliveries' = deliveries
    BY <2>3, <1>1
  <2> QED
    BY <2>1, <2>2, <2>3
    DEF Next, Enqueue, BatchStep, HandleOk, HandleFail, FinishBatch, Environment,
        Stop, Exit, Crash, Restart, RedisForgets, GrowStale, vars
<1>3. handled \subseteq handled' /\ lost \subseteq lost'
  BY DEF Next, Enqueue, WorkerStep, ReadBatch, ReadReplyLost, ReadNoGroup,
         EnsureGroup, BatchStep, HandleOk, HandleFail, FinishBatch,
         ReclaimerStep, Inspect, DropDead, Claim, ClaimReplyLost, ClaimRefused,
         Environment, Stop, Exit, Crash, Restart, RedisForgets, GrowStale, vars
<1>4. Exhausted \subseteq Exhausted'
  <2>1. TypeOK'
    BY TypeStep
  <2> QED
    BY <1>2, <2>1, QueueAssumption DEF Exhausted, TypeOK
<1> QED
  BY <1>2, <1>3, <1>4

-----------------------------------------------------------------------------
(* Preservation of the parts of IInv *)

LEMMA AcksStep == ASSUME IInv, [Next]_vars PROVE AcksHandled'
<1> USE DEF process, AcksHandled
<1>1. TypeOK /\ handled \subseteq handled'
  BY HistoryGrows DEF IInv
<1>2. ASSUME UNCHANGED acks PROVE AcksHandled'
  BY <1>1, <1>2 DEF IInv
<1>3. ASSUME NEW c \in Consumers, BatchStep(c) PROVE AcksHandled'
  <2>1. ASSUME NEW i \in Ids, HandleOk(c, i) PROVE AcksHandled'
    BY <2>1 DEF HandleOk, IInv, TypeOK
  <2>2. ASSUME NEW i \in Ids, HandleFail(c, i) PROVE AcksHandled'
    BY <2>2, <1>2 DEF HandleFail
  <2>3. CASE FinishBatch(c)
    BY <2>3, <1>1 DEF FinishBatch, IInv, TypeOK, history
  <2> QED
    BY <1>3, <2>1, <2>2, <2>3 DEF BatchStep
<1>4. CASE Crash
  BY <1>4 DEF Crash
<1> QED
  BY <1>2, <1>3, <1>4
  DEF Next, Enqueue, WorkerStep, ReadBatch, ReadReplyLost, ReadNoGroup,
      EnsureGroup, ReclaimerStep, Inspect, DropDead, Claim, ClaimReplyLost,
      ClaimRefused, Environment, Stop, Exit, Restart, RedisForgets, GrowStale, vars

LEMMA CountsAfterAck ==
  ASSUME NEW ids, BatchAck(ids) PROVE count' = count
BY DEF BatchAck, XAck, redis

LEMMA CountsStep == ASSUME IInv, [Next]_vars PROVE CountsBounded'
<1> USE DEF CountsBounded, history
<1>1. TypeOK /\ TypeOK' /\ \A i \in Ids : deliveries[i] <= deliveries'[i]
  BY HistoryGrows, TypeStep DEF IInv
<1>2. ASSUME UNCHANGED count PROVE CountsBounded'
  BY <1>1, <1>2 DEF IInv, TypeOK, RedisTypeOK
<1>3. ASSUME NEW ids, ids \subseteq Ids, XReadGroup(ids), CountDelivery(ids)
      PROVE  CountsBounded'
  <2>1. ASSUME NEW i \in Ids, i \in ids PROVE count'[i] <= deliveries'[i]
    BY <1>1, <1>3, <2>1 DEF XReadGroup, CountDelivery, TypeOK, RedisTypeOK
  <2>2. ASSUME NEW i \in Ids, i \notin ids PROVE count'[i] <= deliveries'[i]
    BY <1>1, <1>3, <2>2 DEF XReadGroup, CountDelivery, TypeOK, RedisTypeOK, IInv
  <2> QED
    BY <2>1, <2>2
<1>4. ASSUME XAutoClaim(BatchSize),
             CountDelivery(AutoClaimable(BatchSize) \cap stream)
      PROVE  CountsBounded'
  BY <1>1, <1>4 DEF XAutoClaim, CountDelivery, TypeOK, RedisTypeOK, IInv
<1>5. ASSUME NEW w \in Workers, WorkerStep(w) PROVE CountsBounded'
  <2>1. CASE ReadBatch(w) \/ ReadReplyLost(w)
    BY <1>1, <1>3, <2>1, ListingType DEF ReadBatch, ReadReplyLost
  <2>2. CASE ReadNoGroup(w) \/ EnsureGroup(w)
    BY <1>2, <2>2 DEF ReadNoGroup, EnsureGroup, XGroupCreate, redis
  <2> QED
    BY <1>5, <2>1, <2>2 DEF WorkerStep
<1>6. ASSUME NEW c \in Consumers, BatchStep(c) PROVE CountsBounded'
  BY <1>2, <1>6, CountsAfterAck
  DEF BatchStep, HandleOk, HandleFail, FinishBatch, redis
<1>7. CASE ReclaimerStep
  <2>1. CASE Claim \/ ClaimReplyLost
    BY <1>4, <2>1 DEF Claim, ClaimReplyLost
  <2>2. CASE Inspect \/ DropDead \/ ClaimRefused
    BY <1>2, <2>2, CountsAfterAck DEF Inspect, DropDead, ClaimRefused, redis
  <2> QED
    BY <1>7, <2>1, <2>2 DEF ReclaimerStep
<1>8. CASE RedisForgets
  <2>1. \A i \in Ids : count'[i] = 0
    BY <1>8 DEF RedisForgets, XForget
  <2> QED
    BY <1>1, <2>1 DEF TypeOK
<1> QED
  BY <1>2, <1>5, <1>6, <1>7, <1>8
  DEF Next, Enqueue, XAdd, Environment, Stop, Exit, Crash, Restart, XGroupCreate,
      GrowStale, XIdle, redis, vars

LEMMA DeadStep == ASSUME IInv, [Next]_vars PROVE DeadExhausted'
<1> USE DEF DeadExhausted, process
<1>1. TypeOK /\ Exhausted \subseteq Exhausted'
  BY HistoryGrows DEF IInv
<1>2. ASSUME UNCHANGED dead PROVE DeadExhausted'
  BY <1>1, <1>2 DEF IInv
<1>3. ASSUME dead' = {} PROVE DeadExhausted'
  BY <1>3
<1>4. CASE Inspect
  <2>1. DeadIds(FirstN(pel, PendingWindow)) \subseteq Exhausted
    BY <1>1, ListingType, QueueAssumption
    DEF DeadIds, Exhausted, IInv, CountsBounded, TypeOK, RedisTypeOK
  <2> QED
    BY <1>1, <1>4, <2>1 DEF Inspect
<1> QED
  BY <1>2, <1>3, <1>4
  DEF Next, Enqueue, WorkerStep, ReadBatch, ReadReplyLost, ReadNoGroup,
      EnsureGroup, BatchStep, HandleOk, HandleFail, FinishBatch, ReclaimerStep,
      DropDead, Claim, ClaimReplyLost, ClaimRefused, Environment, Stop, Exit,
      Crash, Restart, RedisForgets, GrowStale, vars

\* Either the redis variables Issued speaks of only shrink, or an id was added.
LEMMA IssuedStep == ASSUME IInv, [Next]_vars PROVE Issued'
<1> USE DEF Issued
<1>1. /\ lastId \in Nat /\ cursor \in Nat
      /\ stream \subseteq 1..lastId /\ cursor <= lastId
  BY StreamAssumption DEF IInv, TypeOK, RedisTypeOK
<1>2. ASSUME stream' \subseteq stream, UNCHANGED <<lastId, cursor>> PROVE Issued'
  BY <1>2 DEF IInv
<1>3. CASE Enqueue
  <2>1. lastId' = lastId + 1 /\ cursor' = cursor
    BY <1>3 DEF Enqueue, XAdd
  <2>2. stream' \subseteq stream \cup {lastId + 1}
    BY <1>3 DEF Enqueue, XAdd
  <2>3. cursor' <= lastId'
    BY <1>1, <2>1
  <2>4. stream' \subseteq 1..(lastId + 1)
    BY <1>1, <2>2
  <2> QED
    BY <2>1, <2>3, <2>4
<1>4. ASSUME XReadGroup(FirstN(Unread, BatchSize)) PROVE Issued'
  BY <1>4 DEF XReadGroup, FirstN, Unread, IInv
<1>5. ASSUME XGroupCreate PROVE Issued'
  BY <1>1, <1>5 DEF XGroupCreate, IInv
<1>6. ASSUME NEW ids, BatchAck(ids) PROVE Issued'
  BY <1>2, <1>6 DEF BatchAck, XAck, redis
<1>7. ASSUME NEW w \in Workers, WorkerStep(w) PROVE Issued'
  BY <1>2, <1>4, <1>5, <1>7
  DEF WorkerStep, ReadBatch, ReadReplyLost, ReadNoGroup, EnsureGroup, redis
<1>8. ASSUME NEW c \in Consumers, BatchStep(c) PROVE Issued'
  BY <1>2, <1>6, <1>8 DEF BatchStep, HandleOk, HandleFail, FinishBatch, redis
<1>9. CASE ReclaimerStep
  BY <1>2, <1>6, <1>9
  DEF ReclaimerStep, Inspect, DropDead, Claim, ClaimReplyLost, ClaimRefused,
      XAutoClaim, redis
<1>10. CASE Environment
  <2>1. CASE RedisForgets
    <3>1. stream' \subseteq stream /\ cursor' = 0 /\ lastId' = lastId
      BY <2>1 DEF RedisForgets, XForget
    <3> QED
      BY <1>1, <3>1
  <2> QED
    BY <1>2, <1>5, <1>10, <2>1 DEF Environment, Stop, Exit, Crash, Restart, redis
<1> QED
  BY <1>2, <1>3, <1>7, <1>8, <1>9, <1>10 DEF Next, GrowStale, XIdle, vars, redis

\* A step leaves every message owed that was owed, unless a handler returned nil
\* for it, its deliveries are used up, or Redis removed it in this very step.
LEMMA OwedStep ==
  ASSUME IInv, [Next]_vars
  PROVE  Owed \subseteq Owed' \cup handled \cup Exhausted \cup lost'
<1>1. TypeOK
  BY DEF IInv
<1>2. ASSUME UNCHANGED redis PROVE Owed \subseteq Owed'
  BY <1>2 DEF redis, Owed
<1>3. CASE Enqueue
  BY <1>3 DEF Enqueue, XAdd, Owed
<1>4. ASSUME NEW w \in Workers, WorkerStep(w) PROVE Owed \subseteq Owed'
  BY <1>1, <1>2, <1>4, OwedAfterRead, OwedAfterGroupCreate
  DEF WorkerStep, ReadBatch, ReadReplyLost, ReadNoGroup, EnsureGroup
<1>5. ASSUME NEW c \in Consumers, BatchStep(c)
      PROVE  Owed \subseteq Owed' \cup handled
  <2>1. CASE FinishBatch(c)
    BY <2>1, OwedAfterAck DEF FinishBatch, IInv, AcksHandled
  <2> QED
    BY <1>2, <1>5, <2>1 DEF BatchStep, HandleOk, HandleFail
<1>6. CASE ReclaimerStep
  <2>1. CASE DropDead
    BY <2>1, OwedAfterAck DEF DropDead, IInv, DeadExhausted
  <2> QED
    BY <1>1, <1>2, <1>6, <2>1, OwedAfterClaim
    DEF ReclaimerStep, Inspect, Claim, ClaimReplyLost, ClaimRefused
<1>7. CASE Environment
  <2>1. CASE RedisForgets
    <3>1. PICK kept \in {{}, stream} :
            XForget(kept) /\ lost' = lost \cup (stream \ kept)
      BY <2>1 DEF RedisForgets
    <3>2. \A i \in stream : i > 0
      BY <1>1, StreamAssumption DEF TypeOK, RedisTypeOK, Ids
    <3> QED
      BY <3>1, <3>2 DEF XForget, Owed
  <2> QED
    BY <1>1, <1>2, <1>7, <2>1, OwedAfterGroupCreate
    DEF Environment, Stop, Exit, Crash, Restart
<1>8. ASSUME NEW i \in Ids, GrowStale(i) PROVE Owed \subseteq Owed'
  BY <1>8 DEF GrowStale, XIdle, Owed
<1>9. CASE UNCHANGED vars
  BY <1>2, <1>9 DEF vars
<1> QED
  BY <1>3, <1>4, <1>5, <1>6, <1>7, <1>8, <1>9 DEF Next

\* A step that leaves the count of failures alone leaves no entry behind: what it
\* takes out of the owed ones it takes out of the stream.
LEMMA LeftBehindStep ==
  ASSUME IInv, [Next]_vars
  PROVE  LeftBehind' \subseteq LeftBehind \/ faults' > faults
<1>1. TypeOK /\ Issued
  BY DEF IInv
<1>2. ASSUME stream' \subseteq stream, Owed \subseteq Owed'
      PROVE  LeftBehind' \subseteq LeftBehind
  BY <1>2 DEF LeftBehind
<1>3. ASSUME UNCHANGED redis PROVE LeftBehind' \subseteq LeftBehind
  BY <1>3 DEF redis, Owed, LeftBehind
<1>4. ASSUME NEW ids, BatchAck(ids)
      PROVE  LeftBehind' \subseteq LeftBehind \/ faults' > faults
  <2>1. CASE NoFault /\ XAck(ids) /\ stream' = stream \ ids
    BY <2>1 DEF XAck, Owed, LeftBehind
  <2>2. ASSUME NEW k, Fault(k) PROVE faults' > faults
    BY <2>2, <1>1, QueueAssumption DEF Fault, TypeOK
  <2> QED
    BY <1>4, <2>1, <2>2 DEF BatchAck
<1>5. CASE Enqueue
  <2>1. lastId \in Nat /\ cursor \in Nat /\ cursor <= lastId
    BY <1>1, StreamAssumption DEF TypeOK, RedisTypeOK, Issued
  <2>2. lastId + 1 > cursor
    BY <2>1
  <2> QED
    BY <1>5, <2>2 DEF Enqueue, XAdd, Owed, LeftBehind
<1>6. ASSUME NEW w \in Workers, WorkerStep(w) PROVE LeftBehind' \subseteq LeftBehind
  BY <1>1, <1>2, <1>3, <1>6, OwedAfterRead, OwedAfterGroupCreate
  DEF WorkerStep, ReadBatch, ReadReplyLost, ReadNoGroup, EnsureGroup, XReadGroup,
      XGroupCreate
<1>7. ASSUME NEW c \in Consumers, BatchStep(c)
      PROVE  LeftBehind' \subseteq LeftBehind \/ faults' > faults
  BY <1>3, <1>4, <1>7 DEF BatchStep, HandleOk, HandleFail, FinishBatch
<1>8. CASE ReclaimerStep
  BY <1>1, <1>2, <1>3, <1>4, <1>8, OwedAfterClaim
  DEF ReclaimerStep, Inspect, DropDead, Claim, ClaimReplyLost, ClaimRefused, XAutoClaim
<1>9. CASE Environment
  <2>1. CASE RedisForgets
    <3>1. PICK kept \in {{}, stream} : XForget(kept)
      BY <2>1 DEF RedisForgets
    <3>2. \A i \in stream : i > 0
      BY <1>1, StreamAssumption DEF TypeOK, RedisTypeOK, Ids
    <3> QED
      BY <3>1, <3>2 DEF XForget, Owed, LeftBehind
  <2> QED
    BY <1>1, <1>2, <1>3, <1>9, <2>1, OwedAfterGroupCreate
    DEF Environment, Stop, Exit, Crash, Restart, XGroupCreate
<1>10. ASSUME NEW i \in Ids, GrowStale(i) PROVE LeftBehind' \subseteq LeftBehind
  BY <1>10 DEF GrowStale, XIdle, Owed, LeftBehind
<1>11. CASE UNCHANGED vars
  BY <1>3, <1>11 DEF vars
<1> QED
  BY <1>5, <1>6, <1>7, <1>8, <1>9, <1>10, <1>11 DEF Next

LEMMA NoSilentLossStep == ASSUME IInv, [Next]_vars PROVE NoSilentLoss'
<1>1. /\ handled \subseteq handled' /\ lost \subseteq lost'
      /\ Exhausted \subseteq Exhausted'
  BY HistoryGrows DEF IInv
<1>2. lastId \in Nat /\ cursor \in Nat /\ cursor <= lastId
  BY StreamAssumption DEF IInv, TypeOK, RedisTypeOK, Issued
<1>3. ASSUME NEW i \in 1..lastId
      PROVE  i \in Owed' \cup handled' \cup Exhausted' \cup lost'
  BY <1>1, OwedStep DEF IInv, NoSilentLoss
<1>4. CASE Enqueue
  <2>1. lastId' = lastId + 1 /\ lastId + 1 \in Owed'
    BY <1>2, <1>4 DEF Enqueue, XAdd, Owed
  <2>2. \A i \in 1..lastId' : i \in 1..lastId \/ i = lastId + 1
    BY <1>2, <2>1
  <2> QED
    BY <1>3, <2>1, <2>2 DEF NoSilentLoss
<1>5. ASSUME UNCHANGED lastId PROVE NoSilentLoss'
  BY <1>3, <1>5 DEF NoSilentLoss
<1>6. ASSUME NEW ids, BatchAck(ids) PROVE UNCHANGED lastId
  BY <1>6 DEF BatchAck, XAck, redis
<1> QED
  BY <1>4, <1>5, <1>6
  DEF Next, WorkerStep, ReadBatch, ReadReplyLost, ReadNoGroup, EnsureGroup,
      BatchStep, HandleOk, HandleFail, FinishBatch, ReclaimerStep, Inspect,
      DropDead, Claim, ClaimReplyLost, ClaimRefused, Environment, Stop, Exit,
      Crash, Restart, RedisForgets, GrowStale, XReadGroup, XAutoClaim,
      XGroupCreate, XForget, XIdle, redis, vars

\* IInv is an invariant: the basis of the results below.
THEOREM Inductive == Spec => []IInv
<1>1. Init => IInv
  <2>1. Init => TypeOK
    BY StreamAssumption, QueueAssumption
    DEF Init, RedisInit, TypeOK, RedisTypeOK, Ids
  <2>2. Init => CountsBounded
    BY DEF Init, RedisInit, CountsBounded
  <2>3. Init => AcksHandled /\ DeadExhausted /\ Issued /\ NoSilentLoss
    BY DEF Init, RedisInit, AcksHandled, DeadExhausted, Issued, NoSilentLoss
  <2> QED
    BY <2>1, <2>2, <2>3 DEF IInv
<1>2. IInv /\ [Next]_vars => IInv'
  <2> SUFFICES ASSUME IInv, [Next]_vars PROVE IInv'
    OBVIOUS
  <2>1. TypeOK'
    BY TypeStep DEF IInv
  <2> QED
    BY <2>1, AcksStep, CountsStep, DeadStep, IssuedStep, NoSilentLossStep DEF IInv
<1> QED
  BY <1>1, <1>2, PTL DEF Spec

\* No enqueued message is lost silently (batchAck, dropExcessiveRetries and
\* EnsureConsumerGroup), for any number of workers, crashes and failed calls.
THEOREM NeverSilentlyLost == Spec => []NoSilentLoss
<1>1. IInv => NoSilentLoss
  BY DEF IInv
<1> QED
  BY <1>1, Inductive, PTL

\* Only a failed call leaves an entry in the stream that nobody will read or delete,
\* for every batch size, number of workers and interleaving (consumer.go: batchAck).
THEOREM OnlyFailuresLeave == Spec => OnlyFailuresLeaveEntries
<1>1. IInv /\ [Next]_vars => [LeftBehind' \subseteq LeftBehind \/ faults' > faults]_vars
  BY LeftBehindStep
<1> QED
  BY <1>1, Inductive, PTL DEF Spec, OnlyFailuresLeaveEntries

-----------------------------------------------------------------------------
(* What is known while the group is not recreated                          *)
(*                                                                         *)
(* While the group is not recreated, the cursor separates what was handed  *)
(* out from what was not, and Redis' delivery counters are the numbers of  *)
(* deliveries.  The bound on deliveries rests on what the reclaimer's      *)
(* inspection leaves: between XPENDING and XAUTOCLAIM no pending entry has *)
(* used up its deliveries, unless dead holds it.                           *)

GroupKept == resets = 0 => group

CountsExact ==
  resets = 0 =>
    \A i \in Ids : count[i] = deliveries[i] /\ (i > cursor => deliveries[i] = 0)

PendingRead == resets = 0 => \A i \in pel : i <= cursor

Screened ==
  MaxRetries > 1 /\ resets = 0 /\ faults = 0 =>
    \A i \in pel :
      pc[Reclaimer] = "claim" \/ (pc[Reclaimer] = "drop" /\ i \notin dead) =>
        count[i] < MaxRetries

HandInv == TypeOK /\ GroupKept /\ CountsExact /\ PendingRead

\* Failures and resets are only counted up.
LEMMA BudgetsGrow ==
  ASSUME TypeOK, [Next]_vars
  PROVE  (resets' = 0 => resets = 0) /\ (faults' = 0 => faults = 0)
<1> USE DEF budgets
<1>1. resets \in Nat /\ faults \in Nat
  BY QueueAssumption DEF TypeOK
<1>2. resets' = resets \/ resets' = resets + 1
  BY DEF Next, Enqueue, WorkerStep, ReadBatch, ReadReplyLost, ReadNoGroup,
      EnsureGroup, BatchStep, HandleOk, HandleFail, FinishBatch, ReclaimerStep,
      Inspect, DropDead, Claim, ClaimReplyLost, ClaimRefused, Environment, Stop,
      Exit, Crash, Restart, RedisForgets, GrowStale, vars
<1>3. faults' = faults \/ faults' = faults + 1
  BY DEF Next, Enqueue, WorkerStep, ReadBatch, ReadReplyLost, ReadNoGroup,
      EnsureGroup, BatchStep, HandleOk, HandleFail, FinishBatch, ReclaimerStep,
      Inspect, DropDead, Claim, ClaimReplyLost, ClaimRefused, Environment, Stop,
      Exit, Crash, Restart, RedisForgets, GrowStale, vars, BatchAck, NoFault, Fault
<1> QED
  BY <1>1, <1>2, <1>3

\* Creating a group that exists changes nothing (BUSYGROUP).
LEMMA GroupCreateAgain ==
  ASSUME XGroupCreate, group PROVE UNCHANGED redis
BY DEF XGroupCreate, redis

LEMMA GroupKeptStep == ASSUME HandInv, [Next]_vars PROVE GroupKept'
<1> USE DEF GroupKept, budgets
<1>1. resets' = 0 => resets = 0
  BY BudgetsGrow DEF HandInv
<1>2. ASSUME group' = group PROVE GroupKept'
  BY <1>1, <1>2 DEF HandInv
<1>3. ASSUME XGroupCreate PROVE GroupKept'
  BY <1>3 DEF XGroupCreate
<1>4. CASE RedisForgets
  BY <1>4, QueueAssumption DEF RedisForgets, HandInv, TypeOK
<1> QED
  BY <1>2, <1>3, <1>4
  DEF Next, Enqueue, WorkerStep, ReadBatch, ReadReplyLost, ReadNoGroup,
      EnsureGroup, BatchStep, HandleOk, HandleFail, FinishBatch, ReclaimerStep,
      Inspect, DropDead, Claim, ClaimReplyLost, ClaimRefused, Environment, Stop,
      Exit, Crash, Restart, GrowStale, vars, redis, BatchAck, XAdd, XReadGroup,
      XAutoClaim, XAck, XIdle

\* What XREADGROUP returns was behind the cursor, and is before it afterwards.
LEMMA CursorAfterRead ==
  ASSUME TypeOK, XReadGroup(FirstN(Unread, BatchSize))
  PROVE  /\ cursor <= cursor'
         /\ \A i \in FirstN(Unread, BatchSize) : i > cursor /\ i <= cursor'
<1>1. PICK last \in FirstN(Unread, BatchSize) :
        /\ \A j \in FirstN(Unread, BatchSize) : j <= last
        /\ cursor' = last
  BY DEF XReadGroup
<1>2. FirstN(Unread, BatchSize) \subseteq Unread /\ Unread \subseteq Ids
  BY ListingType DEF FirstN
<1>3. last \in Int /\ cursor \in Int /\ last > cursor
  BY <1>1, <1>2, StreamAssumption DEF Unread, Ids, TypeOK, RedisTypeOK
<1> QED
  BY <1>1, <1>2, <1>3 DEF Unread

LEMMA CountsExactStep == ASSUME HandInv, [Next]_vars PROVE CountsExact'
<1>1. SUFFICES ASSUME resets' = 0 PROVE CountsExact'
  BY DEF CountsExact
<1>2. TypeOK /\ resets = 0 /\ group
  BY <1>1, BudgetsGrow DEF HandInv, GroupKept
<1>3. \A i \in Ids : /\ count[i] = deliveries[i] /\ deliveries[i] \in Nat
                     /\ i > cursor => deliveries[i] = 0
  BY <1>2 DEF HandInv, CountsExact, TypeOK
<1>4. cursor \in Int /\ Ids \subseteq Int
  BY <1>2, StreamAssumption DEF TypeOK, RedisTypeOK, Ids
<1>5. ASSUME UNCHANGED <<cursor, count, deliveries>> PROVE CountsExact'
  BY <1>3, <1>5 DEF CountsExact
<1>6. ASSUME XReadGroup(FirstN(Unread, BatchSize)),
             CountDelivery(FirstN(Unread, BatchSize))
      PROVE  CountsExact'
  <2> DEFINE ids == FirstN(Unread, BatchSize)
  <2>1. cursor <= cursor' /\ \A i \in ids : i > cursor /\ i <= cursor'
    BY <1>2, <1>6, CursorAfterRead
  <2>2. cursor' \in Int
    BY <1>2, <1>6, XReadGroupType, ListingType, StreamAssumption DEF RedisTypeOK
  <2>3. ASSUME NEW i \in Ids
        PROVE  /\ count'[i] = IF i \in ids THEN 1 ELSE count[i]
               /\ deliveries'[i] = deliveries[i] + (IF i \in ids THEN 1 ELSE 0)
    BY <1>6 DEF XReadGroup, CountDelivery
  <2>4. ASSUME NEW i \in Ids
        PROVE  count'[i] = deliveries'[i] /\ (i > cursor' => deliveries'[i] = 0)
    BY <1>3, <1>4, <2>1, <2>2, <2>3
  <2> QED
    BY <2>4 DEF CountsExact
<1>7. ASSUME XAutoClaim(BatchSize),
             CountDelivery(AutoClaimable(BatchSize) \cap stream)
      PROVE  CountsExact'
  <2> DEFINE ids == AutoClaimable(BatchSize) \cap stream
  <2>1. ASSUME NEW i \in Ids
        PROVE  /\ count'[i] = IF i \in ids THEN count[i] + 1 ELSE count[i]
               /\ deliveries'[i] = deliveries[i] + (IF i \in ids THEN 1 ELSE 0)
    BY <1>7 DEF XAutoClaim, CountDelivery
  <2>2. cursor' = cursor /\ \A i \in ids : i <= cursor
    BY <1>2, <1>7, ListingType DEF XAutoClaim, HandInv, PendingRead
  <2>3. ASSUME NEW i \in Ids
        PROVE  count'[i] = deliveries'[i] /\ (i > cursor' => deliveries'[i] = 0)
    BY <1>3, <1>4, <2>1, <2>2
  <2> QED
    BY <2>3 DEF CountsExact
<1> QED
  <2>1. ASSUME NEW w \in Workers, WorkerStep(w) PROVE CountsExact'
    <3>1. CASE ReadBatch(w) \/ ReadReplyLost(w)
      BY <1>6, <3>1 DEF ReadBatch, ReadReplyLost
    <3>2. CASE ReadNoGroup(w) \/ EnsureGroup(w)
      BY <1>2, <1>5, <3>2, GroupCreateAgain
      DEF ReadNoGroup, EnsureGroup, redis, history
    <3> QED
      BY <2>1, <3>1, <3>2 DEF WorkerStep
  <2>2. ASSUME NEW c \in Consumers, BatchStep(c) PROVE CountsExact'
    BY <1>5, <2>2
    DEF BatchStep, HandleOk, HandleFail, FinishBatch, BatchAck, XAck, redis, history
  <2>3. CASE ReclaimerStep
    BY <1>5, <1>7, <2>3
    DEF ReclaimerStep, Inspect, DropDead, Claim, ClaimReplyLost, ClaimRefused,
        BatchAck, XAck, redis, history
  <2>4. CASE RedisForgets
    BY <1>1, <1>2, <2>4 DEF RedisForgets
  <2>5. CASE Restart
    BY <1>2, <1>5, <2>5, GroupCreateAgain DEF Restart, redis, history
  <2> QED
    BY <1>5, <2>1, <2>2, <2>3, <2>4, <2>5
    DEF Next, Enqueue, XAdd, Environment, Stop, Exit, Crash, GrowStale, XIdle,
        vars, redis, history

LEMMA PendingReadStep == ASSUME HandInv, [Next]_vars PROVE PendingRead'
<1>1. SUFFICES ASSUME resets' = 0 PROVE PendingRead'
  BY DEF PendingRead
<1>2. TypeOK /\ resets = 0 /\ group
  BY <1>1, BudgetsGrow DEF HandInv, GroupKept
<1>3. \A i \in pel : i \in Int /\ i <= cursor
  BY <1>2, StreamAssumption DEF HandInv, PendingRead, TypeOK, RedisTypeOK, Ids
<1>4. ASSUME cursor' = cursor, pel' \subseteq pel PROVE PendingRead'
  BY <1>3, <1>4 DEF PendingRead
<1>5. ASSUME XReadGroup(FirstN(Unread, BatchSize)) PROVE PendingRead'
  <2>1. /\ cursor <= cursor' /\ \A i \in FirstN(Unread, BatchSize) : i <= cursor'
        /\ pel' = pel \cup FirstN(Unread, BatchSize)
    BY <1>2, <1>5, CursorAfterRead DEF XReadGroup
  <2>2. cursor \in Int /\ cursor' \in Int
    BY <1>2, <1>5, XReadGroupType, ListingType, StreamAssumption
    DEF TypeOK, RedisTypeOK
  <2> QED
    BY <1>3, <2>1, <2>2 DEF PendingRead
<1>6. ASSUME NEW w \in Workers, WorkerStep(w) PROVE PendingRead'
  BY <1>2, <1>4, <1>5, <1>6, GroupCreateAgain
  DEF WorkerStep, ReadBatch, ReadReplyLost, ReadNoGroup, EnsureGroup, redis
<1>7. ASSUME NEW c \in Consumers, BatchStep(c) PROVE PendingRead'
  BY <1>4, <1>7
  DEF BatchStep, HandleOk, HandleFail, FinishBatch, BatchAck, XAck, redis
<1>8. CASE ReclaimerStep
  BY <1>4, <1>8
  DEF ReclaimerStep, Inspect, DropDead, Claim, ClaimReplyLost, ClaimRefused,
      XAutoClaim, BatchAck, XAck, redis
<1>9. CASE RedisForgets
  BY <1>1, <1>2, <1>9 DEF RedisForgets
<1>10. CASE Restart
  BY <1>2, <1>4, <1>10, GroupCreateAgain DEF Restart, redis
<1> QED
  BY <1>4, <1>6, <1>7, <1>8, <1>9, <1>10
  DEF Next, Enqueue, XAdd, Environment, Stop, Exit, Crash, GrowStale, XIdle,
      vars, redis

LEMMA HandInductive == Spec => []HandInv
<1>1. Init => HandInv
  <2>1. Init => TypeOK
    BY StreamAssumption, QueueAssumption
    DEF Init, RedisInit, TypeOK, RedisTypeOK, Ids
  <2>2. Init => GroupKept /\ CountsExact /\ PendingRead
    BY DEF Init, RedisInit, GroupKept, CountsExact, PendingRead
  <2> QED
    BY <2>1, <2>2 DEF HandInv
<1>2. HandInv /\ [Next]_vars => HandInv'
  <2> SUFFICES ASSUME HandInv, [Next]_vars PROVE HandInv'
    OBVIOUS
  <2>1. TypeOK'
    BY TypeStep DEF HandInv
  <2> QED
    BY <2>1, GroupKeptStep, CountsExactStep, PendingReadStep
    DEF HandInv
<1> QED
  BY <1>1, <1>2, PTL DEF Spec

-----------------------------------------------------------------------------
(* The number of deliveries                                                *)
(*                                                                         *)
(* Two conditions on the constants: the inspection sees the whole pending  *)
(* list (the code's window is 200), and a message has more than one        *)
(* attempt.  With a single attempt a message that is read between XPENDING *)
(* and XAUTOCLAIM and grows stale before the latter is handed out again.   *)

\* A listing that is not cut is complete.
LEMMA WholeListing ==
  ASSUME NEW S, S \subseteq Ids, NEW n \in Nat, MaxMsgs <= n
  PROVE  FirstN(S, n) = S
<1>1. ASSUME NEW i \in S PROVE Cardinality({j \in S : j < i}) < n
  <2> DEFINE Below == {j \in S : j < i}
  <2>1. i \in Int /\ 1 <= i /\ i <= MaxMsgs /\ S \subseteq Int
    BY StreamAssumption DEF Ids
  <2>2. Below \subseteq 1..(i - 1)
    <3>1. ASSUME NEW j \in S, j < i PROVE j \in 1..(i - 1)
      <4>1. j \in Int /\ 1 <= j
        BY StreamAssumption DEF Ids
      <4> QED
        BY <2>1, <3>1, <4>1
    <3> QED
      BY <3>1
  <2>3. IsFiniteSet(1..(i - 1)) /\ Cardinality(1..(i - 1)) = i - 1
    <3>1. 1 \in Int /\ i - 1 \in Int
      BY <2>1
    <3>2. /\ IsFiniteSet(1..(i - 1))
          /\ Cardinality(1..(i - 1)) = IF 1 > i - 1 THEN 0 ELSE (i - 1) - 1 + 1
      BY <3>1, FS_Interval
    <3> QED
      BY <2>1, <3>2
  <2>4. Cardinality(Below) <= i - 1
    BY <2>2, <2>3, FS_Subset
  <2>5. Cardinality(Below) \in Nat
    BY <2>2, <2>3, FS_Subset, FS_CardinalityType
  <2> QED
    BY <2>1, <2>4, <2>5, StreamAssumption
<1> QED
  BY <1>1 DEF FirstN

\* A pending entry of which the inspection knows nothing bad.
LEMMA ScreenedStep ==
  ASSUME HandInv, Screened, MaxMsgs <= PendingWindow, [Next]_vars
  PROVE  Screened'
<1> USE DEF Goto
<1>1. SUFFICES ASSUME MaxRetries > 1, resets' = 0, faults' = 0,
                      NEW i \in pel',
                      \/ pc'[Reclaimer] = "claim"
                      \/ pc'[Reclaimer] = "drop" /\ i \notin dead'
               PROVE  count'[i] < MaxRetries
  BY DEF Screened
<1>2. TypeOK /\ resets = 0 /\ faults = 0 /\ group
  BY <1>1, BudgetsGrow DEF HandInv, GroupKept
<1>3. Reclaimer \in Consumers /\ pel \subseteq Ids /\ MaxRetries \in Nat
  BY <1>2, QueueAssumption DEF Consumers, TypeOK, RedisTypeOK
<1>4. ASSUME i \in pel, \/ pc[Reclaimer] = "claim"
                        \/ pc[Reclaimer] = "drop" /\ i \notin dead
      PROVE  count[i] < MaxRetries
  BY <1>1, <1>2, <1>4 DEF Screened
<1>5. ASSUME i \in pel, count' = count, pc'[Reclaimer] = pc[Reclaimer], dead' = dead
      PROVE  count'[i] < MaxRetries
  BY <1>1, <1>4, <1>5
<1>6. ASSUME NEW w \in Workers, WorkerStep(w) PROVE count'[i] < MaxRetries
  <2>1. pc'[Reclaimer] = pc[Reclaimer] /\ dead' = dead
    BY <1>2, <1>3, <1>6, QueueAssumption
    DEF WorkerStep, ReadBatch, ReadReplyLost, ReadNoGroup, EnsureGroup, TypeOK,
        process
  <2>2. CASE ReadBatch(w) \/ ReadReplyLost(w)
    <3>1. XReadGroup(FirstN(Unread, BatchSize)) /\ FirstN(Unread, BatchSize) \subseteq Ids
      BY <1>2, <2>2, ListingType DEF ReadBatch, ReadReplyLost
    <3>2. CASE i \in FirstN(Unread, BatchSize)
      BY <1>1, <3>1, <3>2 DEF XReadGroup
    <3>3. CASE i \notin FirstN(Unread, BatchSize)
      <4>1. i \in pel /\ count'[i] = count[i]
        BY <1>3, <3>1, <3>3 DEF XReadGroup
      <4> QED
        BY <1>1, <1>4, <2>1, <4>1
    <3> QED
      BY <3>2, <3>3
  <2>3. CASE ReadNoGroup(w) \/ EnsureGroup(w)
    BY <1>2, <1>5, <2>1, <2>3, GroupCreateAgain DEF ReadNoGroup, EnsureGroup, redis
  <2> QED
    BY <1>6, <2>2, <2>3 DEF WorkerStep
<1>7. ASSUME NEW c \in Consumers, BatchStep(c) PROVE count'[i] < MaxRetries
  <2>1. i \in pel /\ count' = count /\ dead' = dead
    BY <1>7
    DEF BatchStep, HandleOk, HandleFail, FinishBatch, BatchAck, XAck, redis
  <2>2. pc'[Reclaimer] = pc[Reclaimer] \/ pc'[Reclaimer] = "idle"
    BY <1>2, <1>3, <1>7 DEF BatchStep, HandleOk, HandleFail, FinishBatch, TypeOK
  <2> QED
    BY <1>1, <1>5, <2>1, <2>2
<1>8. CASE ReclaimerStep
  <2>1. CASE Inspect
    <3>1. dead' = DeadIds(pel) /\ UNCHANGED redis
      <4>1. NoFault /\ dead' = DeadIds(FirstN(pel, PendingWindow))
        BY <1>1, <1>2, <2>1 DEF Inspect, Fault
      <4>2. FirstN(pel, PendingWindow) = pel
        BY <1>3, WholeListing, QueueAssumption
      <4> QED
        BY <2>1, <4>1, <4>2 DEF Inspect
    <3>2. i \notin dead'
      BY <1>2, <1>3, <1>1, <2>1 DEF Inspect, TypeOK
    <3>3. i \in pel /\ count' = count /\ count[i] \in Nat
      BY <1>2, <1>3, <3>1 DEF redis, TypeOK, RedisTypeOK
    <3> QED
      BY <1>1, <1>3, <3>1, <3>2, <3>3 DEF DeadIds
  <2>2. CASE DropDead
    <3>1. XAck(dead)
      BY <1>1, <1>2, <2>2 DEF DropDead, BatchAck, Fault
    <3>2. i \in pel /\ i \notin dead /\ count' = count
      BY <3>1 DEF XAck
    <3> QED
      BY <1>4, <2>2, <3>2 DEF DropDead
  <2>3. CASE Claim \/ ClaimReplyLost \/ ClaimRefused
    BY <1>1, <1>2, <1>3, <2>3 DEF Claim, ClaimReplyLost, ClaimRefused, TypeOK
  <2> QED
    BY <1>8, <2>1, <2>2, <2>3 DEF ReclaimerStep
<1>9. CASE Environment
  <2>1. CASE Crash
    BY <1>1, <1>3, <2>1 DEF Crash
  <2>2. CASE RedisForgets
    BY <1>1, <1>2, <2>2 DEF RedisForgets
  <2>3. CASE Restart
    BY <1>2, <1>5, <2>3, GroupCreateAgain DEF Restart, redis
  <2> QED
    BY <1>5, <1>9, <2>1, <2>2, <2>3 DEF Environment, Stop, Exit, redis
<1> QED
  BY <1>5, <1>6, <1>7, <1>8, <1>9
  DEF Next, Enqueue, XAdd, GrowStale, XIdle, vars, redis, process

LEMMA DeliveryBoundStep ==
  ASSUME HandInv, Screened, DeliveryBound, MaxRetries # 1, [Next]_vars
  PROVE  DeliveryBound'
<1> USE DEF history
<1>1. SUFFICES ASSUME MaxRetries > 1, resets' = 0, faults' = 0, NEW i \in Ids
               PROVE  deliveries'[i] <= MaxRetries
  BY QueueAssumption DEF DeliveryBound
<1>2. TypeOK /\ resets = 0 /\ faults = 0
  BY <1>1, BudgetsGrow DEF HandInv
<1>3. /\ MaxRetries \in Nat /\ deliveries[i] \in Nat /\ deliveries[i] <= MaxRetries
      /\ count[i] = deliveries[i]
      /\ i > cursor => deliveries[i] = 0
  BY <1>1, <1>2, QueueAssumption DEF DeliveryBound, HandInv, CountsExact, TypeOK
<1>4. ASSUME NEW w \in Workers, WorkerStep(w) PROVE deliveries'[i] <= MaxRetries
  <2>1. CASE ReadBatch(w) \/ ReadReplyLost(w)
    <3>1. deliveries'[i] = deliveries[i] + (IF i \in FirstN(Unread, BatchSize) THEN 1 ELSE 0)
      BY <2>1 DEF ReadBatch, ReadReplyLost, CountDelivery
    <3>2. i \in FirstN(Unread, BatchSize) => i > cursor
      BY DEF FirstN, Unread
    <3> QED
      BY <1>1, <1>3, <3>1, <3>2
  <2> QED
    BY <1>3, <1>4, <2>1 DEF WorkerStep, ReadNoGroup, EnsureGroup
<1>5. CASE ReclaimerStep
  <2>1. CASE Claim \/ ClaimReplyLost
    <3>1. deliveries'[i] =
            deliveries[i] + (IF i \in AutoClaimable(BatchSize) \cap stream THEN 1 ELSE 0)
      BY <2>1 DEF Claim, ClaimReplyLost, CountDelivery
    <3>2. i \in AutoClaimable(BatchSize) => i \in pel
      BY <1>2, ListingType
    <3>3. i \in pel => count[i] < MaxRetries
      BY <1>1, <1>2, <2>1 DEF Claim, ClaimReplyLost, Screened
    <3> QED
      BY <1>3, <3>1, <3>2, <3>3
  <2> QED
    BY <1>3, <1>5, <2>1 DEF ReclaimerStep, Inspect, DropDead, ClaimRefused
<1> QED
  BY <1>3, <1>4, <1>5
  DEF Next, Enqueue, BatchStep, HandleOk, HandleFail, FinishBatch, Environment,
      Stop, Exit, Crash, Restart, RedisForgets, GrowStale, vars

\* "maxRetries controls how many total delivery attempts a message gets" holds
\* over crashes and restarts for every number of attempts above one, while Redis
\* answers, keeps the group and lists the whole pending list (consumer.go:41).
THEOREM DeliveryBounded ==
  ASSUME MaxMsgs <= PendingWindow, MaxRetries # 1
  PROVE  Spec => []DeliveryBound
<1>1. Init => Screened /\ DeliveryBound
  <2>1. Init => Screened
    BY DEF Init, RedisInit, Screened
  <2>2. Init => DeliveryBound
    BY QueueAssumption DEF Init, DeliveryBound
  <2> QED
    BY <2>1, <2>2
<1>2. HandInv /\ Screened /\ DeliveryBound /\ [Next]_vars => Screened' /\ DeliveryBound'
  BY ScreenedStep, DeliveryBoundStep
<1> QED
  BY <1>1, <1>2, HandInductive, PTL DEF Spec

-----------------------------------------------------------------------------
(* The promise                                                             *)
(*                                                                         *)
(* The queue of internal/queue implements AtLeastOnce: every step of       *)
(* DeliveryQueue is a step of the promise, or changes nothing it sees.     *)

\* A message in a batch was handed out at least once.
HeldDelivered == \A c \in Consumers : \A i \in todo[c] : deliveries[i] > 0

\* What Redis removed is gone, and its id is never given out again.
LostIsGone == lost \cap stream = {} /\ lost \subseteq 1..lastId

PInv == IInv /\ HeldDelivered /\ LostIsGone

-----------------------------------------------------------------------------
LEMMA HeldStep == ASSUME IInv, HeldDelivered, [Next]_vars PROVE HeldDelivered'
<1> USE DEF HeldDelivered, process
<1>1. TypeOK /\ TypeOK' /\ \A i \in Ids : deliveries[i] <= deliveries'[i]
  BY HistoryGrows, TypeStep DEF IInv
<1>2. ASSUME \A c \in Consumers : todo'[c] \subseteq todo[c] PROVE HeldDelivered'
  BY <1>1, <1>2 DEF TypeOK
<1>3. ASSUME NEW c \in Consumers, NEW ids, ids \subseteq Ids, CountDelivery(ids),
             todo' = [todo EXCEPT ![c] = ids]
      PROVE  HeldDelivered'
  <2>1. \A i \in ids : deliveries'[i] > 0
    BY <1>1, <1>3 DEF CountDelivery, TypeOK
  <2>2. \A d \in Consumers : todo'[d] \subseteq todo[d] \cup ids
    BY <1>1, <1>3 DEF TypeOK
  <2>3. \A d \in Consumers : \A i \in todo'[d] : d = c => i \in ids
    BY <1>1, <1>3 DEF TypeOK
  <2> QED
    BY <1>1, <2>1, <2>2, <2>3 DEF TypeOK
<1>4. ASSUME UNCHANGED todo PROVE HeldDelivered'
  BY <1>2, <1>4
<1>5. ASSUME NEW w \in Workers, WorkerStep(w) PROVE HeldDelivered'
  BY <1>1, <1>3, <1>4, <1>5, ListingType
  DEF WorkerStep, ReadBatch, ReadReplyLost, ReadNoGroup, EnsureGroup, Consumers
<1>6. ASSUME NEW c \in Consumers, BatchStep(c) PROVE HeldDelivered'
  BY <1>1, <1>2, <1>4, <1>6
  DEF BatchStep, HandleOk, HandleFail, FinishBatch, TypeOK
<1>7. CASE ReclaimerStep
  BY <1>1, <1>3, <1>4, <1>7, ListingType
  DEF ReclaimerStep, Inspect, DropDead, Claim, ClaimReplyLost, ClaimRefused,
      Consumers
<1>8. CASE Crash
  BY <1>8 DEF Crash
<1> QED
  BY <1>4, <1>5, <1>6, <1>7, <1>8
  DEF Next, Enqueue, Environment, Stop, Exit, Restart, RedisForgets, GrowStale, vars

LEMMA LostStep == ASSUME IInv, LostIsGone, [Next]_vars PROVE LostIsGone'
<1> USE DEF LostIsGone, history
<1>1. lastId \in Nat /\ stream \subseteq 1..lastId
  BY StreamAssumption DEF IInv, TypeOK, RedisTypeOK, Issued
<1>2. ASSUME stream' \subseteq stream, UNCHANGED <<lastId, lost>> PROVE LostIsGone'
  BY <1>2
<1>3. ASSUME NEW ids, BatchAck(ids)
      PROVE  stream' \subseteq stream /\ UNCHANGED lastId
  BY <1>3 DEF BatchAck, XAck, redis
<1>4. CASE Enqueue
  <2>1. /\ lastId' = lastId + 1 /\ lost' = lost \cup (stream \ stream')
        /\ stream' \subseteq stream \cup {lastId + 1}
    BY <1>4 DEF Enqueue, XAdd
  <2>2. lastId + 1 \notin lost
    BY <1>1
  <2> QED
    BY <1>1, <2>1, <2>2
<1>5. CASE RedisForgets
  BY <1>1, <1>5 DEF RedisForgets, XForget
<1> QED
  BY <1>2, <1>3, <1>4, <1>5
  DEF Next, WorkerStep, ReadBatch, ReadReplyLost, ReadNoGroup, EnsureGroup,
      BatchStep, HandleOk, HandleFail, FinishBatch, ReclaimerStep, Inspect,
      DropDead, Claim, ClaimReplyLost, ClaimRefused, Environment, Stop, Exit,
      Crash, Restart, GrowStale, XReadGroup, XAutoClaim, XGroupCreate, XIdle,
      redis, vars

THEOREM PInductive == Spec => []PInv
<1>1. Init => HeldDelivered /\ LostIsGone
  BY DEF Init, RedisInit, HeldDelivered, LostIsGone
<1>2. IInv /\ HeldDelivered /\ LostIsGone /\ [Next]_vars
        => HeldDelivered' /\ LostIsGone'
  BY HeldStep, LostStep
<1> QED
  BY <1>1, <1>2, Inductive, PTL DEF Spec, PInv

-----------------------------------------------------------------------------
(* Every step is allowed by the promise *)

LEMMA AckOwesLess == ASSUME NEW ids, BatchAck(ids) PROVE Owed' \subseteq Owed
<1>1. CASE NoFault /\ XAck(ids) /\ stream' = stream \ ids
  BY <1>1 DEF XAck, Owed
<1>2. CASE Fault("ackOnly") /\ XAck(ids) /\ UNCHANGED stream
  BY <1>2 DEF XAck, Owed
<1>3. CASE Fault("ackNone") /\ UNCHANGED redis
  BY <1>3 DEF redis, Owed
<1> QED
  BY <1>1, <1>2, <1>3 DEF BatchAck

LEMMA DischargeStep ==
  ASSUME NEW ids, BatchAck(ids), ids \subseteq handled \cup Exhausted,
         UNCHANGED history
  PROVE  Promise!Discharge(Owed \ Owed')
<1>1. Owed \subseteq Owed' \cup ids /\ Owed' \subseteq Owed
  BY OwedAfterAck, AckOwesLess
<1>2. UNCHANGED lastId
  BY DEF BatchAck, XAck, redis
<1>3. Exhausted = Promise!Exhausted
  BY DEF Exhausted, Promise!Exhausted
<1> QED
  BY <1>1, <1>2, <1>3 DEF Promise!Discharge, history

LEMMA ReadStep ==
  ASSUME PInv, XReadGroup(FirstN(Unread, BatchSize)),
         CountDelivery(FirstN(Unread, BatchSize)), UNCHANGED <<handled, lost>>
  PROVE  Promise!Deliver(FirstN(Unread, BatchSize))
<1> DEFINE ids == FirstN(Unread, BatchSize)
<1>1. TypeOK /\ ids \subseteq Unread
  BY DEF PInv, IInv, FirstN
<1>2. ids \subseteq Owed
  BY <1>1 DEF Unread, Owed
<1>3. Owed \subseteq Owed'
  BY <1>1, OwedAfterRead
<1>4. Owed' \subseteq Owed
  <2>1. cursor' \in ids /\ pel' = pel \cup ids /\ stream' = stream
    BY DEF XReadGroup
  <2>2. cursor' \in stream /\ cursor' > cursor
    BY <1>1, <2>1 DEF Unread
  <2>3. \A i \in stream : i \in Int
    BY <1>1, StreamAssumption DEF TypeOK, RedisTypeOK, Ids
  <2>4. cursor \in Int
    BY <1>1, StreamAssumption DEF TypeOK, RedisTypeOK
  <2>5. \A i \in stream : i > cursor' => i > cursor
    BY <2>2, <2>3, <2>4
  <2> QED
    BY <1>2, <2>1, <2>5 DEF Owed
<1>5. UNCHANGED lastId
  BY DEF XReadGroup
<1> QED
  BY <1>2, <1>3, <1>4, <1>5 DEF Promise!Deliver, CountDelivery

LEMMA ClaimStep ==
  ASSUME PInv, XAutoClaim(BatchSize),
         CountDelivery(AutoClaimable(BatchSize) \cap stream),
         UNCHANGED <<handled, lost>>
  PROVE  Promise!Deliver(AutoClaimable(BatchSize) \cap stream)
<1>1. TypeOK /\ AutoClaimable(BatchSize) \subseteq pel
  BY ListingType DEF PInv, IInv
<1>2. AutoClaimable(BatchSize) \cap stream \subseteq Owed
  BY <1>1 DEF Owed
<1>3. Owed' = Owed
  BY DEF XAutoClaim, Owed
<1>4. UNCHANGED lastId
  BY DEF XAutoClaim
<1> QED
  BY <1>2, <1>3, <1>4 DEF Promise!Deliver, CountDelivery

LEMMA EnqueueStep == ASSUME PInv, Enqueue PROVE Promise!Accept(lastId + 1)
<1> DEFINE evicted == stream \ stream'
<1>1. /\ lastId \in Nat /\ lastId < MaxMsgs /\ lastId' = lastId + 1
      /\ UNCHANGED <<cursor, pel, handled, deliveries>>
      /\ lost' = lost \cup evicted
  BY StreamAssumption DEF Enqueue, XAdd, PInv, IInv, TypeOK, RedisTypeOK
<1>2. cursor \in Nat /\ cursor <= lastId /\ stream \subseteq 1..lastId
  BY StreamAssumption DEF PInv, IInv, TypeOK, RedisTypeOK, Issued
<1>3. /\ lastId + 1 \in stream'
      /\ stream' \subseteq stream \cup {lastId + 1}
  BY <1>1 DEF Enqueue, XAdd
<1>4. lastId + 1 \in Ids \ (1..lastId) /\ 1..lastId' = 1..lastId \cup {lastId + 1}
  BY <1>1, StreamAssumption DEF Ids
<1>5. lastId + 1 > cursor /\ lastId + 1 \notin stream
  BY <1>1, <1>2
<1>6. Owed' = (Owed \cup {lastId + 1}) \ evicted
  BY <1>1, <1>3, <1>5 DEF Owed
<1>7. evicted \in SUBSET (1..lastId)
  BY <1>2
<1> QED
  BY <1>1, <1>4, <1>6, <1>7 DEF Promise!Accept

LEMMA ReviveStep ==
  ASSUME PInv, PInv', Owed \subseteq Owed', UNCHANGED <<lastId, stream>>,
         UNCHANGED history
  PROVE  Promise!Revive(Owed')
<1>1. Owed' \subseteq stream /\ stream \subseteq 1..lastId /\ lost \cap stream = {}
  BY DEF Owed, PInv, IInv, Issued, LostIsGone
<1> QED
  BY <1>1 DEF Promise!Revive, history

LEMMA ForgetStep ==
  ASSUME PInv, RedisForgets
  PROVE  Promise!Lose(stream) \/ Promise!Revive(stream)
<1>1. PICK kept \in {{}, stream} :
        XForget(kept) /\ lost' = lost \cup (stream \ kept)
  BY DEF RedisForgets
<1>2. \A i \in stream : i > 0
  BY StreamAssumption DEF PInv, IInv, TypeOK, RedisTypeOK, Ids
<1>3. stream \subseteq 1..lastId /\ lost \cap stream = {} /\ Owed \subseteq stream
  BY DEF PInv, IInv, Issued, LostIsGone, Owed
<1>4. UNCHANGED <<lastId, handled, deliveries>>
  BY <1>1 DEF RedisForgets, XForget
<1>5. CASE kept = {}
  BY <1>1, <1>3, <1>4, <1>5 DEF XForget, Owed, Promise!Lose
<1>6. CASE kept = stream
  <2>1. Owed' = stream
    BY <1>1, <1>2, <1>6 DEF XForget, Owed
  <2>2. lost' = lost
    BY <1>1, <1>6
  <2> QED
    BY <1>3, <1>4, <2>1, <2>2 DEF Promise!Revive
<1> QED
  BY <1>1, <1>5, <1>6

LEMMA PromiseStep ==
  ASSUME PInv, PInv', [Next]_vars PROVE [Promise!Next]_(Promise!vars)
<1> USE DEF Promise!Next
<1>1. TypeOK
  BY DEF PInv, IInv
<1>2. \A ids : ids \subseteq Ids => ids \in SUBSET Ids
  OBVIOUS
<1>3. stream \subseteq Ids /\ Owed \subseteq Ids /\ Owed' \subseteq Ids
  BY DEF PInv, IInv, TypeOK, RedisTypeOK, Owed
<1>4. ASSUME UNCHANGED redis, UNCHANGED history PROVE UNCHANGED Promise!vars
  BY <1>4 DEF redis, history, Owed, Promise!vars
<1>5. ASSUME XGroupCreate, UNCHANGED history PROVE Promise!Next
  <2>1. Owed \subseteq Owed' /\ UNCHANGED <<lastId, stream>>
    BY <1>1, <1>5, OwedAfterGroupCreate DEF XGroupCreate
  <2> QED
    BY <1>3, <1>5, <2>1, ReviveStep
<1>6. CASE Enqueue
  <2>1. lastId + 1 \in Ids
    BY <1>6, StreamAssumption DEF Enqueue, XAdd, PInv, IInv, TypeOK, RedisTypeOK, Ids
  <2> QED
    BY <1>6, <2>1, EnqueueStep
<1>7. ASSUME NEW w \in Workers, WorkerStep(w) PROVE [Promise!Next]_(Promise!vars)
  <2>1. CASE ReadBatch(w) \/ ReadReplyLost(w)
    BY <1>1, <2>1, ReadStep, ListingType DEF ReadBatch, ReadReplyLost
  <2>2. CASE ReadNoGroup(w) \/ EnsureGroup(w)
    BY <1>4, <1>5, <2>2 DEF ReadNoGroup, EnsureGroup
  <2> QED
    BY <1>7, <2>1, <2>2 DEF WorkerStep
<1>8. ASSUME NEW c \in Consumers, BatchStep(c) PROVE [Promise!Next]_(Promise!vars)
  <2>1. ASSUME NEW i \in Ids, HandleOk(c, i) PROVE Promise!Succeed(i)
    BY <2>1 DEF HandleOk, PInv, HeldDelivered, Promise!Succeed, redis, Owed
  <2>2. ASSUME NEW i \in Ids, HandleFail(c, i) PROVE UNCHANGED Promise!vars
    BY <1>4, <2>2 DEF HandleFail
  <2>3. CASE FinishBatch(c)
    BY <1>3, <2>3, DischargeStep DEF FinishBatch, PInv, IInv, AcksHandled
  <2> QED
    BY <1>8, <2>1, <2>2, <2>3 DEF BatchStep
<1>9. CASE ReclaimerStep
  <2>1. CASE DropDead
    BY <1>3, <2>1, DischargeStep DEF DropDead, PInv, IInv, DeadExhausted
  <2>2. CASE Claim \/ ClaimReplyLost
    BY <1>3, <2>2, ClaimStep DEF Claim, ClaimReplyLost
  <2>3. CASE Inspect \/ ClaimRefused
    BY <1>4, <2>3 DEF Inspect, ClaimRefused
  <2> QED
    BY <1>9, <2>1, <2>2, <2>3 DEF ReclaimerStep
<1>10. CASE Environment
  <2>1. CASE RedisForgets
    BY <1>3, <2>1, ForgetStep
  <2> QED
    BY <1>4, <1>5, <1>10, <2>1 DEF Environment, Stop, Exit, Crash, Restart
<1>11. ASSUME NEW i \in Ids, GrowStale(i) PROVE UNCHANGED Promise!vars
  BY <1>11 DEF GrowStale, XIdle, history, Owed, Promise!vars
<1>12. CASE UNCHANGED vars
  BY <1>4, <1>12 DEF vars
<1> QED
  BY <1>6, <1>7, <1>8, <1>9, <1>10, <1>11, <1>12 DEF Next

\* The queue keeps its promise: a message leaves the queue only after its handler
\* returned nil or MaxRetries deliveries were made, for all constants.
THEOREM PromiseKept == Spec => KeepsPromise
<1>1. Init => Promise!Init
  BY DEF Init, RedisInit, Owed, Promise!Init
<1>2. PInv /\ PInv' /\ [Next]_vars => [Promise!Next]_(Promise!vars)
  BY PromiseStep
<1> QED
  BY <1>1, <1>2, PInductive, PTL DEF Spec, KeepsPromise, Promise!Spec
=============================================================================
