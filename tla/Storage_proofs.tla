---------------------------- MODULE Storage_proofs ----------------------------
(***************************************************************************)
(* Proofs about AsyncWriter for every set of writes, size of the channel   *)
(* and bound: no write is lost or doubled, in Close either, and Close      *)
(* drains the channel; and about StoreQueries for tables, limits and pages of any *)
(* size: what the list of invalid records and a path may leave out.        *)
(***************************************************************************)
EXTENDS AsyncWriter, StoreQueries, SequenceLemmas

-----------------------------------------------------------------------------
(* The inductive invariant *)

\* Every write is in one place only, and has one place in its channel; said without
\* counting, as the steps can be followed.
Apart ==
  /\ IsInjective(queue) /\ IsInjective(parked)
  /\ spawned \cap ToSet(parked) = {}
  /\ Waiting \cap Accepted = {} /\ ToSet(queue) \cap writing = {}
  /\ \A o \in Waiting \cup Accepted : ended[o] = "no"

\* The writes that have ended
Done == {o \in Ops : ended[o] # "no"}

\* What was handed over is somewhere, unless it went with a panic.
HandedKept == ~panicked => handed = Waiting \cup Accepted \cup Done

\* Nothing is given up before Close cancels.
NotDropped == ~Cancelled => \A o \in Ops : ended[o] # "dropped"

\* The writer returns from a channel to which nobody sends any more, and main waits
\* for it.
Returned == ~running => Closed /\ queue = <<>> /\ writing = {}
Waited == stage = "exit" => ~running

IInv == TypeOK /\ Apart /\ HandedKept /\ NotDropped /\ Returned /\ Waited
-----------------------------------------------------------------------------
(* Type correctness *)

Ends == {"no", "stored", "refused", "storeClosed", "dropped"}

LEMMA EndType ==
  ASSUME TypeOK, NEW os, NEW how \in Ends, End(os, how) PROVE ended' \in [Ops -> Ends]
BY DEF TypeOK, End, Ends

LEMMA OneWrite == ASSUME NEW o PROVE Cardinality({o}) <= 1 /\ Cardinality({}) <= 1
<1>1. Cardinality({o}) = 1
  BY FS_Singleton
<1>2. Cardinality({}) = 0
  BY FS_EmptySet
<1> QED
  BY <1>1, <1>2

LEMMA TypeInit == Init => TypeOK
<1> SUFFICES ASSUME Init PROVE TypeOK
  OBVIOUS
<1>1. queue \in Seq(Ops) /\ parked \in Seq(Ops) /\ Len(queue) <= Capacity
  BY EmptySeq, WriterAssumption DEF Init
<1>2. ended \in [Ops -> Ends] /\ faults \in 0..MaxFaults
  BY WriterAssumption DEF Init, Ends
<1>3. Cardinality(writing) <= 1
  BY OneWrite DEF Init
<1> QED
  BY <1>1, <1>2, <1>3 DEF Init, TypeOK, Stages, Ends

LEMMA TypeStep == TypeOK /\ [Next]_vars => TypeOK'
<1> SUFFICES ASSUME TypeOK, [Next]_vars PROVE TypeOK'
  OBVIOUS
<1> USE WriterAssumption DEF channel, writer
<1>1. Len(queue) \in Nat
  BY LenProperties DEF TypeOK
<1>2. ASSUME NEW o \in Ops, Enqueue(o) PROVE TypeOK'
  <2>1. Room => Append(queue, o) \in Seq(Ops) /\ Len(Append(queue, o)) <= Capacity
    BY <1>1, Sent DEF TypeOK, Room
  <2> QED
    BY <1>2, <2>1 DEF TypeOK, Enqueue
<1>3. ASSUME NEW o \in Ops, Select(o) PROVE TypeOK'
  <2>1. Room => Append(queue, o) \in Seq(Ops) /\ Len(Append(queue, o)) <= Capacity
    BY <1>1, Sent DEF TypeOK, Room
  <2>2. Append(parked, o) \in Seq(Ops)
    BY Sent DEF TypeOK
  <2>3. End({o}, "dropped") => ended' \in [Ops -> Ends]
    BY EndType DEF Ends
  <2> QED
    BY <1>3, <2>1, <2>2, <2>3 DEF TypeOK, Select, Ends
<1>4. ASSUME Receive PROVE TypeOK'
  <2>1. /\ Head(queue) \in Ops /\ Tail(queue) \in Seq(Ops) /\ Len(Tail(queue)) = Len(queue) - 1
    BY <1>4, Received DEF Receive, TypeOK
  <2>2. parked # <<>> => /\ Tail(parked) \in Seq(Ops)
                         /\ Append(Tail(queue), Head(parked)) \in Seq(Ops)
                         /\ Len(Append(Tail(queue), Head(parked))) = Len(queue)
    <3> SUFFICES ASSUME parked # <<>>
                 PROVE  /\ Tail(parked) \in Seq(Ops)
                        /\ Append(Tail(queue), Head(parked)) \in Seq(Ops)
                        /\ Len(Append(Tail(queue), Head(parked))) = Len(queue)
      OBVIOUS
    <3>1. Head(parked) \in Ops /\ Tail(parked) \in Seq(Ops)
      BY Received DEF TypeOK
    <3>2. /\ Append(Tail(queue), Head(parked)) \in Seq(Ops)
          /\ Len(Append(Tail(queue), Head(parked))) = Len(Tail(queue)) + 1
      BY <2>1, <3>1, Sent
    <3> QED
      BY <1>1, <2>1, <3>1, <3>2
  <2>3. Cardinality({Head(queue)}) <= 1
    BY OneWrite
  <2>4. queue' \in Seq(Ops) /\ Len(queue') <= Capacity /\ parked' \in Seq(Ops)
    <3>1. CASE queue' = Tail(queue) /\ UNCHANGED parked
      BY <1>1, <2>1, <3>1 DEF TypeOK
    <3>2. CASE parked # <<>> /\ queue' = Append(Tail(queue), Head(parked)) /\ parked' = Tail(parked)
      BY <2>2, <3>2 DEF TypeOK
    <3> QED
      BY <1>4, <3>1, <3>2 DEF Receive
  <2> QED
    BY <1>4, <2>1, <2>3, <2>4 DEF TypeOK, Receive
<1>5. ASSUME Begin PROVE TypeOK'
  BY <1>5 DEF TypeOK, Begin
<1>6. ASSUME NEW how \in Ends, EndWriting(how), UNCHANGED <<channel, running, open, stage, panicked, handed>>,
             faults' \in 0..MaxFaults
      PROVE  TypeOK'
  <2>1. ended' \in [Ops -> Ends]
    BY <1>6, EndType DEF EndWriting
  <2> QED
    BY <1>6, <2>1, OneWrite DEF TypeOK, EndWriting, Ends
<1>7. CASE Commit \/ StoreIsClosed
  BY <1>6, <1>7 DEF Commit, StoreIsClosed, Ends, TypeOK
<1>8. CASE Refused
  <2>1. faults' \in 0..MaxFaults
    BY <1>8 DEF Refused, TypeOK
  <2> QED
    BY <1>6, <1>8, <2>1 DEF Refused, Ends
<1>9. CASE Return
  BY <1>9 DEF TypeOK, Return
<1>10. CASE Signal \/ HandlersStopped \/ StoreClose \/ CloseChannel \/ WaitWriter
  BY <1>10 DEF TypeOK, Stages, Signal, HandlersStopped, StoreClose, CloseChannel, WaitWriter
<1>11. CASE Cancel
  <2>1. ended' \in [Ops -> Ends]
    BY <1>11, EndType DEF Cancel, Ends
  <2>2. parked' \in Seq(Ops)
    BY <1>11, EmptySeq DEF Cancel
  <2> QED
    BY <1>11, <2>1, <2>2 DEF TypeOK, Stages, Cancel, Ends
<1>12. CASE UNCHANGED vars
  BY <1>12 DEF TypeOK, vars
<1> QED
  BY <1>2, <1>3, <1>4, <1>5, <1>7, <1>8, <1>9, <1>10, <1>11, <1>12 DEF Next, Shutdown, Writer

\* Every reachable state has its types; in particular the channel stays within its size,
\* also when a waiting goroutine moves up (enqueueSuccessOrFailed, run).
THEOREM TypeCorrect == Spec => []TypeOK
BY TypeInit, TypeStep, PTL DEF Spec

-----------------------------------------------------------------------------
(* No write is in two places *)

\* A step begins in a process that has not panicked.
LEMMA Calm == ASSUME HandedKept, Next PROVE ~panicked /\ handed = Waiting \cup Accepted \cup Done
BY DEF HandedKept, Next, Alive

\* What a write that ends changes
LEMMA EndEffect ==
  ASSUME TypeOK, NEW os \in SUBSET Ops, NEW how \in Ends \ {"no"}, End(os, how)
  PROVE  /\ \A o \in Ops : ended'[o] = IF o \in os THEN how ELSE ended[o]
         /\ Done' = Done \cup os
<1>1. \A o \in Ops : ended'[o] = IF o \in os THEN how ELSE ended[o]
  BY DEF End
<1> QED
  BY <1>1 DEF Done

LEMMA ApartStep ==
  ASSUME TypeOK, Apart, HandedKept, [Next]_vars PROVE Apart' /\ HandedKept'
<1> USE DEF channel, writer
<1>2. /\ queue \in Seq(Ops) /\ parked \in Seq(Ops) /\ writing \subseteq Ops /\ spawned \subseteq Ops
      /\ ended \in [Ops -> Ends]
  BY DEF TypeOK, Ends
<1>3. /\ IsInjective(queue) /\ IsInjective(parked)
      /\ spawned \cap ToSet(parked) = {}
      /\ Waiting \cap Accepted = {} /\ ToSet(queue) \cap writing = {}
      /\ \A o \in Waiting \cup Accepted : ended[o] = "no"
  BY DEF Apart
<1>0. ToSet(parked) \subseteq Ops /\ ToSet(queue) \subseteq Ops
  BY <1>2, ToSetType
<1>4. \A o \in Ops : o \notin ToSet(queue) =>
        IsInjective(Append(queue, o)) /\ ToSet(Append(queue, o)) = ToSet(queue) \cup {o}
  BY <1>2, <1>3, Sent, SentDistinct
<1>5. \A o \in Ops : o \notin ToSet(parked) =>
        IsInjective(Append(parked, o)) /\ ToSet(Append(parked, o)) = ToSet(parked) \cup {o}
  BY <1>2, <1>3, Sent, SentDistinct
\* Where all writes are stays the same, and so does what has ended.
<1>13. ASSUME Waiting' \cup Accepted' = Waiting \cup Accepted, Next, UNCHANGED <<handed, ended>>
       PROVE  HandedKept'
  BY <1>13, Calm DEF HandedKept, Done
<1>6. ASSUME Next, NEW o \in Ops, Enqueue(o) PROVE Apart' /\ HandedKept'
  <2>1. /\ o \notin Waiting \cup Accepted /\ ended[o] = "no"
        /\ UNCHANGED <<parked, writing, ended, panicked>> /\ handed' = handed \cup {o}
        /\ handed = Waiting \cup Accepted \cup Done /\ Done' = Done
    BY <1>6, Calm DEF Enqueue, Done
  <2>2. CASE Room
    <3>1. queue' = Append(queue, o) /\ spawned' = spawned
      BY <1>6, <2>2 DEF Enqueue
    <3>2. Waiting' = Waiting /\ Accepted' = Accepted \cup {o}
      BY <1>4, <2>1, <3>1 DEF Waiting, Accepted
    <3> QED
      BY <1>3, <1>4, <2>1, <3>1, <3>2 DEF Apart, Waiting, Accepted, HandedKept
  <2>3. CASE ~Room
    <3>1. queue' = queue /\ spawned' = spawned \cup {o}
      BY <1>6, <2>3 DEF Enqueue
    <3>2. Waiting' = Waiting \cup {o} /\ Accepted' = Accepted
      BY <2>1, <3>1 DEF Waiting, Accepted
    <3> QED
      BY <1>3, <2>1, <3>1, <3>2 DEF Apart, Waiting, Accepted, HandedKept
  <2> QED
    BY <2>2, <2>3
<1>7. ASSUME Next, NEW o \in Ops, Select(o) PROVE Apart' /\ HandedKept'
  <2>1. o \in spawned /\ spawned' = spawned \ {o} /\ UNCHANGED <<writing, handed>>
    BY <1>7 DEF Select
  <2>2. o \notin ToSet(queue) /\ o \notin ToSet(parked) /\ o \notin writing
    BY <1>3, <2>1 DEF Waiting, Accepted
  <2>3. CASE queue' = Append(queue, o) /\ UNCHANGED <<parked, ended>>
    <3>1. Waiting' = Waiting \ {o} /\ Accepted' = Accepted \cup {o} /\ o \in Waiting
      BY <1>4, <2>1, <2>2, <2>3 DEF Waiting, Accepted
    <3>2. Apart'
      BY <1>3, <1>4, <2>1, <2>2, <2>3, <3>1 DEF Apart, Waiting, Accepted
    <3> QED
      BY <1>7, <1>13, <2>1, <2>3, <3>1, <3>2
  <2>4. CASE parked' = Append(parked, o) /\ UNCHANGED <<queue, ended>>
    <3>1. Waiting' = Waiting /\ Accepted' = Accepted
      BY <1>5, <2>1, <2>2, <2>4 DEF Waiting, Accepted
    <3>2. Apart'
      BY <1>3, <1>5, <2>1, <2>2, <2>4, <3>1 DEF Apart
    <3> QED
      BY <1>7, <1>13, <2>1, <2>4, <3>1, <3>2
  <2>5. CASE panicked' /\ UNCHANGED <<queue, parked, ended>>
    BY <1>3, <2>1, <2>5 DEF Apart, HandedKept, Waiting, Accepted
  <2>6. CASE End({o}, "dropped") /\ UNCHANGED <<queue, parked, panicked>>
    <3>1. Waiting' = Waiting \ {o} /\ Accepted' = Accepted /\ o \in Waiting /\ o \notin Accepted
      BY <2>1, <2>2, <2>6 DEF Waiting, Accepted
    <3>2. (\A x \in Ops : x # o => ended'[x] = ended[x]) /\ Done' = Done \cup {o}
      BY <2>6, EndEffect DEF Ends
    <3>3. Waiting \cup Accepted \subseteq Ops
      BY <1>0, <1>2 DEF Waiting, Accepted
    <3>4. Apart'
      BY <1>3, <2>1, <2>6, <3>1, <3>2, <3>3 DEF Apart
    <3> QED
      BY <1>7, <2>1, <3>1, <3>2, <3>4, Calm DEF HandedKept
  <2> QED
    BY <1>7, <2>3, <2>4, <2>5, <2>6 DEF Select
<1>8. ASSUME Next, Receive PROVE Apart' /\ HandedKept'
  <2> DEFINE h == Head(queue)
  <2> DEFINE t == Tail(queue)
  <2>1. writing = {} /\ queue # <<>> /\ writing' = {h} /\ UNCHANGED <<spawned, ended, handed>>
    BY <1>8 DEF Receive
  <2>2. h \in Ops /\ t \in Seq(Ops) /\ ToSet(queue) = {h} \cup ToSet(t)
    BY <1>2, <2>1, Received
  <2>3. IsInjective(t) /\ h \notin ToSet(t)
    BY <1>2, <1>3, <2>1, ReceivedDistinct
  <2> HIDE DEF h, t
  <2>4. CASE queue' = t /\ UNCHANGED parked
    <3>1. Waiting' = Waiting /\ Accepted' = Accepted
      BY <2>1, <2>2, <2>4 DEF Waiting, Accepted
    <3>2. Apart'
      BY <1>3, <2>1, <2>2, <2>3, <2>4, <3>1 DEF Apart
    <3> QED
      BY <1>8, <1>13, <2>1, <3>1, <3>2
  <2>5. CASE parked # <<>> /\ queue' = Append(t, Head(parked)) /\ parked' = Tail(parked)
    <3> DEFINE p == Head(parked)
    <3>1. p \in Ops /\ ToSet(parked) = {p} \cup ToSet(parked')
      BY <1>2, <2>5, Received
    <3>2. IsInjective(parked') /\ p \notin ToSet(parked')
      BY <1>2, <1>3, <2>5, ReceivedDistinct
    <3>3. p \notin ToSet(t) /\ p # h
      BY <1>3, <2>2, <3>1 DEF Waiting, Accepted
    <3>4. IsInjective(queue') /\ ToSet(queue') = ToSet(t) \cup {p}
      BY <2>2, <2>3, <2>5, <3>1, <3>3, Sent, SentDistinct
    <3> HIDE DEF p
    <3>5. Waiting' = Waiting \ {p} /\ Accepted' = Accepted \cup {p} /\ p \in Waiting
      BY <1>3, <2>1, <2>2, <3>1, <3>2, <3>4 DEF Waiting, Accepted
    <3>6. Apart'
      BY <1>3, <2>1, <2>2, <2>3, <3>1, <3>2, <3>3, <3>4, <3>5 DEF Apart, Waiting, Accepted
    <3> QED
      BY <1>8, <1>13, <2>1, <3>5, <3>6
  <2> QED
    BY <1>8, <2>4, <2>5 DEF Receive, h, t
<1>9. ASSUME Next, NEW how \in Ends \ {"no"}, EndWriting(how), UNCHANGED <<channel, handed, panicked>>
      PROVE  Apart' /\ HandedKept'
  <2>1. writing' = {} /\ UNCHANGED <<queue, spawned, parked, handed>> /\ End(writing, how)
    BY <1>9 DEF EndWriting
  <2>2. /\ \A o \in Ops : ended'[o] = IF o \in writing THEN how ELSE ended[o]
        /\ Done' = Done \cup writing
    BY <1>2, <2>1, EndEffect
  <2>3. Waiting' = Waiting /\ Accepted' = Accepted \ writing /\ writing \subseteq Accepted
    BY <1>3, <2>1 DEF Waiting, Accepted
  <2>4. Waiting \cup Accepted \subseteq Ops
    BY <1>0, <1>2 DEF Waiting, Accepted
  <2>5. Apart'
    BY <1>3, <2>1, <2>2, <2>3, <2>4 DEF Apart
  <2> QED
    BY <1>9, <2>1, <2>2, <2>3, <2>5, Calm DEF HandedKept
<1>10. ASSUME Next, Commit \/ Refused \/ StoreIsClosed PROVE Apart' /\ HandedKept'
  BY <1>9, <1>10 DEF Commit, Refused, StoreIsClosed, Ends
<1>11. CASE Begin \/ Return \/ Signal \/ HandlersStopped \/ StoreClose \/ CloseChannel \/ WaitWriter
            \/ UNCHANGED vars
  <2>1. UNCHANGED <<queue, spawned, parked, writing, ended, handed, panicked>>
    BY <1>11 DEF Begin, Return, Signal, HandlersStopped, StoreClose, CloseChannel, WaitWriter, vars
  <2> QED
    BY <1>3, <2>1 DEF Apart, HandedKept, Done, Waiting, Accepted
<1>12. ASSUME Next, Cancel PROVE Apart' /\ HandedKept'
  <2>1. /\ parked' = <<>> /\ End(ToSet(parked), "dropped")
        /\ UNCHANGED <<queue, spawned, writing, handed>>
    BY <1>12 DEF Cancel
  <2>2. /\ \A o \in Ops : ended'[o] = IF o \in ToSet(parked) THEN "dropped" ELSE ended[o]
        /\ Done' = Done \cup ToSet(parked)
    BY <1>0, <2>1, EndEffect DEF Ends
  <2>3. IsInjective(parked') /\ ToSet(parked') = {}
    BY <2>1, EmptyDistinct, ToSetEmpty
  <2>4. /\ Waiting' = Waiting \ ToSet(parked) /\ Accepted' = Accepted
        /\ ToSet(parked) \subseteq Waiting
    BY <1>3, <2>1, <2>3 DEF Waiting, Accepted
  <2>5. Waiting \cup Accepted \subseteq Ops
    BY <1>0, <1>2 DEF Waiting, Accepted
  <2>6. Apart'
    BY <1>3, <2>1, <2>2, <2>3, <2>4, <2>5 DEF Apart
  <2> QED
    BY <1>12, <2>1, <2>2, <2>4, <2>6, Calm DEF HandedKept
<1> QED
  BY <1>6, <1>7, <1>8, <1>10, <1>11, <1>12 DEF Next, Shutdown, Writer

LEMMA NotDroppedStep == ASSUME TypeOK, NotDropped, [Next]_vars PROVE NotDropped'
<1> SUFFICES ASSUME ~Cancelled' PROVE \A o \in Ops : ended'[o] # "dropped"
  BY DEF NotDropped
<1> USE DEF channel, writer
<1>1. ~Cancelled
  BY DEF Cancelled, Next, Shutdown, Writer, vars, Enqueue, Select, Receive, Begin, Commit, Refused,
         StoreIsClosed, Return, Signal, HandlersStopped, StoreClose, Cancel, CloseChannel,
         WaitWriter, EndWriting
<1>2. \A o \in Ops : ended[o] # "dropped"
  BY <1>1 DEF NotDropped
<1>3. ASSUME NEW how \in Ends \ {"no", "dropped"}, EndWriting(how)
      PROVE  \A o \in Ops : ended'[o] # "dropped"
  BY <1>2, <1>3 DEF EndWriting, End
<1>4. CASE Commit \/ Refused \/ StoreIsClosed
  BY <1>3, <1>4 DEF Commit, Refused, StoreIsClosed, Ends
<1>5. ASSUME NEW o \in Ops, Enqueue(o) \/ Select(o) PROVE UNCHANGED ended
  BY <1>1, <1>5 DEF Enqueue, Select, Cancelled, Closed
<1>6. CASE Receive \/ Begin \/ Return \/ Signal \/ HandlersStopped \/ StoreClose \/ CloseChannel
           \/ WaitWriter \/ UNCHANGED vars
  BY <1>2, <1>6 DEF Receive, Begin, Return, Signal, HandlersStopped, StoreClose, CloseChannel,
                    WaitWriter, vars
<1>7. ~Cancel
  BY DEF Cancel, Cancelled
<1> QED
  BY <1>2, <1>4, <1>5, <1>6, <1>7 DEF Next, Shutdown, Writer

-----------------------------------------------------------------------------
(* The writer's end *)

LEMMA ReturnedStep == ASSUME TypeOK, Returned, Waited, [Next]_vars PROVE Returned' /\ Waited'
<1> USE DEF channel, writer, Closed, Returned, Waited
<1>1. ASSUME NEW o \in Ops, Enqueue(o) PROVE Returned' /\ Waited'
  BY <1>1 DEF Enqueue
<1>2. ASSUME NEW o \in Ops, Select(o) PROVE Returned' /\ Waited'
  BY <1>2 DEF Select
<1>3. CASE Receive \/ Begin \/ Commit \/ Refused \/ StoreIsClosed \/ Return
  BY <1>3 DEF Receive, Begin, Commit, Refused, StoreIsClosed, Return, EndWriting
<1>4. CASE Signal \/ Shutdown
  BY <1>4 DEF Signal, Shutdown, HandlersStopped, StoreClose, Cancel, CloseChannel, WaitWriter
<1>5. CASE UNCHANGED vars
  BY <1>5 DEF vars
<1> QED
  BY <1>1, <1>2, <1>3, <1>4, <1>5 DEF Next, Writer

-----------------------------------------------------------------------------
(* The theorems *)

LEMMA IInvInit == Init => IInv
<1> SUFFICES ASSUME Init PROVE IInv
  OBVIOUS
<1>1. Apart /\ HandedKept /\ NotDropped
  BY EmptyDistinct, ToSetEmpty
  DEF Init, Apart, HandedKept, Done, NotDropped, Waiting, Accepted
<1>2. Returned /\ Waited
  BY DEF Init, Returned, Waited
<1> QED
  BY <1>1, <1>2, TypeInit DEF IInv

LEMMA IInvStep == IInv /\ [Next]_vars => IInv'
BY TypeStep, ApartStep, NotDroppedStep, ReturnedStep DEF IInv

\* For any number of writes and any size of the channel every write that was handed over is
\* in one place on its way to the writer or has ended, through Close as well, and none is
\* given up before Close cancels (enqueueSuccessOrFailed, run, Close).
THEOREM ConservedCorrect == Spec => []Conserved
<1>1. IInv => Conserved
  <2> SUFFICES ASSUME IInv PROVE Conserved
    OBVIOUS
  <2>1. TypeOK /\ Apart /\ HandedKept /\ NotDropped
    BY DEF IInv
  <2>2. Cardinality(ToSet(queue)) = Len(queue)
    BY <2>1, DistinctLength DEF TypeOK, Apart
  <2>3. IsFiniteSet(ToSet(parked)) /\ Cardinality(ToSet(parked)) = Len(parked)
    BY <2>1, DistinctLength DEF TypeOK, Apart
  <2>4. IsFiniteSet(spawned)
    BY <2>1, WriterAssumption, FS_Subset DEF TypeOK
  <2>5. Cardinality(Waiting) = Cardinality(spawned) + Len(parked)
    <3>1. spawned \cap ToSet(parked) = {}
      BY <2>1 DEF Apart
    <3>2. Cardinality(spawned \cup ToSet(parked))
            = Cardinality(spawned) + Cardinality(ToSet(parked)) - Cardinality({})
      BY <2>3, <2>4, <3>1, FS_Union
    <3>3. Cardinality({}) = 0 /\ Cardinality(spawned) \in Nat /\ Cardinality(ToSet(parked)) \in Nat
      BY <2>3, <2>4, FS_EmptySet, FS_CardinalityType
    <3> QED
      BY <2>3, <3>2, <3>3 DEF Waiting
  <2> QED
    BY <2>1, <2>2, <2>5 DEF Apart, HandedKept, Done, NotDropped, Conserved
<1> QED
  BY <1>1, IInvInit, IInvStep, PTL DEF Spec

\* When main has come to its end the channel is empty and nothing is being written,
\* whatever goroutines send between cancel and close (Close, run).
THEOREM DrainCorrect == Spec => []CloseDrains
<1>1. IInv => CloseDrains
  BY ToSetEmpty DEF IInv, Waited, Returned, CloseDrains, Accepted
<1> QED
  BY <1>1, IInvInit, IInvStep, PTL DEF Spec
-----------------------------------------------------------------------------
(* The list of invalid records: what its reader has had *)

\* Rows are stored in the order of created_at.
Monotone == \A i, j \in DOMAIN invalid : i < j => invalid[i] <= invalid[j]

\* A row with a created_at of its own
Alone(i) == \A j \in DOMAIN invalid \ {i} : invalid[j] # invalid[i]

\* What the reader remembers was true once, and the table only grows.
Remembers ==
  /\ reader.first <= Len(invalid)
  /\ reader.at \in {"select", "next", "done"} =>
       reader.total <= Len(invalid) /\ reader.page <= LastPage(reader.total)
  /\ reader.at \in {"next", "done"} => reader.total <= reader.rows /\ reader.rows <= Len(invalid)
  /\ reader.at = "next" /\ reader.total > 0 => reader.found # {}

\* Row i stands at place Len(invalid) - i + 1 of every listing, and the reader has had the
\* places of the pages before the one that it is about to read.
HadPagesBefore ==
  \A i \in 1..reader.first : Alone(i) =>
    /\ reader.at \in {"count", "select"} /\ Len(invalid) - i < (reader.page - 1) * PageLimit
         => i \in reader.seen
    /\ reader.at = "next" /\ reader.rows - i < reader.page * PageLimit => i \in reader.seen
    /\ reader.at = "done" /\ reader.rows = reader.total => i \in reader.seen

ListInv == StoreTypeOK /\ Monotone /\ Remembers /\ HadPagesBefore

-----------------------------------------------------------------------------
(* Arithmetic of pages *)

LEMMA MorePages ==
  ASSUME NEW a \in Int, NEW b \in Int, a <= b PROVE a * PageLimit <= b * PageLimit
<1>1. PageLimit \in Nat \ {0}
  BY StoreAssumption
<1>2. ASSUME NEW c \in Nat, NEW d \in Nat PROVE c * d >= 0
  BY <1>2
<1>3. b - a \in Nat /\ b * PageLimit = a * PageLimit + (b - a) * PageLimit
  BY <1>1
<1>4. (b - a) * PageLimit >= 0
  BY <1>1, <1>2, <1>3
<1>5. (b - a) * PageLimit \in Int /\ a * PageLimit \in Int /\ b * PageLimit \in Int
  BY <1>1
<1> QED
  BY <1>3, <1>4, <1>5

\* One page more begins where this one ends.
LEMMA PageAfter ==
  ASSUME NEW a \in Int
  PROVE  a * PageLimit = (a - 1) * PageLimit + PageLimit /\ a * PageLimit \in Int /\ (a - 1) * PageLimit \in Int
BY StoreAssumption

\* The last page holds the last row and is not empty.
LEMMA LastPageFits ==
  ASSUME NEW t \in Nat
  PROVE  /\ LastPage(t) \in Nat \ {0}
         /\ t <= LastPage(t) * PageLimit
         /\ t > 0 => (LastPage(t) - 1) * PageLimit < t
<1> DEFINE a == t + PageLimit - 1
           q == a \div PageLimit
<1>1. PageLimit \in Nat \ {0}
  BY StoreAssumption
<1>2. CASE t = 0
  BY <1>1, <1>2 DEF LastPage
<1>3. CASE t > 0
  <2>1. a \in Nat /\ a >= PageLimit
    BY <1>1, <1>3
  <2>2. q \in Int /\ q * PageLimit <= a /\ a < (q + 1) * PageLimit
    BY <1>1, <2>1
  <2>3. LastPage(t) = q
    BY <1>3 DEF LastPage
  <2> HIDE DEF q
  <2>4. (q + 1) * PageLimit = q * PageLimit + PageLimit /\ q * PageLimit \in Int
    BY <1>1, <2>2
  <2>5. q * PageLimit > 0
    BY <1>1, <2>1, <2>2, <2>4
  <2>6. q >= 1
    <3>1. q <= 0 => q * PageLimit <= 0 * PageLimit
      BY <2>2, MorePages
    <3> QED
      BY <1>1, <2>2, <2>5, <3>1
  <2>7. t <= q * PageLimit
    BY <1>1, <2>2, <2>4
  <2>8. (q - 1) * PageLimit < t
    BY <1>1, <2>2, <2>4, PageAfter
  <2> QED
    BY <2>2, <2>3, <2>6, <2>7, <2>8
<1> QED
  BY <1>2, <1>3

-----------------------------------------------------------------------------
(* Listings *)

LEMMA Rows ==
  ASSUME StoreTypeOK
  PROVE  /\ Len(invalid) \in Nat /\ DOMAIN invalid = 1..Len(invalid) 
         /\ IsFiniteSet(DOMAIN invalid) /\ Cardinality(DOMAIN invalid) = Len(invalid)
         /\ \A i \in DOMAIN invalid : invalid[i] \in 1..batches
<1>1. invalid \in Seq(1..batches)
  BY DEF StoreTypeOK
<1>2. Len(invalid) \in Nat /\ DOMAIN invalid = 1..Len(invalid)
  BY <1>1, LenProperties
<1>3. IsFiniteSet(1..Len(invalid)) /\ Cardinality(1..Len(invalid)) = Len(invalid)
  <2>1. ASSUME NEW n \in Nat PROVE IsFiniteSet(1..n) /\ Cardinality(1..n) = n
    BY FS_Interval
  <2> QED
    BY <1>2, <2>1
<1> QED
  BY <1>1, <1>2, <1>3, ElementOfSeq DEF StoreTypeOK

\* A row with a created_at of its own has its place in every listing.
LEMMA Placed ==
  ASSUME StoreTypeOK, Monotone, NEW listing \in Listings, NEW i \in DOMAIN invalid, Alone(i)
  PROVE  listing[Len(invalid) - i + 1] = i
<1> DEFINE n == Len(invalid)
<1>1. n \in Nat /\ DOMAIN invalid = 1..n /\ i \in 1..n /\ \A j \in 1..n : invalid[j] \in Int
  BY Rows
<1>2. listing \in SetToSeqs(DOMAIN invalid) /\ IsFiniteSet(DOMAIN invalid)
  BY Rows DEF Listings
<1>3. /\ \A x \in 1..n : listing[x] \in 1..n
      /\ \A x, y \in 1..n : x # y => listing[x] # listing[y]
      /\ DOMAIN listing = 1..n
      /\ \E k \in 1..n : listing[k] = i
  <2>1. Len(listing) = n
    BY <1>2, Rows, Listing
  <2>2. /\ listing \in Seq(1..n) /\ DOMAIN listing = 1..n
        /\ \A x, y \in 1..n : x # y => listing[x] # listing[y]
        /\ \E k \in 1..n : listing[k] = i
    BY <1>1, <1>2, <2>1, Listing
  <2> QED
    BY <1>1, <2>1, <2>2, ElementOfSeq
<1>4. PICK k \in 1..n : listing[k] = i
  BY <1>3
<1>5. \A x, y \in 1..n : x < y => invalid[listing[x]] >= invalid[listing[y]]
  BY <1>3 DEF Listings
<1>6. \A j \in 1..n : j # i => invalid[j] # invalid[i]
  BY <1>1 DEF Alone
<1>7. \A x, y \in 1..n : x < y => invalid[x] <= invalid[y]
  BY <1>1 DEF Monotone
<1> HIDE DEF n
<1>8. \A x \in 1..n : x < k => listing[x] > i
  <2> SUFFICES ASSUME NEW x \in 1..n, x < k PROVE listing[x] > i
    OBVIOUS
  <2>1. listing[x] # i /\ listing[x] \in 1..n
    BY <1>3, <1>4
  <2>2. invalid[listing[x]] >= invalid[i] /\ invalid[listing[x]] # invalid[i]
    BY <1>4, <1>5, <1>6, <2>1
  <2>3. ~(listing[x] < i)
    BY <1>1, <1>7, <2>1, <2>2
  <2> QED
    BY <1>1, <2>1, <2>3
<1>9. \A x \in 1..n : x > k => listing[x] < i
  <2> SUFFICES ASSUME NEW x \in 1..n, x > k PROVE listing[x] < i
    OBVIOUS
  <2>1. listing[x] # i /\ listing[x] \in 1..n
    BY <1>3, <1>4
  <2>2. invalid[i] >= invalid[listing[x]] /\ invalid[listing[x]] # invalid[i]
    BY <1>4, <1>5, <1>6, <2>1
  <2>3. ~(i < listing[x])
    BY <1>1, <1>7, <2>1, <2>2
  <2> QED
    BY <1>1, <2>1, <2>3
<1>10. k - 1 <= n - i
  <2> DEFINE f == [x \in 1..(k - 1) |-> listing[x]]
  <2>1. f \in Injection(1..(k - 1), (i + 1)..n)
    <3>1. \A x \in 1..(k - 1) : x \in 1..n /\ x < k
      BY <1>1
    <3>2. \A x \in 1..(k - 1) : listing[x] \in (i + 1)..n
      BY <1>1, <1>3, <1>8, <3>1
    <3> QED
      BY <1>3, <3>1, <3>2 DEF Injection, IsInjective
  <2>2. IsFiniteSet((i + 1)..n) /\ Cardinality((i + 1)..n) = n - i
    <3>1. i + 1 \in Int /\ n \in Int
      BY <1>1
    <3> QED
      BY <1>1, <3>1, FS_Interval
  <2>3. Cardinality(1..(k - 1)) = k - 1
    BY <1>1, FS_Interval
  <2> QED
    BY <2>1, <2>2, <2>3, FS_Injection
<1>11. n - k <= i - 1
  <2> DEFINE f == [x \in (k + 1)..n |-> listing[x]]
  <2>1. f \in Injection((k + 1)..n, 1..(i - 1))
    <3>1. \A x \in (k + 1)..n : x \in 1..n /\ x > k
      BY <1>1
    <3>2. \A x \in (k + 1)..n : listing[x] \in 1..(i - 1)
      BY <1>1, <1>3, <1>9, <3>1
    <3> QED
      BY <1>3, <3>1, <3>2 DEF Injection, IsInjective
  <2>2. IsFiniteSet(1..(i - 1)) /\ Cardinality(1..(i - 1)) = i - 1
    BY <1>1, FS_Interval
  <2>3. Cardinality((k + 1)..n) = n - k
    BY <1>1, FS_Interval
  <2> QED
    BY <2>1, <2>2, <2>3, FS_Injection
<1>12. k = n - i + 1
  BY <1>1, <1>10, <1>11
<1> QED
  BY <1>4, <1>12 DEF n
\* What a page shows
LEMMA PageFound ==
  ASSUME StoreTypeOK, NEW listing \in Listings, NEW o \in Nat, NEW e \in Nat, e <= Len(invalid)
  PROVE  /\ Len(listing) = Len(invalid)
         /\ ToSet(SubSeq(listing, o + 1, e)) = {listing[p] : p \in (o + 1)..e}
         /\ {listing[p] : p \in (o + 1)..e} \subseteq 1..MaxRows
<1> DEFINE n == Len(invalid)
           page == SubSeq(listing, o + 1, e)
<1>1. n \in Nat /\ DOMAIN invalid = 1..n /\ n <= MaxRows /\ MaxRows \in Nat
  BY Rows, StoreAssumption DEF StoreTypeOK
<1>2. listing \in SetToSeqs(DOMAIN invalid) /\ IsFiniteSet(DOMAIN invalid)
  BY Rows DEF Listings
<1>3. listing \in Seq(1..n) /\ Len(listing) = n
  BY <1>1, <1>2, Rows, Listing
<1> HIDE DEF n
<1>4. \A p \in (o + 1)..e : p \in 1..n /\ listing[p] \in 1..n
  <2>1. \A p \in (o + 1)..e : p \in 1..n
    BY <1>1 DEF n
  <2> QED
    BY <1>3, <2>1, ElementOfSeq
<1>5. /\ page \in Seq(1..n) /\ Len(page) = (IF o + 1 <= e THEN e - (o + 1) + 1 ELSE 0)
      /\ \A i \in 1..(e - (o + 1) + 1) : page[i] = listing[o + 1 + i - 1]
  <2>1. o + 1 \in Int /\ e \in Int
    OBVIOUS
  <2> QED
    BY <1>4, <2>1, SubSeqProperties
<1> HIDE DEF page
<1>6. DOMAIN page = 1..(IF o + 1 <= e THEN e - (o + 1) + 1 ELSE 0)
  BY <1>5, LenProperties
<1>7. ASSUME NEW i \in DOMAIN page PROVE \E p \in (o + 1)..e : page[i] = listing[p]
  <2>1. o + i \in (o + 1)..e /\ i \in 1..(e - (o + 1) + 1) /\ o + 1 + i - 1 = o + i
    BY <1>6
  <2> QED
    BY <1>5, <2>1
<1>8. ASSUME NEW p \in (o + 1)..e PROVE \E i \in DOMAIN page : page[i] = listing[p]
  <2>1. p - o \in DOMAIN page /\ p - o \in 1..(e - (o + 1) + 1) /\ o + 1 + (p - o) - 1 = p
    BY <1>6
  <2>2. page[p - o] = listing[p]
    BY <1>5, <2>1
  <2> QED
    BY <2>1, <2>2
<1>9. ToSet(page) = {listing[p] : p \in (o + 1)..e}
  BY <1>7, <1>8 DEF ToSet
<1>10. {listing[p] : p \in (o + 1)..e} \subseteq 1..MaxRows
  BY <1>1, <1>4 DEF n
<1> QED
  BY <1>3, <1>9, <1>10 DEF page, n

\* What SelectPage does, with its places
LEMMA SelectEffect ==
  ASSUME StoreTypeOK, SelectPage
  PROVE  \E listing \in Listings, e \in Nat, found \in SUBSET (1..MaxRows) :
           /\ e = (IF reader.page * PageLimit < Len(invalid) THEN reader.page * PageLimit
                                                             ELSE Len(invalid))
           /\ found = {listing[p] : p \in ((reader.page - 1) * PageLimit + 1)..e}
           /\ reader' = [reader EXCEPT !.at = "next", !.found = found, !.seen = @ \cup found,
                                       !.rows = Len(invalid)]
           /\ UNCHANGED tables
<1> DEFINE o == (reader.page - 1) * PageLimit
           n == Len(invalid)
           e == IF o + PageLimit < n THEN o + PageLimit ELSE n
<1>1. n \in Nat /\ reader.page \in Nat \ {0} /\ PageLimit \in Nat \ {0}
  BY Rows, StoreAssumption DEF StoreTypeOK
<1>2. o \in Nat /\ o + PageLimit = reader.page * PageLimit /\ o + PageLimit \in Nat
  <2>1. reader.page * PageLimit = o + PageLimit /\ o \in Int
    BY <1>1, PageAfter
  <2>2. 0 * PageLimit <= o
    BY <1>1, MorePages
  <2> QED
    BY <1>1, <2>1, <2>2
<1>3. e \in Nat /\ e <= n
  BY <1>1, <1>2
<1>4. PICK listing \in Listings :
        LET found == ToSet(SubSeq(listing, o + 1,
                       IF o + PageLimit < Len(listing) THEN o + PageLimit ELSE Len(listing)))
        IN reader' = [reader EXCEPT !.at = "next", !.found = found, !.seen = @ \cup found,
                                    !.rows = Len(listing)]
  BY DEF SelectPage
<1>5. Len(listing) = n
  BY <1>2, <1>3, PageFound
<1> HIDE DEF o, e
<1> DEFINE found == ToSet(SubSeq(listing, o + 1, e))
<1>6. found = {listing[p] : p \in (o + 1)..e} /\ found \in SUBSET (1..MaxRows)
  BY <1>2, <1>3, PageFound
<1>7. reader' = [reader EXCEPT !.at = "next", !.found = found, !.seen = @ \cup found, !.rows = n]
  BY <1>4, <1>5 DEF e
<1>8. UNCHANGED tables
  BY DEF SelectPage
<1>9. e = (IF reader.page * PageLimit < n THEN reader.page * PageLimit ELSE n)
  BY <1>2 DEF e
<1> QED
  BY <1>3, <1>6, <1>7, <1>8, <1>9 DEF o

\* What StoreInvalidRecords adds
LEMMA InvalidGrows ==
  ASSUME StoreTypeOK, NEW n \in Nat, StoreInvalidRecords(n)
  PROVE  /\ invalid' \in Seq(1..batches') /\ Len(invalid') = Len(invalid) + n
         /\ batches' \in Nat
         /\ \A i \in 1..Len(invalid) : invalid'[i] = invalid[i] /\ invalid[i] \in 1..batches
         /\ \A i \in (Len(invalid) + 1)..(Len(invalid) + n) : invalid'[i] = batches + 1
         /\ batches' = batches + 1
<1> DEFINE more == [i \in 1..n |-> batches + 1]
<1>1. batches \in Nat /\ invalid \in Seq(1..batches)
  BY DEF StoreTypeOK
<1>2. batches' = batches + 1 /\ invalid' = invalid \o more
  BY DEF StoreInvalidRecords
<1>3. invalid \in Seq(1..batches') /\ more \in Seq(1..batches') /\ Len(more) = n
  <2>1. 1..batches \subseteq 1..batches' /\ batches + 1 \in 1..batches'
    BY <1>1, <1>2
  <2>2. invalid \in Seq(1..batches')
    BY <1>1, <2>1, SeqMonotonic
  <2>3. more \in [1..n -> 1..batches']
    BY <2>1
  <2> QED
    BY <2>2, <2>3, IsASeq, LenProperties
<1>4. /\ invalid' \in Seq(1..batches') /\ Len(invalid') = Len(invalid) + n
      /\ \A i \in 1..(Len(invalid) + n) :
           invalid'[i] = IF i <= Len(invalid) THEN invalid[i] ELSE more[i - Len(invalid)]
  BY <1>2, <1>3, ConcatProperties
<1>5. Len(invalid) \in Nat /\ \A i \in 1..Len(invalid) : invalid[i] \in 1..batches
  BY <1>1, LenProperties, ElementOfSeq
<1>6. \A i \in (Len(invalid) + 1)..(Len(invalid) + n) :
        i \in 1..(Len(invalid) + n) /\ ~(i <= Len(invalid)) /\ i - Len(invalid) \in 1..n
  BY <1>5
<1>7. \A i \in (Len(invalid) + 1)..(Len(invalid) + n) : invalid'[i] = batches + 1
  BY <1>4, <1>6
<1>8. \A i \in 1..Len(invalid) : i \in 1..(Len(invalid) + n) /\ i <= Len(invalid)
  BY <1>5
<1> QED
  BY <1>1, <1>2, <1>4, <1>5, <1>7, <1>8

\* prepareGPSRecordRows keeps rows, and no more than it was given.
LEMMA PreparedRows ==
  ASSUME NEW n \in Nat, NEW records \in [1..n -> Row]
  PROVE  Prepared(records) \in Seq(Row) /\ Len(Prepared(records)) <= Len(records)
<1> DEFINE P == {k \in DOMAIN records : records[k].imei # BadImei}
<1>1. records \in Seq(Row) /\ DOMAIN records = 1..n /\ Len(records) = n
  BY LenProperties, IsASeq
<1>2. P \in SUBSET (1..Len(records))
  BY <1>1
<1>3. Prepared(records) = Those(records, P)
  BY DEF Prepared
<1> HIDE DEF P
<1>4. Those(records, P) \in Seq(Row) /\ Len(Those(records, P)) = Cardinality(P)
  BY <1>1, <1>2, Picked
<1>5. Cardinality(P) <= n
  <2>1. IsFiniteSet(1..n) /\ Cardinality(1..n) = n
    BY FS_Interval
  <2>2. P \in SUBSET (1..n)
    BY <1>1, <1>2
  <2>3. Cardinality(P) <= Cardinality(1..n)
    BY <2>1, <2>2, FS_Subset
  <2> QED
    BY <2>1, <2>3
<1> QED
  BY <1>1, <1>3, <1>4, <1>5
-----------------------------------------------------------------------------
(* The steps of the list's invariant *)

ListStep == StoreRecordsNext \/ ListNext

LEMMA ListInvInit == StoreInit => ListInv
<1> SUFFICES ASSUME StoreInit PROVE ListInv
  OBVIOUS
<1>1. /\ invalid = <<>> /\ gpsRecords = <<>> /\ batches = 0
      /\ reader = [at |-> "idle", page |-> 1, total |-> 0, found |-> {}, seen |-> {}, first |-> 0,
                   rows |-> 0]
  BY DEF StoreInit
<1>2. Len(<<>>) = 0 /\ MaxRows \in Nat /\ <<>> \in Seq(Row) /\ <<>> \in Seq(1..batches)
  BY StoreAssumption, EmptySeq
<1>3. StoreTypeOK
  BY <1>1, <1>2 DEF StoreTypeOK
<1>4. Monotone
  BY <1>1, <1>2 DEF Monotone
<1>5. Remembers /\ HadPagesBefore
  BY <1>1, <1>2 DEF Remembers, HadPagesBefore
<1> QED
  BY <1>3, <1>4, <1>5 DEF ListInv

LEMMA RecordsStep ==
  ASSUME ListInv, StoreRecordsNext PROVE ListInv'
<1>0. PICK n \in 1..MaxBatch : \E records \in [1..n -> Row] : StoreRecords(records)
  BY DEF StoreRecordsNext
<1>1. PICK records \in [1..n -> Row] : StoreRecords(records)
  BY <1>0
<1>2. n \in Nat /\ StoreTypeOK
  BY StoreAssumption DEF ListInv
<1>3. Prepared(records) \in Seq(Row) /\ Len(Prepared(records)) <= Len(records)
  BY <1>2, PreparedRows
<1>4. /\ gpsRecords' = gpsRecords \o Prepared(records) /\ Len(gpsRecords) + Len(records) <= MaxRows
      /\ UNCHANGED <<invalid, batches, reader>>
  BY <1>1 DEF StoreRecords
<1>5. gpsRecords \in Seq(Row) /\ Len(gpsRecords) \in Nat /\ Len(records) \in Nat /\ MaxRows \in Nat
  BY <1>2, LenProperties, StoreAssumption, IsASeq DEF StoreTypeOK
<1>6. gpsRecords' \in Seq(Row) /\ Len(gpsRecords') = Len(gpsRecords) + Len(Prepared(records))
  BY <1>3, <1>4, <1>5, ConcatProperties
<1>7. Len(gpsRecords') <= MaxRows
  BY <1>3, <1>4, <1>5, <1>6, LenProperties
<1>8. StoreTypeOK'
  BY <1>2, <1>4, <1>6, <1>7 DEF StoreTypeOK
<1>9. Monotone' /\ Remembers' /\ HadPagesBefore'
  BY <1>4 DEF ListInv, Monotone, Remembers, HadPagesBefore, Alone
<1> QED
  BY <1>8, <1>9 DEF ListInv

LEMMA InvalidStep ==
  ASSUME ListInv, NEW n \in 1..MaxBatch, StoreInvalidRecords(n) PROVE ListInv'
<1>1. n \in Nat /\ StoreTypeOK /\ Monotone /\ Remembers /\ HadPagesBefore
  BY StoreAssumption DEF ListInv
<1>2. /\ Len(invalid) \in Nat /\ DOMAIN invalid = 1..Len(invalid) /\ batches \in Nat
      /\ reader.first \in Nat /\ reader.page \in Nat \ {0} /\ reader.total \in Nat
      /\ reader.rows \in Nat /\ MaxRows \in Nat
  BY <1>1, Rows, StoreAssumption DEF StoreTypeOK
<1>3. /\ invalid' \in Seq(1..batches') /\ Len(invalid') = Len(invalid) + n /\ batches' \in Nat
      /\ \A i \in 1..Len(invalid) : invalid'[i] = invalid[i] /\ invalid[i] \in 1..batches
      /\ \A i \in (Len(invalid) + 1)..(Len(invalid) + n) : invalid'[i] = batches + 1
  BY <1>1, InvalidGrows
<1>4. UNCHANGED <<gpsRecords, reader>> /\ Len(invalid) + n <= MaxRows
  BY DEF StoreInvalidRecords
<1>5. DOMAIN invalid' = 1..(Len(invalid) + n)
  BY <1>3, LenProperties
<1>6. StoreTypeOK'
  BY <1>1, <1>3, <1>4 DEF StoreTypeOK
<1>7. \A i \in 1..(Len(invalid) + n) :
        \/ i \in 1..Len(invalid) /\ invalid'[i] = invalid[i] /\ invalid[i] \in 1..batches
        \/ i \in (Len(invalid) + 1)..(Len(invalid) + n) /\ invalid'[i] = batches + 1
  <2> SUFFICES ASSUME NEW i \in 1..(Len(invalid) + n)
               PROVE  i \in 1..Len(invalid) \/ i \in (Len(invalid) + 1)..(Len(invalid) + n)
    BY <1>3
  <2> QED
    BY <1>1, <1>2
<1>8. Monotone'
  <2> SUFFICES ASSUME NEW i \in 1..(Len(invalid) + n), NEW j \in 1..(Len(invalid) + n), i < j
               PROVE  invalid'[i] <= invalid'[j]
    BY <1>5 DEF Monotone
  <2>1. i \in Nat /\ j \in Nat
    BY <1>1, <1>2
  <2>2. CASE i \in 1..Len(invalid) /\ j \in 1..Len(invalid)
    BY <1>1, <1>2, <1>3, <2>2 DEF Monotone
  <2>3. CASE j \in (Len(invalid) + 1)..(Len(invalid) + n)
    <3>1. invalid'[j] = batches + 1
      BY <1>3, <2>3
    <3>2. invalid'[i] \in 1..batches \/ invalid'[i] = batches + 1
      BY <1>7
    <3> QED
      BY <1>2, <3>1, <3>2
  <2>4. CASE i \in (Len(invalid) + 1)..(Len(invalid) + n) /\ j \in 1..Len(invalid)
    BY <1>1, <1>2, <2>4
  <2> QED
    BY <1>7, <2>2, <2>3, <2>4
<1>9. Remembers'
  <2>1. \A x \in Nat : x <= Len(invalid) => x <= Len(invalid')
    BY <1>1, <1>2, <1>3
  <2> QED
    BY <1>1, <1>2, <1>4, <2>1 DEF Remembers
<1>10. HadPagesBefore'
  <2> SUFFICES ASSUME NEW i \in 1..reader.first, Alone(i)'
               PROVE  /\ reader.at \in {"count", "select"}
                         /\ Len(invalid') - i < (reader.page - 1) * PageLimit => i \in reader.seen
                      /\ reader.at = "next" /\ reader.rows - i < reader.page * PageLimit
                           => i \in reader.seen
                      /\ reader.at = "done" /\ reader.rows = reader.total => i \in reader.seen
    BY <1>4 DEF HadPagesBefore
  <2>1. i \in 1..Len(invalid) /\ i \in Nat
    BY <1>1, <1>2 DEF Remembers
  <2>2. Alone(i)
    <3> SUFFICES ASSUME NEW j \in DOMAIN invalid \ {i} PROVE invalid[j] # invalid[i]
      BY DEF Alone
    <3>1. j \in DOMAIN invalid' \ {i}
      BY <1>1, <1>2, <1>5
    <3>2. invalid'[j] # invalid'[i]
      BY <3>1 DEF Alone
    <3> QED
      BY <1>2, <1>3, <2>1, <3>2
  <2>3. (reader.page - 1) * PageLimit \in Int
    BY <1>2, StoreAssumption
  <2>4. Len(invalid') - i >= Len(invalid) - i /\ Len(invalid') \in Nat
    BY <1>1, <1>2, <1>3, <2>1
  <2>5. ASSUME NEW w \in Int, Len(invalid') - i < w PROVE Len(invalid) - i < w
    BY <1>2, <2>1, <2>4, <2>5
  <2> QED
    BY <1>1, <2>2, <2>3, <2>5 DEF HadPagesBefore
<1> QED
  BY <1>6, <1>8, <1>9, <1>10 DEF ListInv

\* A step of the reader leaves the tables as they are.
LEMMA TablesStay ==
  ASSUME UNCHANGED tables
  PROVE  /\ UNCHANGED <<gpsRecords, invalid, batches>>
         /\ Monotone <=> Monotone' /\ \A i : Alone(i) <=> Alone(i)'
BY DEF tables, Monotone, Alone

LEMMA OpenStep ==
  ASSUME ListInv, NEW page \in 1..MaxRows, OpenList(page) PROVE ListInv'
<1>1. /\ StoreTypeOK /\ Monotone /\ Len(invalid) \in Nat /\ MaxRows \in Nat
      /\ UNCHANGED <<gpsRecords, invalid, batches>> /\ Monotone'
  BY TablesStay, Rows, StoreAssumption DEF ListInv, OpenList
<1>2. reader' = [reader EXCEPT !.at = "count", !.page = page,
                               !.first = IF page = 1 THEN Len(invalid) ELSE 0]
  BY DEF OpenList
<1>3. StoreTypeOK'
  <2>1. page \in Nat \ {0} /\ (IF page = 1 THEN Len(invalid) ELSE 0) \in Nat
    BY <1>1
  <2> QED
    BY <1>1, <1>2, <2>1 DEF StoreTypeOK
<1>4. /\ reader'.at = "count" /\ reader'.page = page /\ reader'.page \in Nat
      /\ reader'.first = (IF page = 1 THEN Len(invalid) ELSE 0)
  BY <1>1, <1>2 DEF StoreTypeOK
<1>5. Remembers'
  BY <1>1, <1>4 DEF Remembers
<1>6. HadPagesBefore'
  <2> SUFFICES ASSUME NEW i \in 1..reader'.first,
                      Len(invalid') - i < (reader'.page - 1) * PageLimit
               PROVE  FALSE
    BY <1>4 DEF HadPagesBefore
  <2>1. page = 1 /\ i \in 1..Len(invalid)
    BY <1>4
  <2>2. (1 - 1) * PageLimit = 0
    BY StoreAssumption
  <2> QED
    BY <1>1, <1>4, <2>1, <2>2
<1> QED
  BY <1>1, <1>3, <1>5, <1>6 DEF ListInv

LEMMA CountStep == ASSUME ListInv, Count PROVE ListInv'
<1>1. /\ StoreTypeOK /\ Monotone /\ Remembers /\ HadPagesBefore
      /\ Len(invalid) \in Nat /\ reader.page \in Nat \ {0} /\ reader.first \in Nat
      /\ UNCHANGED <<gpsRecords, invalid, batches>> /\ Monotone' /\ \A i : Alone(i) <=> Alone(i)'
  BY TablesStay, Rows DEF ListInv, Count, StoreTypeOK
<1> DEFINE t == Len(invalid)
           p == IF reader.page > LastPage(t) THEN LastPage(t) ELSE reader.page
<1>2. reader.at = "count" /\ reader' = [reader EXCEPT !.at = "select", !.total = t, !.page = p]
  BY DEF Count
<1>3. p \in Nat \ {0} /\ p <= LastPage(t) /\ p <= reader.page
  <2>1. LastPage(t) \in Nat \ {0}
    BY <1>1, LastPageFits
  <2> QED
    BY <1>1, <2>1
<1>4. t \in Nat
  BY <1>1
<1> HIDE DEF p
<1>5. StoreTypeOK'
  BY <1>1, <1>2, <1>3, <1>4 DEF StoreTypeOK
<1>6. /\ reader'.at = "select" /\ reader'.page = p /\ reader'.total = t
      /\ reader'.first = reader.first /\ reader'.seen = reader.seen
  BY <1>1, <1>2 DEF StoreTypeOK
<1>7. Remembers'
  BY <1>1, <1>3, <1>6 DEF Remembers
<1>8. HadPagesBefore'
  <2> SUFFICES ASSUME NEW i \in 1..reader.first, Alone(i), t - i < (p - 1) * PageLimit
               PROVE  i \in reader.seen
    BY <1>1, <1>6 DEF HadPagesBefore
  <2>1. (p - 1) * PageLimit <= (reader.page - 1) * PageLimit
    <3>1. p - 1 \in Int /\ reader.page - 1 \in Int /\ p - 1 <= reader.page - 1
      BY <1>1, <1>3
    <3> QED
      BY <3>1, MorePages
  <2>2. (p - 1) * PageLimit \in Int /\ (reader.page - 1) * PageLimit \in Int
    BY <1>1, <1>3, StoreAssumption
  <2>3. t - i < (reader.page - 1) * PageLimit
    BY <1>1, <2>1, <2>2
  <2> QED
    BY <1>1, <1>2, <2>3 DEF HadPagesBefore
<1> QED
  BY <1>1, <1>5, <1>7, <1>8 DEF ListInv

LEMMA SelectStep == ASSUME ListInv, SelectPage PROVE ListInv'
<1>1. /\ StoreTypeOK /\ Monotone /\ Remembers /\ HadPagesBefore
      /\ Len(invalid) \in Nat /\ DOMAIN invalid = 1..Len(invalid)
      /\ reader.page \in Nat \ {0} /\ reader.first \in Nat /\ reader.total \in Nat
      /\ UNCHANGED <<gpsRecords, invalid, batches>> /\ Monotone' /\ \A i : Alone(i) <=> Alone(i)'
  BY TablesStay, Rows DEF ListInv, SelectPage, StoreTypeOK
<1>2. reader.at = "select"
  BY DEF SelectPage
<1> DEFINE n == Len(invalid)
           o == (reader.page - 1) * PageLimit
           w == reader.page * PageLimit
<1>3. PICK listing \in Listings, e \in Nat, found \in SUBSET (1..MaxRows) :
        /\ e = (IF w < n THEN w ELSE n)
        /\ found = {listing[p] : p \in (o + 1)..e}
        /\ reader' = [reader EXCEPT !.at = "next", !.found = found, !.seen = @ \cup found, !.rows = n]
  BY <1>1, SelectEffect
<1>4. /\ o \in Int /\ w \in Int /\ w = o + PageLimit /\ PageLimit \in Nat \ {0} /\ n \in Nat
  BY <1>1, PageAfter, StoreAssumption
<1> HIDE DEF n, o, w
<1>5. StoreTypeOK'
  BY <1>1, <1>3, <1>4 DEF StoreTypeOK
<1>6. /\ reader'.at = "next" /\ reader'.page = reader.page /\ reader'.total = reader.total
      /\ reader'.first = reader.first /\ reader'.seen = reader.seen \cup found
      /\ reader'.rows = n /\ reader'.found = found
  BY <1>1, <1>3 DEF StoreTypeOK
<1>7. reader.total > 0 => found # {}
  <2> SUFFICES ASSUME reader.total > 0 PROVE o + 1 \in (o + 1)..e
    BY <1>3
  <2>1. reader.page <= LastPage(reader.total) /\ reader.total <= n
    BY <1>1, <1>2 DEF Remembers, n
  <2>2. (LastPage(reader.total) - 1) * PageLimit < reader.total /\ LastPage(reader.total) \in Nat
    BY <1>1, LastPageFits
  <2>3. o <= (LastPage(reader.total) - 1) * PageLimit
    <3>1. /\ reader.page - 1 \in Int /\ LastPage(reader.total) - 1 \in Int
          /\ reader.page - 1 <= LastPage(reader.total) - 1
      BY <1>1, <2>1, <2>2
    <3> QED
      BY <3>1, MorePages DEF o
  <2>4. (LastPage(reader.total) - 1) * PageLimit \in Int
    BY <2>2, PageAfter
  <2>5. o < n /\ o < w
    BY <1>1, <1>4, <2>1, <2>2, <2>3, <2>4
  <2> QED
    BY <1>3, <1>4, <2>5
<1>8. Remembers'
  BY <1>1, <1>2, <1>4, <1>6, <1>7 DEF Remembers, n
<1>9. HadPagesBefore'
  <2> SUFFICES ASSUME NEW i \in 1..reader.first, Alone(i), n - i < w
               PROVE  i \in reader.seen \cup found
    BY <1>1, <1>6 DEF HadPagesBefore, w
  <2>1. i \in 1..n
    BY <1>1, <1>4 DEF Remembers, n
  <2>2. CASE n - i < o
    BY <1>1, <1>2, <2>2 DEF HadPagesBefore, n, o
  <2>3. CASE ~(n - i < o)
    <3>1. n - i + 1 \in (o + 1)..e
      BY <1>3, <1>4, <2>1, <2>3
    <3>2. listing[n - i + 1] = i
      BY <1>1, <2>1, Placed DEF n
    <3> QED
      BY <1>3, <3>1, <3>2
  <2> QED
    BY <2>2, <2>3
<1> QED
  BY <1>1, <1>5, <1>8, <1>9 DEF ListInv

LEMMA NextPageStep == ASSUME ListInv, NextPage PROVE ListInv'
<1>1. /\ StoreTypeOK /\ Monotone /\ Remembers /\ HadPagesBefore
      /\ Len(invalid) \in Nat /\ reader.page \in Nat \ {0} /\ reader.first \in Nat
      /\ reader.total \in Nat /\ reader.rows \in Nat
      /\ UNCHANGED <<gpsRecords, invalid, batches>> /\ Monotone' /\ \A i : Alone(i) <=> Alone(i)'
  BY TablesStay, Rows DEF ListInv, NextPage, StoreTypeOK
<1>2. reader.at = "next"
  BY DEF NextPage
<1>3. LastPage(reader.total) \in Nat \ {0}
  BY <1>1, LastPageFits
<1>4. CASE reader.page < LastPage(reader.total)
  <2>1. reader' = [reader EXCEPT !.at = "count", !.page = reader.page + 1, !.found = {}]
    BY <1>4 DEF NextPage
  <2>2. StoreTypeOK'
    <3>1. reader.page + 1 \in Nat \ {0} /\ {} \in SUBSET (1..MaxRows)
      BY <1>1
    <3> QED
      BY <1>1, <2>1, <3>1 DEF StoreTypeOK
  <2>3. /\ reader'.at = "count" /\ reader'.page = reader.page + 1
        /\ reader'.first = reader.first /\ reader'.seen = reader.seen
    BY <1>1, <2>1 DEF StoreTypeOK
  <2>4. Remembers'
    BY <1>1, <2>3 DEF Remembers
  <2>5. HadPagesBefore'
    <3> SUFFICES ASSUME NEW i \in 1..reader.first, Alone(i),
                        Len(invalid) - i < (reader'.page - 1) * PageLimit
                 PROVE  i \in reader.seen
      BY <1>1, <2>3 DEF HadPagesBefore
    <3>1. reader'.page - 1 = reader.page /\ reader.page * PageLimit \in Int
      BY <1>1, <2>3, StoreAssumption
    <3>2. reader.rows <= Len(invalid)
      BY <1>1, <1>2 DEF Remembers
    <3>3. reader.rows - i < reader.page * PageLimit
      BY <1>1, <3>1, <3>2
    <3> QED
      BY <1>1, <1>2, <3>3 DEF HadPagesBefore
  <2> QED
    BY <1>1, <2>2, <2>4, <2>5 DEF ListInv
<1>5. CASE ~(reader.page < LastPage(reader.total))
  <2>1. reader' = [reader EXCEPT !.at = "done", !.found = {}]
    BY <1>5 DEF NextPage
  <2>2. StoreTypeOK'
    BY <1>1, <2>1 DEF StoreTypeOK
  <2>3. /\ reader'.at = "done" /\ reader'.page = reader.page /\ reader'.total = reader.total
        /\ reader'.first = reader.first /\ reader'.seen = reader.seen /\ reader'.rows = reader.rows
    BY <1>1, <2>1 DEF StoreTypeOK
  <2>4. Remembers'
    BY <1>1, <1>2, <2>3 DEF Remembers
  <2>5. HadPagesBefore'
    <3> SUFFICES ASSUME NEW i \in 1..reader.first, Alone(i), reader.rows = reader.total
                 PROVE  i \in reader.seen
      BY <1>1, <2>3 DEF HadPagesBefore
    <3>1. reader.total <= LastPage(reader.total) * PageLimit
      BY <1>1, LastPageFits
    <3>2. LastPage(reader.total) * PageLimit <= reader.page * PageLimit
      BY <1>1, <1>3, <1>5, MorePages
    <3>3. LastPage(reader.total) * PageLimit \in Int /\ reader.page * PageLimit \in Int
      BY <1>1, <1>3, StoreAssumption
    <3>4. reader.rows - i < reader.page * PageLimit
      BY <1>1, <3>1, <3>2, <3>3
    <3> QED
      BY <1>1, <1>2, <3>4 DEF HadPagesBefore
  <2> QED
    BY <1>1, <2>2, <2>4, <2>5 DEF ListInv
<1> QED
  BY <1>4, <1>5

LEMMA ListInvStep == ListInv /\ [ListStep]_storeVars => ListInv'
<1> SUFFICES ASSUME ListInv, [ListStep]_storeVars PROVE ListInv'
  OBVIOUS
<1>1. CASE StoreRecordsNext
  BY <1>1, RecordsStep
<1>2. CASE ListNext
  BY <1>2, InvalidStep, OpenStep, CountStep, SelectStep, NextPageStep DEF ListNext
<1>3. CASE UNCHANGED storeVars
  BY <1>3 DEF storeVars, tables, ListInv, StoreTypeOK, Monotone, Remembers, HadPagesBefore, Alone
<1> QED
  BY <1>1, <1>2, <1>3 DEF ListStep

\* QueryInvalidRecords with any page size, any number of rows and batches stored while a
\* client reads page after page: no page is empty, and no record that has a created_at of its own
\* is missed.
THEOREM ListCorrect == StoreSpec => []ListComplete
<1>1. ListInv => ListComplete
  <2> SUFFICES ASSUME ListInv, reader.at = "done", reader.rows = reader.total,
                      NEW i \in (1..reader.first) \ reader.seen
               PROVE  \E j \in DOMAIN invalid \ {i} : invalid[j] = invalid[i]
    BY DEF ListInv, Remembers, ListComplete
  <2> QED
    BY DEF ListInv, HadPagesBefore, Alone
<1> QED
  BY <1>1, ListInvInit, ListInvStep, PTL DEF StoreSpec, ListStep
-----------------------------------------------------------------------------
(* The path of a device *)

LEMMA BeforeOrders ==
  ASSUME StoreTypeOK, NEW S \in SUBSET (DOMAIN gpsRecords)
  PROVE  /\ IsFiniteSet(S)
         /\ \A i, j \in S : i # j => Before(i, j) \/ Before(j, i)
         /\ \A i \in S : ~Before(i, i)
         /\ \A i, j, k \in S : Before(i, j) /\ Before(j, k) => Before(i, k)
         /\ IsOrder(S, {p \in S \X S : Before(p[1], p[2])})
<1>1. gpsRecords \in Seq(Row)
  BY DEF StoreTypeOK
<1>2. Len(gpsRecords) \in Nat /\ DOMAIN gpsRecords = 1..Len(gpsRecords)
  BY <1>1, LenProperties
<1>3. \A n \in Nat : IsFiniteSet(1..n)
  BY FS_Interval
<1>4. IsFiniteSet(S)
  BY <1>2, <1>3, FS_Subset
<1>5. \A i \in S : i \in Nat /\ gpsRecords[i].time \in Nat
  <2> SUFFICES ASSUME NEW i \in S PROVE i \in Nat /\ gpsRecords[i].time \in Nat
    OBVIOUS
  <2>1. i \in 1..Len(gpsRecords) /\ i \in Nat
    BY <1>2
  <2>2. gpsRecords[i] \in Row
    BY <1>1, <2>1, ElementOfSeq
  <2>3. gpsRecords[i].time \in Times
    BY <2>2 DEF Row
  <2> QED
    BY <2>1, <2>3, StoreAssumption
<1>6. /\ \A i, j \in S : i # j => Before(i, j) \/ Before(j, i)
      /\ \A i \in S : ~Before(i, i)
      /\ \A i, j, k \in S : Before(i, j) /\ Before(j, k) => Before(i, k)
  BY <1>5 DEF Before
<1> DEFINE R == {p \in S \X S : Before(p[1], p[2])}
<1>7. \A i, j \in S : <<i, j>> \in R <=> Before(i, j)
  OBVIOUS
<1> HIDE DEF R
<1>8. IsOrder(S, R)
  BY <1>6, <1>7 DEF IsOrder
<1> QED
  BY <1>4, <1>6, <1>8 DEF R

\* The rows of a device that are not left out
Kept(imei) == {i \in Base(imei) : ~(gpsRecords[i].stop /\ FollowsStop(Base(imei), i))}

\* PathPoints shows what it keeps in order, up to the limit.
LEMMA PathIs ==
  ASSUME StoreTypeOK, NEW imei
  PROVE  \E p \in Seq(Kept(imei)), n \in Nat :
           /\ n <= Len(p) /\ n <= PathLimit /\ (n = Len(p) \/ n = PathLimit)
           /\ Len(PathPoints(imei)) = n
           /\ \A k \in 1..n : PathPoints(imei)[k] = p[k]
           /\ ToSet(PathPoints(imei)) = {p[k] : k \in 1..n}
           /\ \A x, y \in 1..Len(p) : x < y => Before(p[x], p[y])
           /\ \A i \in Kept(imei) : \E x \in 1..Len(p) : p[x] = i
<1> DEFINE K == Kept(imei)
           R == {q \in K \X K : Before(q[1], q[2])}
           p == InOrder(K, R)
           n == IF Len(p) < PathLimit THEN Len(p) ELSE PathLimit
           path == SubSeq(p, 1, n)
<1>1. K \in SUBSET (DOMAIN gpsRecords)
  BY DEF Base, Kept
<1>2. IsFiniteSet(K) /\ IsOrder(K, R)
  BY <1>1, BeforeOrders
<1>3. \A i, j \in K : <<i, j>> \in R <=> Before(i, j)
  OBVIOUS
<1>4. PathPoints(imei) = path
  BY DEF PathPoints, Kept
<1> HIDE DEF R
<1>5. p \in SetToSeqs(K) /\ Sorted(p, R)
  BY <1>2, Ordered
<1> HIDE DEF p
<1>6. /\ p \in Seq(K) /\ Len(p) \in Nat /\ DOMAIN p = 1..Len(p)
      /\ \A x \in K : \E i \in 1..Len(p) : p[i] = x
  BY <1>2, <1>5, Listing
<1>7. \A x \in 1..Len(p) : p[x] \in K
  BY <1>6, ElementOfSeq
<1>8. \A x, y \in 1..Len(p) : x < y => Before(p[x], p[y])
  BY <1>3, <1>5, <1>6, <1>7 DEF Sorted
<1>9. PathLimit \in Nat \ {0}
  BY StoreAssumption
<1>10. n \in Nat /\ n <= Len(p) /\ n <= PathLimit /\ (n = Len(p) \/ n = PathLimit)
  BY <1>6, <1>9
<1> HIDE DEF n
<1>11. /\ path \in Seq(K) /\ Len(path) = (IF 1 <= n THEN n - 1 + 1 ELSE 0)
       /\ \A i \in 1..(n - 1 + 1) : path[i] = p[1 + i - 1]
  <2>1. 1 \in Int /\ n \in Int
    BY <1>10
  <2>2. \A i \in 1..n : p[i] \in K
    <3>1. \A i \in 1..n : i \in 1..Len(p)
      <4>1. n \in Nat /\ Len(p) \in Nat /\ n <= Len(p)
        BY <1>6, <1>10
      <4> QED
        BY <4>1
    <3> QED
      BY <1>7, <3>1
  <2>3. \A i \in 1..n : i \in Int
    OBVIOUS
  <2> QED
    BY <2>1, <2>2, SubSeqProperties DEF path
<1>12. Len(path) = n /\ \A k \in 1..n : path[k] = p[k]
  <2>1. n - 1 + 1 = n
    BY <1>10
  <2>2. \A k \in 1..n : 1 + k - 1 = k
    BY <1>10
  <2> QED
    BY <1>10, <1>11, <2>1, <2>2
<1>13. DOMAIN path = 1..n
  BY <1>11, <1>12, LenProperties
<1>14. ToSet(path) = {p[k] : k \in 1..n}
  BY <1>12, <1>13 DEF ToSet
<1> HIDE DEF path
<1> QED
  BY <1>4, <1>6, <1>8, <1>10, <1>12, <1>14

LEMMA PathKeeps ==
  ASSUME StoreTypeOK, NEW imei
  PROVE  LET path == PathPoints(imei)
             shown == ToSet(path)
         IN /\ \A k \in 1..(Len(path) - 1) :
                 /\ Before(path[k], path[k + 1])
                 /\ ~(gpsRecords[path[k]].stop /\ gpsRecords[path[k + 1]].stop)
            /\ \A i \in Base(imei) \ shown :
                 \/ Len(path) = PathLimit /\ Before(path[Len(path)], i)
                 \/ /\ gpsRecords[i].stop
                    /\ \E j \in shown :
                         /\ gpsRecords[j].stop /\ Before(j, i)
                         /\ \A k \in Base(imei) : Before(j, k) /\ Before(k, i) => gpsRecords[k].stop
<1> DEFINE B == Base(imei)
           Stop(i) == gpsRecords[i].stop
           K == Kept(imei)
           path == PathPoints(imei)
<1>1. PICK p \in Seq(K), n \in Nat :
        /\ n <= Len(p) /\ n <= PathLimit /\ (n = Len(p) \/ n = PathLimit)
        /\ Len(path) = n
        /\ \A k \in 1..n : path[k] = p[k]
        /\ ToSet(path) = {p[k] : k \in 1..n}
        /\ \A x, y \in 1..Len(p) : x < y => Before(p[x], p[y])
        /\ \A i \in K : \E x \in 1..Len(p) : p[x] = i
  BY PathIs
<1>2. B \in SUBSET (DOMAIN gpsRecords) /\ PathLimit \in Nat \ {0}
  BY StoreAssumption DEF Base
<1>3. /\ IsFiniteSet(B)
      /\ \A i, j \in B : i # j => Before(i, j) \/ Before(j, i)
      /\ \A i \in B : ~Before(i, i)
      /\ \A i, j, k \in B : Before(i, j) /\ Before(j, k) => Before(i, k)
  BY <1>2, BeforeOrders
<1>4. Len(p) \in Nat /\ \A x \in 1..Len(p) : p[x] \in K /\ p[x] \in B
  <2>1. Len(p) \in Nat
    BY <1>1, LenProperties
  <2>2. \A x \in 1..Len(p) : p[x] \in K
    BY <1>1, ElementOfSeq
  <2> QED
    BY <2>1, <2>2 DEF Kept
<1>5. \A i \in B : FollowsStop(B, i) <=>
        \E j \in B : /\ Stop(j) /\ Before(j, i)
                     /\ \A k \in B : ~(Before(j, k) /\ Before(k, i))
  BY DEF FollowsStop
<1>6. \A i \in B : i \in K <=> ~(Stop(i) /\ FollowsStop(B, i))
  BY DEF Kept
<1> HIDE DEF path, K, B, Stop
\* The row that comes just before another
<1>7. ASSUME NEW i \in B, NEW j \in B, Before(j, i)
      PROVE  \E m \in B : Before(m, i) /\ \A x \in B : Before(x, i) => x = m \/ Before(x, m)
  <2> DEFINE T == {x \in B : Before(x, i)}
             R == {q \in T \X T : Before(q[1], q[2])}
  <2>1. T \in SUBSET (DOMAIN gpsRecords) /\ T # {}
    BY <1>2, <1>7
  <2>2. \A x : x \in T <=> x \in B /\ Before(x, i)
    OBVIOUS
  <2> HIDE DEF T
  <2>3. IsFiniteSet(T) /\ IsOrder(T, R)
    BY <2>1, BeforeOrders
  <2>4. \A x, y \in T : <<x, y>> \in R <=> Before(x, y)
    OBVIOUS
  <2> HIDE DEF R
  <2>5. T # {}
    BY <2>1
  <2>6. \E m \in T : \A x \in T \ {m} : <<x, m>> \in R
    BY <2>3, <2>5, LastOf
  <2>7. PICK m \in T : \A x \in T \ {m} : <<x, m>> \in R
    BY <2>6
  <2> QED
    BY <2>2, <2>4, <2>7
\* A point that is a stop follows a row that moves, and which is a point as well.
<1>8. ASSUME NEW k \in 1..(n - 1), Stop(p[k]), Stop(p[k + 1]) PROVE FALSE
  <2>1. k \in 1..Len(p) /\ k + 1 \in 1..Len(p) /\ k \in Nat
    BY <1>1, <1>4
  <2> DEFINE a == p[k]
             b == p[k + 1]
  <2>2. a \in B /\ b \in B /\ b \in K /\ Before(a, b) /\ Stop(a) /\ Stop(b)
    <3>1. k < k + 1
      BY <2>1
    <3> QED
      BY <1>1, <1>4, <1>8, <2>1, <3>1
  <2>3. PICK m \in B : Before(m, b) /\ \A x \in B : Before(x, b) => x = m \/ Before(x, m)
    BY <1>7, <2>2
  <2>4. ~Stop(m)
    <3> SUFFICES ASSUME Stop(m) PROVE FALSE
      OBVIOUS
    <3>1. \A x \in B : ~(Before(m, x) /\ Before(x, b))
      BY <1>3, <2>2, <2>3
    <3> QED
      BY <1>5, <1>6, <2>2, <2>3, <3>1
  <2>5. PICK x \in 1..Len(p) : p[x] = m
    BY <1>1, <1>6, <2>4
  <2>6. m # a /\ Before(a, m)
    BY <2>2, <2>3, <2>4
  <2>7. ~(x < k)
    BY <1>1, <1>3, <2>1, <2>2, <2>5, <2>6
  <2>8. x # k /\ x # k + 1
    BY <1>3, <2>2, <2>3, <2>5, <2>6
  <2>9. ~(k + 1 < x)
    BY <1>1, <1>3, <2>1, <2>2, <2>3, <2>5
  <2> QED
    BY <1>4, <2>1, <2>7, <2>8, <2>9
<1>9. ASSUME NEW k \in 1..(n - 1) PROVE Before(p[k], p[k + 1]) /\ path[k] = p[k] /\ path[k + 1] = p[k + 1]
  <2>1. n \in Nat /\ Len(p) \in Nat /\ n <= Len(p) /\ k \in 1..(n - 1)
    BY <1>1, <1>4
  <2>2. k \in 1..Len(p) /\ k + 1 \in 1..Len(p) /\ k < k + 1 /\ k \in 1..n /\ k + 1 \in 1..n
    BY <2>1
  <2> QED
    BY <1>1, <2>2
\* What is kept and not shown is behind the limit.
<1>10. ASSUME NEW i \in K, i \notin ToSet(path) PROVE n = PathLimit /\ path[n] \in B /\ Before(path[n], i)
  <2>1. PICK x \in 1..Len(p) : p[x] = i
    BY <1>1, <1>10
  <2>2. x \notin 1..n
    BY <1>1, <1>10, <2>1
  <2> DEFINE l == Len(p)
  <2>3. /\ n \in Nat /\ l \in Nat /\ n <= l /\ x \in 1..l /\ PathLimit \in Nat \ {0}
        /\ n = l \/ n = PathLimit
    BY <1>1, <1>2, <1>4
  <2> HIDE DEF l
  <2>4. n < x /\ n = PathLimit /\ n \in 1..n /\ n \in 1..l
    BY <2>2, <2>3
  <2> QED
    BY <1>1, <1>4, <2>1, <2>3, <2>4 DEF l
\* What is left out follows a stop of which a kept one begins the run.
<1>11. ASSUME NEW i \in B, i \notin K
       PROVE  /\ Stop(i)
              /\ \E m \in K : /\ m \in B /\ Stop(m) /\ Before(m, i)
                              /\ \A k \in B : Before(m, k) /\ Before(k, i) => Stop(k)
  <2>1. Stop(i) /\ FollowsStop(B, i)
    BY <1>6, <1>11
  <2> DEFINE F == {j \in B : /\ Stop(j) /\ Before(j, i)
                             /\ \A k \in B : Before(j, k) /\ Before(k, i) => Stop(k)}
             R == {q \in F \X F : Before(q[1], q[2])}
  <2>2. F \in SUBSET (DOMAIN gpsRecords) /\ F # {}
    BY <1>2, <1>5, <2>1
  <2> HIDE DEF F
  <2>3. IsFiniteSet(F) /\ IsOrder(F, R)
    BY <2>2, BeforeOrders
  <2>4. \A x, y \in F : <<x, y>> \in R <=> Before(x, y)
    OBVIOUS
  <2> HIDE DEF R
  <2>5. PICK m \in F : \A x \in F \ {m} : <<m, x>> \in R
    BY <2>2, <2>3, FirstOf
  <2> USE DEF F
  <2>6. m \in K
    <3> SUFFICES ASSUME m \notin K PROVE FALSE
      OBVIOUS
    <3>1. PICK q \in B : Stop(q) /\ Before(q, m) /\ \A k \in B : ~(Before(q, k) /\ Before(k, m))
      BY <1>5, <1>6
    <3>2. Before(q, i)
      BY <1>3, <3>1
    <3>3. ASSUME NEW k \in B, Before(q, k), Before(k, i) PROVE Stop(k)
      <4>1. CASE k = m
        BY <4>1
      <4>2. CASE Before(m, k)
        BY <3>3, <4>2
      <4>3. CASE Before(k, m)
        BY <3>1, <3>3, <4>3
      <4> QED
        BY <1>3, <4>1, <4>2, <4>3
    <3>4. q \in F /\ q # m
      BY <1>3, <3>1, <3>2, <3>3
    <3>5. Before(m, q)
      BY <2>4, <2>5, <3>4
    <3> QED
      BY <1>3, <3>1, <3>5
  <2> QED
    BY <2>1, <2>6
<1>12. ASSUME NEW i \in B, i \notin ToSet(path)
       PROVE  \/ n = PathLimit /\ Before(path[n], i)
              \/ /\ Stop(i)
                 /\ \E j \in ToSet(path) :
                      /\ Stop(j) /\ Before(j, i)
                      /\ \A k \in B : Before(j, k) /\ Before(k, i) => Stop(k)
  <2>1. CASE i \in K
    BY <1>10, <1>12, <2>1
  <2>2. CASE i \notin K
    <3>1. PICK m \in K : /\ m \in B /\ Stop(m) /\ Before(m, i)
                         /\ \A k \in B : Before(m, k) /\ Before(k, i) => Stop(k)
      BY <1>11, <2>2
    <3>2. CASE m \in ToSet(path)
      BY <1>11, <2>2, <3>1, <3>2
    <3>3. CASE m \notin ToSet(path)
      BY <1>3, <1>10, <3>1, <3>3
    <3> QED
      BY <3>2, <3>3
  <2> QED
    BY <2>1, <2>2
<1> QED
  BY <1>1, <1>8, <1>9, <1>12 DEF B, Stop, path

\* QueryPathPoints for every table and every limit: no two stops in a row, and nothing left out
\* but stops of a run whose first one is shown, and what is behind the limit.
THEOREM PathCorrect == StoreSpec => []PathFaithful
<1>1. \A i, j : Earlier(i, j) <=> Before(i, j)
  BY DEF Earlier, Before
<1>2. ListInv => PathFaithful
  BY <1>1, PathKeeps DEF ListInv, PathFaithful
<1> QED
  BY <1>2, ListInvInit, ListInvStep, PTL DEF StoreSpec, ListStep
=============================================================================
