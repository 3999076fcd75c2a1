------------------------- MODULE MessageHandler_proofs -------------------------
(***************************************************************************)
(* Proofs about MessageHandler for any devices, messages, records, number  *)
(* of handlers at a time, retries, failures and crashes: its types, that   *)
(* movements are delivered, and that stops are covered; and about Parsing, *)
(* for messages of any length: that of what the handler is given nothing   *)
(* is lost before it reaches the filter.                                   *)
(***************************************************************************)
EXTENDS MessageHandler, Parsing, SequenceLemmas

-----------------------------------------------------------------------------
(* The inductive invariant *)

\* FilterData returns only after the last record.
Through == \A m \in Msgs : status[m] = "sending" => pos[m] = Len(Records[m])

\* A message in progress keeps every movement FilterData has gone through.
MovesKept ==
  \A m \in InFlight : \A k \in 1..pos[m] :
    ~Records[m][k].stop => k \in ToSet(kept[m])

\* Only a message that could not be encoded is discarded.
DiscardedOdd == \A m \in Msgs : status[m] = "discarded" => ~Encodable(m)

\* A stop of device d reached a destination, or a message in progress or one that was
\* discarded has it.
Covered(d) ==
  \/ \E rec \in ToSet(sent) : rec.stop /\ rec.imei = d
  \/ \E n \in Holding : \E i \in ToSet(kept[n]) :
       Records[n][i].stop /\ Records[n][i].imei = d

\* The filter's state says "stop" only when that stop is on its way, sent or
\* discarded.  A failed send or a crash breaks this: the state was advanced before
\* the send.
StandingCovered ==
  failures = 0 /\ crashes = 0 =>
    \A d \in Devices : state[d] = "stop" => Covered(d)

\* So a stop that FilterData drops in a message in progress is covered too.
StopsSeen ==
  failures = 0 /\ crashes = 0 =>
    \A m \in InFlight : \A k \in 1..pos[m] :
      Records[m][k].stop => Covered(Records[m][k].imei)

\* MovesDelivered and StopCovered, said of the set of records that were sent.
MovesReached ==
  \A m \in Msgs : status[m] = "acked" =>
    \A k \in 1..Len(Records[m]) : ~Records[m][k].stop =>
      \E rec \in ToSet(sent) : rec.msg = m /\ rec.nr = k

StopsSettled ==
  failures = 0 /\ crashes = 0 =>
    \A m \in Acknowledged :
      \A k \in 1..Len(Records[m]) :
        Records[m][k].stop => Covered(Records[m][k].imei)

IInv ==
  /\ TypeOK /\ Through /\ MovesKept /\ MovesReached /\ DiscardedOdd
  /\ StandingCovered /\ StopsSeen /\ StopsSettled

-----------------------------------------------------------------------------
(* Records and what is sent of them *)

SentRecords == [imei : Devices, stop : BOOLEAN, msg : Msgs, nr : Nat]

LEMMA RecordType ==
  ASSUME NEW m \in Msgs
  PROVE  /\ Len(Records[m]) \in Nat /\ DOMAIN Records[m] = 1..Len(Records[m])
         /\ \A k \in 1..Len(Records[m]) :
              Records[m][k].imei \in Devices /\ Records[m][k].stop \in BOOLEAN
<1>1. Records[m] \in Seq([imei : Devices, stop : BOOLEAN, finite : BOOLEAN])
  BY HandlerAssumption
<1>2. \A k \in 1..Len(Records[m]) :
        Records[m][k] \in [imei : Devices, stop : BOOLEAN, finite : BOOLEAN]
  BY <1>1, ElementOfSeq
<1> QED
  BY <1>1, <1>2, LenProperties

\* The record number k of m as it is sent.
SourceOf(m, k) ==
  [imei |-> Records[m][k].imei, stop |-> Records[m][k].stop, msg |-> m, nr |-> k]

\* Kept(m) has exactly the records whose numbers FilterData kept.
LEMMA KeptRecords ==
  ASSUME TypeOK, NEW m \in Msgs
  PROVE  /\ Kept(m) \in Seq(SentRecords)
         /\ \A k \in ToSet(kept[m]) : SourceOf(m, k) \in ToSet(Kept(m))
<1>1. /\ pos[m] \in Nat /\ pos[m] <= Len(Records[m]) /\ kept[m] \in Seq(1..pos[m])
      /\ Len(Records[m]) \in Nat
  BY RecordType DEF TypeOK
<1>2. Len(kept[m]) \in Nat /\ DOMAIN kept[m] = 1..Len(kept[m])
  BY <1>1, LenProperties
<1>3. Kept(m) = [j \in 1..Len(kept[m]) |-> SourceOf(m, kept[m][j])]
  BY <1>2 DEF Kept, SourceOf
<1>4. ASSUME NEW j \in 1..Len(kept[m]) PROVE SourceOf(m, kept[m][j]) \in SentRecords
  <2>1. kept[m][j] \in 1..pos[m]
    BY <1>1, ElementOfSeq
  <2>2. kept[m][j] \in 1..Len(Records[m]) /\ kept[m][j] \in Nat
    BY <1>1, <2>1
  <2> QED
    BY <2>2, RecordType DEF SourceOf, SentRecords
<1>5. Kept(m) \in [1..Len(kept[m]) -> SentRecords]
  BY <1>3, <1>4
<1>6. Kept(m) \in Seq(SentRecords)
  BY <1>2, <1>5, SeqDef
<1>7. \A k \in ToSet(kept[m]) : SourceOf(m, k) \in ToSet(Kept(m))
  <2> SUFFICES ASSUME NEW k \in ToSet(kept[m]) PROVE SourceOf(m, k) \in ToSet(Kept(m))
    OBVIOUS
  <2>1. PICK j \in 1..Len(kept[m]) : k = kept[m][j]
    BY <1>2 DEF ToSet
  <2>2. Kept(m)[j] = SourceOf(m, k) /\ DOMAIN Kept(m) = 1..Len(kept[m])
    BY <1>3, <2>1
  <2> QED
    BY <2>2 DEF ToSet
<1> QED
  BY <1>6, <1>7

\* What was sent stays sent, whatever a send adds.
LEMMA SentGrows ==
  ASSUME TypeOK, NEW m \in Msgs, sent' \in {sent, sent \o Kept(m)}
  PROVE  sent' \in Seq(SentRecords) /\ ToSet(sent) \subseteq ToSet(sent')
<1>1. sent \in Seq(SentRecords) /\ Kept(m) \in Seq(SentRecords)
  BY KeptRecords DEF TypeOK, SentRecords
<1>2. /\ sent \o Kept(m) \in Seq(SentRecords)
      /\ ToSet(sent \o Kept(m)) = ToSet(sent) \cup ToSet(Kept(m))
  BY <1>1, Joined
<1>3. CASE sent' = sent
  BY <1>1, <1>3
<1>4. CASE sent' = sent \o Kept(m)
  BY <1>2, <1>4
<1> QED
  BY <1>3, <1>4

-----------------------------------------------------------------------------
(* Type correctness *)

LEMMA TypeStep == ASSUME TypeOK, [Next]_vars PROVE TypeOK'
<1> USE DEF message, filter, Become
<1>1. ASSUME NEW m \in Msgs, Deliver(m) PROVE TypeOK'
  <2>1. status' \in [Msgs -> {"queued", "filtering", "sending", "acked", "discarded", "dropped"}]
    BY <1>1 DEF Deliver, TypeOK
  <2>2. tries' \in [Msgs -> 0..MaxRetries]
    BY <1>1, HandlerAssumption DEF Deliver, TypeOK
  <2>3. pos' \in [Msgs -> Nat] /\ \A n \in Msgs : pos'[n] = IF n = m THEN 0 ELSE pos[n]
    BY <1>1 DEF Deliver, TypeOK
  <2>4. /\ kept' \in [Msgs -> Seq(Nat)]
        /\ \A n \in Msgs : kept'[n] = IF n = m THEN <<>> ELSE kept[n]
    BY <1>1, EmptySeq DEF Deliver, TypeOK
  <2>5. ASSUME NEW n \in Msgs
        PROVE  pos'[n] <= Len(Records[n]) /\ kept'[n] \in Seq(1..pos'[n])
    <3>1. CASE n = m
      BY <2>3, <2>4, <3>1, RecordType, EmptySeq
    <3>2. CASE n # m
      BY <2>3, <2>4, <3>2 DEF TypeOK
    <3> QED
      BY <3>1, <3>2
  <2> QED
    BY <1>1, <2>1, <2>2, <2>3, <2>4, <2>5 DEF Deliver, TypeOK
<1>2. ASSUME NEW m \in Msgs, FilterRecord(m) PROVE TypeOK'
  <2> DEFINE k == pos[m] + 1
  <2>1. k \in 1..Len(Records[m]) /\ pos[m] \in Nat
    BY <1>2, RecordType DEF FilterRecord, TypeOK
  <2>2. pos' \in [Msgs -> Nat] /\ \A n \in Msgs : pos'[n] = IF n = m THEN k ELSE pos[n]
    BY <1>2, <2>1 DEF FilterRecord, TypeOK
  <2>3. kept[m] \in Seq(1..k)
    <3>1. 1..pos[m] \subseteq 1..k /\ kept[m] \in Seq(1..pos[m])
      BY <2>1 DEF TypeOK
    <3> QED
      BY <3>1, SeqMonotonic
  <2>4. Append(kept[m], k) \in Seq(1..k) /\ Append(kept[m], k) \in Seq(Nat)
    <3>1. k \in 1..k /\ k \in Nat /\ kept[m] \in Seq(Nat)
      BY <2>1 DEF TypeOK
    <3> QED
      BY <2>3, <3>1, AppendProperties
  <2>5. /\ \A n \in Msgs : n # m => kept'[n] = kept[n]
        /\ kept'[m] \in {kept[m], Append(kept[m], k)}
        /\ kept' = [kept EXCEPT ![m] = kept'[m]]
    BY <1>2 DEF FilterRecord, TypeOK
  <2>6. kept' \in [Msgs -> Seq(Nat)]
    BY <2>4, <2>5 DEF TypeOK
  <2>7. ASSUME NEW n \in Msgs
        PROVE  pos'[n] <= Len(Records[n]) /\ kept'[n] \in Seq(1..pos'[n])
    <3>1. CASE n = m
      <4>1. pos'[m] = k /\ k <= Len(Records[m])
        BY <2>1, <2>2, RecordType
      <4>2. kept'[m] \in Seq(1..k)
        BY <2>3, <2>4, <2>5
      <4> QED
        BY <3>1, <4>1, <4>2
    <3>2. CASE n # m
      BY <2>2, <2>5, <3>2 DEF TypeOK
    <3> QED
      BY <3>1, <3>2
  <2>8. state' \in [Devices -> Kinds]
    BY <1>2 DEF FilterRecord, TypeOK, Kinds
  <2> QED
    BY <1>2, <2>2, <2>6, <2>7, <2>8 DEF FilterRecord, TypeOK
<1>3. ASSUME NEW m \in Msgs, Filtered(m) \/ AllFiltered(m) \/ Discard(m) \/ Drop(m)
      PROVE  TypeOK'
  BY <1>3 DEF Filtered, AllFiltered, Discard, Drop, TypeOK
<1>4. ASSUME NEW m \in Msgs, SendOk(m) \/ SendFails(m) PROVE TypeOK'
  <2>1. sent' \in Seq(SentRecords)
    BY <1>4, SentGrows DEF SendOk, SendFails
  <2>2. failures' \in 0..MaxFailures
    BY <1>4, HandlerAssumption DEF SendOk, SendFails, TypeOK
  <2> QED
    BY <1>4, <2>1, <2>2 DEF SendOk, SendFails, TypeOK, SentRecords
<1>5. CASE SyncCopy \/ SyncWrite
  <2>1. copy' \in [Devices -> Kinds] /\ syncing' \in BOOLEAN
    BY <1>5 DEF SyncCopy, SyncWrite, TypeOK, None, Kinds
  <2>2. saved' \in [Devices -> Kinds]
    BY <1>5 DEF SyncCopy, SyncWrite, TypeOK
  <2> QED
    BY <1>5, <2>1, <2>2 DEF SyncCopy, SyncWrite, TypeOK
<1>6. CASE Crash
  <2>1. status' \in [Msgs -> {"queued", "filtering", "sending", "acked", "discarded", "dropped"}]
    BY <1>6 DEF Crash, TypeOK
  <2>2. copy' \in [Devices -> Kinds]
    BY <1>6 DEF Crash, None, Kinds
  <2>3. state' \in [Devices -> Kinds] /\ crashes' \in 0..MaxCrashes
    BY <1>6, HandlerAssumption DEF Crash, TypeOK
  <2> QED
    BY <1>6, <2>1, <2>2, <2>3 DEF Crash, TypeOK
<1>7. CASE UNCHANGED vars
  BY <1>7 DEF vars, TypeOK
<1> QED
  BY <1>1, <1>2, <1>3, <1>4, <1>5, <1>6, <1>7 DEF Next

LEMMA TypeInit == Init => TypeOK
<1> SUFFICES ASSUME Init PROVE TypeOK
  OBVIOUS
<1>1. status \in [Msgs -> {"queued", "filtering", "sending", "acked", "discarded", "dropped"}]
  BY DEF Init
<1>2. tries \in [Msgs -> 0..MaxRetries] /\ pos \in [Msgs -> Nat]
  BY HandlerAssumption DEF Init
<1>3. kept \in [Msgs -> Seq(Nat)]
  BY EmptySeq DEF Init
<1>4. ASSUME NEW m \in Msgs
      PROVE  pos[m] <= Len(Records[m]) /\ kept[m] \in Seq(1..pos[m])
  BY RecordType, EmptySeq DEF Init
<1>5. /\ state \in [Devices -> Kinds] /\ copy \in [Devices -> Kinds]
      /\ saved \in [Devices -> Kinds]
  BY DEF Init, None, Kinds
<1>6. sent \in Seq([imei : Devices, stop : BOOLEAN, msg : Msgs, nr : Nat])
  BY EmptySeq DEF Init
<1>7. syncing \in BOOLEAN /\ failures \in 0..MaxFailures /\ crashes \in 0..MaxCrashes
  <2>1. MaxFailures \in Nat /\ MaxCrashes \in Nat
    BY HandlerAssumption
  <2>2. syncing \in BOOLEAN
    BY DEF Init
  <2>3. failures = 0 /\ crashes = 0
    BY DEF Init
  <2>4. failures \in 0..MaxFailures /\ crashes \in 0..MaxCrashes
    BY <2>1, <2>3
  <2> QED
    BY <2>2, <2>4
<1> QED
  BY <1>1, <1>2, <1>3, <1>4, <1>5, <1>6, <1>7 DEF TypeOK
-----------------------------------------------------------------------------
(* What the actions do to messages in progress *)

LEMMA DeliverEffect ==
  ASSUME TypeOK, NEW m \in Msgs, Deliver(m)
  PROVE  /\ m \notin InFlight /\ InFlight \subseteq InFlight'
         /\ InFlight' \subseteq InFlight \cup {m}
         /\ pos'[m] = 0
         /\ \A n \in Msgs \ {m} :
              pos'[n] = pos[n] /\ kept'[n] = kept[n] /\ status'[n] = status[n]
         /\ status'[m] \in {"acked", "filtering"}
         /\ status'[m] = "acked" => Records[m] = <<>>
BY DEF Deliver, Become, InFlight, TypeOK

LEMMA FilterEffect ==
  ASSUME TypeOK, NEW m \in Msgs, FilterRecord(m)
  PROVE  /\ m \in InFlight /\ InFlight' = InFlight
         /\ pos[m] \in Nat /\ pos[m] + 1 \in 1..Len(Records[m])
         /\ pos'[m] = pos[m] + 1
         /\ \A n \in Msgs \ {m} : pos'[n] = pos[n] /\ kept'[n] = kept[n]
         /\ ToSet(kept'[m]) =
              IF Redundant(Records[m][pos[m] + 1]) THEN ToSet(kept[m])
              ELSE ToSet(kept[m]) \cup {pos[m] + 1}
<1> DEFINE k == pos[m] + 1
<1>1. pos[m] \in Nat /\ k \in 1..Len(Records[m]) /\ k \in Nat /\ kept[m] \in Seq(Nat)
  BY RecordType DEF FilterRecord, TypeOK
<1>2. ToSet(Append(kept[m], k)) = ToSet(kept[m]) \cup {k}
  BY <1>1, Sent
<1>3. kept'[m] = IF Redundant(Records[m][k]) THEN kept[m] ELSE Append(kept[m], k)
  BY DEF FilterRecord, TypeOK
<1>4. pos'[m] = k /\ \A n \in Msgs \ {m} : pos'[n] = pos[n] /\ kept'[n] = kept[n]
  BY DEF FilterRecord, TypeOK
<1>5. m \in InFlight /\ InFlight' = InFlight
  BY DEF FilterRecord, InFlight
<1> QED
  BY <1>1, <1>2, <1>3, <1>4, <1>5

LEMMA LeaveEffect ==
  ASSUME TypeOK, NEW m \in Msgs,
         \/ Filtered(m) \/ AllFiltered(m) \/ Discard(m)
         \/ SendOk(m) \/ SendFails(m) \/ Drop(m)
  PROVE  /\ InFlight' \subseteq InFlight /\ InFlight \ {m} \subseteq InFlight'
         /\ UNCHANGED <<pos, kept>>
         /\ \A n \in Msgs \ {m} : status'[n] = status[n]
BY DEF Filtered, AllFiltered, Discard, SendOk, SendFails, Drop, Become, InFlight, TypeOK

LEMMA CrashEffect ==
  ASSUME TypeOK, Crash
  PROVE  /\ InFlight' = {} /\ UNCHANGED <<pos, kept, sent>>
         /\ \A n \in Msgs : status'[n] \in {status[n], "queued"}
BY DEF Crash, InFlight, TypeOK

\* Nothing takes back what a destination accepted.
LEMMA SentStays == ASSUME TypeOK, [Next]_vars PROVE ToSet(sent) \subseteq ToSet(sent')
<1>1. ASSUME NEW m \in Msgs, SendOk(m) \/ SendFails(m)
      PROVE  ToSet(sent) \subseteq ToSet(sent')
  BY <1>1, SentGrows DEF SendOk, SendFails
<1> QED
  BY <1>1
  DEF Next, Deliver, FilterRecord, Filtered, AllFiltered, Discard, Drop, SyncCopy,
      SyncWrite, Crash, vars

\* A send that succeeds brings every record that was kept to a destination.
LEMMA SendsKept ==
  ASSUME TypeOK, NEW m \in Msgs, SendOk(m), NEW k \in ToSet(kept[m])
  PROVE  SourceOf(m, k) \in ToSet(sent')
<1>1. sent \in Seq(SentRecords) /\ Kept(m) \in Seq(SentRecords)
      /\ SourceOf(m, k) \in ToSet(Kept(m))
  BY KeptRecords DEF TypeOK, SentRecords
<1>2. ToSet(sent \o Kept(m)) = ToSet(sent) \cup ToSet(Kept(m))
  BY <1>1, Joined
<1> QED
  BY <1>1, <1>2 DEF SendOk

-----------------------------------------------------------------------------
(* Movements *)

LEMMA ThroughStep == ASSUME TypeOK, Through, [Next]_vars PROVE Through'
<1>1. ASSUME NEW m \in Msgs, Deliver(m) PROVE Through'
  BY <1>1, DeliverEffect DEF Through
<1>2. ASSUME NEW m \in Msgs, FilterRecord(m) PROVE Through'
  BY <1>2, FilterEffect DEF Through, FilterRecord
<1>3. ASSUME NEW m \in Msgs, Filtered(m) PROVE Through'
  BY <1>3 DEF Through, Filtered, Become, TypeOK
<1>4. ASSUME NEW m \in Msgs,
             AllFiltered(m) \/ Discard(m) \/ SendOk(m) \/ SendFails(m) \/ Drop(m)
      PROVE  Through'
  BY <1>4 DEF Through, AllFiltered, Discard, SendOk, SendFails, Drop, Become, TypeOK
<1>5. CASE Crash
  BY <1>5, CrashEffect DEF Through
<1>6. CASE SyncCopy \/ SyncWrite \/ UNCHANGED vars
  BY <1>6 DEF Through, SyncCopy, SyncWrite, message, vars
<1> QED
  BY <1>1, <1>2, <1>3, <1>4, <1>5, <1>6 DEF Next

LEMMA MovesKeptStep == ASSUME TypeOK, MovesKept, [Next]_vars PROVE MovesKept'
<1>1. ASSUME NEW m \in Msgs, Deliver(m) PROVE MovesKept'
  <2> SUFFICES ASSUME NEW n \in InFlight', NEW k \in 1..pos'[n],
                      ~Records[n][k].stop
               PROVE  k \in ToSet(kept'[n])
    BY DEF MovesKept
  <2>1. n \in Msgs /\ n # m
    BY <1>1, DeliverEffect DEF InFlight
  <2> QED
    BY <1>1, <2>1, DeliverEffect DEF MovesKept
<1>2. ASSUME NEW m \in Msgs, FilterRecord(m) PROVE MovesKept'
  <2> SUFFICES ASSUME NEW n \in InFlight, NEW k \in 1..pos'[n],
                      ~Records[n][k].stop
               PROVE  k \in ToSet(kept'[n])
    BY <1>2, FilterEffect DEF MovesKept
  <2>1. CASE n # m
    BY <1>2, <2>1, FilterEffect DEF MovesKept, InFlight
  <2>2. CASE n = m /\ k # pos[m] + 1
    <3>1. k \in 1..pos[m]
      <4>1. pos[m] \in Nat /\ pos'[m] = pos[m] + 1
        BY <1>2, FilterEffect
      <4>2. k \in 1..(pos[m] + 1) /\ k # pos[m] + 1
        BY <2>2, <4>1
      <4> QED
        BY <4>1, <4>2
    <3> QED
      BY <1>2, <2>2, <3>1, FilterEffect DEF MovesKept
  <2>3. CASE n = m /\ k = pos[m] + 1
    <3>1. ~Redundant(Records[m][k])
      BY <2>3 DEF Redundant
    <3> QED
      BY <1>2, <2>3, <3>1, FilterEffect
  <2> QED
    BY <2>1, <2>2, <2>3
<1>3. ASSUME NEW m \in Msgs,
             \/ Filtered(m) \/ AllFiltered(m) \/ Discard(m)
             \/ SendOk(m) \/ SendFails(m) \/ Drop(m)
      PROVE  MovesKept'
  BY <1>3, LeaveEffect DEF MovesKept
<1>4. CASE Crash
  BY <1>4, CrashEffect DEF MovesKept
<1>5. CASE SyncCopy \/ SyncWrite \/ UNCHANGED vars
  BY <1>5 DEF MovesKept, SyncCopy, SyncWrite, message, vars, InFlight
<1> QED
  BY <1>1, <1>2, <1>3, <1>4, <1>5 DEF Next

LEMMA DiscardedOddStep == ASSUME TypeOK, DiscardedOdd, [Next]_vars PROVE DiscardedOdd'
<1>1. ASSUME NEW n \in Msgs, status[n] = "discarded", status'[n] = status[n],
             kept'[n] = kept[n]
      PROVE  ~Encodable(n)'
  BY <1>1 DEF DiscardedOdd, Encodable
<1>2. ASSUME NEW m \in Msgs, Deliver(m) PROVE DiscardedOdd'
  BY <1>1, <1>2, DeliverEffect DEF DiscardedOdd
<1>3. ASSUME NEW m \in Msgs, FilterRecord(m) PROVE DiscardedOdd'
  <2>1. status' = status /\ status[m] = "filtering"
    BY <1>3 DEF FilterRecord
  <2> QED
    BY <1>1, <1>3, <2>1, FilterEffect DEF DiscardedOdd
<1>4. ASSUME NEW m \in Msgs,
             Filtered(m) \/ AllFiltered(m) \/ SendOk(m) \/ SendFails(m) \/ Drop(m)
      PROVE  DiscardedOdd'
  <2>1. status'[m] # "discarded"
    BY <1>4 DEF Filtered, AllFiltered, SendOk, SendFails, Drop, Become, TypeOK
  <2> QED
    BY <1>1, <1>4, <2>1, LeaveEffect DEF DiscardedOdd
<1>5. ASSUME NEW m \in Msgs, Discard(m) PROVE DiscardedOdd'
  <2>1. ~Encodable(m)'
    BY <1>5 DEF Discard, Encodable
  <2> QED
    BY <1>1, <1>5, <2>1, LeaveEffect DEF DiscardedOdd
<1>6. CASE Crash
  BY <1>1, <1>6, CrashEffect DEF DiscardedOdd
<1>7. CASE SyncCopy \/ SyncWrite \/ UNCHANGED vars
  BY <1>1, <1>7 DEF DiscardedOdd, SyncCopy, SyncWrite, message, vars
<1> QED
  BY <1>2, <1>3, <1>4, <1>5, <1>6, <1>7 DEF Next

LEMMA MovesReachedStep ==
  ASSUME TypeOK, Through, MovesKept, MovesReached, [Next]_vars PROVE MovesReached'
<1>1. ASSUME NEW n \in Msgs, status[n] = "acked", NEW k \in 1..Len(Records[n]),
             ~Records[n][k].stop
      PROVE  \E rec \in ToSet(sent') : rec.msg = n /\ rec.nr = k
  BY <1>1, SentStays DEF MovesReached
<1>2. ASSUME \A n \in Msgs : status'[n] = "acked" => status[n] = "acked"
      PROVE  MovesReached'
  BY <1>1, <1>2 DEF MovesReached
<1>3. ASSUME NEW m \in Msgs,
             \A n \in Msgs \ {m} : status'[n] = status[n],
             \A k \in 1..Len(Records[m]) : ~Records[m][k].stop =>
               \E rec \in ToSet(sent') : rec.msg = m /\ rec.nr = k
      PROVE  MovesReached'
  BY <1>1, <1>3 DEF MovesReached
<1>4. ASSUME NEW m \in Msgs, Deliver(m) PROVE MovesReached'
  <2>1. CASE Records[m] = <<>>
    <3>1. Len(Records[m]) = 0
      BY <2>1, EmptySeq
    <3> QED
      BY <1>3, <1>4, <3>1, DeliverEffect
  <2>2. CASE Records[m] # <<>>
    BY <1>2, <1>4, <2>2, DeliverEffect
  <2> QED
    BY <2>1, <2>2
<1>5. ASSUME NEW m \in Msgs, AllFiltered(m) PROVE MovesReached'
  <2>1. m \in InFlight /\ pos[m] = Len(Records[m]) /\ ToSet(kept[m]) = {}
    BY <1>5, ToSetEmpty DEF AllFiltered, InFlight
  <2>2. \A k \in 1..Len(Records[m]) : Records[m][k].stop
    BY <2>1 DEF MovesKept
  <2> QED
    BY <1>3, <1>5, <2>2, LeaveEffect
<1>6. ASSUME NEW m \in Msgs, SendOk(m) PROVE MovesReached'
  <2>1. ASSUME NEW k \in 1..Len(Records[m]), ~Records[m][k].stop
        PROVE  \E rec \in ToSet(sent') : rec.msg = m /\ rec.nr = k
    <3>1. k \in ToSet(kept[m])
      BY <1>6, <2>1 DEF SendOk, Through, MovesKept, InFlight
    <3>2. SourceOf(m, k) \in ToSet(sent')
      BY <1>6, <3>1, SendsKept
    <3> QED
      BY <3>2 DEF SourceOf
  <2> QED
    BY <1>3, <1>6, <2>1, LeaveEffect
<1>7. ASSUME NEW m \in Msgs,
             FilterRecord(m) \/ Filtered(m) \/ Discard(m) \/ SendFails(m) \/ Drop(m)
      PROVE  MovesReached'
  BY <1>2, <1>7 DEF FilterRecord, Filtered, Discard, SendFails, Drop, Become, TypeOK
<1>8. CASE Crash
  BY <1>2, <1>8, CrashEffect
<1>9. CASE SyncCopy \/ SyncWrite \/ UNCHANGED vars
  BY <1>2, <1>9 DEF SyncCopy, SyncWrite, message, vars
<1> QED
  BY <1>4, <1>5, <1>6, <1>7, <1>8, <1>9 DEF Next
-----------------------------------------------------------------------------
(* Stops *)

\* As long as no send fails and nothing crashes, a covered device stays covered.
LEMMA CoveredStays ==
  ASSUME IInv, [Next]_vars, failures' = 0, crashes' = 0, NEW d, Covered(d)
  PROVE  Covered(d)'
<1>1. TypeOK /\ ToSet(sent) \subseteq ToSet(sent')
  BY SentStays DEF IInv
<1>2. CASE \E rec \in ToSet(sent) : rec.stop /\ rec.imei = d
  BY <1>1, <1>2 DEF Covered
<1>3. CASE \E n \in Holding : \E i \in ToSet(kept[n]) :
             Records[n][i].stop /\ Records[n][i].imei = d
  <2>0. PICK n \in Holding :
          \E i \in ToSet(kept[n]) : Records[n][i].stop /\ Records[n][i].imei = d
    BY <1>3
  <2>1. PICK i \in ToSet(kept[n]) : Records[n][i].stop /\ Records[n][i].imei = d
    BY <2>0
  <2>2. n \in Msgs
    BY DEF InFlight, Holding
  <2>3. ASSUME n \in Holding', i \in ToSet(kept'[n]) PROVE Covered(d)'
    BY <2>1, <2>3 DEF Covered
  <2>4. ASSUME NEW m \in Msgs, Deliver(m) PROVE Covered(d)'
    <3>1. n # m
      BY <2>4 DEF Deliver, Holding, InFlight
    <3> QED
      BY <1>1, <2>2, <2>3, <2>4, <3>1, DeliverEffect DEF Holding
  <2>5. ASSUME NEW m \in Msgs, FilterRecord(m) PROVE Covered(d)'
    <3>0. status' = status /\ InFlight' = InFlight
      BY <1>1, <2>5, FilterEffect DEF FilterRecord
    <3>1. n \in Holding' /\ i \in ToSet(kept'[n])
      <4>1. n \in Holding'
        BY <3>0 DEF Holding
      <4>2. /\ ToSet(kept[m]) \subseteq ToSet(kept'[m])
            /\ \A o \in Msgs \ {m} : kept'[o] = kept[o]
        BY <1>1, <2>5, FilterEffect
      <4>3. ToSet(kept[n]) \subseteq ToSet(kept'[n])
        BY <2>2, <4>2
      <4> QED
        BY <4>1, <4>3
    <3> QED
      BY <2>3, <3>1
  <2>6. ASSUME NEW m \in Msgs, Filtered(m) \/ AllFiltered(m) \/ Discard(m)
        PROVE  Covered(d)'
    <3>1. kept' = kept /\ (n # m => n \in Holding')
      BY <1>1, <2>2, <2>6, LeaveEffect DEF Holding
    <3>2. CASE n = m
      <4>1. kept[m] # <<>>
        BY <3>2, ToSetEmpty
      <4>2. m \in Holding'
        BY <1>1, <2>6, <4>1
        DEF Filtered, AllFiltered, Discard, Become, Holding, InFlight, TypeOK
      <4> QED
        BY <2>3, <3>1, <3>2, <4>2
    <3> QED
      BY <2>3, <3>1, <3>2
  <2>7. ASSUME NEW m \in Msgs, SendOk(m) PROVE Covered(d)'
    <3>1. CASE n = m
      <4>1. SourceOf(m, i) \in ToSet(sent')
        BY <1>1, <2>7, <3>1, SendsKept
      <4>2. SourceOf(m, i).stop /\ SourceOf(m, i).imei = d
        BY <2>1, <3>1 DEF SourceOf
      <4> QED
        BY <4>1, <4>2 DEF Covered
    <3>2. CASE n # m
      BY <1>1, <2>2, <2>3, <2>7, <3>2, LeaveEffect DEF Holding
    <3> QED
      BY <3>1, <3>2
  <2>8. ASSUME NEW m \in Msgs, SendFails(m) PROVE FALSE
    BY <1>1, <2>8 DEF SendFails, TypeOK
  <2>9. ASSUME NEW m \in Msgs, Drop(m) PROVE Covered(d)'
    <3>1. n # m
      BY <2>9 DEF Drop, InFlight, Holding
    <3> QED
      BY <1>1, <2>2, <2>3, <2>9, <3>1, LeaveEffect DEF Holding
  <2>10. CASE Crash
    BY <1>1, <2>10 DEF Crash, TypeOK
  <2>11. CASE SyncCopy \/ SyncWrite \/ UNCHANGED vars
    BY <2>3, <2>11 DEF SyncCopy, SyncWrite, message, vars, InFlight, Holding
  <2> QED
    BY <2>4, <2>5, <2>6, <2>7, <2>8, <2>9, <2>10, <2>11 DEF Next
<1> QED
  BY <1>2, <1>3 DEF Covered

\* While failures and crashes are zero they were zero before.
LEMMA CalmBefore ==
  ASSUME TypeOK, [Next]_vars, failures' = 0, crashes' = 0
  PROVE  failures = 0 /\ crashes = 0 /\ ~Crash
<1>1. failures \in Nat /\ crashes \in Nat
  BY HandlerAssumption DEF TypeOK
<1>2. failures' \in {failures, failures + 1} /\ crashes' \in {crashes, crashes + 1}
  BY DEF Next, Deliver, FilterRecord, Filtered, AllFiltered, Discard, SendOk, SendFails,
         Drop, SyncCopy, SyncWrite, Crash, vars
<1>3. Crash => crashes' = crashes + 1
  BY DEF Crash
<1> QED
  BY <1>1, <1>2, <1>3

\* The record FilterData has just gone through: the state says "stop" only for a
\* record that was kept, or for one the state had made redundant.
LEMMA StandingStep == ASSUME IInv, [Next]_vars PROVE StandingCovered'
<1> SUFFICES ASSUME failures' = 0, crashes' = 0,
                    NEW d \in Devices, state'[d] = "stop"
             PROVE  Covered(d)'
  BY DEF StandingCovered
<1>1. TypeOK /\ failures = 0 /\ crashes = 0 /\ ~Crash
  BY CalmBefore DEF IInv
<1>2. ASSUME state[d] = "stop" PROVE Covered(d)'
  BY <1>1, <1>2, CoveredStays DEF IInv, StandingCovered
<1>3. ASSUME NEW m \in Msgs, FilterRecord(m) PROVE Covered(d)'
  <2> DEFINE k == pos[m] + 1  rec == Records[m][k]
  <2>1. k \in 1..Len(Records[m]) /\ m \in InFlight'
    BY <1>1, <1>3, FilterEffect
  <2>2. rec.imei \in Devices
    BY <2>1, RecordType
  <2>3. CASE d # rec.imei
    BY <1>1, <1>2, <1>3, <2>3 DEF FilterRecord, TypeOK
  <2>4. CASE d = rec.imei
    <3>1. rec.stop
      BY <1>1, <1>3, <2>2, <2>4 DEF FilterRecord, TypeOK
    <3>2. CASE Redundant(rec)
      BY <1>2, <2>4, <3>2 DEF Redundant
    <3>3. CASE ~Redundant(rec)
      <4>1. k \in ToSet(kept'[m])
        BY <1>1, <1>3, <3>3, FilterEffect
      <4> QED
        BY <2>1, <2>4, <3>1, <4>1 DEF Covered, Holding
    <3> QED
      BY <3>2, <3>3
  <2> QED
    BY <2>3, <2>4
<1> QED
  BY <1>1, <1>2, <1>3
  DEF Next, Deliver, Filtered, AllFiltered, Discard, SendOk, SendFails, Drop, SyncCopy,
      SyncWrite, filter, vars

LEMMA StopsSeenStep == ASSUME IInv, [Next]_vars PROVE StopsSeen'
<1> SUFFICES ASSUME failures' = 0, crashes' = 0,
                    NEW n \in InFlight', NEW k \in 1..pos'[n], Records[n][k].stop
             PROVE  Covered(Records[n][k].imei)'
  BY DEF StopsSeen
<1>1. TypeOK /\ failures = 0 /\ crashes = 0 /\ ~Crash /\ n \in Msgs
  BY CalmBefore DEF IInv, InFlight
<1>2. ASSUME n \in InFlight, k \in 1..pos[n] PROVE Covered(Records[n][k].imei)'
  <2>1. Covered(Records[n][k].imei)
    BY <1>1, <1>2 DEF IInv, StopsSeen
  <2> QED
    BY <2>1, CoveredStays
<1>3. ASSUME NEW m \in Msgs, Deliver(m) PROVE Covered(Records[n][k].imei)'
  <2>1. n # m
    BY <1>1, <1>3, DeliverEffect
  <2> QED
    BY <1>1, <1>2, <1>3, <2>1, DeliverEffect
<1>4. ASSUME NEW m \in Msgs, FilterRecord(m) PROVE Covered(Records[n][k].imei)'
  <2>1. CASE n # m \/ k # pos[m] + 1
    <3>1. /\ n \in InFlight /\ pos[m] \in Nat /\ pos'[m] = pos[m] + 1
          /\ n # m => pos'[n] = pos[n]
      BY <1>1, <1>4, FilterEffect
    <3>2. k \in 1..pos[n]
      BY <2>1, <3>1
    <3> QED
      BY <1>2, <3>1, <3>2
  <2>2. CASE n = m /\ k = pos[m] + 1
    <3>1. k \in 1..Len(Records[m])
      BY <1>1, <1>4, <2>2, FilterEffect
    <3>2. Records[m][k].imei \in Devices
      BY <3>1, RecordType
    <3>3. state'[Records[m][k].imei] = "stop"
      BY <1>1, <1>4, <2>2, <3>2 DEF FilterRecord, TypeOK
    <3> QED
      BY <2>2, <3>2, <3>3, StandingStep DEF StandingCovered
  <2> QED
    BY <2>1, <2>2
<1>5. ASSUME NEW m \in Msgs,
             \/ Filtered(m) \/ AllFiltered(m) \/ Discard(m)
             \/ SendOk(m) \/ SendFails(m) \/ Drop(m)
      PROVE  Covered(Records[n][k].imei)'
  BY <1>1, <1>2, <1>5, LeaveEffect
<1>6. CASE SyncCopy \/ SyncWrite \/ UNCHANGED vars
  BY <1>2, <1>6 DEF SyncCopy, SyncWrite, message, vars, InFlight
<1> QED
  BY <1>1, <1>3, <1>4, <1>5, <1>6 DEF Next

LEMMA StopsSettledStep == ASSUME IInv, [Next]_vars PROVE StopsSettled'
<1> SUFFICES ASSUME failures' = 0, crashes' = 0,
                    NEW n \in Msgs, status'[n] \in {"acked", "discarded"},
                    NEW k \in 1..Len(Records[n]), Records[n][k].stop
             PROVE  Covered(Records[n][k].imei)'
  BY DEF StopsSettled, Acknowledged
<1>1. TypeOK /\ failures = 0 /\ crashes = 0 /\ ~Crash
  BY CalmBefore DEF IInv
<1>2. ASSUME status[n] = status'[n] PROVE Covered(Records[n][k].imei)'
  <2>1. Covered(Records[n][k].imei)
    BY <1>1, <1>2 DEF IInv, StopsSettled, Acknowledged
  <2> QED
    BY <2>1, CoveredStays
<1>3. ASSUME n \in InFlight, pos[n] = Len(Records[n])
      PROVE  Covered(Records[n][k].imei)'
  <2>1. Covered(Records[n][k].imei)
    BY <1>1, <1>3 DEF IInv, StopsSeen
  <2> QED
    BY <2>1, CoveredStays
<1>4. ASSUME NEW m \in Msgs, Deliver(m) PROVE Covered(Records[n][k].imei)'
  <2>1. n # m
    <3>1. SUFFICES ASSUME n = m PROVE FALSE
      OBVIOUS
    <3>2. Records[n] = <<>>
      BY <1>1, <1>4, <3>1, DeliverEffect
    <3>3. Len(Records[n]) = 0
      BY <3>2, EmptySeq
    <3> QED
      BY <3>3
  <2> QED
    BY <1>1, <1>2, <1>4, <2>1, DeliverEffect
<1>5. ASSUME NEW m \in Msgs, AllFiltered(m) \/ Discard(m) \/ SendOk(m)
      PROVE  Covered(Records[n][k].imei)'
  <2>1. CASE n # m
    BY <1>1, <1>2, <1>5, <2>1, LeaveEffect
  <2>2. CASE n = m
    <3>1. n \in InFlight /\ pos[n] = Len(Records[n])
      BY <1>5, <2>2 DEF AllFiltered, Discard, SendOk, InFlight, IInv, Through
    <3> QED
      BY <1>3, <3>1
  <2> QED
    BY <2>1, <2>2
<1>6. ASSUME NEW m \in Msgs, FilterRecord(m) \/ Filtered(m) \/ SendFails(m) \/ Drop(m)
      PROVE  Covered(Records[n][k].imei)'
  BY <1>1, <1>2, <1>6 DEF FilterRecord, Filtered, SendFails, Drop, Become, TypeOK
<1>7. CASE SyncCopy \/ SyncWrite \/ UNCHANGED vars
  BY <1>2, <1>7 DEF SyncCopy, SyncWrite, message, vars
<1> QED
  BY <1>1, <1>4, <1>5, <1>6, <1>7 DEF Next

-----------------------------------------------------------------------------
(* The results *)

\* IInv is an invariant: the basis of the results below.
THEOREM Inductive == Spec => []IInv
<1>1. Init => IInv
  <2> SUFFICES ASSUME Init PROVE IInv
    OBVIOUS
  <2>1. TypeOK
    BY TypeInit
  <2>2. InFlight = {} /\ \A m \in Msgs : status[m] = "queued"
    BY DEF Init, InFlight
  <2>3. \A d \in Devices : state[d] # "stop"
    BY DEF Init, None
  <2>4. Through /\ MovesKept /\ MovesReached /\ DiscardedOdd
    BY <2>2 DEF Through, MovesKept, MovesReached, DiscardedOdd
  <2>5. StandingCovered /\ StopsSeen /\ StopsSettled
    BY <2>2, <2>3 DEF StandingCovered, StopsSeen, StopsSettled, Acknowledged
  <2> QED
    BY <2>1, <2>4, <2>5 DEF IInv
<1>2. IInv /\ [Next]_vars => IInv'
  <2> SUFFICES ASSUME IInv, [Next]_vars PROVE IInv'
    OBVIOUS
  <2>1. TypeOK' /\ Through' /\ MovesKept' /\ MovesReached' /\ DiscardedOdd'
    BY TypeStep, ThroughStep, MovesKeptStep, MovesReachedStep, DiscardedOddStep DEF IInv
  <2>2. StandingCovered' /\ StopsSeen' /\ StopsSettled'
    BY StandingStep, StopsSeenStep, StopsSettledStep
  <2> QED
    BY <2>1, <2>2 DEF IInv
<1> QED
  BY <1>1, <1>2, PTL DEF Spec

\* "All movement records are always kept" (stoppage_filter.go:121): each movement
\* of an acknowledged message whose kept records can be encoded has reached a
\* destination, for any messages handled at a time, redeliveries, failed sends and
\* restarts (messageHandler, FilterData).
THEOREM MovesCorrect == Spec => []MovesDelivered
<1>1. IInv => MovesDelivered
  <2> SUFFICES ASSUME IInv, NEW m \in Acknowledged, Encodable(m),
                      NEW k \in DOMAIN Records[m], ~Records[m][k].stop
               PROVE  \E j \in DOMAIN sent : sent[j].msg = m /\ sent[j].nr = k
    BY DEF MovesDelivered
  <2>0. m \in Msgs /\ status[m] = "acked"
    BY DEF Acknowledged, IInv, DiscardedOdd
  <2>1. k \in 1..Len(Records[m])
    BY <2>0, RecordType
  <2>2. PICK rec \in ToSet(sent) : rec.msg = m /\ rec.nr = k
    BY <2>0, <2>1 DEF IInv, MovesReached
  <2> QED
    BY <2>2 DEF ToSet
<1> QED
  BY <1>1, Inductive, PTL

\* As long as no send fails and nothing crashes, a stop the filter leaves out is
\* covered by one that was sent, is about to be, or went with a message that could
\* not be encoded, for any messages (FilterData, messageHandler).
THEOREM StopsCorrect == Spec => []StopCovered
<1>1. IInv => StopCovered
  <2> SUFFICES ASSUME IInv, failures = 0, crashes = 0,
                      NEW m \in Acknowledged,
                      NEW k \in DOMAIN Records[m], Records[m][k].stop
               PROVE  \/ \E j \in DOMAIN sent :
                           sent[j].stop /\ sent[j].imei = Records[m][k].imei
                      \/ \E n \in Holding : \E i \in ToSet(kept[n]) :
                           Records[n][i].stop /\ Records[n][i].imei = Records[m][k].imei
    BY DEF StopCovered
  <2>1. k \in 1..Len(Records[m])
    BY RecordType DEF Acknowledged
  <2>2. Covered(Records[m][k].imei)
    BY <2>1 DEF IInv, StopsSettled
  <2>3. ASSUME NEW rec \in ToSet(sent), rec.stop, rec.imei = Records[m][k].imei
        PROVE  \E j \in DOMAIN sent :
                 sent[j].stop /\ sent[j].imei = Records[m][k].imei
    BY <2>3 DEF ToSet
  <2> QED
    BY <2>2, <2>3 DEF Covered
<1> QED
  BY <1>1, Inductive, PTL

-----------------------------------------------------------------------------
(* What a message is made of: nothing of it is lost, and nothing is doubled *)

\* The numbers in q are those of N, each once.
Numbered(q, N) ==
  /\ \A k \in DOMAIN q : q[k].n \in N
  /\ \A x \in N : \E k \in DOMAIN q : q[k].n = x
  /\ \A j, k \in DOMAIN q : q[j].n = q[k].n => j = k

\* q lists the objects of o with the numbers N.
Lists(q, o, N) ==
  /\ q \in Seq(ToSet(o)) /\ Numbered(q, N)
  /\ \A k \in DOMAIN q : q[k] = o[q[k].n]

\* A number of N is found at one place.
LEMMA FoundOnce ==
  ASSUME NEW q, NEW N, Numbered(q, N), NEW x
  PROVE  Cardinality({k \in DOMAIN q : q[k].n = x}) = IF x \in N THEN 1 ELSE 0
<1> DEFINE F == {k \in DOMAIN q : q[k].n = x}
<1>1. CASE x \in N
  <2>1. PICK k \in DOMAIN q : q[k].n = x
    BY <1>1 DEF Numbered
  <2>2. F = {k}
    BY <2>1 DEF Numbered
  <2> QED
    BY <1>1, <2>2, FS_Singleton
<1>2. CASE x \notin N
  <2>1. F = {}
    BY <1>2 DEF Numbered
  <2> QED
    BY <1>2, <2>1, FS_EmptySet
<1> QED
  BY <1>1, <1>2

\* Those takes what it returns from its places.
LEMMA ThoseFrom ==
  ASSUME NEW A, NEW q \in Seq(A), NEW P \in SUBSET (DOMAIN q)
  PROVE  /\ Those(q, P) \in Seq(A)
         /\ \A k \in DOMAIN Those(q, P) : \E j \in P : Those(q, P)[k] = q[j]
<1>1. DOMAIN q = 1..Len(q) /\ Len(q) \in Nat
  BY LenProperties
<1>2. IsFiniteSet(P) /\ Those(q, P) \in Seq(A)
  BY <1>1, Picked
<1>3. PICK at \in SetToSeqs(P) : Those(q, P) = [k \in 1..Len(at) |-> q[at[k]]]
  BY <1>1, Picked
<1>4. at \in Seq(P) /\ Len(at) \in Nat
  BY <1>2, Listing
<1>5. \A k \in 1..Len(at) : at[k] \in P
  BY <1>4, ElementOfSeq
<1> QED
  BY <1>2, <1>3, <1>5

\* It keeps the numbers at its places.
LEMMA ThoseNumbered ==
  ASSUME NEW A, NEW q \in Seq(A), NEW N, Numbered(q, N), NEW P \in SUBSET (DOMAIN q)
  PROVE  Numbered(Those(q, P), {q[k].n : k \in P})
<1>1. DOMAIN q = 1..Len(q) /\ Len(q) \in Nat
  BY LenProperties
<1>2. IsFiniteSet(P) /\ Those(q, P) \in Seq(A)
  BY <1>1, Picked
<1>3. PICK at \in SetToSeqs(P) : Those(q, P) = [k \in 1..Len(at) |-> q[at[k]]]
  BY <1>1, Picked
<1>4. /\ at \in Seq(P) /\ Len(at) \in Nat
      /\ \A i, j \in 1..Len(at) : i # j => at[i] # at[j]
      /\ \A x \in P : \E i \in 1..Len(at) : at[i] = x
  BY <1>2, Listing
<1>5. \A k \in 1..Len(at) : at[k] \in P
  BY <1>4, ElementOfSeq
<1> DEFINE t == Those(q, P)
           M == {q[k].n : k \in P}
<1>6. DOMAIN t = 1..Len(at) /\ \A k \in 1..Len(at) : t[k] = q[at[k]]
  BY <1>3
<1> HIDE DEF t
<1>7. \A k \in DOMAIN t : t[k].n \in M
  BY <1>5, <1>6
<1>8. ASSUME NEW x \in M PROVE \E k \in DOMAIN t : t[k].n = x
  <2>1. PICK j \in P : q[j].n = x
    OBVIOUS
  <2>2. PICK i \in 1..Len(at) : at[i] = j
    BY <1>4
  <2> QED
    BY <1>6, <2>1, <2>2
<1>9. ASSUME NEW j \in DOMAIN t, NEW k \in DOMAIN t, t[j].n = t[k].n PROVE j = k
  <2>1. at[j] \in DOMAIN q /\ at[k] \in DOMAIN q /\ q[at[j]].n = q[at[k]].n
    BY <1>5, <1>6, <1>9
  <2>2. at[j] = at[k]
    BY <2>1 DEF Numbered
  <2> QED
    BY <1>4, <1>6, <2>2
<1> QED
  BY <1>7, <1>8, <1>9 DEF t, Numbered

\* Some places of a list
LEMMA ThoseLists ==
  ASSUME NEW o, NEW N, NEW q, Lists(q, o, N), NEW P \in SUBSET (DOMAIN q),
         NEW M \in SUBSET N, \A k \in DOMAIN q : k \in P <=> q[k].n \in M
  PROVE  Lists(Those(q, P), o, M)
<1>1. q \in Seq(ToSet(o)) /\ Numbered(q, N)
  BY DEF Lists
<1>2. M = {q[k].n : k \in P}
  BY <1>1 DEF Numbered
<1>3. /\ Those(q, P) \in Seq(ToSet(o)) /\ Numbered(Those(q, P), M)
      /\ \A k \in DOMAIN Those(q, P) : \E j \in P : Those(q, P)[k] = q[j]
  <2>1. Numbered(Those(q, P), {q[k].n : k \in P})
    BY <1>1, ThoseNumbered
  <2>2. Numbered(Those(q, P), M)
    BY <1>2, <2>1
  <2> QED
    BY <1>1, <2>2, ThoseFrom
<1>4. \A k \in DOMAIN Those(q, P) : Those(q, P)[k] = o[Those(q, P)[k].n]
  BY <1>3 DEF Lists
<1> QED
  BY <1>3, <1>4 DEF Lists

\* One list after another
LEMMA ListsJoined ==
  ASSUME NEW o, NEW N, NEW M, N \cap M = {}, NEW q, NEW r, Lists(q, o, N), Lists(r, o, M),
         NEW c, c = q \o r
  PROVE  Lists(c, o, N \cup M)
<1> DEFINE A == ToSet(o)
           m == Len(q)
           l == Len(r)
<1>1. q \in Seq(A) /\ r \in Seq(A) /\ Numbered(q, N) /\ Numbered(r, M)
  BY DEF Lists
<1>2. m \in Nat /\ l \in Nat /\ DOMAIN q = 1..m /\ DOMAIN r = 1..l
  BY <1>1, LenProperties
<1>3. /\ c \in Seq(A) /\ Len(c) = m + l
      /\ \A i \in 1..(m + l) : c[i] = IF i <= m THEN q[i] ELSE r[i - m]
  BY <1>1, ConcatProperties
<1>4. DOMAIN c = 1..(m + l)
  BY <1>3, LenProperties
<1> HIDE DEF A, m, l
<1>5. \A i \in DOMAIN c : \/ i \in DOMAIN q /\ c[i] = q[i]
                          \/ i - m \in DOMAIN r /\ c[i] = r[i - m]
  BY <1>2, <1>3, <1>4
<1>6. \A i \in DOMAIN q : i \in DOMAIN c /\ c[i] = q[i]
  BY <1>2, <1>3, <1>4
<1>7. \A i \in DOMAIN r : i + m \in DOMAIN c /\ c[i + m] = r[i]
  <2> SUFFICES ASSUME NEW i \in DOMAIN r PROVE i + m \in DOMAIN c /\ c[i + m] = r[i]
    OBVIOUS
  <2>1. i + m \in 1..(m + l) /\ ~(i + m <= m) /\ (i + m) - m = i
    BY <1>2
  <2> QED
    BY <1>3, <1>4, <2>1
<1>8. \A i \in DOMAIN c : c[i].n \in N \cup M /\ c[i] = o[c[i].n]
  BY <1>1, <1>5 DEF Lists, Numbered
<1>9. \A x \in N \cup M : \E i \in DOMAIN c : c[i].n = x
  <2>1. \A x \in N : \E i \in DOMAIN c : c[i].n = x
    BY <1>1, <1>6 DEF Numbered
  <2>2. ASSUME NEW x \in M PROVE \E i \in DOMAIN c : c[i].n = x
    <3>1. PICK i \in DOMAIN r : r[i].n = x
      BY <1>1 DEF Numbered
    <3> QED
      BY <1>7, <3>1
  <2> QED
    BY <2>1, <2>2
<1>10. ASSUME NEW i \in DOMAIN c, NEW j \in DOMAIN c, c[i].n = c[j].n PROVE i = j
  <2>1. CASE i \in DOMAIN q /\ c[i] = q[i] /\ j \in DOMAIN q /\ c[j] = q[j]
    BY <1>1, <1>10, <2>1 DEF Numbered
  <2>2. CASE i - m \in DOMAIN r /\ c[i] = r[i - m] /\ j - m \in DOMAIN r /\ c[j] = r[j - m]
    <3>1. i - m = j - m
      BY <1>1, <1>10, <2>2 DEF Numbered
    <3> QED
      BY <1>2, <1>4, <3>1
  <2>3. CASE i \in DOMAIN q /\ c[i] = q[i] /\ j - m \in DOMAIN r /\ c[j] = r[j - m]
    BY <1>1, <1>10, <2>3 DEF Numbered
  <2>4. CASE i - m \in DOMAIN r /\ c[i] = r[i - m] /\ j \in DOMAIN q /\ c[j] = q[j]
    BY <1>1, <1>10, <2>4 DEF Numbered
  <2> QED
    BY <1>5, <2>1, <2>2, <2>3, <2>4
<1>11. Numbered(c, N \cup M)
  BY <1>8, <1>9, <1>10 DEF Numbered
<1>12. c \in Seq(ToSet(o))
  BY <1>3 DEF A
<1> QED
  BY <1>8, <1>11, <1>12 DEF Lists

\* Sorting keeps the numbers, and puts the records in the order of their time.
LEMMA ByTimeNumbered ==
  ASSUME NEW A, NEW r \in Seq(A), NEW N, Numbered(r, N), NEW q \in ByTime(r)
  PROVE  /\ q \in Seq(A) /\ Len(q) = Len(r) /\ Numbered(q, N)
         /\ \A k \in DOMAIN q : \E j \in DOMAIN r : q[k] = r[j]
         /\ \A k \in 1..(Len(q) - 1) : q[k].time <= q[k + 1].time
<1> DEFINE l == Len(r)
<1>1. l \in Nat /\ DOMAIN r = 1..l
  BY LenProperties
<1>2. PICK p \in SetToSeqs(1..l) :
        /\ \A i, j \in DOMAIN p : i < j => r[p[i]].time <= r[p[j]].time
        /\ q = [k \in 1..l |-> r[p[k]]]
  BY <1>1 DEF ByTime
<1> HIDE DEF l
<1>3. IsFiniteSet(1..l) /\ Cardinality(1..l) = l
  BY <1>1, FS_Interval
<1>4. /\ p \in Seq(1..l) /\ Len(p) = l /\ DOMAIN p = 1..l
      /\ \A i, j \in 1..l : i # j => p[i] # p[j]
      /\ \A x \in 1..l : \E i \in 1..l : p[i] = x
  BY <1>3, Listing
<1>5. \A k \in 1..l : p[k] \in 1..l
  BY <1>4, ElementOfSeq
<1>6. DOMAIN q = 1..l /\ \A k \in 1..l : q[k] = r[p[k]]
  BY <1>2
<1>7. q \in Seq(A) /\ Len(q) = l
  <2>1. \A k \in 1..l : r[p[k]] \in A
    BY <1>1, <1>5, ElementOfSeq DEF l
  <2> QED
    BY <1>1, <1>2, <2>1, IsASeq, LenProperties
<1>8. Numbered(q, N)
  <2>1. \A k \in DOMAIN q : q[k].n \in N
    BY <1>1, <1>5, <1>6 DEF Numbered
  <2>2. ASSUME NEW x \in N PROVE \E k \in DOMAIN q : q[k].n = x
    <3>1. PICK j \in 1..l : r[j].n = x
      BY <1>1 DEF Numbered
    <3>2. PICK i \in 1..l : p[i] = j
      BY <1>4
    <3> QED
      BY <1>6, <3>1, <3>2
  <2>3. ASSUME NEW i \in DOMAIN q, NEW j \in DOMAIN q, q[i].n = q[j].n PROVE i = j
    <3>1. p[i] = p[j]
      BY <1>1, <1>5, <1>6, <2>3 DEF Numbered
    <3> QED
      BY <1>4, <1>6, <3>1
  <2> QED
    BY <2>1, <2>2, <2>3 DEF Numbered
<1>9. ASSUME NEW k \in 1..(l - 1) PROVE q[k].time <= q[k + 1].time
  <2>1. k \in 1..l /\ k + 1 \in 1..l /\ k < k + 1
    BY <1>1
  <2> QED
    BY <1>2, <1>4, <1>6, <2>1
<1>10. \A k \in DOMAIN q : \E j \in DOMAIN r : q[k] = r[j]
  BY <1>1, <1>5, <1>6
<1> QED
  BY <1>7, <1>8, <1>9, <1>10 DEF l

\* Records made of the objects of a sequence, place by place
LEMMA RecordsNumbered ==
  ASSUME NEW A, NEW q \in Seq(A), NEW N, Numbered(q, N),
         NEW B, NEW r \in [DOMAIN q -> B], \A k \in DOMAIN q : r[k].n = q[k].n
  PROVE  r \in Seq(B) /\ Len(r) = Len(q) /\ Numbered(r, N)
<1> DEFINE l == Len(q)
<1>1. l \in Nat /\ DOMAIN q = 1..l
  BY LenProperties
<1> HIDE DEF l
<1>2. r \in [1..l -> B]
  BY <1>1
<1>3. r \in Seq(B) /\ Len(r) = l
  BY <1>1, <1>2, LenProperties
<1>4. Numbered(r, N)
  BY DEF Numbered
<1> QED
  BY <1>3, <1>4 DEF l

\* A message numbers its objects.
LEMMA ObjectsListed ==
  ASSUME NEW kinds, NEW imeis, NEW o \in Objects(kinds, imeis)
  PROVE  /\ o \in Seq([kind : kinds, time : Seconds, n : Nat, imei : imeis])
         /\ \A k \in DOMAIN o : o[k].n = k
         /\ Lists(o, o, DOMAIN o)
         /\ \A k \in DOMAIN o : o[k] # Whole
<1> DEFINE A == [kind : kinds, time : Seconds, n : Nat, imei : imeis]
<1> DEFINE Made(len, of, at, by) ==
             [k \in 1..len |-> [kind |-> of[k], time |-> at[k], n |-> k, imei |-> by[k]]]
           OfLen(len) == {Made(len, of, at, by) :
                            of \in [1..len -> kinds], at \in [1..len -> Seconds], by \in [1..len -> imeis]}
<1>1. PICK len \in 0..MaxObjects : o \in OfLen(len)
  <2>1. Objects(kinds, imeis) = UNION {OfLen(len) : len \in 0..MaxObjects}
    BY DEF Objects
  <2> HIDE DEF OfLen
  <2> QED
    BY <2>1
<1>2. PICK of \in [1..len -> kinds], at \in [1..len -> Seconds], by \in [1..len -> imeis] :
        o = [k \in 1..len |-> [kind |-> of[k], time |-> at[k], n |-> k, imei |-> by[k]]]
  <2> HIDE DEF Made
  <2>1. \E of \in [1..len -> kinds], at \in [1..len -> Seconds], by \in [1..len -> imeis] :
          o = Made(len, of, at, by)
    BY <1>1
  <2> QED
    BY <2>1 DEF Made
<1> HIDE DEF Made, OfLen
<1>3. len \in Nat
  BY ParsingAssumption
<1>4. \A k \in 1..len : o[k] \in A /\ o[k].n = k /\ o[k] = [kind |-> of[k], time |-> at[k], n |-> k, imei |-> by[k]]
  BY <1>2, <1>3
<1>5. DOMAIN o = 1..len /\ o = [k \in 1..len |-> o[k]]
  BY <1>2
<1>6. o \in Seq(A)
  <2>1. \A k \in 1..len : o[k] \in A
    BY <1>4
  <2> HIDE DEF A
  <2>2. [k \in 1..len |-> o[k]] \in Seq(A)
    BY <1>3, <2>1, IsASeq
  <2> QED
    BY <1>5, <2>2
<1>7. Lists(o, o, DOMAIN o)
  <2>1. o \in Seq(ToSet(o))
    <3>1. \A k \in 1..len : o[k] \in ToSet(o)
      BY <1>5 DEF ToSet
    <3>2. [k \in 1..len |-> o[k]] \in Seq(ToSet(o))
      BY <1>3, <3>1, IsASeq
    <3> QED
      BY <1>5, <3>2
  <2>2. Numbered(o, DOMAIN o)
    BY <1>4, <1>5 DEF Numbered
  <2> QED
    BY <1>4, <1>5, <2>1, <2>2 DEF Lists
<1>8. ASSUME NEW k \in 1..len PROVE o[k] # Whole
  <2>1. DOMAIN o[k] = {"kind", "time", "n", "imei"}
    BY <1>4
  <2>2. DOMAIN Whole = {"whole"}
    BY DEF Whole
  <2> QED
    BY <2>1, <2>2
<1> QED
  BY <1>4, <1>5, <1>6, <1>7, <1>8

\* The records that are forwarded
Given == [time : Seconds, n : Nat, imei : Imeis \cup {NoImei}]

\* What a parser makes of the objects of body: records of some, and others that are
\* invalid.
Told(body, parsed) ==
  /\ parsed.ok
  /\ parsed.records \in Seq(Given)
  /\ \E N, M : /\ N \cap M = {}
               /\ Numbered(parsed.records, N)
               /\ Lists(parsed.invalid, body.objects, M)
               /\ Traceable(body) \subseteq N \cup M

LEMMA NoneListed == ASSUME NEW o PROVE Lists(<<>>, o, {})
<1>1. <<>> \in Seq(ToSet(o)) /\ DOMAIN <<>> = {}
  OBVIOUS
<1> QED
  BY <1>1 DEF Lists, Numbered

\* A parser that makes a record of every object, of whatever device it takes it to be.
LEMMA AllTold ==
  ASSUME NEW body, NEW kinds, NEW imeis, body.objects \in Objects(kinds, imeis),
         NEW owner \in [DOMAIN body.objects -> Imeis \cup {NoImei}],
         NEW parsed,
         parsed = Parsed([k \in DOMAIN body.objects |-> Record(body.objects[k], owner[k])], <<>>)
  PROVE  Told(body, parsed)
<1> DEFINE o == body.objects
           A == [kind : kinds, time : Seconds, n : Nat, imei : imeis]
           N == DOMAIN o
           r == [k \in DOMAIN o |-> Record(o[k], owner[k])]
<1>1. o \in Seq(A) /\ Lists(o, o, N)
  BY ObjectsListed
<1>2. Numbered(o, N)
  BY <1>1 DEF Lists
<1>3. \A k \in DOMAIN o : o[k] \in A
  BY <1>1, LenProperties, ElementOfSeq
<1>4. r \in [DOMAIN o -> Given] /\ \A k \in DOMAIN o : r[k].n = o[k].n
  BY <1>3 DEF Record, Given
<1>5. Traceable(body) \subseteq N
  BY DEF Traceable
<1> HIDE DEF r, A
<1>6. r \in Seq(Given) /\ Numbered(r, N)
  <2> HIDE DEF N, o
  <2> QED
    BY <1>1, <1>2, <1>4, RecordsNumbered DEF N
<1>7. Lists(<<>>, o, {})
  BY NoneListed
<1>8. parsed.ok /\ parsed.records = r /\ parsed.invalid = <<>>
  BY DEF Parsed, r
<1> HIDE DEF N
<1>9. N \cap {} = {} /\ Traceable(body) \subseteq N \cup {}
  BY <1>5
<1> QED
  BY <1>6, <1>7, <1>8, <1>9 DEF Told

\* parseTeltonikaAVL gives every record, with no device.
LEMMA AVLTold ==
  ASSUME NEW body, NEW kinds, NEW imeis, body.objects \in Objects(kinds, imeis),
         NEW parsed, parsed = ParseAVL(body)
  PROVE  parsed = Failure \/ Told(body, parsed)
<1> DEFINE o == body.objects
           owner == [k \in DOMAIN o |-> NoImei]
<1>1. owner \in [DOMAIN o -> Imeis \cup {NoImei}]
  OBVIOUS
<1>2. parsed = Failure \/ parsed = Parsed([k \in DOMAIN o |-> Record(o[k], owner[k])], <<>>)
  BY DEF ParseAVL
<1> HIDE DEF owner
<1> QED
  BY <1>1, <1>2, AllTold

\* unmarshalTeltonikaEnvelope gives every record, with its device or the envelope's.
LEMMA EnvelopeTold ==
  ASSUME NEW body, NEW kinds, body.imei \in Imeis,
         body.objects \in Objects(kinds, Imeis \cup {NoImei}),
         NEW parsed, parsed = ParseEnvelope(body)
  PROVE  parsed = Failure \/ Told(body, parsed)
<1> DEFINE o == body.objects
           A == [kind : kinds, time : Seconds, n : Nat, imei : Imeis \cup {NoImei}]
           owner == [k \in DOMAIN o |-> IF o[k].imei = NoImei THEN body.imei ELSE o[k].imei]
<1>1. \A k \in DOMAIN o : o[k] \in A
  <2>1. o \in Seq(A)
    BY ObjectsListed
  <2>2. DOMAIN o = 1..Len(o)
    BY <2>1, LenProperties
  <2> HIDE DEF A, o
  <2> QED
    BY <2>1, <2>2, ElementOfSeq
<1>2. owner \in [DOMAIN o -> Imeis \cup {NoImei}]
  BY <1>1
<1>3. parsed = Failure \/ parsed = Parsed([k \in DOMAIN o |-> Record(o[k], owner[k])], <<>>)
  BY DEF ParseEnvelope
<1> HIDE DEF owner
<1> QED
  BY <1>2, <1>3, AllTold

\* A JSON body: every object that can be found is converted or is invalid.
LEMMA JSONTold ==
  ASSUME NEW body, body.objects \in Objects(ObjectKinds, Imeis),
         NEW parsed, parsed = ParseHooshnicJSON(body)
  PROVE  parsed = Failure \/ Told(body, parsed)
<1> DEFINE o == body.objects
           T == Traceable(body)
           A == [kind : ObjectKinds, time : Seconds, n : Nat, imei : Imeis]
           N == DOMAIN o
           pre == Preprocess(o)
           N0 == {k \in N : k = 1 \/ o[k].kind # "empty"}
           decodes == Decodes(body)
           found == IF decodes THEN [items |-> pre, invalid |-> <<>>] ELSE ExtractDataItems(pre)
           good == {k \in DOMAIN found.items : Converts(found.items[k])}
           items == Those(found.items, good)
           rest == Those(found.items, DOMAIN found.items \ good)
           r == [k \in DOMAIN items |-> Record(items[k], items[k].imei)]
<1>1. /\ o \in Seq(A) /\ Lists(o, o, N)
      /\ \A k \in N : o[k].n = k
  BY ObjectsListed
<1>2. \A k \in N : o[k] \in A
  <2> HIDE DEF A, o
  <2>1. DOMAIN o = 1..Len(o)
    BY <1>1, LenProperties
  <2> QED
    BY <1>1, <2>1, ElementOfSeq
<1>3. parsed = Failure \/ parsed = Parsed(r, found.invalid \o rest)
  BY DEF ParseHooshnicJSON
<1>4. Lists(pre, o, N0)
  <2>1. pre = Those(o, N0)
    BY DEF Preprocess
  <2>2. \A k \in DOMAIN o : k \in N0 <=> o[k].n \in N0
    BY <1>1
  <2>3. N0 \in SUBSET N
    OBVIOUS
  <2> HIDE DEF N0
  <2> QED
    BY <1>1, <2>1, <2>2, <2>3, ThoseLists
<1>5. T \subseteq N0 /\ (~decodes => \A x \in T : Begins(o[x]))
  BY DEF Traceable, Begins, HasData
<1> HIDE DEF N0, pre, decodes, T
<1>6. \E M, K : /\ Lists(found.items, o, M) /\ Lists(found.invalid, o, K)
                /\ M \cap K = {} /\ M \subseteq N
                /\ T \subseteq M \cup K
  <2>1. CASE decodes
    <3>1. found.items = pre /\ found.invalid = <<>>
      BY <2>1
    <3>2. N0 \cap {} = {} /\ N0 \subseteq N
      BY DEF N0
    <3> QED
      BY <1>4, <1>5, <3>1, <3>2, NoneListed
  <2>2. CASE ~decodes
    <3> DEFINE M == {x \in N0 : Extracts(o[x])}
               K == {x \in N0 : Begins(o[x]) /\ ~Extracts(o[x])}
               P == {k \in DOMAIN pre : Extracts(pre[k])}
               Q == {k \in DOMAIN pre : Begins(pre[k]) /\ ~Extracts(pre[k])}
    <3>1. found = ExtractDataItems(pre)
      BY <2>2
    <3>2. found.items = Those(pre, P) /\ found.invalid = Those(pre, Q)
      BY <3>1 DEF ExtractDataItems
    <3>3. P \in SUBSET (DOMAIN pre) /\ Q \in SUBSET (DOMAIN pre) /\ M \in SUBSET N0 /\ K \in SUBSET N0
      OBVIOUS
    <3>4. \A k \in DOMAIN pre : pre[k] = o[pre[k].n] /\ pre[k].n \in N0
      BY <1>4 DEF Lists, Numbered
    <3>5. \A k \in DOMAIN pre : (k \in P <=> pre[k].n \in M) /\ (k \in Q <=> pre[k].n \in K)
      BY <3>4
    <3>6. M \cap K = {} /\ M \subseteq N /\ T \subseteq M \cup K
      BY <1>5, <2>2 DEF N0
    <3> HIDE DEF M, K, P, Q
    <3>7. Lists(Those(pre, P), o, M) /\ Lists(Those(pre, Q), o, K)
      BY <1>4, <3>3, <3>5, ThoseLists
    <3> QED
      BY <3>2, <3>6, <3>7
  <2> QED
    BY <2>1, <2>2
<1>7. PICK M, K : /\ Lists(found.items, o, M) /\ Lists(found.invalid, o, K)
                  /\ M \cap K = {} /\ M \subseteq N
                  /\ T \subseteq M \cup K
  BY <1>6
<1> DEFINE all == found.items
           M1 == {x \in M : Converts(o[x])}
           M2 == {x \in M : ~Converts(o[x])}
           P == {k \in DOMAIN all : Converts(all[k])}
           Q == {k \in DOMAIN all : ~Converts(all[k])}
<1>8. items = Those(all, P) /\ rest = Those(all, Q)
  <2>1. Q = DOMAIN all \ P
    OBVIOUS
  <2> QED
    BY <2>1
<1> HIDE DEF found, items, rest
<1>9. /\ P \in SUBSET (DOMAIN all) /\ Q \in SUBSET (DOMAIN all)
      /\ M1 \in SUBSET M /\ M2 \in SUBSET M /\ M1 \cup M2 = M
  OBVIOUS
<1>10. \A k \in DOMAIN all : (k \in P <=> all[k].n \in M1) /\ (k \in Q <=> all[k].n \in M2)
  BY <1>7 DEF Lists, Numbered
<1>11. M1 \cap (K \cup M2) = {} /\ K \cap M2 = {}
  BY <1>7
<1>12. T \subseteq M1 \cup (K \cup M2)
  BY <1>7
<1> HIDE DEF M1, M2, P, Q
<1>13. Lists(items, o, M1) /\ Lists(rest, o, M2)
  BY <1>7, <1>8, <1>9, <1>10, ThoseLists
<1>14. Lists(found.invalid \o rest, o, K \cup M2)
  BY <1>7, <1>11, <1>13, ListsJoined
<1>15. items \in Seq(A) /\ Numbered(items, M1) /\ \A k \in DOMAIN items : items[k] \in A
  <2>1. items \in Seq(ToSet(o)) /\ Numbered(items, M1)
    BY <1>13 DEF Lists
  <2>2. ToSet(o) \subseteq A
    BY <1>1, ToSetType
  <2> HIDE DEF A
  <2>3. items \in Seq(A)
    BY <2>1, <2>2, SeqMonotonic
  <2> QED
    BY <2>1, <2>3, LenProperties, ElementOfSeq
<1>16. r \in [DOMAIN items -> Given] /\ \A k \in DOMAIN items : r[k].n = items[k].n
  BY <1>15 DEF Record, Given
<1> HIDE DEF r, A
<1>17. r \in Seq(Given) /\ Numbered(r, M1)
  BY <1>15, <1>16, RecordsNumbered
<1>18. ASSUME parsed = Parsed(r, found.invalid \o rest) PROVE Told(body, parsed)
  <2>1. parsed.ok /\ parsed.records = r /\ parsed.invalid = found.invalid \o rest
    BY <1>18 DEF Parsed
  <2> QED
    BY <1>11, <1>12, <1>14, <1>17, <2>1 DEF Told, T
<1> QED
  BY <1>3, <1>18

\* Of a message of the queue
Accounted(body, out) ==
  /\ out.forward \o out.invalid # <<>>
  /\ body.form # "unknown" =>
       \A k \in Traceable(body) :
         Cardinality({j \in DOMAIN out.forward : out.forward[j].n = k})
           + Cardinality({j \in DOMAIN out.invalid :
                            out.invalid[j] = Whole \/ out.invalid[j].n = k}) = 1

\* The whole message is invalid.
LEMMA WholeCounts ==
  ASSUME NEW body, NEW out, out.forward = <<>>, out.invalid = <<Whole>>
  PROVE  Accounted(body, out)
<1>1. <<>> \o <<Whole>> # <<>>
  OBVIOUS
<1>2. ASSUME NEW k
      PROVE  Cardinality({j \in DOMAIN out.forward : out.forward[j].n = k})
               + Cardinality({j \in DOMAIN out.invalid :
                                out.invalid[j] = Whole \/ out.invalid[j].n = k}) = 1
  <2> DEFINE F == {j \in DOMAIN out.forward : out.forward[j].n = k}
             I == {j \in DOMAIN out.invalid : out.invalid[j] = Whole \/ out.invalid[j].n = k}
  <2>1. F = {} /\ I = {1}
    OBVIOUS
  <2> HIDE DEF F, I
  <2>2. Cardinality(F) = 0 /\ Cardinality(I) = 1
    BY <2>1, FS_EmptySet, FS_Singleton
  <2> QED
    BY <2>2 DEF F, I
<1> QED
  BY <1>1, <1>2 DEF Accounted

\* Two sequences of which one is not empty
LEMMA NotEmpty ==
  ASSUME NEW A, NEW q \in Seq(A), NEW B, NEW r \in Seq(B), q # <<>> \/ r # <<>>
  PROVE  q \o r # <<>>
<1> DEFINE C == A \cup B
<1>1. q \in Seq(C) /\ r \in Seq(C)
  BY SeqMonotonic
<1>2. Len(q \o r) = Len(q) + Len(r) /\ Len(q) \in Nat /\ Len(r) \in Nat
  BY <1>1, ConcatProperties, LenProperties
<1>3. (q # <<>> => Len(q) # 0) /\ (r # <<>> => Len(r) # 0)
  BY EmptySeq
<1>4. Len(q \o r) # 0
  BY <1>2, <1>3
<1>5. Len(<<>>) = 0
  OBVIOUS
<1> QED
  BY <1>4, <1>5

\* What a parser tells of is handed on, once sorted, or else the whole message is kept.
LEMMA HandedOn ==
  ASSUME NEW body, NEW kinds, NEW imeis, body.objects \in Objects(kinds, imeis),
         ParseWithIMEI(body) = Failure \/ Told(body, ParseWithIMEI(body)),
         NEW out \in Handled(body)
  PROVE  Accounted(body, out)
<1> DEFINE parsed == ParseWithIMEI(body)
           o == body.objects
<1>1. \A k \in DOMAIN o : o[k] # Whole
  BY ObjectsListed
<1>2. CASE parsed = Failure
  <2>1. ~parsed.ok
    BY <1>2 DEF Failure
  <2>2. out = [forward |-> <<>>, invalid |-> <<Whole>>]
    BY <2>1 DEF Handled
  <2> QED
    BY <2>2, WholeCounts
<1>3. CASE Told(body, parsed)
  <2>1. parsed.ok
    BY <1>3 DEF Told
  <2>2. PICK records \in ByTime(parsed.records) :
          out = [forward |-> records,
                 invalid |-> IF records = <<>> /\ parsed.invalid = <<>> THEN <<Whole>>
                             ELSE parsed.invalid]
    BY <2>1 DEF Handled
  <2> HIDE DEF parsed
  <2>3. CASE records = <<>> /\ parsed.invalid = <<>>
    BY <2>2, <2>3, WholeCounts
  <2>4. CASE ~(records = <<>> /\ parsed.invalid = <<>>)
    <3>1. PICK N, M : /\ N \cap M = {}
                      /\ Numbered(parsed.records, N)
                      /\ Lists(parsed.invalid, o, M)
                      /\ Traceable(body) \subseteq N \cup M
      BY <1>3 DEF Told
    <3>2. parsed.records \in Seq(Given)
      BY <1>3 DEF Told
    <3>3. records \in Seq(Given) /\ Numbered(records, N)
      BY <2>2, <3>1, <3>2, ByTimeNumbered
    <3> DEFINE refused == parsed.invalid
    <3>4. refused \in Seq(ToSet(o)) /\ Numbered(refused, M)
      BY <3>1 DEF Lists
    <3>5. out.forward = records /\ out.invalid = refused
      BY <2>2, <2>4
    <3>6. \A j \in DOMAIN refused : refused[j] # Whole
      <4>1. \A j \in DOMAIN refused : refused[j] \in ToSet(o)
        BY <3>4, LenProperties, ElementOfSeq
      <4> QED
        BY <1>1, <4>1 DEF ToSet
    <3> HIDE DEF refused, o
    <3>7. records \o refused # <<>>
      BY <2>4, <3>3, <3>4, NotEmpty DEF refused
    <3>8. ASSUME NEW k \in Traceable(body)
          PROVE  Cardinality({j \in DOMAIN records : records[j].n = k})
                   + Cardinality({j \in DOMAIN refused : refused[j] = Whole \/ refused[j].n = k}) = 1
      <4> DEFINE F == {j \in DOMAIN records : records[j].n = k}
                 I == {j \in DOMAIN refused : refused[j] = Whole \/ refused[j].n = k}
      <4>1. I = {j \in DOMAIN refused : refused[j].n = k}
        BY <3>6
      <4>2. Cardinality(F) = IF k \in N THEN 1 ELSE 0
        BY <3>3, FoundOnce
      <4>3. Cardinality({j \in DOMAIN refused : refused[j].n = k}) = IF k \in M THEN 1 ELSE 0
        BY <3>4, FoundOnce
      <4> HIDE DEF F, I
      <4>4. Cardinality(I) = IF k \in M THEN 1 ELSE 0
        BY <4>1, <4>3
      <4>5. (k \in N \/ k \in M) /\ ~(k \in N /\ k \in M)
        BY <3>1, <3>8
      <4>6. Cardinality(F) + Cardinality(I) = 1
        BY <4>2, <4>4, <4>5
      <4> QED
        BY <4>6 DEF F, I
    <3> QED
      BY <3>5, <3>7, <3>8 DEF Accounted, o
  <2> QED
    BY <2>3, <2>4
<1> QED
  BY <1>2, <1>3

LEMMA MessagesAccounted ==
  ASSUME NEW body \in Messages, NEW out \in Handled(body)
  PROVE  Accounted(body, out)
<1> DEFINE J == {[form |-> "json", closed |-> c, objects |-> o] :
                   c \in BOOLEAN, o \in Objects(ObjectKinds, Imeis)}
           V == {[form |-> "avl", closed |-> c, objects |-> o] :
                   c \in BOOLEAN, o \in Objects({"good"}, {NoImei})}
           E == {[form |-> "envelope", closed |-> c, marked |-> m, imei |-> i, objects |-> o] :
                   c \in BOOLEAN, m \in BOOLEAN, i \in Imeis,
                   o \in Objects({"good"}, Imeis \cup {NoImei})}
<1>1. body \in J \/ body \in V \/ body \in E \/ body = [form |-> "unknown"]
  BY DEF Messages
<1>2. CASE body \in J
  <2>1. body.form = "json" /\ body.objects \in Objects(ObjectKinds, Imeis)
    BY <1>2
  <2>2. ParseWithIMEI(body) = ParseHooshnicJSON(body)
    BY <2>1 DEF ParseWithIMEI
  <2> HIDE DEF J, V, E
  <2> QED
    BY <2>1, <2>2, JSONTold, HandedOn
<1>3. CASE body \in V
  <2>1. body.form = "avl" /\ body.objects \in Objects({"good"}, {NoImei})
    BY <1>3
  <2>2. ParseWithIMEI(body) = ParseAVL(body)
    BY <2>1 DEF ParseWithIMEI
  <2> HIDE DEF J, V, E
  <2> QED
    BY <2>1, <2>2, AVLTold, HandedOn
<1>4. CASE body = [form |-> "unknown"]
  <2>1. ParseWithIMEI(body) = Failure
    BY <1>4 DEF ParseWithIMEI
  <2>2. out = [forward |-> <<>>, invalid |-> <<Whole>>]
    BY <2>1 DEF Handled, Failure
  <2> QED
    BY <2>2, WholeCounts
<1>5. CASE body \in E
  <2>1. /\ body.form = "envelope" /\ body.imei \in Imeis
        /\ body.objects \in Objects({"good"}, Imeis \cup {NoImei})
    BY <1>5
  <2>2. ParseWithIMEI(body) = ParseEnvelope(body)
    BY <2>1 DEF ParseWithIMEI
  <2> HIDE DEF J, V, E
  <2> QED
    BY <2>1, <2>2, EnvelopeTold, HandedOn
<1> QED
  BY <1>1, <1>2, <1>3, <1>4, <1>5

\* Of a frame, or a body that was parsed before it was queued
Complete(imei, o, out) ==
  /\ Len(out.forward) = Len(o)
  /\ {out.forward[k].n : k \in DOMAIN out.forward} = DOMAIN o
  /\ \A k \in 1..(Len(out.forward) - 1) : out.forward[k].time <= out.forward[k + 1].time
  /\ \A k \in DOMAIN out.forward : out.forward[k].imei = imei
  /\ o # <<>> => out.invalid = <<>>

LEMMA FrameKept ==
  ASSUME NEW imei \in Imeis, NEW o \in Objects({"good"}, {NoImei}), NEW out \in Handled(Wrap(imei, o))
  PROVE  Complete(imei, o, out)
<1> DEFINE A == [kind : {"good"}, time : Seconds, n : Nat, imei : {NoImei}]
           B == [time : Seconds, n : Nat, imei : {imei}]
           N == DOMAIN o
           r == [k \in DOMAIN o |-> Record(o[k], imei)]
<1>1. o \in Seq(A) /\ Lists(o, o, N)
  BY ObjectsListed
<1>2. Numbered(o, N)
  BY <1>1 DEF Lists
<1>3. \A k \in DOMAIN o : o[k] \in A
  <2>1. DOMAIN o = 1..Len(o)
    BY <1>1, LenProperties
  <2> HIDE DEF A
  <2> QED
    BY <1>1, <2>1, ElementOfSeq
<1>4. r \in [DOMAIN o -> B] /\ \A k \in DOMAIN o : r[k].n = o[k].n
  BY <1>3 DEF Record
<1>5. PICK q \in ByTime(r) :
        out = [forward |-> q, invalid |-> IF q = <<>> /\ <<>> = <<>> THEN <<Whole>> ELSE <<>>]
  <2>1. ParseWithIMEI(Wrap(imei, o)) = Parsed(r, <<>>)
    <3> DEFINE w == Wrap(imei, o)
               q == [k \in DOMAIN w.objects |->
                       Record(w.objects[k],
                              IF w.objects[k].imei = NoImei THEN w.imei ELSE w.objects[k].imei)]
    <3>1. /\ w.form = "envelope" /\ w.closed /\ w.marked /\ w.imei = imei
          /\ w.objects = [k \in DOMAIN o |-> [o[k] EXCEPT !.imei = imei]]
      BY DEF Wrap
    <3>2. ParseWithIMEI(w) = Parsed(q, <<>>)
      BY <3>1 DEF ParseWithIMEI, ParseEnvelope
    <3> HIDE DEF w
    <3>3. ASSUME NEW k \in DOMAIN o
          PROVE  /\ w.objects[k].imei = imei
                 /\ w.objects[k].time = o[k].time /\ w.objects[k].n = o[k].n
      BY <1>3, <3>1
    <3>4. q = r
      BY <3>1, <3>3 DEF Record
    <3> QED
      BY <3>2, <3>4 DEF w
  <2> HIDE DEF r
  <2>2. /\ Parsed(r, <<>>).ok /\ Parsed(r, <<>>).records = r /\ Parsed(r, <<>>).invalid = <<>>
    BY DEF Parsed
  <2> QED
    BY <2>1, <2>2 DEF Handled
<1> HIDE DEF r, A
<1>6. r \in Seq(B) /\ Len(r) = Len(o) /\ Numbered(r, N)
  BY <1>1, <1>2, <1>4, RecordsNumbered
<1>7. /\ q \in Seq(B) /\ Len(q) = Len(r) /\ Numbered(q, N)
      /\ \A k \in 1..(Len(q) - 1) : q[k].time <= q[k + 1].time
  BY <1>5, <1>6, ByTimeNumbered
<1>8. {q[k].n : k \in DOMAIN q} = N
  <2> HIDE DEF N
  <2>1. \A x \in N : \E k \in DOMAIN q : q[k].n = x
    BY <1>7 DEF Numbered
  <2>2. \A k \in DOMAIN q : q[k].n \in N
    BY <1>7 DEF Numbered
  <2> QED
    BY <2>1, <2>2
<1>9. \A k \in DOMAIN q : q[k].imei = imei
  <2>1. \A k \in DOMAIN q : q[k] \in B
    <3> HIDE DEF B
    <3> QED
      BY <1>7, LenProperties, ElementOfSeq
  <2> QED
    BY <2>1
<1>10. o # <<>> => q # <<>>
  BY <1>1, <1>6, <1>7, EmptySeq
<1> HIDE DEF N, B
<1> QED
  BY <1>5, <1>6, <1>7, <1>8, <1>9, <1>10 DEF N, Complete

\* Nothing of a message of the queue that can be found is lost: of every object with data in
\* an array that decodes, and of every one whose data is its first member in one that does
\* not, the filter gets one record, or gps_invalid_records one row.
THEOREM AccountedCorrect == ParseSpec => []ObjectsAccounted
<1>1. ParseInit => ObjectsAccounted
  BY DEF ParseInit, ObjectsAccounted
<1>2. ObjectsAccounted /\ [ParseNext]_parseVars => ObjectsAccounted'
  <2> SUFFICES ASSUME ObjectsAccounted, [ParseNext]_parseVars PROVE ObjectsAccounted'
    OBVIOUS
  <2>1. ASSUME NEW body \in Messages, HandleBody(body) PROVE ObjectsAccounted'
    <3>1. received' = body /\ Accounted(body, outcome')
      BY <2>1, MessagesAccounted DEF HandleBody
    <3> QED
      BY <3>1 DEF ObjectsAccounted, Accounted
  <2>2. ASSUME NEW imei \in Imeis, NEW objects \in Objects({"good"}, {NoImei}), HandleFrame(imei, objects)
        PROVE  ObjectsAccounted'
    BY <2>2 DEF HandleFrame, ObjectsAccounted
  <2>3. CASE UNCHANGED parseVars
    BY <2>3 DEF parseVars, ObjectsAccounted
  <2> QED
    BY <2>1, <2>2, <2>3 DEF ParseNext
<1> QED
  BY <1>1, <1>2, PTL DEF ParseSpec

\* What is wrapped for the queue comes out complete, sorted, and under its IMEI.
THEOREM WrappedCorrect == ParseSpec => []WrappedKept
<1>1. ParseInit => WrappedKept
  BY DEF ParseInit, WrappedKept
<1>2. WrappedKept /\ [ParseNext]_parseVars => WrappedKept'
  <2> SUFFICES ASSUME WrappedKept, [ParseNext]_parseVars PROVE WrappedKept'
    OBVIOUS
  <2>1. ASSUME NEW body \in Messages, HandleBody(body) PROVE WrappedKept'
    <3>1. body.form # "frame"
      BY DEF Messages
    <3> QED
      BY <2>1, <3>1 DEF HandleBody, WrappedKept
  <2>2. ASSUME NEW imei \in Imeis, NEW objects \in Objects({"good"}, {NoImei}), HandleFrame(imei, objects)
        PROVE  WrappedKept'
    <3>1. received'.objects = objects /\ received'.imei = imei /\ outcome' \in Handled(Wrap(imei, objects))
      BY <2>2 DEF HandleFrame
    <3>2. Complete(imei, objects, outcome')
      BY <3>1, FrameKept
    <3> QED
      BY <3>1, <3>2 DEF WrappedKept, Complete
  <2>3. CASE UNCHANGED parseVars
    BY <2>3 DEF parseVars, WrappedKept
  <2> QED
    BY <2>1, <2>2, <2>3 DEF ParseNext
<1> QED
  BY <1>1, <1>2, PTL DEF ParseSpec
=============================================================================
