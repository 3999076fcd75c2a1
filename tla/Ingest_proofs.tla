----------------------------- MODULE Ingest_proofs ------------------------------
(***************************************************************************)
(* Proofs about Ingest for every number of concurrent requests, limit,     *)
(* MAXLEN and bound: how far the queue can overrun its limit.              *)
(***************************************************************************)
EXTENDS Ingest, FiniteSetTheorems, TLAPS

-----------------------------------------------------------------------------
(* The inductive invariant *)

N == Cardinality(Slots)

\* The requests that will still add an entry if no handler stores a depth: those
\* past the check and, while the cached depth is below the limit, the idle ones.
Entering ==
  {s \in Slots : pc[s] = "checked" \/ (cached < Limit /\ pc[s] = "idle")}

\* The handlers that hold a depth below the limit: storing it opens the door again.
Stragglers == {s \in Slots : pc[s] = "enqueued" /\ read[s] < Limit}

\* Twice what k stragglers can let in, one after the other: the first the N - k
\* others and itself, each next one more.
Rounds(k) == k * (2 * N - k + 1)

\* What has been added above the limit and what can still be added; doubled, so
\* that nothing has to be halved.
Reserved ==
  Limit > 0 /\ depth >= Limit =>
    2 * (depth + Cardinality(Entering)) + Rounds(Cardinality(Stragglers))
      <= 2 * Limit + N * (N + 1) - 2 + 2 * Unseen

IInv == TypeOK /\ Reserved /\ NoHttpEviction

-----------------------------------------------------------------------------
(* Arithmetic *)

LEMMA Square == ASSUME NEW m \in Nat PROVE m * m >= m
<1>1. CASE m = 0
  BY <1>1
<1>2. CASE m >= 1
  BY <1>2
<1> QED
  BY <1>1, <1>2

LEMMA RoundsType == ASSUME NEW k \in Nat, N \in Nat PROVE Rounds(k) \in Int
BY DEF Rounds

\* However the requests are divided into stragglers and others, what they can add
\* between them stays within N * (N + 1) / 2.
LEMMA RoundsBound ==
  ASSUME N \in Nat, NEW k \in Nat, NEW e \in Nat, e + k <= N
  PROVE  2 * e + Rounds(k) <= N * (N + 1)
<1> DEFINE m == N - k
<1>1. m \in Nat /\ e <= m
  OBVIOUS
<1>2. N * (N + 1) - (2 * m + k * (2 * N - k + 1)) = m * m - m
  OBVIOUS
<1>3. m * m >= m
  BY <1>1, Square
<1>4. m * m \in Int /\ N * (N + 1) \in Int /\ k * (2 * N - k + 1) \in Int
  OBVIOUS
<1> HIDE DEF m
<1> QED
  BY <1>1, <1>2, <1>3, <1>4 DEF Rounds

\* A straggler that has stored its depth leaves one round less.
LEMMA RoundsStep ==
  ASSUME N \in Nat, NEW k \in Nat, k > 0
  PROVE  Rounds(k) = Rounds(k - 1) + 2 * (N - k + 1)
BY DEF Rounds

\* Overrun is what its doubled form says.
LEMMA OverrunTwice == ASSUME N \in Nat PROVE Overrun \in Int /\ 2 * Overrun = N * (N + 1) - 2
<1>1. PICK q \in Nat : N * (N + 1) = 2 * q
  <2>1. PICK h \in Nat : N = 2 * h \/ N = 2 * h + 1
    <3>1. N \div 2 \in Nat /\ (N = 2 * (N \div 2) \/ N = 2 * (N \div 2) + 1)
      OBVIOUS
    <3> QED
      BY <3>1
  <2>2. CASE N = 2 * h
    <3>1. N * (N + 1) = 2 * (h * (2 * h + 1)) /\ h * (2 * h + 1) \in Nat
      BY <2>2
    <3> QED
      BY <3>1
  <2>3. CASE N = 2 * h + 1
    <3>1. N * (N + 1) = 2 * ((2 * h + 1) * (h + 1)) /\ (2 * h + 1) * (h + 1) \in Nat
      BY <2>3
    <3> QED
      BY <3>1
  <2> QED
    BY <2>1, <2>2, <2>3
<1>2. (2 * q) \div 2 = q
  OBVIOUS
<1>3. Overrun = q - 1
  BY <1>1, <1>2 DEF Overrun, N
<1> QED
  BY <1>1, <1>3

-----------------------------------------------------------------------------
(* Counting requests *)

LEMMA LimitType == Limit \in Int
BY IngestAssumption DEF Limit

LEMMA NType == N \in Nat
BY IngestAssumption, FS_CardinalityType DEF N

\* Two sets of requests that have none in common.
LEMMA Disjoint ==
  ASSUME NEW S, NEW T, S \subseteq Slots, T \subseteq Slots, S \cap T = {}
  PROVE  /\ IsFiniteSet(S) /\ IsFiniteSet(T)
         /\ Cardinality(S) \in Nat /\ Cardinality(T) \in Nat
         /\ Cardinality(S) + Cardinality(T) <= N
<1>1. IsFiniteSet(S) /\ IsFiniteSet(T) /\ IsFiniteSet(Slots)
  BY IngestAssumption, FS_Subset
<1>2. Cardinality(S \cup T) = Cardinality(S) + Cardinality(T) - Cardinality({})
  BY <1>1, FS_Union
<1>3. Cardinality({}) = 0
  BY FS_EmptySet
<1>4. Cardinality(S \cup T) <= N
  <2>1. S \cup T \in SUBSET Slots
    OBVIOUS
  <2> QED
    BY <1>1, <2>1, FS_Subset DEF N
<1>5. Cardinality(S) \in Nat /\ Cardinality(T) \in Nat
  BY <1>1, FS_CardinalityType
<1> QED
  BY <1>1, <1>2, <1>3, <1>4, <1>5

LEMMA Counts ==
  /\ IsFiniteSet(Entering) /\ IsFiniteSet(Stragglers)
  /\ Cardinality(Entering) \in Nat /\ Cardinality(Stragglers) \in Nat
  /\ Cardinality(Entering) + Cardinality(Stragglers) <= N
<1>1. Entering \subseteq Slots /\ Stragglers \subseteq Slots /\ Entering \cap Stragglers = {}
  BY DEF Entering, Stragglers
<1> QED
  BY <1>1, Disjoint

LEMMA CountsNext ==
  /\ Cardinality(Entering') \in Nat /\ Cardinality(Stragglers') \in Nat
  /\ Cardinality(Entering') + Cardinality(Stragglers') <= N
<1>1. Entering' \subseteq Slots /\ Stragglers' \subseteq Slots /\ Entering' \cap Stragglers' = {}
  BY DEF Entering, Stragglers
<1> QED
  BY <1>1, Disjoint

LEMMA RoundsPositive == Rounds(Cardinality(Stragglers)) >= 0
<1> DEFINE k == Cardinality(Stragglers)
<1>1. k \in Nat /\ N \in Nat /\ k <= N
  <2>1. Cardinality(Entering) \in Nat /\ k \in Nat /\ Cardinality(Entering) + k <= N
    BY Counts
  <2> HIDE DEF k
  <2> QED
    BY <2>1, NType
<1> HIDE DEF k
<1>2. 2 * N - k + 1 \in Nat
  BY <1>1
<1>3. k * (2 * N - k + 1) \in Nat
  BY <1>1, <1>2
<1>4. Rounds(k) >= 0
  BY <1>3 DEF Rounds
<1> QED
  BY <1>4 DEF k

-----------------------------------------------------------------------------
(* Type correctness *)

\* XADD leaves a length.
LEMMA AppendType == ASSUME TypeOK, Append PROVE depth' \in Nat /\ evicted' \in BOOLEAN
<1>1. depth \in Nat /\ evicted \in BOOLEAN /\ MaxLen \in Nat
  BY IngestAssumption DEF TypeOK
<1>2. CASE depth' = depth + 1 /\ UNCHANGED evicted
  BY <1>1, <1>2
<1>3. CASE depth' \in MaxLen..depth /\ evicted' = TRUE
  BY <1>1, <1>3
<1> QED
  BY <1>2, <1>3 DEF Append

LEMMA TypeInit == Init => TypeOK
<1> SUFFICES ASSUME Init PROVE TypeOK
  OBVIOUS
<1>1. pc \in [Slots -> {"idle", "checked", "added", "enqueued"}] /\ read \in [Slots -> Nat]
  BY DEF Init
<1>2. tcp \in 0..MaxTCP /\ faults \in 0..MaxFaults /\ restarts \in 0..MaxRestarts
  BY IngestAssumption DEF Init
<1> QED
  BY <1>1, <1>2 DEF Init, TypeOK

LEMMA TypeStep == TypeOK /\ [Next]_vars => TypeOK'
<1> SUFFICES ASSUME TypeOK, [Next]_vars PROVE TypeOK'
  OBVIOUS
<1> USE IngestAssumption
<1>1. ASSUME NEW s \in Slots, Admit(s) PROVE TypeOK'
  BY <1>1 DEF TypeOK, Admit, Goto
<1>2. ASSUME NEW s \in Slots, AddEntry(s) PROVE TypeOK'
  BY <1>2, AppendType DEF TypeOK, AddEntry, Goto
<1>3. ASSUME NEW s \in Slots, ReadLength(s) PROVE TypeOK'
  BY <1>3 DEF TypeOK, ReadLength, Goto
<1>4. ASSUME NEW s \in Slots, EnqueueFails(s) PROVE TypeOK'
  BY <1>4 DEF TypeOK, EnqueueFails, Return, Goto
<1>5. ASSUME NEW s \in Slots, Store(s) PROVE TypeOK'
  BY <1>5 DEF TypeOK, Store, Return, Goto
<1>6. ASSUME EnqueueTCP PROVE TypeOK'
  BY <1>6, AppendType DEF TypeOK, EnqueueTCP
<1>7. ASSUME Consume PROVE TypeOK'
  BY <1>7 DEF TypeOK, Consume
<1>8. ASSUME NEW s \in Slots, Reexecute(s) PROVE TypeOK'
  BY <1>8 DEF TypeOK, Reexecute, Goto
<1>9. ASSUME ReexecuteTCP PROVE TypeOK'
  BY <1>9, AppendType DEF TypeOK, ReexecuteTCP
<1>10. ASSUME Restart PROVE TypeOK'
  BY <1>10 DEF TypeOK, Restart
<1>11. ASSUME UNCHANGED vars PROVE TypeOK'
  BY <1>11 DEF TypeOK, vars
<1> QED
  BY <1>1, <1>2, <1>3, <1>4, <1>5, <1>6, <1>7, <1>8, <1>9, <1>10, <1>11 DEF Next

\* Every reachable state has its types; in particular XLEN and the cached depth are
\* never negative (ReceiveGPSData).
THEOREM TypeCorrect == Spec => []TypeOK
BY TypeInit, TypeStep, PTL DEF Spec

-----------------------------------------------------------------------------
(* What is reserved above the limit *)

\* What was added unseen only grows, by what the step says.
LEMMA UnseenType == ASSUME TypeOK PROVE Unseen \in Nat
<1>1. N \in Nat /\ restarts \in Nat /\ tcp \in Nat /\ faults \in Nat
  BY NType, IngestAssumption DEF TypeOK
<1>2. N * restarts \in Nat
  BY <1>1
<1> QED
  BY <1>1, <1>2 DEF Unseen, N

LEMMA UnseenTypeNext == ASSUME TypeOK' PROVE Unseen' \in Nat
<1>1. N \in Nat /\ restarts' \in Nat /\ tcp' \in Nat /\ faults' \in Nat
  BY NType, IngestAssumption DEF TypeOK
<1>2. \A m, r \in Nat : m * r \in Nat
  OBVIOUS
<1> QED
  BY <1>1, <1>2 DEF Unseen, N

LEMMA UnseenKept ==
  ASSUME UNCHANGED <<tcp, faults, restarts>> PROVE Unseen' = Unseen
BY DEF Unseen

LEMMA UnseenGrows ==
  ASSUME TypeOK, TypeOK'
  PROVE  /\ UNCHANGED <<faults, restarts>> /\ tcp' = tcp + 1 => Unseen' = Unseen + 1
         /\ UNCHANGED <<tcp, restarts>> /\ faults' = faults + 1 => Unseen' = Unseen + 1
         /\ UNCHANGED <<tcp, faults>> /\ restarts' = restarts + 1 => Unseen' = Unseen + N
<1>1. N \in Nat /\ restarts \in Nat /\ tcp \in Nat /\ faults \in Nat
  BY NType, IngestAssumption DEF TypeOK
<1>2. N * restarts \in Nat /\ N * (restarts + 1) = N * restarts + N
  BY <1>1
<1> QED
  BY <1>1, <1>2 DEF Unseen, N

LEMMA UnseenMonotone ==
  ASSUME TypeOK, TypeOK', [Next]_vars PROVE Unseen' >= Unseen
<1>1. \/ UNCHANGED <<tcp, faults, restarts>>
      \/ UNCHANGED <<faults, restarts>> /\ tcp' = tcp + 1
      \/ UNCHANGED <<tcp, restarts>> /\ faults' = faults + 1
      \/ UNCHANGED <<tcp, faults>> /\ restarts' = restarts + 1
  BY DEF Next, vars, Admit, AddEntry, Reexecute, ReadLength, EnqueueFails, Store,
      EnqueueTCP, ReexecuteTCP, Consume, Restart
<1>2. Unseen \in Nat /\ N \in Nat
  BY UnseenType, NType
<1> QED
  BY <1>1, <1>2, UnseenKept, UnseenGrows

\* The facts every case starts from.
LEMMA Numbers ==
  ASSUME TypeOK, TypeOK'
  PROVE  /\ depth \in Nat /\ depth' \in Nat /\ Unseen \in Nat /\ Unseen' \in Nat
         /\ N \in Nat /\ N * (N + 1) \in Nat /\ Limit \in Int
         /\ Rounds(Cardinality(Stragglers)) \in Int
         /\ Rounds(Cardinality(Stragglers')) \in Int
<1>1. N \in Nat /\ N * (N + 1) \in Nat
  BY NType
<1> QED
  BY <1>1, LimitType, Counts, CountsNext, RoundsType, UnseenType, UnseenTypeNext
  DEF TypeOK

\* A step that adds nothing and neither admits nor delays anyone keeps the bound.
LEMMA NothingAdded ==
  ASSUME TypeOK, TypeOK', Reserved, depth' <= depth, Unseen' >= Unseen,
         Limit > 0 /\ depth' >= Limit =>
           /\ Cardinality(Entering') <= Cardinality(Entering)
           /\ Cardinality(Stragglers') = Cardinality(Stragglers)
  PROVE  Reserved'
BY Numbers, Counts, CountsNext DEF Reserved

\* The entry of a request that passed the check was reserved for it.
LEMMA AddEntryReserved ==
  ASSUME TypeOK, TypeOK', Reserved, NEW s \in Slots, AddEntry(s) PROVE Reserved'
<1>1. /\ Entering' = Entering \ {s} /\ s \in Entering /\ Stragglers' = Stragglers
      /\ Unseen' = Unseen
  BY UnseenKept DEF AddEntry, Goto, Entering, Stragglers, TypeOK
<1>2. Cardinality(Entering') = Cardinality(Entering) - 1
  BY <1>1, Counts, FS_RemoveElement
<1>3. CASE depth' = depth + 1
  <2>1. CASE depth >= Limit
    BY <1>1, <1>2, <1>3, <2>1, Numbers, Counts, CountsNext DEF Reserved
  <2>2. CASE depth < Limit
    <3>1. 2 * Cardinality(Entering) + Rounds(Cardinality(Stragglers)) <= N * (N + 1)
      BY Counts, RoundsBound, NType
    <3> QED
      BY <1>1, <1>2, <1>3, <2>2, <3>1, Numbers, Counts, CountsNext DEF Reserved
  <2> QED
    BY <2>1, <2>2, Numbers
<1>4. CASE depth' \in MaxLen..depth
  <2>1. depth' <= depth
    BY <1>4, Numbers, IngestAssumption
  <2> QED
    BY <1>1, <1>2, <2>1, NothingAdded, Numbers, Counts, CountsNext
<1> QED
  BY <1>3, <1>4 DEF AddEntry, Append

\* An entry of the TCP path takes nobody's place, but is counted.
LEMMA EnqueueTCPReserved ==
  ASSUME TypeOK, TypeOK', Reserved, EnqueueTCP \/ ReexecuteTCP PROVE Reserved'
<1>1. Entering' = Entering /\ Stragglers' = Stragglers /\ Unseen' = Unseen + 1
  BY UnseenGrows DEF EnqueueTCP, ReexecuteTCP, Entering, Stragglers
<1>2. CASE depth' = depth + 1
  <2>1. CASE depth >= Limit
    BY <1>1, <1>2, <2>1, Numbers, Counts DEF Reserved
  <2>2. CASE depth < Limit
    <3>1. 2 * Cardinality(Entering) + Rounds(Cardinality(Stragglers)) <= N * (N + 1)
      BY Counts, RoundsBound, NType
    <3> QED
      BY <1>1, <1>2, <2>2, <3>1, Numbers, Counts DEF Reserved
  <2> QED
    BY <2>1, <2>2, Numbers
<1>3. CASE depth' \in MaxLen..depth
  <2>1. depth' <= depth
    BY <1>3, Numbers, IngestAssumption
  <2> QED
    BY <1>1, <2>1, NothingAdded, Numbers, Counts
<1> QED
  BY <1>2, <1>3 DEF EnqueueTCP, ReexecuteTCP, Append

\* A depth below the limit that is stored admits again whoever is not a straggler;
\* the straggler's round was reserved for that.
LEMMA StoreReserved ==
  ASSUME TypeOK, TypeOK', Reserved, NEW s \in Slots, Store(s) PROVE Reserved'
<1>1. depth' = depth /\ Unseen' = Unseen /\ cached' = read[s]
  BY UnseenKept DEF Store
<1>2. pc[s] = "enqueued" /\ pc' = [pc EXCEPT ![s] = "idle"] /\ read' = [read EXCEPT ![s] = 0]
  BY DEF Store, Return, Goto
<1>3. CASE read[s] < Limit
  <2>1. s \in Stragglers /\ Stragglers' = Stragglers \ {s}
    BY <1>2, <1>3 DEF Stragglers, TypeOK
  <2>2. Cardinality(Stragglers') = Cardinality(Stragglers) - 1
    BY <2>1, Counts, FS_RemoveElement
  <2>3. Cardinality(Stragglers) > 0
    BY <2>2, Counts, CountsNext
  <2>4. Rounds(Cardinality(Stragglers))
          = Rounds(Cardinality(Stragglers')) + 2 * (N - Cardinality(Stragglers) + 1)
    BY <2>2, <2>3, RoundsStep, NType, Counts
  <2> QED
    BY <1>1, <2>2, <2>4, Numbers, Counts, CountsNext DEF Reserved
<1>4. CASE ~(read[s] < Limit)
  <2>1. Stragglers' = Stragglers
    BY <1>2, <1>4 DEF Stragglers, TypeOK
  <2>2. Entering' \subseteq Entering
    BY <1>1, <1>2, <1>4 DEF Entering, TypeOK
  <2>3. Cardinality(Entering') <= Cardinality(Entering)
    BY <2>2, Counts, FS_Subset
  <2> QED
    BY <1>1, <2>1, <2>3, NothingAdded, Numbers
<1> QED
  BY <1>3, <1>4

\* A failed request may be sent again, a lost reply repeats the XADD; both are
\* counted.
LEMMA FailedCallReserved ==
  ASSUME TypeOK, TypeOK', Reserved, NEW s \in Slots, EnqueueFails(s) \/ Reexecute(s)
  PROVE  Reserved'
<1>1. /\ pc[s] \in {"checked", "added"}
      /\ pc' = [pc EXCEPT ![s] = "idle"] \/ pc' = [pc EXCEPT ![s] = "checked"]
      /\ read' = [read EXCEPT ![s] = 0] \/ read' = read
      /\ depth' = depth /\ cached' = cached /\ Unseen' = Unseen + 1
  BY UnseenGrows DEF EnqueueFails, Reexecute, Return, Goto
<1>2. Stragglers' = Stragglers
  BY <1>1 DEF Stragglers, TypeOK
<1>3. Entering' \subseteq Entering \cup {s}
  BY <1>1 DEF Entering, TypeOK
<1>4. Cardinality(Entering') <= Cardinality(Entering) + 1
  <2>1. IsFiniteSet(Entering \cup {s}) /\ Cardinality(Entering \cup {s}) <= Cardinality(Entering) + 1
    <3>1. /\ IsFiniteSet(Entering \cup {s})
          /\ Cardinality(Entering \cup {s}) =
               IF s \in Entering THEN Cardinality(Entering) ELSE Cardinality(Entering) + 1
      <4>1. IsFiniteSet(Entering)
        BY Counts
      <4> QED
        BY <4>1, FS_AddElement
    <3> QED
      BY <3>1, Counts
  <2>2. Cardinality(Entering') <= Cardinality(Entering \cup {s})
    BY <1>3, <2>1, FS_Subset
  <2>3. Cardinality(Entering \cup {s}) \in Nat
    BY <2>1, FS_CardinalityType
  <2> QED
    BY <2>1, <2>2, <2>3, Counts, CountsNext
<1> QED
  BY <1>1, <1>2, <1>4, Numbers, Counts, CountsNext DEF Reserved

\* A restart lets every request in again, and is counted as often.
LEMMA RestartReserved ==
  ASSUME TypeOK, TypeOK', Reserved, Restart PROVE Reserved'
<1>1. depth' = depth /\ Unseen' = Unseen + N
  BY UnseenGrows DEF Restart
<1>2. Stragglers' = {}
  BY DEF Restart, Stragglers
<1>3. Cardinality(Stragglers') = 0
  BY <1>2, FS_EmptySet
<1>4. Rounds(Cardinality(Stragglers')) = 0
  BY <1>3, NType DEF Rounds
<1>5. Rounds(Cardinality(Stragglers)) >= 0
  BY RoundsPositive
<1>6. Cardinality(Entering') <= N
  BY <1>3, CountsNext, NType
<1> QED
  BY <1>1, <1>4, <1>5, <1>6, Numbers, Counts, CountsNext DEF Reserved

LEMMA ReservedStep == ASSUME TypeOK, TypeOK', Reserved, [Next]_vars PROVE Reserved'
<1>1. ASSUME NEW s \in Slots, Admit(s) PROVE Reserved'
  <2>1. (Entering' = Entering /\ Stragglers' = Stragglers) \/ Limit <= 0
    BY <1>1, LimitType DEF Admit, Goto, Full, Entering, Stragglers, TypeOK
  <2>2. depth' = depth /\ Unseen' = Unseen
    BY <1>1, UnseenKept DEF Admit
  <2> QED
    BY <2>1, <2>2, NothingAdded, Numbers, Counts, CountsNext
<1>2. ASSUME NEW s \in Slots, AddEntry(s) PROVE Reserved'
  BY <1>2, AddEntryReserved
<1>3. ASSUME NEW s \in Slots, ReadLength(s) PROVE Reserved'
  <2>1. depth' = depth /\ Unseen' = Unseen /\ cached' = cached
    BY <1>3, UnseenKept DEF ReadLength
  <2>2. /\ pc[s] = "added" /\ pc' = [pc EXCEPT ![s] = "enqueued"]
        /\ read' = [read EXCEPT ![s] = depth]
    BY <1>3 DEF ReadLength, Goto
  <2>3. Entering' = Entering
    BY <2>1, <2>2 DEF Entering, TypeOK
  <2>4. depth >= Limit => Stragglers' = Stragglers
    BY <2>2, Numbers DEF Stragglers, TypeOK
  <2> QED
    BY <2>1, <2>3, <2>4, NothingAdded, Numbers, Counts
<1>4. ASSUME NEW s \in Slots, EnqueueFails(s) \/ Reexecute(s) PROVE Reserved'
  BY <1>4, FailedCallReserved
<1>5. ASSUME NEW s \in Slots, Store(s) PROVE Reserved'
  BY <1>5, StoreReserved
<1>6. ASSUME EnqueueTCP \/ ReexecuteTCP PROVE Reserved'
  BY <1>6, EnqueueTCPReserved
<1>7. ASSUME Consume PROVE Reserved'
  <2>1. Entering' = Entering /\ Stragglers' = Stragglers
    BY <1>7 DEF Consume, Entering, Stragglers
  <2>2. depth' = depth - 1 /\ Unseen' = Unseen
    BY <1>7, UnseenKept DEF Consume
  <2> QED
    BY <2>1, <2>2, NothingAdded, Numbers, Counts
<1>8. ASSUME UNCHANGED vars PROVE Reserved'
  <2>1. Entering' = Entering /\ Stragglers' = Stragglers
    BY <1>8 DEF vars, Entering, Stragglers
  <2>2. depth' = depth /\ Unseen' = Unseen
    BY <1>8, UnseenKept DEF vars
  <2> QED
    BY <2>1, <2>2, NothingAdded, Numbers, Counts
<1>9. ASSUME Restart PROVE Reserved'
  BY <1>9, RestartReserved
<1> QED
  BY <1>1, <1>2, <1>3, <1>4, <1>5, <1>6, <1>7, <1>8, <1>9 DEF Next

-----------------------------------------------------------------------------
(* The bound, and what follows for MAXLEN *)

\* The bound on what may still come bounds what has come.
LEMMA ReservedBounds == ASSUME TypeOK, Reserved PROVE DepthBounded
<1> SUFFICES ASSUME Limit > 0 PROVE depth <= Limit + Overrun + Unseen
  BY DEF DepthBounded
<1>1. N \in Nat /\ N * (N + 1) \in Nat /\ Limit \in Int
  BY NType, LimitType
<1>2. Overrun \in Int /\ 2 * Overrun = N * (N + 1) - 2
  BY <1>1, OverrunTwice
<1>3. depth \in Nat /\ Unseen \in Nat
  BY UnseenType DEF TypeOK
<1>4. Rounds(Cardinality(Stragglers)) >= 0
  BY RoundsPositive
<1>5. Rounds(Cardinality(Stragglers)) \in Int
  BY Counts, RoundsType, <1>1
<1> QED
  BY <1>1, <1>2, <1>3, <1>4, <1>5, Counts DEF Reserved

\* Below MAXLEN nothing is evicted.
LEMMA EvictionStep ==
  ASSUME TypeOK, TypeOK', Reserved, Reserved', NoHttpEviction, [Next]_vars
  PROVE  NoHttpEviction'
<1> USE IngestAssumption
<1>1. Unseen' >= Unseen
  BY UnseenMonotone
<1>2. Overrun \in Int
  BY OverrunTwice, NType
<1>3. CASE evicted' = evicted
  BY <1>1, <1>2, <1>3, Numbers DEF NoHttpEviction
<1>4. ASSUME NEW s \in Slots, AddEntry(s) PROVE NoHttpEviction'
  <2> SUFFICES ASSUME Limit > 0, Limit + Overrun + Unseen' <= MaxLen, evicted' # evicted
               PROVE  FALSE
    BY <1>3 DEF NoHttpEviction
  <2>1. depth >= MaxLen /\ Unseen' = Unseen
    BY <1>4, UnseenKept DEF AddEntry, Append
  <2>2. s \in Entering
    BY <1>4 DEF AddEntry, Entering
  <2>3. Cardinality(Entering) >= 1
    BY <2>2, Counts, FS_EmptySet
  <2>4. 2 * Overrun = N * (N + 1) - 2
    BY OverrunTwice, NType
  <2>5. N >= 1
    BY <2>3, Counts, NType
  <2>6. N * (N + 1) >= 2
    BY <2>5, NType
  <2>7. Rounds(Cardinality(Stragglers)) >= 0
    BY RoundsPositive
  <2> QED
    BY <1>2, <2>1, <2>3, <2>4, <2>6, <2>7, Numbers, Counts DEF Reserved
<1>5. ASSUME EnqueueTCP \/ ReexecuteTCP PROVE NoHttpEviction'
  <2> SUFFICES ASSUME Limit > 0, Limit + Overrun + Unseen' <= MaxLen, evicted' # evicted
               PROVE  FALSE
    BY <1>3 DEF NoHttpEviction
  <2>1. depth >= MaxLen /\ Unseen' = Unseen + 1
    BY <1>5, UnseenGrows DEF EnqueueTCP, ReexecuteTCP, Append
  <2>2. depth <= Limit + Overrun + Unseen
    BY ReservedBounds DEF DepthBounded
  <2> QED
    BY <1>2, <2>1, <2>2, Numbers
<1>6. CASE evicted' # evicted
  BY <1>6, <1>4, <1>5 
  DEF Next, vars, Admit, Reexecute, ReadLength, EnqueueFails, Store, Consume, Restart
<1> QED
  BY <1>3, <1>6

-----------------------------------------------------------------------------
(* The theorems *)

LEMMA IInvInit == Init => IInv
<1> SUFFICES ASSUME Init PROVE IInv
  OBVIOUS
<1>1. TypeOK
  BY TypeInit
<1>2. Reserved
  BY LimitType DEF Init, Reserved
<1>3. NoHttpEviction
  BY DEF Init, NoHttpEviction
<1> QED
  BY <1>1, <1>2, <1>3 DEF IInv

LEMMA IInvStep == IInv /\ [Next]_vars => IInv'
<1> SUFFICES ASSUME IInv, [Next]_vars PROVE IInv'
  OBVIOUS
<1>1. TypeOK'
  BY TypeStep DEF IInv
<1>2. Reserved'
  BY <1>1, ReservedStep DEF IInv
<1>3. NoHttpEviction'
  BY <1>1, <1>2, EvictionStep DEF IInv
<1> QED
  BY <1>1, <1>2, <1>3 DEF IInv

\* For every number of handlers and restarts, in whatever order they check, add and
\* store, the queue stays within the limit, the overrun and what was added unseen
\* (ReceiveGPSData, NewHandler).
THEOREM DepthCorrect == Spec => []DepthBounded
<1>1. IInv => DepthBounded
  BY ReservedBounds DEF IInv
<1> QED
  BY <1>1, IInvInit, IInvStep, PTL DEF Spec

\* With slack enough between the limit and MAXLEN backpressure keeps Redis from
\* evicting a message that was answered 200, over restarts too (ReceiveGPSData,
\* NewHandler, XADD MAXLEN).
THEOREM EvictionCorrect == Spec => []NoHttpEviction
<1>1. IInv => NoHttpEviction
  BY DEF IInv
<1> QED
  BY <1>1, IInvInit, IInvStep, PTL DEF Spec
=============================================================================
