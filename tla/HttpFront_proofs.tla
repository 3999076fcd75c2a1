---------------------------- MODULE HttpFront_proofs ----------------------------
(***************************************************************************)
(* Proofs about HttpFront for any clients, requests in progress, bursts,   *)
(* refills and sizes of the table: the rate each client is held to, and    *)
(* the counters of the request tracker.                                    *)
(***************************************************************************)
EXTENDS HttpFront, SequenceLemmas, WellFoundedInduction

-----------------------------------------------------------------------------
(* The inductive invariant of the rate limiter *)

LimiterTypes ==
  /\ LimiterTypeOK
  /\ at \in [Slots -> {"idle", "handler", "tracked"} \cup Middleware]
  /\ client \in [Slots -> Clients]

Holding == {"found", "allow"}

\* A request holds a bucket between getLimiter's lookup and Allow.
Placed ==
  \A s \in Slots : IF at[s] \in Holding THEN uses[s] \in Buckets
                   ELSE uses[s] = NoBucket

\* No two clients share a bucket, nor does a request hold another client's.
Owned ==
  /\ \A c, d \in Clients : c # d /\ limiters[c] # NoBucket => limiters[c] # limiters[d]
  /\ \A s \in Slots : \A c \in Clients :
       at[s] \in Holding /\ uses[s] = limiters[c] => client[s] = c

\* Requests of c that hold a bucket cleanupLoop has removed.
Ghosts(c) == {s \in Slots : client[s] = c /\ at[s] \in Holding /\ uses[s] # limiters[c]}

\* A request about to take a token has touched the entry it found or made, and an
\* entry made while an old bucket is still held is as young.
Young ==
  /\ \A s \in Slots :
       at[s] = "allow" /\ uses[s] = limiters[client[s]] => idle[uses[s]] = 0
  /\ \A c \in Clients :
       limiters[c] # NoBucket /\ Ghosts(c) # {} => idle[limiters[c]] = 0

Level(c) == IF limiters[c] = NoBucket THEN Burst ELSE tokens[limiters[c]]

\* The bucket that is never removed is behind the client's bucket by no more than
\* what requests took from removed buckets; those that still may count as well.
NotBehind ==
  \A c \in Clients :
    Level(c) - ideal[c] + Cardinality(Ghosts(c)) <= Cardinality(Slots)

\* It has caught up by the time cleanupLoop may remove the client's bucket.
CaughtUp ==
  \A c \in Clients : limiters[c] # NoBucket =>
    \/ ideal[c] >= Burst
    \/ ideal[c] >= idle[limiters[c]] * Refill - Cardinality(Slots)

RateInv == LimiterTypes /\ Placed /\ Owned /\ Young /\ NotBehind /\ CaughtUp

-----------------------------------------------------------------------------
(* Lemmas about numbers *)

LEMMA Distributes == ASSUME NEW a \in Int, NEW b \in Int PROVE (a + 1) * b = a * b + b
OBVIOUS

LEMMA Numbers ==
  /\ Burst \in Nat \ {0} /\ Refill \in Nat /\ IdleLimit \in Nat
  /\ Cardinality(Slots) \in Nat /\ Cardinality(Clients) \in Nat
  /\ Buckets \subseteq Nat \ {0} /\ NoBucket \notin Buckets
<1>1. Cardinality(Slots) \in Nat /\ Cardinality(Clients) \in Nat
  BY RateLimiterAssumption, FS_CardinalityType
<1> QED
  BY <1>1, RateLimiterAssumption DEF Buckets, NoBucket

\* A bucket idle for longer than the limit would be full.
LEMMA FullWhenIdle == Burst <= (IdleLimit + 1) * Refill - Cardinality(Slots)
<1>1. /\ Burst \in Nat /\ Refill \in Nat /\ IdleLimit \in Nat
      /\ Cardinality(Slots) \in Nat
  BY Numbers
<1>2. (IdleLimit + 1) * Refill = IdleLimit * Refill + Refill
  BY <1>1, Distributes
<1>3. IdleLimit * Refill = Refill * IdleLimit /\ Refill * IdleLimit \in Nat
  BY <1>1
<1>4. Burst + Cardinality(Slots) <= Refill * IdleLimit
  BY RateLimiterAssumption
<1> QED
  BY <1>1, <1>2, <1>3, <1>4

LEMMA GhostsFinite ==
  ASSUME NEW c
  PROVE  /\ IsFiniteSet(Ghosts(c)) /\ Cardinality(Ghosts(c)) \in Nat
         /\ Cardinality(Ghosts(c)) <= Cardinality(Slots)
<1>1. Ghosts(c) \subseteq Slots
  BY DEF Ghosts
<1> QED
  BY <1>1, RateLimiterAssumption, FS_Subset, FS_CardinalityType

\* There is a bucket for each client and each request in progress.
LEMMA FreeBucket ==
  ASSUME LimiterTypes, NEW s \in Slots, NEW c \in Clients,
         limiters[c] = NoBucket, uses[s] = NoBucket
  PROVE  Min(Buckets \ InUse) \in Buckets \ InUse
<1> DEFINE C == Clients \ {c}
           L == {limiters[d] : d \in C}
           U == {uses[t] : t \in Slots}
<1>1. /\ IsFiniteSet(C) /\ Cardinality(C) = Cardinality(Clients) - 1
  BY RateLimiterAssumption, FS_RemoveElement
<1>2. IsFiniteSet(L) /\ Cardinality(L) <= Cardinality(C)
  <2>1. [d \in C |-> limiters[d]] \in Surjection(C, L)
    BY DEF Surjection
  <2> QED
    BY <1>1, <2>1, FS_Surjection
<1>3. IsFiniteSet(U) /\ Cardinality(U) <= Cardinality(Slots)
  <2>1. [t \in Slots |-> uses[t]] \in Surjection(Slots, U)
    BY DEF Surjection
  <2> QED
    BY <2>1, RateLimiterAssumption, FS_Surjection
<1>4. InUse \subseteq L \cup U
  BY Numbers DEF InUse
<1>5. /\ IsFiniteSet(L \cup U)
      /\ Cardinality(L \cup U) <= Cardinality(L) + Cardinality(U)
  <2>1. IsFiniteSet(L \cap U)
    BY <1>2, FS_Subset
  <2>2. Cardinality(L \cap U) \in Nat /\ Cardinality(L) \in Nat /\ Cardinality(U) \in Nat
    BY <1>2, <1>3, <2>1, FS_CardinalityType
  <2>3. /\ IsFiniteSet(L \cup U)
        /\ Cardinality(L \cup U) = Cardinality(L) + Cardinality(U) - Cardinality(L \cap U)
    BY <1>2, <1>3, FS_Union
  <2> QED
    BY <2>2, <2>3
<1>6. IsFiniteSet(InUse) /\ Cardinality(InUse) <= Cardinality(L \cup U)
  BY <1>4, <1>5, FS_Subset
<1>7. Cardinality(Buckets) = Cardinality(Clients) + Cardinality(Slots)
  <2>1. 1 \in Int /\ Cardinality(Clients) + Cardinality(Slots) \in Nat
    BY Numbers
  <2> DEFINE n == Cardinality(Clients) + Cardinality(Slots)
  <2>2. Cardinality(1..n) = IF 1 > n THEN 0 ELSE n - 1 + 1
    BY <2>1, FS_Interval
  <2> QED
    BY <2>1, <2>2 DEF Buckets
<1>8. Cardinality(InUse) < Cardinality(Buckets)
  <2>1. /\ Cardinality(InUse) \in Nat /\ Cardinality(L \cup U) \in Nat
        /\ Cardinality(L) \in Nat /\ Cardinality(U) \in Nat
    BY <1>2, <1>3, <1>5, <1>6, FS_CardinalityType
  <2> QED
    BY <1>1, <1>2, <1>3, <1>5, <1>6, <1>7, <2>1, Numbers
<1>9. Buckets \ InUse # {}
  <2> SUFFICES ASSUME Buckets \ InUse = {} PROVE FALSE
    OBVIOUS
  <2>1. Buckets = InUse
    BY DEF InUse
  <2>2. Cardinality(InUse) \in Nat
    BY <1>6, FS_CardinalityType
  <2> QED
    BY <1>8, <2>1, <2>2
<1>10. Buckets \ InUse \subseteq Nat
  BY Numbers
<1> QED
  BY <1>9, <1>10, LeastElement

-----------------------------------------------------------------------------
(* Steps that leave the limiter alone *)

LEMMA StillStep ==
  ASSUME RateInv, LimiterTypes', UNCHANGED limiter,
         \A s \in Slots :
           /\ at[s] \in Holding => at'[s] = at[s] /\ client'[s] = client[s]
           /\ at'[s] \in Holding => at[s] \in Holding
  PROVE  RateInv'
<1> USE DEF RateInv, limiter
<1>1. \A c \in Clients : Ghosts(c)' = Ghosts(c)
  BY DEF Ghosts
<1>2. Placed' /\ Owned' /\ Young'
  <2>1. Placed' /\ Owned'
    BY DEF Placed, Owned
  <2>2. Young'
    BY <1>1 DEF Young, Holding
  <2> QED
    BY <2>1, <2>2
<1>3. NotBehind' /\ CaughtUp'
  BY <1>1 DEF NotBehind, CaughtUp, Level
<1> QED
  BY <1>2, <1>3

LEMMA NotHeld ==
  ASSUME RateInv, NEW s \in Slots, at[s] \notin Holding
  PROVE  uses[s] = NoBucket /\ \A c \in Clients : s \notin Ghosts(c)
BY DEF RateInv, Placed, Ghosts

\* NotTracked, Track, Report, Panic.
LEMMA HandlerStep ==
  ASSUME RateInv, NEW s \in Slots, UNCHANGED limiter,
         at[s] \in {"handler", "tracked"},
         (Goto(s, "tracked") /\ UNCHANGED client) \/ Answer(s)
  PROVE  RateInv'
<1>1. LimiterTypes
  BY DEF RateInv
<1>2. /\ at' \in [Slots -> {"idle", "handler", "tracked"} \cup Middleware]
      /\ client' \in [Slots -> Clients]
  BY <1>1, RateLimiterAssumption DEF LimiterTypes, Answer, Goto
<1>3. LimiterTypes'
  BY <1>1, <1>2 DEF LimiterTypes, limiter, LimiterTypeOK
<1>4. ASSUME NEW t \in Slots
      PROVE  /\ at[t] \in Holding => at'[t] = at[t] /\ client'[t] = client[t]
             /\ at'[t] \in Holding => at[t] \in Holding
  BY <1>1 DEF LimiterTypes, Answer, Goto, Holding
<1> QED
  BY <1>3, <1>4, StillStep

-----------------------------------------------------------------------------
(* RateLimitMiddleware *)

LEMMA ArriveStep ==
  ASSUME RateInv, NEW s \in Slots, NEW c \in Clients, NEW i, Arrive(s, c, i)
  PROVE  RateInv'
<1> USE DEF RateInv
<1>1. /\ at[s] \notin Holding
      /\ \A t \in Slots : t # s =>
           at'[t] = at[t] /\ client'[t] = client[t] /\ uses'[t] = uses[t]
      /\ at'[s] = IF limiters[c] = NoBucket THEN "absent" ELSE "found"
      /\ client'[s] = c /\ uses'[s] = limiters[c]
      /\ UNCHANGED <<limiters, tokens, idle, ideal>>
  BY DEF Arrive, Lookup, Use, Goto, LimiterTypes, LimiterTypeOK, Holding
<1>2. LimiterTypes'
  <2>1. /\ at' \in [Slots -> {"idle", "handler", "tracked"} \cup Middleware]
        /\ client' \in [Slots -> Clients]
    BY DEF Arrive, Goto, LimiterTypes, Middleware
  <2>2. uses' \in [Slots -> Buckets \cup {NoBucket}]
    BY DEF Arrive, Lookup, Use, LimiterTypes, LimiterTypeOK
  <2> QED
    BY <1>1, <2>1, <2>2 DEF LimiterTypes, LimiterTypeOK
<1>3. ASSUME NEW d \in Clients PROVE Ghosts(d)' = Ghosts(d)
  <2>1. s \notin Ghosts(d) /\ s \notin Ghosts(d)'
    BY <1>1 DEF Ghosts, Holding
  <2> QED
    BY <1>1, <2>1 DEF Ghosts
<1>4. Placed'
  <2>1. limiters[c] # NoBucket => limiters[c] \in Buckets
    BY DEF LimiterTypes, LimiterTypeOK
  <2> QED
    BY <1>1, <2>1 DEF Placed, Holding
<1>5. Owned'
  BY <1>1 DEF Owned, Holding
<1>6. Young'
  BY <1>1, <1>3 DEF Young, Holding
<1>7. NotBehind' /\ CaughtUp'
  BY <1>1, <1>3 DEF NotBehind, CaughtUp, Level
<1> QED
  BY <1>2, <1>4, <1>5, <1>6, <1>7

\* What the bounds on a client's bucket say when it was touched just now.
LEMMA DebtBound ==
  ASSUME NEW l \in Nat, NEW x \in Int, NEW g \in Nat, NEW n \in Nat, l - x + g <= n
  PROVE  x >= 0 * Refill - n
<1>1. 0 * Refill = 0
  BY Numbers
<1> QED
  BY <1>1

LEMMA LevelType ==
  ASSUME LimiterTypes, NEW c \in Clients
  PROVE  Level(c) \in 0..Burst /\ Level(c) \in Nat /\ ideal[c] \in Int
<1>1. limiters[c] \in Buckets \cup {NoBucket} /\ ideal[c] \in Int
  BY DEF LimiterTypes, LimiterTypeOK
<1>2. limiters[c] # NoBucket => tokens[limiters[c]] \in 0..Burst
  BY <1>1 DEF LimiterTypes, LimiterTypeOK
<1> QED
  BY <1>1, <1>2, Numbers DEF Level

LEMMA CaughtUpYoung ==
  ASSUME LimiterTypes, NotBehind, NEW c \in Clients
  PROVE  ideal[c] >= 0 * Refill - Cardinality(Slots)
<1>1. Level(c) \in Nat /\ ideal[c] \in Int
  BY LevelType
<1>2. Cardinality(Ghosts(c)) \in Nat /\ Cardinality(Slots) \in Nat
  BY GhostsFinite, Numbers
<1> QED
  BY <1>1, <1>2, DebtBound DEF NotBehind

LEMMA TouchStep ==
  ASSUME RateInv, NEW s \in Slots, TouchEntry(s) PROVE RateInv'
<1> USE DEF RateInv
<1>1. /\ at[s] = "found" /\ uses[s] \in Buckets
      /\ \A t \in Slots : at'[t] = IF t = s THEN "allow" ELSE at[t]
      /\ \A b \in Buckets : idle'[b] = IF b = uses[s] THEN 0 ELSE idle[b]
      /\ UNCHANGED <<limiters, tokens, uses, ideal, client>>
  BY DEF TouchEntry, Touch, Goto, LimiterTypes, LimiterTypeOK, Placed, Holding
<1>2. LimiterTypes'
  <2>1. at' \in [Slots -> {"idle", "handler", "tracked"} \cup Middleware]
    BY DEF TouchEntry, Goto, LimiterTypes, Middleware
  <2>2. idle' \in [Buckets -> 0..(IdleLimit + 1)]
    BY <1>1, Numbers DEF TouchEntry, Touch, LimiterTypes, LimiterTypeOK
  <2> QED
    BY <1>1, <2>1, <2>2 DEF LimiterTypes, LimiterTypeOK
<1>3. ASSUME NEW d \in Clients PROVE Ghosts(d)' = Ghosts(d)
  BY <1>1 DEF Ghosts, Holding
<1>4. Placed' /\ Owned'
  BY <1>1 DEF Placed, Owned, Holding
<1>5. \A t \in Slots : uses[t] = NoBucket \/ uses[t] \in Buckets
  BY DEF LimiterTypes, LimiterTypeOK
<1>6. \A d \in Clients : limiters[d] = NoBucket \/ limiters[d] \in Buckets
  BY DEF LimiterTypes, LimiterTypeOK
<1>7. Young'
  <2>1. ASSUME NEW t \in Slots, at'[t] = "allow", uses[t] = limiters[client[t]]
        PROVE  idle'[uses[t]] = 0
    <3>1. uses[t] \in Buckets
      BY <1>1, <2>1 DEF Placed, Holding
    <3> QED
      BY <1>1, <2>1, <3>1 DEF Young
  <2>2. ASSUME NEW d \in Clients, limiters[d] # NoBucket, Ghosts(d) # {}
        PROVE  idle'[limiters[d]] = 0
    BY <1>1, <1>6, <2>2 DEF Young
  <2> QED
    BY <1>1, <1>3, <2>1, <2>2 DEF Young
<1>8. NotBehind'
  BY <1>1, <1>3 DEF NotBehind, Level
<1>9. CaughtUp'
  <2>1. ASSUME NEW d \in Clients, limiters[d] # NoBucket
        PROVE  \/ ideal[d] >= Burst
               \/ ideal[d] >= idle'[limiters[d]] * Refill - Cardinality(Slots)
    <3>1. CASE limiters[d] = uses[s]
      BY <1>1, <2>1, <3>1, CaughtUpYoung
    <3>2. CASE limiters[d] # uses[s]
      BY <1>1, <1>6, <2>1, <3>2 DEF CaughtUp
    <3> QED
      BY <3>1, <3>2
  <2> QED
    BY <1>1, <2>1 DEF CaughtUp
<1> QED
  BY <1>2, <1>4, <1>7, <1>8, <1>9

\* Another request made the entry meanwhile.
LEMMA CreateFoundStep ==
  ASSUME RateInv, NEW s \in Slots, CreateEntry(s), limiters[client[s]] # NoBucket
  PROVE  RateInv'
<1> DEFINE c == client[s]
           b == limiters[c]
<1> USE DEF RateInv
<1>1. c \in Clients /\ b \in Buckets /\ at[s] = "absent" /\ uses[s] = NoBucket
  BY DEF CreateEntry, LimiterTypes, LimiterTypeOK, Placed, Holding
<1>2. /\ \A t \in Slots : at'[t] = IF t = s THEN "allow" ELSE at[t]
      /\ \A t \in Slots : uses'[t] = IF t = s THEN b ELSE uses[t]
      /\ \A e \in Buckets : idle'[e] = IF e = b THEN 0 ELSE idle[e]
      /\ UNCHANGED <<limiters, tokens, ideal, client>>
  BY DEF CreateEntry, Create, Use, Goto, LimiterTypes, LimiterTypeOK
<1>3. LimiterTypes'
  <2>1. at' \in [Slots -> {"idle", "handler", "tracked"} \cup Middleware]
    BY DEF CreateEntry, Goto, LimiterTypes, Middleware
  <2>2. idle' \in [Buckets -> 0..(IdleLimit + 1)]
    <3>1. 0 \in 0..(IdleLimit + 1)
      BY Numbers
    <3> QED
      BY <1>1, <3>1 DEF CreateEntry, Create, LimiterTypes, LimiterTypeOK
  <2>3. uses' \in [Slots -> Buckets \cup {NoBucket}]
    BY <1>1 DEF CreateEntry, Create, Use, LimiterTypes, LimiterTypeOK
  <2> QED
    BY <1>2, <2>1, <2>2, <2>3 DEF LimiterTypes, LimiterTypeOK
<1>4. ASSUME NEW d \in Clients PROVE Ghosts(d)' = Ghosts(d)
  <2>1. s \notin Ghosts(d) /\ s \notin Ghosts(d)'
    BY <1>1, <1>2 DEF Ghosts, Holding
  <2> QED
    BY <1>2, <2>1 DEF Ghosts
<1>5. Placed' /\ Owned'
  <2>1. Placed'
    BY <1>1, <1>2 DEF Placed, Holding
  <2>2. Owned'
    BY <1>1, <1>2 DEF Owned, Holding
  <2> QED
    BY <2>1, <2>2
<1>6. \A d \in Clients : limiters[d] = NoBucket \/ limiters[d] \in Buckets
  BY DEF LimiterTypes, LimiterTypeOK
<1>7. Young'
  <2>1. ASSUME NEW t \in Slots, at'[t] = "allow", uses'[t] = limiters[client[t]]
        PROVE  idle'[uses'[t]] = 0
    <3>1. CASE t = s
      BY <1>1, <1>2, <3>1
    <3>2. CASE t # s
      <4>1. uses[t] \in Buckets /\ idle[uses[t]] = 0
        BY <1>2, <2>1, <3>2 DEF Young, Placed, Holding
      <4> QED
        BY <1>2, <3>2, <4>1
    <3> QED
      BY <3>1, <3>2
  <2>2. ASSUME NEW d \in Clients, limiters[d] # NoBucket, Ghosts(d) # {}
        PROVE  idle'[limiters[d]] = 0
    BY <1>2, <1>6, <2>2 DEF Young
  <2> QED
    BY <1>2, <1>4, <2>1, <2>2 DEF Young
<1>8. NotBehind'
  BY <1>2, <1>4 DEF NotBehind, Level
<1>9. CaughtUp'
  <2>1. ASSUME NEW d \in Clients, limiters[d] # NoBucket
        PROVE  \/ ideal[d] >= Burst
               \/ ideal[d] >= idle'[limiters[d]] * Refill - Cardinality(Slots)
    <3>1. CASE limiters[d] = b
      BY <1>1, <1>2, <2>1, <3>1, CaughtUpYoung
    <3>2. CASE limiters[d] # b
      BY <1>2, <1>6, <2>1, <3>2 DEF CaughtUp
    <3> QED
      BY <3>1, <3>2
  <2> QED
    BY <1>2, <2>1 DEF CaughtUp
<1> QED
  BY <1>3, <1>5, <1>7, <1>8, <1>9

\* getLimiter makes a full bucket that nobody else uses.
LEMMA CreateNewStep ==
  ASSUME RateInv, NEW s \in Slots, CreateEntry(s), limiters[client[s]] = NoBucket
  PROVE  RateInv'
<1> DEFINE c == client[s]
           b == Min(Buckets \ InUse)
<1> USE DEF RateInv
<1>1. c \in Clients /\ at[s] = "absent" /\ uses[s] = NoBucket
  BY DEF CreateEntry, LimiterTypes, LimiterTypeOK, Placed, Holding
<1>2. b \in Buckets /\ b \notin InUse
  BY <1>1, FreeBucket
<1>3. b # NoBucket /\ Burst \in 0..Burst /\ 0 \in 0..(IdleLimit + 1)
  BY <1>2, Numbers
<1>4. (\A d \in Clients : limiters[d] # b) /\ (\A t \in Slots : uses[t] # b)
  BY <1>2 DEF InUse
<1>5. Create(s, c) /\ Goto(s, "allow") /\ client' = client
  BY DEF CreateEntry
<1>6. /\ limiters' = [limiters EXCEPT ![c] = b] /\ uses' = [uses EXCEPT ![s] = b]
      /\ tokens' = [tokens EXCEPT ![b] = Burst] /\ idle' = [idle EXCEPT ![b] = 0]
      /\ ideal' = ideal /\ client' = client
  BY <1>5 DEF Create, Use
<1> HIDE DEF b
<1>7. /\ \A t \in Slots : at'[t] = IF t = s THEN "allow" ELSE at[t]
      /\ \A t \in Slots : uses'[t] = IF t = s THEN b ELSE uses[t]
      /\ \A d \in Clients : limiters'[d] = IF d = c THEN b ELSE limiters[d]
      /\ \A e \in Buckets : idle'[e] = IF e = b THEN 0 ELSE idle[e]
      /\ \A e \in Buckets : tokens'[e] = IF e = b THEN Burst ELSE tokens[e]
  BY <1>5, <1>6 DEF Goto, LimiterTypes, LimiterTypeOK
<1>8. LimiterTypes'
  <2>1. at' \in [Slots -> {"idle", "handler", "tracked"} \cup Middleware]
    BY <1>5 DEF Goto, LimiterTypes, Middleware
  <2>2. idle' \in [Buckets -> 0..(IdleLimit + 1)] /\ tokens' \in [Buckets -> 0..Burst]
    BY <1>2, <1>3, <1>6 DEF LimiterTypes, LimiterTypeOK
  <2>3. /\ uses' \in [Slots -> Buckets \cup {NoBucket}]
        /\ limiters' \in [Clients -> Buckets \cup {NoBucket}]
    BY <1>2, <1>6 DEF LimiterTypes, LimiterTypeOK
  <2> QED
    BY <1>6, <2>1, <2>2, <2>3 DEF LimiterTypes, LimiterTypeOK
<1>9. ASSUME NEW d \in Clients PROVE Ghosts(d)' = Ghosts(d)
  <2>1. s \notin Ghosts(d) /\ s \notin Ghosts(d)'
    BY <1>1, <1>6, <1>7 DEF Ghosts, Holding
  <2>2. ASSUME NEW t \in Slots, t # s PROVE t \in Ghosts(d)' <=> t \in Ghosts(d)
    <3>1. at[t] \in Holding => uses[t] # NoBucket
      BY Numbers DEF Placed
    <3>2. CASE d = c
      BY <1>1, <1>4, <1>6, <1>7, <2>2, <3>1, <3>2 DEF Ghosts
    <3>3. CASE d # c
      BY <1>6, <1>7, <2>2, <3>3 DEF Ghosts
    <3> QED
      BY <3>2, <3>3
  <2>3. Ghosts(d) \subseteq Slots /\ Ghosts(d)' \subseteq Slots
    BY DEF Ghosts
  <2> QED
    BY <2>1, <2>2, <2>3
<1>10. Placed'
  BY <1>1, <1>2, <1>7 DEF Placed, Holding
<1>11. Owned'
  <2>1. ASSUME NEW d \in Clients, NEW e \in Clients, d # e, limiters'[d] # NoBucket
        PROVE  limiters'[d] # limiters'[e]
    BY <1>4, <1>7, <2>1 DEF Owned
  <2>2. ASSUME NEW t \in Slots, NEW d \in Clients, at'[t] \in Holding,
               uses'[t] = limiters'[d]
        PROVE  client[t] = d
    <3>1. CASE t = s
      BY <1>4, <1>7, <2>2, <3>1
    <3>2. CASE t # s
      BY <1>4, <1>7, <2>2, <3>2 DEF Owned
    <3> QED
      BY <3>1, <3>2
  <2> QED
    BY <1>6, <2>1, <2>2 DEF Owned
<1>12. \A d \in Clients : limiters[d] = NoBucket \/ limiters[d] \in Buckets
  BY DEF LimiterTypes, LimiterTypeOK
<1>13. Young'
  <2>1. ASSUME NEW t \in Slots, at'[t] = "allow", uses'[t] = limiters'[client[t]]
        PROVE  idle'[uses'[t]] = 0
    <3>1. CASE t = s
      BY <1>2, <1>7, <3>1
    <3>2. CASE t # s
      <4>1. uses[t] \in Buckets /\ uses[t] # b /\ client[t] \in Clients
        BY <1>4, <1>7, <2>1, <3>2 DEF Placed, Holding, LimiterTypes
      <4>2. uses[t] = limiters[client[t]]
        BY <1>7, <2>1, <3>2, <4>1
      <4> QED
        BY <1>7, <2>1, <3>2, <4>1, <4>2 DEF Young
    <3> QED
      BY <3>1, <3>2
  <2>2. ASSUME NEW d \in Clients, limiters'[d] # NoBucket, Ghosts(d) # {}
        PROVE  idle'[limiters'[d]] = 0
    BY <1>2, <1>4, <1>7, <1>12, <2>2 DEF Young
  <2> QED
    BY <1>6, <1>9, <2>1, <2>2 DEF Young
<1>14. ASSUME NEW d \in Clients PROVE Level(d)' = Level(d)
  BY <1>1, <1>2, <1>3, <1>4, <1>7, <1>12 DEF Level
<1>15. NotBehind'
  BY <1>6, <1>9, <1>14 DEF NotBehind
<1>16. CaughtUp'
  <2>1. ASSUME NEW d \in Clients, limiters'[d] # NoBucket
        PROVE  \/ ideal[d] >= Burst
               \/ ideal[d] >= idle'[limiters'[d]] * Refill - Cardinality(Slots)
    <3>1. CASE d = c
      <4>1. ideal[c] >= 0 * Refill - Cardinality(Slots)
        BY <1>1, CaughtUpYoung
      <4> QED
        BY <1>1, <1>2, <1>7, <3>1, <4>1
    <3>2. CASE d # c
      BY <1>4, <1>7, <1>12, <2>1, <3>2 DEF CaughtUp
    <3> QED
      BY <3>1, <3>2
  <2> QED
    BY <1>6, <2>1 DEF CaughtUp
<1> QED
  BY <1>8, <1>10, <1>11, <1>13, <1>15, <1>16

\* A token is taken: from the client's bucket, or from one that was removed.
LEMMA AllowStep ==
  ASSUME RateInv, NEW s \in Slots, Allow(s) PROVE RateInv'
<1> DEFINE c == client[s]
           b == uses[s]
<1> USE DEF RateInv
<1>1. c \in Clients /\ at[s] = "allow" /\ b \in Buckets /\ tokens[b] > 0
  BY DEF Allow, TakeToken, LimiterTypes, Placed, Holding
<1>2. /\ \A t \in Slots : at'[t] = IF t = s THEN "handler" ELSE at[t]
      /\ \A t \in Slots : uses'[t] = IF t = s THEN NoBucket ELSE uses[t]
      /\ \A d \in Clients : ideal'[d] = IF d = c THEN ideal[d] - 1 ELSE ideal[d]
      /\ UNCHANGED <<limiters, client>>
  BY DEF Allow, TakeToken, Use, Goto, LimiterTypes, LimiterTypeOK
<1>3. /\ tokens' = Collected([tokens EXCEPT ![b] = @ - 1]) /\ idle' = Collected(idle)
  BY DEF Allow, TakeToken
<1>4. /\ \A e \in Buckets : tokens'[e] = IF e \in InUse'
                                         THEN IF e = b THEN tokens[e] - 1 ELSE tokens[e]
                                         ELSE 0
      /\ \A e \in Buckets : idle'[e] = IF e \in InUse' THEN idle[e] ELSE 0
  BY <1>3 DEF Collected, LimiterTypes, LimiterTypeOK
<1>5. \A e \in Buckets : tokens[e] \in 0..Burst /\ idle[e] \in 0..(IdleLimit + 1)
  BY DEF LimiterTypes, LimiterTypeOK
<1>6. LimiterTypes'
  <2>1. at' \in [Slots -> {"idle", "handler", "tracked"} \cup Middleware]
    BY DEF Allow, Goto, LimiterTypes
  <2>2. uses' \in [Slots -> Buckets \cup {NoBucket}] /\ ideal' \in [Clients -> Int]
    BY DEF Allow, TakeToken, Use, LimiterTypes, LimiterTypeOK
  <2>3. tokens' \in [Buckets -> 0..Burst]
    <3>1. \A e \in Buckets : tokens'[e] \in 0..Burst
      BY <1>1, <1>4, <1>5, Numbers
    <3>2. tokens' = [e \in Buckets |-> tokens'[e]]
      BY <1>3 DEF Collected
    <3> QED
      BY <3>1, <3>2
  <2>4. idle' \in [Buckets -> 0..(IdleLimit + 1)]
    <3>1. \A e \in Buckets : idle'[e] \in 0..(IdleLimit + 1)
      BY <1>4, <1>5, Numbers
    <3>2. idle' = [e \in Buckets |-> idle'[e]]
      BY <1>3 DEF Collected
    <3> QED
      BY <3>1, <3>2
  <2> QED
    BY <1>2, <2>1, <2>2, <2>3, <2>4 DEF LimiterTypes, LimiterTypeOK
<1>7. ASSUME NEW d \in Clients, limiters[d] # NoBucket
      PROVE  /\ limiters[d] \in Buckets /\ idle'[limiters[d]] = idle[limiters[d]]
             /\ tokens'[limiters[d]] = IF limiters[d] = b THEN tokens[limiters[d]] - 1
                                       ELSE tokens[limiters[d]]
  <2>1. limiters[d] \in Buckets
    BY <1>7 DEF LimiterTypes, LimiterTypeOK
  <2>2. limiters[d] \in InUse'
    BY <1>2, <2>1 DEF InUse
  <2> QED
    BY <1>4, <2>1, <2>2
<1>8. Placed' /\ Owned'
  BY <1>2 DEF Placed, Owned, Holding
<1>9. ASSUME NEW d \in Clients PROVE Ghosts(d)' = Ghosts(d) \ {s}
  <2>1. s \notin Ghosts(d)'
    BY <1>2 DEF Ghosts, Holding
  <2>2. ASSUME NEW t \in Slots, t # s PROVE t \in Ghosts(d)' <=> t \in Ghosts(d)
    BY <1>2, <2>2 DEF Ghosts
  <2>3. Ghosts(d) \subseteq Slots /\ Ghosts(d)' \subseteq Slots
    BY DEF Ghosts
  <2> QED
    BY <2>1, <2>2, <2>3
<1>10. Young'
  <2>1. ASSUME NEW t \in Slots, at'[t] = "allow", uses'[t] = limiters[client[t]]
        PROVE  idle'[uses'[t]] = 0
    <3>1. t # s /\ client[t] \in Clients /\ uses'[t] = uses[t] /\ uses[t] \in Buckets
      BY <1>2, <2>1 DEF LimiterTypes, Placed, Holding
    <3>2. limiters[client[t]] # NoBucket
      BY <2>1, <3>1, Numbers
    <3>3. idle[uses[t]] = 0
      BY <1>2, <2>1, <3>1 DEF Young
    <3> QED
      BY <1>7, <2>1, <3>1, <3>2, <3>3
  <2>2. ASSUME NEW d \in Clients, limiters[d] # NoBucket, Ghosts(d)' # {}
        PROVE  idle'[limiters[d]] = 0
    BY <1>7, <1>9, <2>2 DEF Young
  <2> QED
    BY <1>2, <2>1, <2>2 DEF Young
<1>11. ASSUME NEW d \in Clients
       PROVE  /\ Level(d)' - ideal'[d] + Cardinality(Ghosts(d)') <= Cardinality(Slots)
              /\ Level(d)' \in Nat /\ ideal'[d] \in Int
              /\ Cardinality(Ghosts(d)') \in Nat
  <2>1. /\ IsFiniteSet(Ghosts(d)) /\ Cardinality(Ghosts(d)) \in Nat
        /\ Cardinality(Ghosts(d)') =
             IF s \in Ghosts(d) THEN Cardinality(Ghosts(d)) - 1 ELSE Cardinality(Ghosts(d))
    BY <1>9, GhostsFinite, FS_RemoveElement
  <2>2. Cardinality(Ghosts(d)') \in Nat
    <3>1. IsFiniteSet(Ghosts(d)')
      BY <1>9, <2>1, FS_RemoveElement
    <3> QED
      BY <3>1, FS_CardinalityType
  <2>3. /\ ideal[d] \in Int /\ Cardinality(Slots) \in Nat
        /\ Level(d) - ideal[d] + Cardinality(Ghosts(d)) <= Cardinality(Slots)
    BY Numbers DEF LimiterTypes, LimiterTypeOK, NotBehind
  <2>4. Level(d) \in Nat /\ Level(d)' \in Nat
    <3>1. CASE limiters[d] = NoBucket
      BY <1>2, <3>1, LevelType, Numbers DEF Level
    <3>2. CASE limiters[d] # NoBucket
      <4>1. tokens'[limiters[d]] \in 0..Burst
        BY <1>6, <1>7, <3>2 DEF LimiterTypes, LimiterTypeOK
      <4>2. Level(d)' = tokens'[limiters[d]]
        BY <1>2, <3>2 DEF Level
      <4> QED
        BY <4>1, <4>2, LevelType, Numbers
    <3> QED
      BY <3>1, <3>2
  <2>5. CASE limiters[d] = b
    <3>1. d = c /\ s \notin Ghosts(d)
      BY <1>1, <2>5 DEF Owned, Ghosts, Holding
    <3>2. Level(d)' = Level(d) - 1
      BY <1>1, <1>2, <1>7, <2>5, Numbers DEF Level
    <3> QED
      BY <1>2, <2>1, <2>2, <2>3, <2>4, <3>1, <3>2
  <2>6. CASE limiters[d] # b
    <3>1. Level(d)' = Level(d)
      BY <1>2, <1>7, <2>6 DEF Level
    <3>2. s \in Ghosts(d) <=> d = c
      BY <1>1, <2>6 DEF Ghosts, Holding
    <3> QED
      BY <1>2, <2>1, <2>2, <2>3, <2>4, <3>1, <3>2
  <2> QED
    BY <2>5, <2>6
<1>12. NotBehind'
  BY <1>11 DEF NotBehind
<1>13. CaughtUp'
  <2>1. ASSUME NEW d \in Clients, limiters[d] # NoBucket
        PROVE  \/ ideal'[d] >= Burst
               \/ ideal'[d] >= idle'[limiters[d]] * Refill - Cardinality(Slots)
    <3>1. CASE d # c
      BY <1>2, <1>7, <2>1, <3>1 DEF CaughtUp
    <3>2. CASE d = c
      <4>1. idle[limiters[c]] = 0
        <5>1. CASE limiters[c] = b
          BY <1>1, <5>1 DEF Young
        <5>2. CASE limiters[c] # b
          <6>1. s \in Ghosts(c)
            BY <1>1, <5>2 DEF Ghosts, Holding
          <6> QED
            BY <1>1, <2>1, <3>2, <6>1 DEF Young
        <5> QED
          BY <5>1, <5>2
      <4>2. ideal'[d] >= 0 * Refill - Cardinality(Slots)
        BY <1>11, Numbers, DebtBound
      <4> QED
        BY <1>7, <2>1, <3>2, <4>1, <4>2
    <3> QED
      BY <3>1, <3>2
  <2> QED
    BY <1>2, <2>1 DEF CaughtUp
<1> QED
  BY <1>6, <1>8, <1>10, <1>12, <1>13

\* 429: the request lets go of its bucket.
LEMMA DenyStep ==
  ASSUME RateInv, NEW s \in Slots, Deny(s) PROVE RateInv'
<1> USE DEF RateInv
<1>1. /\ at[s] = "allow" /\ at'[s] = "idle" /\ uses'[s] = NoBucket
      /\ \A t \in Slots : t # s =>
           at'[t] = at[t] /\ uses'[t] = uses[t] /\ client'[t] = client[t]
      /\ UNCHANGED <<limiters, tokens, ideal>> /\ idle' = Collected(idle)
  BY DEF Deny, NoToken, Use, Answer, Goto, LimiterTypes, LimiterTypeOK
<1>2. \A e \in Buckets : idle'[e] = IF e \in InUse' THEN idle[e] ELSE 0
  BY <1>1 DEF Collected
<1>3. LimiterTypes'
  <2>1. /\ at' \in [Slots -> {"idle", "handler", "tracked"} \cup Middleware]
        /\ client' \in [Slots -> Clients]
    BY RateLimiterAssumption DEF Deny, Answer, Goto, LimiterTypes
  <2>2. uses' \in [Slots -> Buckets \cup {NoBucket}]
    BY DEF Deny, NoToken, Use, LimiterTypes, LimiterTypeOK
  <2>3. idle' \in [Buckets -> 0..(IdleLimit + 1)]
    <3>1. \A e \in Buckets : idle'[e] \in 0..(IdleLimit + 1)
      BY <1>2, Numbers DEF LimiterTypes, LimiterTypeOK
    <3>2. idle' = [e \in Buckets |-> idle'[e]]
      BY <1>1 DEF Collected
    <3> QED
      BY <3>1, <3>2
  <2> QED
    BY <1>1, <2>1, <2>2, <2>3 DEF LimiterTypes, LimiterTypeOK
<1>4. ASSUME NEW d \in Clients, limiters[d] # NoBucket
      PROVE  limiters[d] \in Buckets /\ idle'[limiters[d]] = idle[limiters[d]]
  <2>1. limiters[d] \in Buckets
    BY <1>4 DEF LimiterTypes, LimiterTypeOK
  <2>2. limiters[d] \in InUse'
    BY <1>1, <2>1 DEF InUse
  <2> QED
    BY <1>2, <2>1, <2>2
<1>5. Placed' /\ Owned'
  BY <1>1 DEF Placed, Owned, Holding
<1>6. ASSUME NEW d \in Clients PROVE Ghosts(d)' \subseteq Ghosts(d)
  BY <1>1 DEF Ghosts, Holding
<1>7. Young'
  <2>1. ASSUME NEW t \in Slots, at'[t] = "allow", uses'[t] = limiters[client'[t]]
        PROVE  idle'[uses'[t]] = 0
    <3>1. /\ t # s /\ client'[t] = client[t] /\ client[t] \in Clients
          /\ uses'[t] = uses[t] /\ uses[t] \in Buckets
      BY <1>1, <2>1 DEF LimiterTypes, Placed, Holding
    <3>2. limiters[client[t]] # NoBucket
      BY <2>1, <3>1, Numbers
    <3>3. idle[uses[t]] = 0
      BY <1>1, <2>1, <3>1 DEF Young
    <3> QED
      BY <1>4, <2>1, <3>1, <3>2, <3>3
  <2>2. ASSUME NEW d \in Clients, limiters[d] # NoBucket, Ghosts(d)' # {}
        PROVE  idle'[limiters[d]] = 0
    BY <1>4, <1>6, <2>2 DEF Young
  <2> QED
    BY <1>1, <2>1, <2>2 DEF Young
<1>8. NotBehind'
  <2>1. ASSUME NEW d \in Clients
        PROVE  Level(d)' - ideal[d] + Cardinality(Ghosts(d)') <= Cardinality(Slots)
    <3>1. Level(d)' = Level(d)
      BY <1>1 DEF Level
    <3>2. Cardinality(Ghosts(d)') <= Cardinality(Ghosts(d))
          /\ Cardinality(Ghosts(d)') \in Nat /\ Cardinality(Ghosts(d)) \in Nat
      BY <1>6, GhostsFinite, FS_Subset, FS_CardinalityType
    <3>3. Level(d) \in Int /\ ideal[d] \in Int /\ Cardinality(Slots) \in Nat
      BY LevelType, Numbers DEF LimiterTypes, LimiterTypeOK
    <3> QED
      BY <3>1, <3>2, <3>3 DEF NotBehind
  <2> QED
    BY <1>1, <2>1 DEF NotBehind
<1>9. CaughtUp'
  BY <1>1, <1>4 DEF CaughtUp
<1> QED
  BY <1>3, <1>5, <1>7, <1>8, <1>9
-----------------------------------------------------------------------------
(* Time *)

\* cleanupLoop: a bucket idle for longer than the limit has been caught up with, so
\* that its requests may go on with it while the next one gets a full bucket.
LEMMA CleanupStep ==
  ASSUME RateInv, NEW c \in Clients, CleanupLoop(c) PROVE RateInv'
<1> USE DEF RateInv
<1>1. /\ limiters[c] \in Buckets /\ limiters[c] # NoBucket
      /\ idle[limiters[c]] > IdleLimit
      /\ limiters'[c] = NoBucket
      /\ \A d \in Clients : d # c => limiters'[d] = limiters[d]
      /\ UNCHANGED <<uses, ideal, at, client>>
      /\ tokens' = Collected(tokens) /\ idle' = Collected(idle)
  BY DEF CleanupLoop, Cleanup, front, LimiterTypes, LimiterTypeOK
<1>2. /\ \A e \in Buckets : tokens'[e] = IF e \in InUse' THEN tokens[e] ELSE 0
      /\ \A e \in Buckets : idle'[e] = IF e \in InUse' THEN idle[e] ELSE 0
  BY <1>1 DEF Collected
<1>3. LimiterTypes'
  <2>1. limiters' \in [Clients -> Buckets \cup {NoBucket}]
    BY DEF CleanupLoop, Cleanup, LimiterTypes, LimiterTypeOK
  <2>2. idle' \in [Buckets -> 0..(IdleLimit + 1)]
    <3>1. \A e \in Buckets : idle'[e] \in 0..(IdleLimit + 1)
      BY <1>2, Numbers DEF LimiterTypes, LimiterTypeOK
    <3>2. idle' = [e \in Buckets |-> idle'[e]]
      BY <1>1 DEF Collected
    <3> QED
      BY <3>1, <3>2
  <2>3. tokens' \in [Buckets -> 0..Burst]
    <3>1. \A e \in Buckets : tokens'[e] \in 0..Burst
      BY <1>2, Numbers DEF LimiterTypes, LimiterTypeOK
    <3>2. tokens' = [e \in Buckets |-> tokens'[e]]
      BY <1>1 DEF Collected
    <3> QED
      BY <3>1, <3>2
  <2> QED
    BY <1>1, <2>1, <2>2, <2>3 DEF LimiterTypes, LimiterTypeOK
<1>4. ASSUME NEW d \in Clients, limiters'[d] # NoBucket
      PROVE  /\ d # c /\ limiters'[d] = limiters[d] /\ limiters[d] \in Buckets
             /\ idle'[limiters[d]] = idle[limiters[d]]
             /\ tokens'[limiters[d]] = tokens[limiters[d]]
  <2>1. d # c /\ limiters'[d] = limiters[d]
    BY <1>1, <1>4
  <2>2. limiters[d] \in Buckets
    BY <1>4, <2>1 DEF LimiterTypes, LimiterTypeOK
  <2>3. limiters[d] \in InUse'
    BY <1>4, <2>1, <2>2 DEF InUse
  <2> QED
    BY <1>2, <2>1, <2>2, <2>3
<1>5. \A t \in Slots : at[t] \in Holding => uses[t] # NoBucket
  BY Numbers DEF Placed
<1>6. ASSUME NEW d \in Clients, d # c PROVE Ghosts(d)' = Ghosts(d)
  BY <1>1, <1>6 DEF Ghosts
<1>7. Placed'
  BY <1>1 DEF Placed
<1>8. Owned'
  <2>1. ASSUME NEW d \in Clients, NEW e \in Clients, d # e, limiters'[d] # NoBucket
        PROVE  limiters'[d] # limiters'[e]
    BY <1>1, <1>4, <2>1 DEF Owned
  <2>2. ASSUME NEW t \in Slots, NEW d \in Clients, at[t] \in Holding,
               uses[t] = limiters'[d]
        PROVE  client[t] = d
    BY <1>1, <1>5, <2>2 DEF Owned
  <2> QED
    BY <1>1, <2>1, <2>2 DEF Owned
<1>9. Young'
  <2>1. ASSUME NEW t \in Slots, at[t] = "allow", uses[t] = limiters'[client[t]]
        PROVE  idle'[uses[t]] = 0
    <3>1. client[t] \in Clients /\ limiters'[client[t]] # NoBucket
      BY <1>5, <2>1 DEF LimiterTypes, Holding
    <3>2. limiters[client[t]] = uses[t] /\ idle'[uses[t]] = idle[uses[t]]
      BY <1>4, <2>1, <3>1
    <3> QED
      BY <2>1, <3>2 DEF Young
  <2>2. ASSUME NEW d \in Clients, limiters'[d] # NoBucket, Ghosts(d)' # {}
        PROVE  idle'[limiters'[d]] = 0
    <3>1. d # c /\ limiters[d] # NoBucket /\ Ghosts(d) # {}
      BY <1>4, <1>6, <2>2
    <3> QED
      BY <1>4, <2>2, <3>1 DEF Young
  <2> QED
    BY <1>1, <2>1, <2>2 DEF Young
<1>10. ideal[c] \in Int /\ ideal[c] >= Burst
  <2>1. idle[limiters[c]] = IdleLimit + 1
    <3>1. idle[limiters[c]] \in 0..(IdleLimit + 1)
      BY <1>1 DEF LimiterTypes, LimiterTypeOK
    <3> QED
      BY <1>1, <3>1, Numbers
  <2>2. \/ ideal[c] >= Burst
        \/ ideal[c] >= (IdleLimit + 1) * Refill - Cardinality(Slots)
    BY <1>1, <2>1 DEF CaughtUp
  <2>3. ideal[c] \in Int /\ (IdleLimit + 1) * Refill \in Int
    BY LevelType, Numbers
  <2> QED
    BY <2>2, <2>3, FullWhenIdle, Numbers
<1>11. NotBehind'
  <2>1. ASSUME NEW d \in Clients
        PROVE  Level(d)' - ideal[d] + Cardinality(Ghosts(d)') <= Cardinality(Slots)
    <3>1. CASE d = c
      <4>1. Level(d)' = Burst
        BY <1>1, <3>1 DEF Level
      <4>2. /\ Cardinality(Ghosts(d)') \in Nat
            /\ Cardinality(Ghosts(d)') <= Cardinality(Slots)
        <5>1. Ghosts(d)' \subseteq Slots
          BY DEF Ghosts
        <5> QED
          BY <5>1, RateLimiterAssumption, FS_Subset, FS_CardinalityType
      <4> QED
        BY <1>10, <3>1, <4>1, <4>2, Numbers
    <3>2. CASE d # c
      <4>1. Level(d)' = Level(d)
        BY <1>1, <1>4, <3>2 DEF Level
      <4> QED
        BY <1>6, <3>2, <4>1 DEF NotBehind
    <3> QED
      BY <3>1, <3>2
  <2> QED
    BY <1>1, <2>1 DEF NotBehind
<1>12. CaughtUp'
  BY <1>1, <1>4 DEF CaughtUp
<1> QED
  BY <1>3, <1>7, <1>8, <1>9, <1>11, <1>12

\* A tick refills the bucket that is never removed as it does the client's, and no
\* request holds a bucket meanwhile.
LEMMA TickStep == ASSUME RateInv, Tick PROVE RateInv'
<1> DEFINE n == Cardinality(Slots)
<1> USE DEF RateInv
<1>1. /\ \A s \in Slots : at[s] \notin Holding
      /\ UNCHANGED <<limiters, uses, at, client>>
      /\ \A c \in Clients : ideal'[c] = Lesser(ideal[c] + Refill, Burst)
      /\ \A b \in Buckets : tokens'[b] =
           IF b \in InUse THEN Lesser(tokens[b] + Refill, Burst) ELSE 0
      /\ \A b \in Buckets : idle'[b] =
           IF b \in InUse THEN Lesser(idle[b] + 1, IdleLimit + 1) ELSE 0
  BY DEF Tick, Age, front, Holding, Middleware
<1>2. \A b \in Buckets : tokens[b] \in 0..Burst /\ idle[b] \in 0..(IdleLimit + 1)
  BY DEF LimiterTypes, LimiterTypeOK
<1>3. LimiterTypes'
  <2>1. tokens' \in [Buckets -> 0..Burst]
    <3>1. \A e \in Buckets : tokens'[e] \in 0..Burst
      BY <1>1, <1>2, Numbers DEF Lesser
    <3>2. tokens' = [e \in Buckets |-> tokens'[e]]
      BY DEF Tick, Age
    <3> QED
      BY <3>1, <3>2
  <2>2. idle' \in [Buckets -> 0..(IdleLimit + 1)]
    <3>1. \A e \in Buckets : idle'[e] \in 0..(IdleLimit + 1)
      BY <1>1, <1>2, Numbers DEF Lesser
    <3>2. idle' = [e \in Buckets |-> idle'[e]]
      BY DEF Tick, Age
    <3> QED
      BY <3>1, <3>2
  <2>3. ideal' \in [Clients -> Int]
    <3>1. \A c \in Clients : ideal'[c] \in Int
      BY <1>1, LevelType, Numbers DEF Lesser
    <3>2. ideal' = [c \in Clients |-> ideal'[c]]
      BY DEF Tick, Age
    <3> QED
      BY <3>1, <3>2
  <2> QED
    BY <1>1, <2>1, <2>2, <2>3 DEF LimiterTypes, LimiterTypeOK
<1>4. ASSUME NEW c \in Clients
      PROVE  Cardinality(Ghosts(c)) = 0 /\ Ghosts(c)' = {}
  <2>1. Ghosts(c) = {} /\ Ghosts(c)' = {}
    BY <1>1 DEF Ghosts
  <2> QED
    BY <2>1, FS_EmptySet
<1>5. Placed' /\ Owned'
  BY <1>1 DEF Placed, Owned
<1>6. Young'
  BY <1>1, <1>4 DEF Young, Holding
<1>7. ASSUME NEW c \in Clients, limiters[c] # NoBucket
      PROVE  /\ limiters[c] \in Buckets
             /\ tokens'[limiters[c]] = Lesser(tokens[limiters[c]] + Refill, Burst)
             /\ idle'[limiters[c]] = Lesser(idle[limiters[c]] + 1, IdleLimit + 1)
  <2>1. limiters[c] \in Buckets
    BY <1>7 DEF LimiterTypes, LimiterTypeOK
  <2>2. limiters[c] \in InUse
    BY <2>1 DEF InUse
  <2> QED
    BY <1>1, <2>1, <2>2
<1>8. NotBehind'
  <2>1. ASSUME NEW c \in Clients
        PROVE  Level(c)' - ideal'[c] + Cardinality(Ghosts(c)') <= n
    <3>1. Level(c) \in 0..Burst /\ ideal[c] \in Int
      BY LevelType
    <3>2. Level(c)' = Lesser(Level(c) + Refill, Burst)
      <4>1. CASE limiters[c] = NoBucket
        BY <1>1, <4>1, Numbers DEF Level, Lesser
      <4>2. CASE limiters[c] # NoBucket
        BY <1>1, <1>7, <4>2 DEF Level
      <4> QED
        BY <4>1, <4>2
    <3>3. Level(c) - ideal[c] <= n
      BY <1>4, <3>1, Numbers DEF NotBehind
    <3>4. Cardinality(Ghosts(c)') = 0
      BY <1>4, FS_EmptySet
    <3>5. Level(c)' - ideal'[c] <= n
      BY <1>1, <3>1, <3>2, <3>3, Numbers DEF Lesser
    <3>6. Level(c)' \in Int /\ ideal'[c] \in Int
      BY <1>1, <3>1, <3>2, Numbers DEF Lesser
    <3> QED
      BY <3>4, <3>5, <3>6
  <2> QED
    BY <1>1, <2>1 DEF NotBehind
<1>9. CaughtUp'
  <2>1. ASSUME NEW c \in Clients, limiters[c] # NoBucket
        PROVE  \/ ideal'[c] >= Burst
               \/ ideal'[c] >= idle'[limiters[c]] * Refill - n
    <3> DEFINE k == idle[limiters[c]]
    <3>1. k \in 0..(IdleLimit + 1) /\ k \in Int /\ ideal[c] \in Int
      <4>1. k \in 0..(IdleLimit + 1)
        BY <1>2, <1>7, <2>1
      <4> QED
        BY <4>1, LevelType, Numbers
    <3>2. idle'[limiters[c]] = Lesser(k + 1, IdleLimit + 1)
      BY <1>7, <2>1
    <3>3. ideal[c] >= Burst \/ ideal[c] >= k * Refill - n
      BY <2>1 DEF CaughtUp
    <3>4. (k + 1) * Refill = k * Refill + Refill /\ k * Refill \in Int
      BY <3>1, Distributes, Numbers
    <3> HIDE DEF k
    <3>5. CASE ideal[c] + Refill >= Burst
      BY <1>1, <3>1, <3>5, Numbers DEF Lesser
    <3>6. CASE ideal[c] + Refill < Burst
      <4>1. ideal'[c] = ideal[c] + Refill /\ ~(ideal[c] >= Burst)
        BY <1>1, <3>1, <3>6, Numbers DEF Lesser
      <4>2. k # IdleLimit + 1
        BY <3>1, <3>3, <3>4, <4>1, FullWhenIdle, Numbers
      <4>3. idle'[limiters[c]] = k + 1
        BY <3>1, <3>2, <4>2, Numbers DEF Lesser
      <4>4. ideal'[c] >= (k * Refill + Refill) - n
        BY <3>1, <3>3, <3>4, <4>1, Numbers
      <4>5. ideal'[c] >= (k + 1) * Refill - n
        BY <3>4, <4>4, Zenon
      <4> QED
        BY <4>3, <4>5, Zenon
    <3> QED
      BY <3>1, <3>5, <3>6, Numbers
  <2> QED
    BY <1>1, <2>1 DEF CaughtUp
<1> QED
  BY <1>3, <1>5, <1>6, <1>8, <1>9
-----------------------------------------------------------------------------
(* The rate each client is held to *)

LEMMA RateStep == ASSUME RateInv, [Next]_vars PROVE RateInv'
<1>1. ASSUME NEW s \in Slots, NotTracked(s) PROVE RateInv'
  BY <1>1, HandlerStep DEF NotTracked, limiter
<1>2. ASSUME NEW s \in Slots, Track(s) PROVE RateInv'
  BY <1>2, HandlerStep DEF Track, limiter
<1>3. ASSUME NEW s \in Slots, NEW status, Report(s, status) PROVE RateInv'
  BY <1>3, HandlerStep DEF Report, limiter
<1>4. ASSUME NEW s \in Slots, Panic(s) PROVE RateInv'
  BY <1>4, HandlerStep DEF Panic, limiter
<1>5. ASSUME UNCHANGED <<limiter, front>> PROVE RateInv'
  <2>1. UNCHANGED limiter /\ UNCHANGED <<at, client>>
    BY <1>5 DEF front
  <2>2. LimiterTypes'
    BY <2>1 DEF RateInv, LimiterTypes, LimiterTypeOK, limiter
  <2> QED
    BY <2>1, <2>2, StillStep
<1>6. CASE CleanupTracker
  BY <1>5, <1>6 DEF CleanupTracker
<1>7. CASE UNCHANGED vars
  BY <1>5, <1>7 DEF vars
<1> QED
  BY <1>1, <1>2, <1>3, <1>6, <1>7, <1>4, ArriveStep, TouchStep, CreateFoundStep,
     CreateNewStep, AllowStep, DenyStep, CleanupStep, TickStep DEF Next

LEMMA RateInit == ASSUME Init PROVE RateInv
<1>1. /\ \A s \in Slots : at[s] = "idle" /\ uses[s] = NoBucket
      /\ \A c \in Clients : limiters[c] = NoBucket /\ ideal[c] = Burst
  BY DEF Init, LimiterInit
<1>2. LimiterTypes
  <2>1. LimiterTypeOK
    <3>1. 0 \in 0..Burst /\ 0 \in 0..(IdleLimit + 1) /\ Burst \in Int
      BY Numbers
    <3>2. tokens \in [Buckets -> 0..Burst] /\ idle \in [Buckets -> 0..(IdleLimit + 1)]
      BY <3>1 DEF Init, LimiterInit
    <3>3. /\ limiters \in [Clients -> Buckets \cup {NoBucket}]
          /\ uses \in [Slots -> Buckets \cup {NoBucket}]
      BY DEF Init, LimiterInit
    <3>4. ideal \in [Clients -> Int]
      BY <3>1 DEF Init, LimiterInit
    <3> QED
      BY <3>2, <3>3, <3>4 DEF LimiterTypeOK
  <2>2. client \in [Slots -> Clients]
    <3>1. (CHOOSE c \in Clients : TRUE) \in Clients
      BY RateLimiterAssumption
    <3> QED
      BY <3>1 DEF Init
  <2>3. at \in [Slots -> {"idle", "handler", "tracked"} \cup Middleware]
    BY DEF Init
  <2> QED
    BY <2>1, <2>2, <2>3 DEF LimiterTypes
<1>3. ASSUME NEW c \in Clients PROVE Ghosts(c) = {} /\ Cardinality(Ghosts(c)) = 0
  <2>1. Ghosts(c) = {}
    BY <1>1 DEF Ghosts, Holding
  <2> QED
    BY <2>1, FS_EmptySet
<1>4. Placed /\ Owned /\ Young /\ CaughtUp
  BY <1>1 DEF Placed, Owned, Young, CaughtUp, Holding
<1>5. NotBehind
  BY <1>1, <1>3, Numbers DEF NotBehind, Level
<1> QED
  BY <1>2, <1>4, <1>5 DEF RateInv

LEMMA RateInvariant == Spec => []RateInv
BY RateInit, RateStep, PTL DEF Spec

\* Whatever the numbers of clients and requests in progress, and whenever entries are
\* cleaned up, a client has no more requests allowed than one bucket lets pass, plus
\* one for each request in progress (getLimiter, cleanupLoop).
THEOREM RateCorrect == Spec => []RateKept
<1>1. RateInv => RateKept
  <2> SUFFICES ASSUME RateInv, NEW c \in Clients
               PROVE  ideal[c] >= - Cardinality(Slots)
    BY DEF RateKept
  <2>1. Level(c) \in Nat /\ ideal[c] \in Int
    BY LevelType DEF RateInv
  <2>2. Cardinality(Ghosts(c)) \in Nat /\ Cardinality(Slots) \in Nat
    BY GhostsFinite, Numbers
  <2> QED
    BY <2>1, <2>2 DEF RateInv, NotBehind
<1> QED
  BY <1>1, RateInvariant, PTL
-----------------------------------------------------------------------------
(* The counters of the tracker *)

TrackedNow == {s \in Slots : at[s] = "tracked"}

CountInv ==
  /\ totalReceived \in Nat /\ totalQueued \in Nat /\ totalFailed \in Nat
  /\ panicked \in Nat
  /\ at \in [Slots -> {"idle", "handler", "tracked"} \cup Middleware]
  /\ Counted

LEMMA CountStep == ASSUME CountInv, [Next]_vars PROVE CountInv'
<1> USE DEF CountInv
<1>1. IsFiniteSet(TrackedNow) /\ Cardinality(TrackedNow) \in Nat
  <2>1. TrackedNow \subseteq Slots
    BY DEF TrackedNow
  <2>2. IsFiniteSet(TrackedNow)
    BY <2>1, RateLimiterAssumption, FS_Subset
  <2> QED
    BY <2>2, FS_CardinalityType
<1>2. totalReceived = totalQueued + totalFailed + panicked + Cardinality(TrackedNow)
  BY DEF Counted, TrackedNow
<1>3. ASSUME NEW s \in Slots, NEW where \in {"idle", "handler"} \cup Middleware,
             Goto(s, where), at[s] # "tracked",
             UNCHANGED <<totalReceived, totalQueued, totalFailed, panicked>>
      PROVE  CountInv'
  <2>1. at' \in [Slots -> {"idle", "handler", "tracked"} \cup Middleware]
    BY <1>3 DEF Goto
  <2>2. TrackedNow' = TrackedNow
    BY <1>3 DEF TrackedNow, Goto, Middleware
  <2> QED
    BY <1>2, <1>3, <2>1, <2>2 DEF Counted, TrackedNow
<1>4. ASSUME NEW s \in Slots, NEW c, NEW i, Arrive(s, c, i) PROVE CountInv'
  BY <1>3, <1>4 DEF Arrive, tracker, Middleware
<1>5. ASSUME NEW s \in Slots, TouchEntry(s) \/ CreateEntry(s) \/ Allow(s) PROVE CountInv'
  BY <1>3, <1>5 DEF TouchEntry, CreateEntry, Allow, tracker, Middleware
<1>6. ASSUME NEW s \in Slots, Deny(s) \/ NotTracked(s) PROVE CountInv'
  BY <1>3, <1>6 DEF Deny, NotTracked, Answer, tracker
<1>7. ASSUME NEW s \in Slots, Track(s) PROVE CountInv'
  <2>1. /\ totalReceived' = totalReceived + 1
        /\ totalQueued' = totalQueued /\ totalFailed' = totalFailed
        /\ panicked' = panicked
        /\ at[s] = "handler" /\ Goto(s, "tracked")
    BY <1>7 DEF Track, TrackRequest
  <2>2. at' \in [Slots -> {"idle", "handler", "tracked"} \cup Middleware]
    BY <2>1 DEF Goto
  <2>3. s \notin TrackedNow /\ TrackedNow' = TrackedNow \cup {s}
    BY <2>1 DEF TrackedNow, Goto
  <2>4. Cardinality(TrackedNow') = Cardinality(TrackedNow) + 1
    BY <1>1, <2>3, FS_AddElement
  <2>5. totalReceived' = totalQueued' + totalFailed' + panicked' + Cardinality(TrackedNow')
    BY <1>1, <1>2, <2>1, <2>4
  <2> QED
    BY <2>1, <2>2, <2>5 DEF Counted, TrackedNow
<1>8. ASSUME NEW s \in Slots, NEW status \in {"queued", "failed"}, Report(s, status)
      PROVE  CountInv'
  <2>1. /\ totalReceived' = totalReceived /\ panicked' = panicked
        /\ totalQueued' = IF status = "queued" THEN totalQueued + 1 ELSE totalQueued
        /\ totalFailed' = IF status = "failed" THEN totalFailed + 1 ELSE totalFailed
        /\ at[s] = "tracked" /\ Goto(s, "idle")
    BY <1>8 DEF Report, UpdateStatus, Answer
  <2>2. at' \in [Slots -> {"idle", "handler", "tracked"} \cup Middleware]
    BY <2>1 DEF Goto
  <2>3. s \in TrackedNow /\ TrackedNow' = TrackedNow \ {s}
    BY <2>1 DEF TrackedNow, Goto
  <2>4. Cardinality(TrackedNow') = Cardinality(TrackedNow) - 1
    BY <1>1, <2>3, FS_RemoveElement
  <2>5. totalQueued' + totalFailed' = totalQueued + totalFailed + 1
        /\ totalQueued' \in Nat /\ totalFailed' \in Nat
    BY <2>1
  <2>6. totalReceived' = totalQueued' + totalFailed' + panicked' + Cardinality(TrackedNow')
    BY <1>1, <1>2, <2>1, <2>4, <2>5
  <2> QED
    BY <2>1, <2>2, <2>5, <2>6 DEF Counted, TrackedNow
<1>9. ASSUME NEW s \in Slots, Panic(s) PROVE CountInv'
  <2>1. /\ UNCHANGED <<totalReceived, totalQueued, totalFailed>>
        /\ panicked' = panicked + 1
        /\ at[s] = "tracked" /\ Goto(s, "idle")
    BY <1>9 DEF Panic, Answer, tracker
  <2>2. at' \in [Slots -> {"idle", "handler", "tracked"} \cup Middleware]
    BY <2>1 DEF Goto
  <2>3. s \in TrackedNow /\ TrackedNow' = TrackedNow \ {s}
    BY <2>1 DEF TrackedNow, Goto
  <2>4. Cardinality(TrackedNow') = Cardinality(TrackedNow) - 1
    BY <1>1, <2>3, FS_RemoveElement
  <2>5. totalReceived' = totalQueued' + totalFailed' + panicked' + Cardinality(TrackedNow')
    BY <1>1, <1>2, <2>1, <2>4
  <2> QED
    BY <2>1, <2>2, <2>5 DEF Counted, TrackedNow
<1>10. ASSUME UNCHANGED <<totalReceived, totalQueued, totalFailed, panicked, at>>
      PROVE  CountInv'
  BY <1>10 DEF Counted
<1>11. CASE \E c \in Clients : CleanupLoop(c)
  BY <1>10, <1>11 DEF CleanupLoop, tracker, front
<1>12. CASE CleanupTracker
  BY <1>10, <1>12 DEF CleanupTracker, RemoveOld, front
<1>13. CASE Tick
  BY <1>10, <1>13 DEF Tick, tracker, front
<1>14. CASE UNCHANGED vars
  BY <1>10, <1>14 DEF vars, tracker, front
<1> QED
  BY <1>4, <1>5, <1>6, <1>7, <1>8, <1>9, <1>11, <1>12, <1>13, <1>14 DEF Next

LEMMA CountInit == ASSUME Init PROVE CountInv
<1>1. /\ totalReceived = 0 /\ totalQueued = 0 /\ totalFailed = 0 /\ panicked = 0
      /\ at \in [Slots -> {"idle", "handler", "tracked"} \cup Middleware]
  BY DEF Init, TrackerInit
<1>2. TrackedNow = {}
  BY DEF Init, TrackedNow
<1>3. Cardinality(TrackedNow) = 0
  BY <1>2, FS_EmptySet
<1> QED
  BY <1>1, <1>3 DEF CountInv, Counted, TrackedNow

\* The totals of the statistics agree with the requests that were answered, but for
\* those whose handler panicked, whatever was sampled, evicted or cleaned up meanwhile
\* (TrackRequest, UpdateStatus, RecoveryMiddleware).
THEOREM CountedCorrect == Spec => []Counted
<1>1. CountInv => Counted
  BY DEF CountInv
<1> QED
  BY <1>1, CountInit, CountStep, PTL DEF Spec

-----------------------------------------------------------------------------
(* The table of the tracker: lemmas about its operations *)

\* The table is a map from ids.
Unique(table) == \A i, j \in DOMAIN table : table[i].id = table[j].id => i = j

LEMMA RemoveEntry ==
  ASSUME NEW t \in Seq(Entry), Unique(t), NEW i \in 1..Len(t)
  PROVE  /\ RemoveAt(t, i) \in Seq(Entry) /\ Unique(RemoveAt(t, i))
         /\ Len(RemoveAt(t, i)) = Len(t) - 1
         /\ ToSet(RemoveAt(t, i)) = ToSet(t) \ {t[i]}
<1> DEFINE r == RemoveAt(t, i)
<1>1. /\ r \in Seq(Entry) /\ Len(r) = Len(t) - 1 /\ Len(t) \in Nat
      /\ \A k \in 1..(Len(t) - 1) : r[k] = IF k < i THEN t[k] ELSE t[k + 1]
      /\ ToSet(r) = {t[k] : k \in (1..Len(t)) \ {i}}
  BY RemovedAt, LeftAfterRemoval, LenProperties
<1>2. DOMAIN r = 1..(Len(t) - 1) /\ DOMAIN t = 1..Len(t)
  BY <1>1, LenProperties
<1> HIDE DEF r
<1>3. Unique(r)
  <2> SUFFICES ASSUME NEW k \in 1..(Len(t) - 1), NEW l \in 1..(Len(t) - 1),
                      r[k].id = r[l].id
               PROVE  k = l
    BY <1>2 DEF Unique
  <2> DEFINE At(n) == IF n < i THEN n ELSE n + 1
  <2>1. At(k) \in 1..Len(t) /\ At(l) \in 1..Len(t)
    BY <1>1
  <2>2. r[k] = t[At(k)] /\ r[l] = t[At(l)]
    BY <1>1
  <2>3. At(k) = At(l)
    BY <1>2, <2>1, <2>2 DEF Unique
  <2> QED
    BY <2>3
<1>4. ToSet(r) = ToSet(t) \ {t[i]}
  <2>1. ASSUME NEW k \in (1..Len(t)) \ {i} PROVE t[k] # t[i]
    BY <1>2 DEF Unique
  <2> QED
    BY <1>1, <1>2, <2>1 DEF ToSet
<1> QED
  BY <1>1, <1>3, <1>4 DEF r

\* What evictOldest removes is one entry, and a completed one if there is any.
LEMMA Evicted ==
  ASSUME NEW t \in Seq(Entry), Unique(t), t # <<>>
  PROVE  /\ EvictOldest(t) \in Seq(Entry) /\ Unique(EvictOldest(t))
         /\ Len(EvictOldest(t)) = Len(t) - 1
         /\ ToSet(EvictOldest(t)) \subseteq ToSet(t)
         /\ \A e \in ToSet(t) \ ToSet(EvictOldest(t)) :
              ~Completed(e) => \A j \in DOMAIN t : ~Completed(t[j])
<1> DEFINE I == {i \in 1..Len(t) : Completed(t[i])}
           gone == IF I # {} THEN Min(I) ELSE 1
<1>1. Len(t) \in Nat \ {0} /\ DOMAIN t = 1..Len(t)
  BY LenProperties, EmptySeq
<1>2. I # {} => Min(I) \in I
  <2>1. I \subseteq Nat
    OBVIOUS
  <2> QED
    BY <2>1, LeastElement
<1>3. EvictOldest(t) = RemoveAt(t, gone)
  <2>1. SelectInSeq(t, Completed) = IF I # {} THEN Min(I) ELSE 0
    BY DEF SelectInSeq
  <2>2. I # {} => Min(I) # 0
    BY <1>2
  <2> QED
    BY <2>1, <2>2 DEF EvictOldest
<1>4. gone \in 1..Len(t) /\ (I # {} => Completed(t[gone]))
  BY <1>1, <1>2
<1> HIDE DEF gone
<1>5. /\ RemoveAt(t, gone) \in Seq(Entry) /\ Unique(RemoveAt(t, gone))
      /\ Len(RemoveAt(t, gone)) = Len(t) - 1
      /\ ToSet(RemoveAt(t, gone)) = ToSet(t) \ {t[gone]}
  BY <1>4, RemoveEntry
<1>6. ASSUME NEW e \in ToSet(t) \ ToSet(EvictOldest(t)), ~Completed(e), NEW j \in DOMAIN t
      PROVE  ~Completed(t[j])
  BY <1>1, <1>3, <1>4, <1>5, <1>6
<1> QED
  BY <1>3, <1>5, <1>6

\* An entry with the same id is replaced.
LEMMA Replaced ==
  ASSUME NEW t \in Seq(Entry), Unique(t), NEW x
  PROVE  LET Same(entry) == entry.id = x
             r == RemoveFirstMatch(t, Same)
         IN /\ r \in Seq(Entry) /\ Unique(r) /\ Len(r) \in Nat /\ Len(r) <= Len(t)
            /\ ToSet(r) = {e \in ToSet(t) : e.id # x}
<1> DEFINE Same(entry) == entry.id = x
           r == RemoveFirstMatch(t, Same)
           I == {i \in 1..Len(t) : t[i].id = x}
<1>1. Len(t) \in Nat /\ DOMAIN t = 1..Len(t)
  BY LenProperties
<1>2. CASE I = {}
  <2>1. r = t
    BY <1>2 DEF RemoveFirstMatch
  <2>2. ToSet(t) = {e \in ToSet(t) : e.id # x}
    BY <1>1, <1>2 DEF ToSet
  <2> HIDE DEF r
  <2>3. /\ r \in Seq(Entry) /\ Unique(r) /\ Len(r) \in Nat /\ Len(r) <= Len(t)
        /\ ToSet(r) = {e \in ToSet(t) : e.id # x}
    BY <1>1, <2>1, <2>2
  <2> QED
    BY <2>3 DEF r
<1>3. CASE I # {}
  <2>1. Min(I) \in I
    <3>1. I \subseteq Nat
      OBVIOUS
    <3> QED
      BY <1>3, <3>1, LeastElement
  <2>2. r = RemoveAt(t, Min(I))
    BY <1>3 DEF RemoveFirstMatch, SelectInSeq
  <2>3. Min(I) \in 1..Len(t) /\ t[Min(I)].id = x
    BY <2>1
  <2> DEFINE i == Min(I)
  <2> HIDE DEF i, I, r
  <2>4. /\ RemoveAt(t, i) \in Seq(Entry) /\ Unique(RemoveAt(t, i))
        /\ Len(RemoveAt(t, i)) = Len(t) - 1
        /\ ToSet(RemoveAt(t, i)) = ToSet(t) \ {t[i]}
    BY <2>3, RemoveEntry DEF i
  <2>5. Len(r) \in Nat /\ Len(r) <= Len(t)
    BY <1>1, <2>2, <2>3, <2>4 DEF i
  <2>6. ASSUME NEW e \in ToSet(t) PROVE e # t[i] <=> e.id # x
    <3>1. PICK k \in 1..Len(t) : e = t[k]
      BY <1>1 DEF ToSet
    <3> QED
      BY <1>1, <2>3, <3>1 DEF Unique, i
  <2> QED
    BY <2>2, <2>4, <2>5, <2>6 DEF i, r
<1> QED
  BY <1>2, <1>3
\* Cleanup: of the first n entries of a table, those that are completed go.
KeptUpTo(t, n, f, m) ==
  f = [i \in 0..m |->
         IF i = 0 THEN <<>>
         ELSE IF i <= n /\ Completed(t[i]) THEN f[i - 1]
         ELSE Append(f[i - 1], t[i])]

LEMMA KeptExists ==
  ASSUME NEW t, NEW n, NEW l \in Nat
  PROVE  \E f : KeptUpTo(t, n, f, l)
<1> DEFINE Bad == {m \in Nat : ~\E f : KeptUpTo(t, n, f, m)}
<1>1. SUFFICES ASSUME Bad # {} PROVE FALSE
  OBVIOUS
<1> DEFINE m == Min(Bad)
<1>2. m \in Bad /\ \A x \in Bad : m <= x
  BY <1>1, LeastElement
<1>3. m \in Nat /\ ~\E f : KeptUpTo(t, n, f, m)
  BY <1>2
<1>4. m # 0 => m - 1 \in Nat /\ \E f : KeptUpTo(t, n, f, m - 1)
  <2>1. m # 0 => m - 1 \in Nat /\ ~(m <= m - 1)
    BY <1>3
  <2> QED
    BY <1>2, <2>1
<1> HIDE DEF m, Bad
<1>5. CASE m = 0
  <2> DEFINE g == [i \in 0..0 |-> <<>>]
  <2>1. KeptUpTo(t, n, g, 0)
    <3>1. \A i \in 0..0 : i = 0
      OBVIOUS
    <3> QED
      BY <3>1 DEF KeptUpTo
  <2> QED
    BY <1>3, <1>5, <2>1
<1>6. CASE m # 0
  <2>1. PICK f : KeptUpTo(t, n, f, m - 1)
    BY <1>4, <1>6
  <2> DEFINE last == IF m <= n /\ Completed(t[m]) THEN f[m - 1] ELSE Append(f[m - 1], t[m])
             g == [i \in 0..m |-> IF i = m THEN last ELSE f[i]]
  <2>2. \A i \in 0..m : i = m \/ i \in 0..(m - 1)
    BY <1>3
  <2>3. \A i \in 0..m : i # 0 => i - 1 \in 0..(m - 1) /\ i - 1 # m /\ i - 1 \in 0..m
    BY <1>3
  <2>4. \A i \in 0..(m - 1) : f[i] =
          IF i = 0 THEN <<>>
          ELSE IF i <= n /\ Completed(t[i]) THEN f[i - 1] ELSE Append(f[i - 1], t[i])
    BY <2>1, Zenon DEF KeptUpTo
  <2>5. ASSUME NEW i \in 0..m
        PROVE  g[i] = IF i = 0 THEN <<>>
                      ELSE IF i <= n /\ Completed(t[i]) THEN g[i - 1]
                      ELSE Append(g[i - 1], t[i])
    <3>1. i # 0 => g[i - 1] = f[i - 1]
      BY <2>3
    <3>2. CASE i = m
      <4>1. g[i] = last /\ i # 0
        BY <1>6, <3>2
      <4> HIDE DEF g
      <4> QED
        BY <3>1, <3>2, <4>1
    <3>3. CASE i # m
      <4>1. g[i] = f[i] /\ i \in 0..(m - 1)
        BY <2>2, <3>3
      <4> HIDE DEF g
      <4> QED
        BY <2>4, <3>1, <4>1
    <3> QED
      BY <3>2, <3>3
  <2>6. g = [i \in 0..m |-> g[i]]
    OBVIOUS
  <2> HIDE DEF g
  <2>7. KeptUpTo(t, n, g, m)
    BY <2>5, <2>6, Zenon DEF KeptUpTo
  <2> QED
    BY <1>3, <2>7
<1> QED
  BY <1>5, <1>6

LEMMA KeptProperties ==
  ASSUME NEW t \in Seq(Entry), Unique(t), NEW n \in Nat, NEW f,
         KeptUpTo(t, n, f, Len(t))
  PROVE  LET r == f[Len(t)] IN
         /\ r \in Seq(Entry) /\ Unique(r) /\ Len(r) <= Len(t)
         /\ ToSet(r) \subseteq ToSet(t)
         /\ \A e \in ToSet(t) : ~Completed(e) => e \in ToSet(r)
<1> DEFINE Good(m) ==
      /\ f[m] \in Seq(Entry) /\ Unique(f[m]) /\ Len(f[m]) <= m
      /\ ToSet(f[m]) \subseteq {t[j] : j \in 1..m}
      /\ \A j \in 1..m : ~Completed(t[j]) => t[j] \in ToSet(f[m])
      Bad == {m \in Nat : m <= Len(t) /\ ~Good(m)}
<1>1. /\ Len(t) \in Nat /\ DOMAIN t = 1..Len(t)
      /\ \A j \in 1..Len(t) : t[j] \in Entry
  BY LenProperties, ElementOfSeq
<1>2. \A i \in 0..Len(t) : f[i] =
          IF i = 0 THEN <<>>
          ELSE IF i <= n /\ Completed(t[i]) THEN f[i - 1] ELSE Append(f[i - 1], t[i])
  BY Zenon DEF KeptUpTo
<1>3. Good(0)
  <2>1. 0 \in 0..Len(t)
    BY <1>1
  <2>2. f[0] = <<>>
    BY <1>2, <2>1
  <2>3. <<>> \in Seq(Entry) /\ Len(<<>>) = 0 /\ Unique(<<>>)
    BY DEF Unique
  <2>4. \A j \in 1..0 : FALSE
    OBVIOUS
  <2> QED
    BY <2>2, <2>3, <2>4, ToSetEmpty
<1>4. ASSUME NEW m \in Nat, m # 0, m <= Len(t), Good(m - 1) PROVE Good(m)
  <2>1. /\ m \in 0..Len(t) /\ m \in 1..Len(t) /\ m - 1 \in Nat /\ m - 1 <= m
        /\ \A j \in 1..m : j = m \/ j \in 1..(m - 1)
        /\ \A j \in 1..(m - 1) : j \in 1..m /\ j # m /\ j \in 1..Len(t)
        /\ m \in 1..m
    BY <1>1, <1>4
  <2> DEFINE g == f[m - 1]
  <2>2. f[m] = IF m <= n /\ Completed(t[m]) THEN g ELSE Append(g, t[m])
    BY <1>2, <1>4, <2>1
  <2>3. /\ g \in Seq(Entry) /\ Unique(g) /\ Len(g) <= m - 1 /\ Len(g) \in Nat
        /\ ToSet(g) \subseteq {t[j] : j \in 1..(m - 1)}
        /\ \A j \in 1..(m - 1) : ~Completed(t[j]) => t[j] \in ToSet(g)
    BY <1>4, LenProperties
  <2>4. t[m] \in Entry
    BY <1>1, <2>1
  <2> HIDE DEF g
  <2>5. CASE m <= n /\ Completed(t[m])
    <3>1. f[m] = g
      BY <2>2, <2>5
    <3>2. Len(g) <= m
      BY <2>1, <2>3
    <3> QED
      BY <2>1, <2>3, <2>5, <3>1, <3>2
  <2>6. CASE ~(m <= n /\ Completed(t[m]))
    <3> DEFINE a == Append(g, t[m])
    <3>1. f[m] = a
      BY <2>2, <2>6
    <3>2. a \in Seq(Entry) /\ Len(a) = Len(g) + 1 /\ ToSet(a) = ToSet(g) \cup {t[m]}
      BY <2>3, <2>4, Sent
    <3>3. Unique(a)
      <4>1. /\ \A i \in 1..Len(g) : a[i] = g[i]
            /\ a[Len(g) + 1] = t[m]
        BY <2>3, <2>4, AppendProperties
      <4>2. DOMAIN a = 1..(Len(g) + 1) /\ DOMAIN g = 1..Len(g)
        BY <2>3, <3>2, LenProperties
      <4>3. ASSUME NEW i \in 1..Len(g) PROVE g[i].id # t[m].id
        <5>1. PICK j \in 1..(m - 1) : g[i] = t[j]
          BY <2>3, <4>2 DEF ToSet
        <5> QED
          BY <1>1, <2>1, <5>1 DEF Unique
      <4> HIDE DEF a
      <4>4. \A i \in 1..(Len(g) + 1) : i \in 1..Len(g) \/ i = Len(g) + 1
        BY <2>3
      <4> QED
        BY <2>3, <4>1, <4>2, <4>3, <4>4 DEF Unique
    <3> HIDE DEF a
    <3>4. Len(a) <= m
      BY <2>1, <2>3, <3>2
    <3> QED
      BY <2>1, <2>3, <3>1, <3>2, <3>3, <3>4
  <2> QED
    BY <2>5, <2>6
<1> HIDE DEF Good
<1>5. Bad = {}
  <2> SUFFICES ASSUME Bad # {} PROVE FALSE
    OBVIOUS
  <2> DEFINE m == Min(Bad)
  <2>1. m \in Bad /\ \A x \in Bad : m <= x
    <3>1. Bad \subseteq Nat
      OBVIOUS
    <3> QED
      BY <3>1, LeastElement
  <2> HIDE DEF m
  <2>2. m \in Nat /\ m <= Len(t) /\ ~Good(m)
    BY <2>1
  <2>3. m # 0
    BY <1>3, <2>2
  <2>4. m - 1 \in Nat /\ m - 1 <= Len(t) /\ ~(m <= m - 1)
    BY <1>1, <2>2, <2>3
  <2>5. Good(m - 1)
    BY <2>1, <2>4
  <2> QED
    BY <1>4, <2>2, <2>3, <2>5
<1>6. Good(Len(t))
  <2>1. Len(t) \in Nat /\ Len(t) <= Len(t)
    BY <1>1
  <2> QED
    BY <1>5, <2>1
<1> QED
  BY <1>1, <1>6 DEF Good, ToSet
-----------------------------------------------------------------------------
(* The table of the tracker: its invariant *)

Told == [requests : Nat, last : {"none", "received", "queued", "failed"}]

\* What an entry says of a request that had its id for itself is true; every entry is
\* of some request.
Known(e) ==
  /\ told[e.id].requests # 0
  /\ told[e.id].requests = 1 => e.status = told[e.id].last

TableInv ==
  /\ requests \in Seq(Entry) /\ Len(requests) <= MaxSize /\ Unique(requests)
  /\ id \in [Slots -> RequestIds \cup {NoId}]
  /\ told \in [RequestIds -> Told]
  /\ \A e \in ToSet(requests) : Known(e)

LEMMA TrackedTable ==
  ASSUME requests \in Seq(Entry), Len(requests) <= MaxSize, Unique(requests),
         NEW x \in RequestIds, TrackRequest(x)
  PROVE  /\ requests' \in Seq(Entry) /\ Len(requests') <= MaxSize /\ Unique(requests')
         /\ \/ requests' = requests
            \/ /\ [id |-> x, status |-> "received"] \in ToSet(requests')
               /\ \A e \in ToSet(requests') :
                    \/ e = [id |-> x, status |-> "received"]
                    \/ e \in ToSet(requests) /\ e.id # x
               /\ \A e \in ToSet(requests) :
                    e.id # x /\ ~Completed(e) /\ e \notin ToSet(requests') =>
                      /\ Len(requests) = MaxSize
                      /\ \A j \in DOMAIN requests : ~Completed(requests[j])
<1> DEFINE room == IF Len(requests) >= MaxSize THEN EvictOldest(requests) ELSE requests
           Same(entry) == entry.id = x
           r == RemoveFirstMatch(room, Same)
           new == [id |-> x, status |-> "received"]
<1>1. requests' = requests \/ requests' = Append(r, new)
  BY DEF TrackRequest
<1>2. CASE requests' = requests
  BY <1>2
<1>3. CASE requests' = Append(r, new)
  <2>1. MaxSize \in Nat \ {0} /\ Len(requests) \in Nat
    BY TrackerAssumption, LenProperties
  <2>2. /\ room \in Seq(Entry) /\ Unique(room) /\ Len(room) \in Nat
        /\ Len(room) + 1 <= MaxSize
        /\ ToSet(room) \subseteq ToSet(requests)
        /\ \A e \in ToSet(requests) \ ToSet(room) : ~Completed(e) =>
             /\ Len(requests) = MaxSize
             /\ \A j \in DOMAIN requests : ~Completed(requests[j])
    <3>1. CASE Len(requests) >= MaxSize
      <4>1. requests # <<>> /\ Len(requests) = MaxSize
        BY <2>1, <3>1, EmptySeq
      <4>2. room = EvictOldest(requests)
        BY <3>1
      <4> HIDE DEF room
      <4> QED
        BY <2>1, <4>1, <4>2, Evicted
    <3>2. CASE ~(Len(requests) >= MaxSize)
      <4>1. room = requests /\ Len(requests) + 1 <= MaxSize
        BY <2>1, <3>2
      <4> HIDE DEF room
      <4> QED
        BY <2>1, <4>1
    <3> QED
      BY <3>1, <3>2
  <2> HIDE DEF room
  <2>3. /\ r \in Seq(Entry) /\ Unique(r) /\ Len(r) \in Nat /\ Len(r) <= Len(room)
        /\ ToSet(r) = {e \in ToSet(room) : e.id # x}
    BY <2>2, Replaced
  <2> HIDE DEF r
  <2>4. new \in Entry /\ new.id = x
    BY DEF Entry
  <2> HIDE DEF new
  <2>5. /\ requests' \in Seq(Entry) /\ Len(requests') = Len(r) + 1
        /\ ToSet(requests') = ToSet(r) \cup {new}
    BY <1>3, <2>3, <2>4, Sent
  <2>6. Unique(requests')
    <3>1. /\ \A i \in 1..Len(r) : requests'[i] = r[i]
          /\ requests'[Len(r) + 1] = new
      BY <1>3, <2>3, <2>4, AppendProperties
    <3>2. DOMAIN requests' = 1..(Len(r) + 1) /\ DOMAIN r = 1..Len(r)
      BY <2>3, <2>5, LenProperties
    <3>3. \A i \in 1..Len(r) : r[i].id # x
      BY <2>3, <3>2 DEF ToSet
    <3>4. \A i \in 1..(Len(r) + 1) : i \in 1..Len(r) \/ i = Len(r) + 1
      BY <2>3
    <3> QED
      BY <2>3, <2>4, <3>1, <3>2, <3>3, <3>4 DEF Unique
  <2>7. Len(requests') <= MaxSize
    BY <2>1, <2>2, <2>3, <2>5
  <2>8. new \in ToSet(requests')
    BY <2>5
  <2>9. ASSUME NEW e \in ToSet(requests')
        PROVE  e = new \/ (e \in ToSet(requests) /\ e.id # x)
    <3>1. e \in ToSet(r) \/ e = new
      BY <2>5
    <3>2. e \in ToSet(r) => e \in ToSet(room) /\ e.id # x
      BY <2>3
    <3>3. e \in ToSet(room) => e \in ToSet(requests)
      BY <2>2
    <3> QED
      BY <3>1, <3>2, <3>3
  <2>10. \A e \in ToSet(requests) :
           e.id # x /\ ~Completed(e) /\ e \notin ToSet(requests') =>
             /\ Len(requests) = MaxSize
             /\ \A j \in DOMAIN requests : ~Completed(requests[j])
    BY <2>2, <2>3, <2>5
  <2> QED
    BY <2>5, <2>6, <2>7, <2>8, <2>9, <2>10 DEF new
<1> QED
  BY <1>1, <1>2, <1>3

LEMMA CleanedTable ==
  ASSUME requests \in Seq(Entry), Unique(requests), RemoveOld
  PROVE  /\ requests' \in Seq(Entry) /\ Len(requests') <= Len(requests)
         /\ Unique(requests') /\ ToSet(requests') \subseteq ToSet(requests)
         /\ \A e \in ToSet(requests) : ~Completed(e) => e \in ToSet(requests')
<1> DEFINE Kept(n) == CHOOSE f : f = [i \in 0..Len(requests) |->
         IF i = 0 THEN <<>>
         ELSE IF i <= n /\ Completed(requests[i]) THEN f[i - 1]
         ELSE Append(f[i - 1], requests[i])]
<1>1. PICK n \in 1..Len(requests) : requests' = Kept(n)[Len(requests)]
  BY DEF RemoveOld
<1>2. Len(requests) \in Nat /\ n \in Nat
  BY LenProperties
<1>3. KeptUpTo(requests, n, Kept(n), Len(requests))
  <2>1. \E f : KeptUpTo(requests, n, f, Len(requests))
    BY <1>2, KeptExists
  <2> QED
    BY <2>1, Zenon DEF KeptUpTo
<1> HIDE DEF Kept
<1> QED
  BY <1>1, <1>2, <1>3, KeptProperties
\* UpdateStatus marks the entry with the request's id, if there is one.
LEMMA MarkedTable ==
  ASSUME requests \in Seq(Entry), Unique(requests), NEW x,
         NEW status \in {"queued", "failed"}, requests' = Marked(x, status)
  PROVE  /\ requests' \in Seq(Entry) /\ Len(requests') = Len(requests)
         /\ DOMAIN requests' = DOMAIN requests
         /\ Unique(requests')
         /\ \A i \in DOMAIN requests :
              /\ requests'[i].id = requests[i].id
              /\ requests'[i].status =
                   IF requests[i].id = x THEN status ELSE requests[i].status
<1>1. /\ Len(requests) \in Nat /\ DOMAIN requests = 1..Len(requests)
      /\ \A i \in 1..Len(requests) : requests[i] \in Entry
  BY LenProperties, ElementOfSeq
<1>2. /\ DOMAIN requests' = DOMAIN requests
      /\ \A i \in DOMAIN requests : requests'[i] =
           IF requests[i].id = x THEN [requests[i] EXCEPT !.status = status] ELSE requests[i]
  BY DEF Marked
<1>3. ASSUME NEW i \in DOMAIN requests
      PROVE  /\ requests'[i] \in Entry
             /\ requests'[i].id = requests[i].id
             /\ requests'[i].status =
                  IF requests[i].id = x THEN status ELSE requests[i].status
  BY <1>1, <1>2 DEF Entry
<1>4. requests' \in [1..Len(requests) -> Entry]
  <2>1. requests' = [i \in DOMAIN requests |-> requests'[i]]
    BY <1>2 DEF Marked
  <2> QED
    BY <1>1, <1>3, <2>1
<1>5. requests' \in Seq(Entry)
  BY <1>1, <1>4, SeqDef
<1>6. Len(requests') = Len(requests)
  BY <1>1, <1>2, <1>5, LenProperties
<1>7. Unique(requests')
  BY <1>2, <1>3 DEF Unique
<1> QED
  BY <1>2, <1>3, <1>5, <1>6, <1>7

LEMMA TableStep == ASSUME TableInv, [Next]_vars PROVE TableInv'
<1> USE DEF TableInv
<1>1. ASSUME UNCHANGED <<requests, told>>,
             id' \in [Slots -> RequestIds \cup {NoId}]
      PROVE  TableInv'
  BY <1>1 DEF Known
<1>2. ASSUME NEW s \in Slots, NEW c \in Clients, NEW i \in RequestIds \cup {NoId},
             Arrive(s, c, i)
      PROVE  TableInv'
  BY <1>1, <1>2 DEF Arrive, tracker
<1>3. ASSUME NEW s \in Slots, TouchEntry(s) \/ CreateEntry(s) \/ Allow(s) PROVE TableInv'
  BY <1>1, <1>3 DEF TouchEntry, CreateEntry, Allow, tracker
<1>4. ASSUME NEW s \in Slots, Deny(s) \/ NotTracked(s) \/ Panic(s) PROVE TableInv'
  BY <1>1, <1>4 DEF Deny, NotTracked, Panic, Answer, tracker
<1>5. ASSUME NEW s \in Slots, Track(s) PROVE TableInv'
  <2> DEFINE x == id[s]
             new == [id |-> x, status |-> "received"]
  <2>1. x \in RequestIds /\ TrackRequest(x) /\ id' = id
        /\ told' = [told EXCEPT ![x] = [requests |-> @.requests + 1, last |-> "received"]]
    BY <1>5 DEF Track
  <2>2. /\ \A i \in RequestIds : told[i].requests \in Nat /\ told[i] \in Told
        /\ \A i \in RequestIds : told'[i] =
             IF i = x THEN [requests |-> told[x].requests + 1, last |-> "received"]
             ELSE told[i]
    BY <2>1 DEF Told
  <2>3. told' \in [RequestIds -> Told]
    <3>1. [requests |-> told[x].requests + 1, last |-> "received"] \in Told
      BY <2>1, <2>2 DEF Told
    <3> QED
      BY <2>1, <3>1
  <2>4. /\ requests' \in Seq(Entry) /\ Len(requests') <= MaxSize /\ Unique(requests')
        /\ \/ requests' = requests
           \/ \A e \in ToSet(requests') : e = new \/ (e \in ToSet(requests) /\ e.id # x)
    <3> HIDE DEF x
    <3> QED
      BY <2>1, TrackedTable
  <2>5. ToSet(requests) \subseteq Entry
    BY ToSetType
  <2>6. \A e \in ToSet(requests) : e.id \in RequestIds /\ Known(e)
    BY <2>5 DEF Entry
  <2>7. ASSUME NEW e \in ToSet(requests) PROVE Known(e)'
    <3>1. CASE e.id = x
      <4>1. told'[e.id].requests = told[x].requests + 1 /\ told[x].requests # 0
        BY <2>2, <2>6, <3>1 DEF Known
      <4>2. told'[e.id].requests # 0 /\ told'[e.id].requests # 1
        BY <2>1, <2>2, <4>1
      <4> QED
        BY <4>2 DEF Known
    <3>2. CASE e.id # x
      <4>1. told'[e.id] = told[e.id]
        BY <2>2, <2>6, <3>2
      <4> QED
        BY <2>6, <4>1 DEF Known
    <3> QED
      BY <3>1, <3>2
  <2>8. ASSUME NEW e, e = new PROVE Known(e)'
    <3>1. e.id = x /\ e.status = "received"
      BY <2>8
    <3>2. told'[x].requests = told[x].requests + 1 /\ told'[x].last = "received"
      BY <2>1, <2>2
    <3> QED
      BY <2>1, <2>2, <3>1, <3>2 DEF Known
  <2>9. \A e \in ToSet(requests') : Known(e)'
    BY <2>4, <2>7, <2>8
  <2> QED
    BY <2>1, <2>3, <2>4, <2>9
<1>6. ASSUME NEW s \in Slots, NEW status \in {"queued", "failed"}, Report(s, status)
      PROVE  TableInv'
  <2> DEFINE x == id[s]
  <2>1. /\ requests' = Marked(x, status)
        /\ told' = [told EXCEPT ![x].last = status]
        /\ id' = [id EXCEPT ![s] = NoId]
    BY <1>6 DEF Report, UpdateStatus, Answer
  <2>2. ASSUME NEW i \in RequestIds
        PROVE  /\ told'[i] \in Told
               /\ told'[i].requests = told[i].requests
               /\ told'[i].last = IF i = x THEN status ELSE told[i].last
    BY <2>1 DEF Told
  <2>3. told' \in [RequestIds -> Told]
    <3>1. told' = [i \in RequestIds |-> told'[i]]
      BY <2>1
    <3> QED
      BY <2>2, <3>1
  <2>4. /\ requests' \in Seq(Entry) /\ Len(requests') = Len(requests)
        /\ DOMAIN requests' = DOMAIN requests
        /\ Unique(requests')
        /\ \A i \in DOMAIN requests :
             /\ requests'[i].id = requests[i].id
             /\ requests'[i].status =
                  IF requests[i].id = x THEN status ELSE requests[i].status
    BY <2>1, MarkedTable
  <2>5. ToSet(requests) \subseteq Entry
    BY ToSetType
  <2>6. ASSUME NEW e \in ToSet(requests') PROVE Known(e)'
    <3>1. PICK i \in DOMAIN requests : e = requests'[i]
      BY <2>4 DEF ToSet
    <3>2. requests[i] \in ToSet(requests)
      BY DEF ToSet
    <3>3. requests[i].id \in RequestIds /\ Known(requests[i])
      BY <2>5, <3>2 DEF Entry
    <3>4. /\ e.id = requests[i].id
          /\ e.status = IF requests[i].id = x THEN status ELSE requests[i].status
      BY <2>4, <3>1
    <3>5. /\ told'[e.id].requests = told[e.id].requests
          /\ told'[e.id].last = IF e.id = x THEN status ELSE told[e.id].last
      BY <2>2, <3>3, <3>4
    <3> QED
      BY <3>3, <3>4, <3>5 DEF Known
  <2>7. id' \in [Slots -> RequestIds \cup {NoId}]
    BY <2>1
  <2> QED
    BY <2>3, <2>4, <2>6, <2>7
<1>7. CASE \E c \in Clients : CleanupLoop(c)
  BY <1>1, <1>7 DEF CleanupLoop, tracker, front
<1>8. CASE CleanupTracker
  <2>1. /\ requests' \in Seq(Entry) /\ Len(requests') <= Len(requests)
        /\ Unique(requests') /\ ToSet(requests') \subseteq ToSet(requests)
    BY <1>8, CleanedTable DEF CleanupTracker
  <2>2. Len(requests') \in Nat /\ Len(requests) \in Nat /\ MaxSize \in Nat
    BY <2>1, LenProperties, TrackerAssumption
  <2>3. UNCHANGED <<id, told>>
    BY <1>8 DEF CleanupTracker, front
  <2>4. Len(requests') <= MaxSize
    BY <2>1, <2>2
  <2>5. \A e \in ToSet(requests') : Known(e)'
    BY <2>1, <2>3 DEF Known
  <2> QED
    BY <2>1, <2>3, <2>4, <2>5
<1>9. CASE Tick
  BY <1>1, <1>9 DEF Tick, tracker, front
<1>10. CASE UNCHANGED vars
  BY <1>1, <1>10 DEF vars, tracker, front
<1> QED
  BY <1>2, <1>3, <1>4, <1>5, <1>6, <1>7, <1>8, <1>9, <1>10 DEF Next

LEMMA TableInit == ASSUME Init PROVE TableInv
<1>1. requests = <<>> /\ Len(requests) = 0 /\ requests \in Seq(Entry)
  BY EmptySeq DEF Init, TrackerInit
<1>2. Unique(requests) /\ ToSet(requests) = {}
  BY <1>1, ToSetEmpty DEF Unique
<1>3. told \in [RequestIds -> Told]
  BY DEF Init, Told
<1>4. id \in [Slots -> RequestIds \cup {NoId}]
  BY DEF Init
<1>5. Len(requests) <= MaxSize
  BY <1>1, TrackerAssumption
<1> QED
  BY <1>1, <1>2, <1>3, <1>4, <1>5 DEF TableInv
-----------------------------------------------------------------------------
(* The table of the tracker: theorems *)

LEMMA FrontTypes == ASSUME RateInv, CountInv, TableInv PROVE TypeOK
BY DEF RateInv, LimiterTypes, CountInv, TableInv, TypeOK, TrackerTypeOK, Unique, Told

LEMMA FrontInvariant == Spec => [](RateInv /\ CountInv /\ TableInv)
BY RateInvariant, CountInit, CountStep, TableInit, TableStep, PTL DEF Spec

\* The table never outgrows its size and has one entry for an id, whatever is tracked,
\* evicted and cleaned up (evictOldest, TrackRequest).
THEOREM FrontTypesCorrect == Spec => []TypeOK
BY FrontInvariant, FrontTypes, PTL

\* What the table says of a request that had its id for itself is what its handler
\* reported last (UpdateStatus).
THEOREM TruthfulCorrect == Spec => []Truthful
<1>1. TableInv => Truthful
  <2> SUFFICES ASSUME TableInv, NEW i \in DOMAIN requests
               PROVE  told[requests[i].id].requests = 1
                        => requests[i].status = told[requests[i].id].last
    BY DEF Truthful
  <2>1. requests[i] \in ToSet(requests)
    BY DEF ToSet
  <2> QED
    BY <2>1 DEF TableInv, Known
<1> QED
  BY <1>1, FrontInvariant, PTL

\* An entry that is not completed is evicted only from a full table without completed
\* ones (evictOldest), and Cleanup never removes it.
THEOREM EvictionCorrect == Spec => FailedLeaveFirst
<1> DEFINE Leaving ==
      \A i \in DOMAIN requests :
        LET gone == requests[i] IN
        ~Completed(gone) /\ (\A j \in DOMAIN requests' : requests'[j].id # gone.id)
          => /\ Len(requests) = MaxSize
             /\ \A j \in DOMAIN requests : ~Completed(requests[j])
<1>1. ASSUME TableInv, Next PROVE Leaving
  <2> SUFFICES ASSUME NEW i \in DOMAIN requests, ~Completed(requests[i]),
                      \A j \in DOMAIN requests' : requests'[j].id # requests[i].id
               PROVE  /\ Len(requests) = MaxSize
                      /\ \A j \in DOMAIN requests : ~Completed(requests[j])
    OBVIOUS
  <2>1. /\ requests[i] \in ToSet(requests) /\ requests' # requests
        /\ requests[i] \notin ToSet(requests')
    BY DEF ToSet
  <2>2. ASSUME NEW s \in Slots, Track(s)
        PROVE  /\ Len(requests) = MaxSize
               /\ \A j \in DOMAIN requests : ~Completed(requests[j])
    <3> DEFINE x == id[s]
               new == [id |-> x, status |-> "received"]
    <3>1. x \in RequestIds /\ TrackRequest(x)
      BY <1>1, <2>2 DEF Track, TableInv
    <3>2. /\ new \in ToSet(requests')
          /\ \A e \in ToSet(requests) :
               e.id # x /\ ~Completed(e) /\ e \notin ToSet(requests') =>
                 /\ Len(requests) = MaxSize
                 /\ \A j \in DOMAIN requests : ~Completed(requests[j])
      <4> HIDE DEF x
      <4> QED
        BY <1>1, <2>1, <3>1, TrackedTable DEF TableInv
    <3>3. requests[i].id # x
      <4>1. PICK j \in DOMAIN requests' : new = requests'[j]
        BY <3>2 DEF ToSet
      <4> QED
        BY <4>1
    <3> QED
      BY <2>1, <3>2, <3>3
  <2>3. ASSUME NEW s \in Slots, NEW status \in {"queued", "failed"}, Report(s, status)
        PROVE  FALSE
    <3>1. DOMAIN requests' = DOMAIN requests /\ requests'[i].id = requests[i].id
      BY <1>1, <2>3, MarkedTable DEF TableInv, Report, UpdateStatus
    <3> QED
      BY <3>1
  <2>4. ~CleanupTracker
    BY <1>1, <2>1, CleanedTable DEF TableInv, CleanupTracker
  <2>5. ASSUME NEW s \in Slots
        PROVE  /\ \A c \in Clients, n \in RequestIds \cup {NoId} : ~Arrive(s, c, n)
               /\ ~TouchEntry(s) /\ ~CreateEntry(s) /\ ~Allow(s) /\ ~Deny(s)
               /\ ~NotTracked(s) /\ ~Panic(s)
    BY <2>1 DEF Arrive, TouchEntry, CreateEntry, Allow, Deny, NotTracked, Panic, tracker
  <2>6. ~Tick /\ \A c \in Clients : ~CleanupLoop(c)
    BY <2>1 DEF Tick, CleanupLoop, tracker
  <2> QED
    BY <1>1, <2>2, <2>3, <2>4, <2>5, <2>6 DEF Next
<1>2. TableInv /\ [Next]_vars => [Leaving]_vars
  BY <1>1
<1>3. Spec => [][Leaving]_vars
  BY <1>2, FrontInvariant, PTL DEF Spec
<1> QED
  BY <1>3 DEF FailedLeaveFirst
=============================================================================
