---------------------------- MODULE SequenceLemmas -----------------------------
(***************************************************************************)
(* Facts about buffered channels and tables, which the models keep as      *)
(* sequences: what sending, receiving and removing do to the elements, and *)
(* that a channel in which every element occurs once has as many elements  *)
(* as places in use; and about Ordering: a finite set has a first and a    *)
(* last element, can be put in order, and what the operators then return.  *)
(***************************************************************************)
EXTENDS Ordering, SequenceTheorems, FiniteSetTheorems, WellFoundedInduction, TLAPS

\* Nothing is in the empty channel.
LEMMA ToSetEmpty == ToSet(<<>>) = {}
BY DEF ToSet

LEMMA ToSetType == ASSUME NEW S, NEW q \in Seq(S) PROVE ToSet(q) \subseteq S
BY ElementOfSeq DEF ToSet

\* A send adds its element and nothing else.
LEMMA Sent ==
  ASSUME NEW S, NEW q \in Seq(S), NEW e \in S
  PROVE  /\ Append(q, e) \in Seq(S)
         /\ Len(Append(q, e)) = Len(q) + 1
         /\ ToSet(Append(q, e)) = ToSet(q) \cup {e}
<1> DEFINE a == Append(q, e)
<1>1. /\ a \in Seq(S) /\ Len(a) = Len(q) + 1 /\ Len(q) \in Nat
      /\ \A i \in 1..Len(q) : a[i] = q[i]
      /\ a[Len(q) + 1] = e
  BY AppendProperties, LenProperties
<1>2. DOMAIN a = 1..(Len(q) + 1) /\ DOMAIN q = 1..Len(q)
  BY <1>1, LenProperties
<1> HIDE DEF a
<1>3. ToSet(a) = ToSet(q) \cup {e}
  <2>1. ASSUME NEW x \in ToSet(a) PROVE x \in ToSet(q) \cup {e}
    <3>1. PICK i \in 1..(Len(q) + 1) : x = a[i]
      BY <1>2 DEF ToSet
    <3>2. i \in 1..Len(q) \/ i = Len(q) + 1
      BY <1>1
    <3> QED
      BY <1>1, <1>2, <3>1, <3>2 DEF ToSet
  <2>2. ASSUME NEW x \in ToSet(q) PROVE x \in ToSet(a)
    <3>1. PICK i \in 1..Len(q) : x = q[i]
      BY <1>2 DEF ToSet
    <3>2. i \in 1..(Len(q) + 1)
      BY <1>1
    <3> QED
      BY <1>1, <1>2, <3>1, <3>2 DEF ToSet
  <2>3. e \in ToSet(a)
    <3>1. Len(q) + 1 \in 1..(Len(q) + 1)
      BY <1>1
    <3> QED
      BY <1>1, <1>2, <3>1 DEF ToSet
  <2> QED
    BY <2>1, <2>2, <2>3
<1> QED
  BY <1>1, <1>3 DEF a

\* A receive takes the head and nothing else.
LEMMA Received ==
  ASSUME NEW S, NEW q \in Seq(S), q # <<>>
  PROVE  /\ Head(q) \in S /\ Tail(q) \in Seq(S)
         /\ Len(Tail(q)) = Len(q) - 1 /\ Len(q) \in Nat \ {0}
         /\ ToSet(q) = {Head(q)} \cup ToSet(Tail(q))
<1> DEFINE t == Tail(q)
<1>1. /\ Head(q) \in S /\ t \in Seq(S) /\ Len(t) = Len(q) - 1 /\ Len(q) \in Nat \ {0}
      /\ \A i \in 1..(Len(q) - 1) : t[i] = q[i + 1]
      /\ Head(q) = q[1]
  BY HeadTailProperties, LenProperties, EmptySeq
<1>2. DOMAIN t = 1..(Len(q) - 1) /\ DOMAIN q = 1..Len(q)
  BY <1>1, LenProperties
<1> HIDE DEF t
<1>3. ToSet(q) = {Head(q)} \cup ToSet(t)
  <2>1. ASSUME NEW x \in ToSet(q) PROVE x \in {Head(q)} \cup ToSet(t)
    <3>1. PICK i \in 1..Len(q) : x = q[i]
      BY <1>2 DEF ToSet
    <3>2. CASE i = 1
      BY <1>1, <3>1, <3>2
    <3>3. CASE i # 1
      <4>1. i - 1 \in 1..(Len(q) - 1) /\ i = (i - 1) + 1
        BY <1>1, <3>3
      <4>2. t[i - 1] = q[i]
        BY <1>1, <4>1
      <4> QED
        BY <1>2, <3>1, <4>1, <4>2 DEF ToSet
    <3> QED
      BY <3>2, <3>3
  <2>2. ASSUME NEW x \in ToSet(t) PROVE x \in ToSet(q)
    <3>1. PICK i \in 1..(Len(q) - 1) : x = t[i]
      BY <1>2 DEF ToSet
    <3>2. i + 1 \in 1..Len(q) /\ t[i] = q[i + 1]
      BY <1>1
    <3> QED
      BY <1>2, <3>1, <3>2 DEF ToSet
  <2>3. Head(q) \in ToSet(q)
    <3>1. 1 \in 1..Len(q)
      BY <1>1
    <3> QED
      BY <1>1, <1>2, <3>1 DEF ToSet
  <2> QED
    BY <2>1, <2>2, <2>3
<1> QED
  BY <1>1, <1>3 DEF t
-----------------------------------------------------------------------------
(* Channels in which every element occurs once *)

LEMMA EmptyDistinct == IsInjective(<<>>)
<1>1. Len(<<>>) = 0 /\ DOMAIN <<>> = 1..0
  BY EmptySeq
<1> QED
  BY <1>1 DEF IsInjective

LEMMA SentDistinct ==
  ASSUME NEW S, NEW q \in Seq(S), NEW e \in S, IsInjective(q), e \notin ToSet(q)
  PROVE  IsInjective(Append(q, e))
<1> DEFINE a == Append(q, e)
<1>1. /\ a \in Seq(S) /\ Len(a) = Len(q) + 1 /\ Len(q) \in Nat
      /\ \A i \in 1..Len(q) : a[i] = q[i]
      /\ a[Len(q) + 1] = e
  BY AppendProperties, LenProperties
<1>2. DOMAIN a = 1..(Len(q) + 1) /\ DOMAIN q = 1..Len(q)
  BY <1>1, LenProperties
<1> HIDE DEF a
<1>3. \A i \in 1..Len(q) : q[i] # e
  BY <1>2 DEF ToSet
<1>4. ASSUME NEW i \in 1..(Len(q) + 1), NEW j \in 1..(Len(q) + 1), a[i] = a[j] PROVE i = j
  <2>1. (i \in 1..Len(q) \/ i = Len(q) + 1) /\ (j \in 1..Len(q) \/ j = Len(q) + 1)
    BY <1>1
  <2> QED
    BY <1>1, <1>2, <1>3, <1>4, <2>1 DEF IsInjective
<1> QED
  BY <1>2, <1>4 DEF IsInjective, a

LEMMA ReceivedDistinct ==
  ASSUME NEW S, NEW q \in Seq(S), q # <<>>, IsInjective(q)
  PROVE  IsInjective(Tail(q)) /\ Head(q) \notin ToSet(Tail(q))
<1> DEFINE t == Tail(q)
<1>1. /\ t \in Seq(S) /\ Len(t) = Len(q) - 1 /\ Len(q) \in Nat \ {0}
      /\ \A i \in 1..(Len(q) - 1) : t[i] = q[i + 1]
      /\ Head(q) = q[1]
  BY HeadTailProperties, LenProperties, EmptySeq
<1>2. DOMAIN t = 1..(Len(q) - 1) /\ DOMAIN q = 1..Len(q)
  BY <1>1, LenProperties
<1> HIDE DEF t
<1>3. ASSUME NEW i \in 1..(Len(q) - 1), NEW j \in 1..(Len(q) - 1), t[i] = t[j] PROVE i = j
  <2>1. i + 1 \in 1..Len(q) /\ j + 1 \in 1..Len(q) /\ q[i + 1] = q[j + 1]
    BY <1>1, <1>3
  <2>2. i + 1 = j + 1
    BY <1>2, <2>1 DEF IsInjective
  <2> QED
    BY <2>2
<1>4. ASSUME NEW i \in 1..(Len(q) - 1) PROVE t[i] # Head(q)
  <2>1. i + 1 \in 1..Len(q) /\ 1 \in 1..Len(q) /\ i + 1 # 1
    BY <1>1
  <2>2. q[i + 1] # q[1]
    BY <1>2, <2>1 DEF IsInjective
  <2> QED
    BY <1>1, <2>2
<1>5. IsInjective(t)
  BY <1>2, <1>3 DEF IsInjective
<1>6. Head(q) \notin ToSet(t)
  BY <1>2, <1>4 DEF ToSet
<1> QED
  BY <1>5, <1>6 DEF t

\* Each element has a place of its own.
LEMMA DistinctLength ==
  ASSUME NEW S, NEW q \in Seq(S), IsInjective(q)
  PROVE  IsFiniteSet(ToSet(q)) /\ Cardinality(ToSet(q)) = Len(q)
<1>1. Len(q) \in Nat /\ q \in [1..Len(q) -> S] /\ DOMAIN q = 1..Len(q)
  BY LenProperties
<1>2. q \in [1..Len(q) -> ToSet(q)]
  BY <1>1 DEF ToSet
<1>3. q \in Bijection(1..Len(q), ToSet(q))
  BY <1>1, <1>2 DEF Bijection, Injection, Surjection, ToSet
<1>4. ExistsBijection(1..Len(q), ToSet(q))
  BY <1>3 DEF ExistsBijection
<1>5. IsFiniteSet(1..Len(q)) /\ Cardinality(1..Len(q)) = Len(q)
  BY <1>1, FS_Interval
<1> QED
  BY <1>4, <1>5, FS_Bijection

\* Two sequences put one behind the other hold what each of them holds.
LEMMA Joined ==
  ASSUME NEW S, NEW p \in Seq(S), NEW q \in Seq(S)
  PROVE  p \o q \in Seq(S) /\ ToSet(p \o q) = ToSet(p) \cup ToSet(q)
<1> DEFINE a == p \o q
<1>1. /\ a \in Seq(S) /\ Len(a) = Len(p) + Len(q) /\ Len(p) \in Nat /\ Len(q) \in Nat
      /\ \A i \in 1..(Len(p) + Len(q)) :
           a[i] = IF i <= Len(p) THEN p[i] ELSE q[i - Len(p)]
  BY ConcatProperties, LenProperties
<1>2. /\ DOMAIN a = 1..(Len(p) + Len(q))
      /\ DOMAIN p = 1..Len(p) /\ DOMAIN q = 1..Len(q)
  BY <1>1, LenProperties
<1> HIDE DEF a
<1>3. ASSUME NEW x \in ToSet(a) PROVE x \in ToSet(p) \cup ToSet(q)
  <2>1. PICK i \in 1..(Len(p) + Len(q)) : x = a[i]
    BY <1>2 DEF ToSet
  <2>2. CASE i <= Len(p)
    <3>1. i \in 1..Len(p) /\ x = p[i]
      BY <1>1, <2>1, <2>2
    <3> QED
      BY <1>2, <3>1 DEF ToSet
  <2>3. CASE ~(i <= Len(p))
    <3>1. i - Len(p) \in 1..Len(q) /\ x = q[i - Len(p)]
      BY <1>1, <2>1, <2>3
    <3> QED
      BY <1>2, <3>1 DEF ToSet
  <2> QED
    BY <2>2, <2>3
<1>4. ASSUME NEW x \in ToSet(p) PROVE x \in ToSet(a)
  <2>1. PICK i \in 1..Len(p) : x = p[i]
    BY <1>2 DEF ToSet
  <2>2. i \in 1..(Len(p) + Len(q)) /\ a[i] = p[i]
    BY <1>1
  <2> QED
    BY <1>2, <2>1, <2>2 DEF ToSet
<1>5. ASSUME NEW x \in ToSet(q) PROVE x \in ToSet(a)
  <2>1. PICK i \in 1..Len(q) : x = q[i]
    BY <1>2 DEF ToSet
  <2>2. Len(p) + i \in 1..(Len(p) + Len(q)) /\ a[Len(p) + i] = q[i]
    <3>1. Len(p) + i \in 1..(Len(p) + Len(q)) /\ ~(Len(p) + i <= Len(p))
          /\ (Len(p) + i) - Len(p) = i
      BY <1>1
    <3> QED
      BY <1>1, <3>1
  <2> QED
    BY <1>2, <2>1, <2>2 DEF ToSet
<1> QED
  BY <1>1, <1>3, <1>4, <1>5 DEF a
\* Removing a place of a sequence keeps the other places, in their order.
LEMMA RemovedAt ==
  ASSUME NEW S, NEW s \in Seq(S), NEW i \in 1..Len(s)
  PROVE  /\ RemoveAt(s, i) \in Seq(S)
         /\ Len(RemoveAt(s, i)) = Len(s) - 1
         /\ \A k \in 1..(Len(s) - 1) :
              RemoveAt(s, i)[k] = IF k < i THEN s[k] ELSE s[k + 1]
<1> DEFINE p == SubSeq(s, 1, i - 1)
           q == SubSeq(s, i + 1, Len(s))
<1>1. Len(s) \in Nat /\ i \in Int /\ \A k \in 1..Len(s) : s[k] \in S
  BY LenProperties, ElementOfSeq
<1>2. /\ p \in Seq(S) /\ Len(p) = i - 1
      /\ \A k \in 1..(i - 1) : p[k] = s[k]
  <2>1. i - 1 \in Int /\ 1 \in Int /\ \A k \in 1..(i - 1) : s[k] \in S
    BY <1>1
  <2>2. /\ p \in Seq(S) /\ Len(p) = IF 1 <= i - 1 THEN (i - 1) - 1 + 1 ELSE 0
        /\ \A k \in 1..((i - 1) - 1 + 1) : p[k] = s[1 + k - 1]
    BY <2>1, SubSeqProperties
  <2> HIDE DEF p
  <2>3. \A k \in 1..(i - 1) : 1 + k - 1 = k
    OBVIOUS
  <2> QED
    BY <1>1, <2>2, <2>3
<1>3. /\ q \in Seq(S) /\ Len(q) = Len(s) - i
      /\ \A k \in 1..(Len(s) - i) : q[k] = s[i + k]
  <2>1. i + 1 \in Int /\ Len(s) \in Int /\ \A k \in (i + 1)..Len(s) : s[k] \in S
    BY <1>1
  <2>2. /\ q \in Seq(S)
        /\ Len(q) = IF i + 1 <= Len(s) THEN Len(s) - (i + 1) + 1 ELSE 0
        /\ \A k \in 1..(Len(s) - (i + 1) + 1) : q[k] = s[(i + 1) + k - 1]
    BY <2>1, SubSeqProperties
  <2> HIDE DEF q
  <2>3. \A k \in 1..(Len(s) - i) : (i + 1) + k - 1 = i + k
    BY <1>1
  <2> QED
    BY <1>1, <2>2, <2>3
<1>4. RemoveAt(s, i) = p \o q
  BY DEF RemoveAt
<1> HIDE DEF p, q
<1>5. /\ p \o q \in Seq(S) /\ Len(p \o q) = Len(p) + Len(q)
      /\ \A k \in 1..(Len(p) + Len(q)) :
           (p \o q)[k] = IF k <= Len(p) THEN p[k] ELSE q[k - Len(p)]
  BY <1>2, <1>3, ConcatProperties
<1>6. ASSUME NEW k \in 1..(Len(s) - 1)
      PROVE  (p \o q)[k] = IF k < i THEN s[k] ELSE s[k + 1]
  <2>1. k \in 1..(Len(p) + Len(q))
    BY <1>1, <1>2, <1>3
  <2>2. CASE k < i
    BY <1>1, <1>2, <1>5, <2>1, <2>2
  <2>3. CASE ~(k < i)
    <3>1. k - Len(p) \in 1..(Len(s) - i) /\ i + (k - Len(p)) = k + 1 /\ ~(k <= Len(p))
      BY <1>1, <1>2, <2>3
    <3> QED
      BY <1>3, <1>5, <2>1, <2>3, <3>1
  <2> QED
    BY <2>2, <2>3
<1> QED
  BY <1>1, <1>2, <1>3, <1>4, <1>5, <1>6

\* What is left are the elements at the other places.
LEMMA LeftAfterRemoval ==
  ASSUME NEW S, NEW s \in Seq(S), NEW i \in 1..Len(s)
  PROVE  ToSet(RemoveAt(s, i)) = {s[k] : k \in (1..Len(s)) \ {i}}
<1> DEFINE r == RemoveAt(s, i)
<1>1. /\ r \in Seq(S) /\ Len(r) = Len(s) - 1 /\ Len(s) \in Nat
      /\ \A k \in 1..(Len(s) - 1) : r[k] = IF k < i THEN s[k] ELSE s[k + 1]
  BY RemovedAt, LenProperties
<1>2. DOMAIN r = 1..(Len(s) - 1)
  BY <1>1, LenProperties
<1> HIDE DEF r
<1>3. ASSUME NEW e \in ToSet(r) PROVE \E k \in (1..Len(s)) \ {i} : e = s[k]
  <2>1. PICK k \in 1..(Len(s) - 1) : e = r[k]
    BY <1>2 DEF ToSet
  <2>2. CASE k < i
    BY <1>1, <2>1, <2>2
  <2>3. CASE ~(k < i)
    <3>1. k + 1 \in (1..Len(s)) \ {i} /\ e = s[k + 1]
      BY <1>1, <2>1, <2>3
    <3> QED
      BY <3>1
  <2> QED
    BY <2>2, <2>3
<1>4. ASSUME NEW k \in (1..Len(s)) \ {i} PROVE s[k] \in ToSet(r)
  <2>1. CASE k < i
    <3>1. k \in 1..(Len(s) - 1) /\ r[k] = s[k]
      BY <1>1, <2>1
    <3> QED
      BY <1>2, <3>1 DEF ToSet
  <2>2. CASE ~(k < i)
    <3>1. k - 1 \in 1..(Len(s) - 1) /\ ~(k - 1 < i) /\ (k - 1) + 1 = k
      BY <1>1, <2>2
    <3>2. r[k - 1] = s[k]
      BY <1>1, <3>1
    <3> QED
      BY <1>2, <3>1, <3>2 DEF ToSet
  <2> QED
    BY <2>1, <2>2
<1> QED
  BY <1>3, <1>4 DEF r

-----------------------------------------------------------------------------
(* Orders *)

\* A set of naturals that is not empty has a least element.
LEMMA LeastElement ==
  ASSUME NEW S, S \subseteq Nat, S # {}
  PROVE  Min(S) \in S /\ \A y \in S : Min(S) <= y
<1>1. \E x \in S : \A y \in S : ~(<<y, x>> \in OpToRel(<, Nat))
  BY NatLessThanWellFounded, WFMin
<1>2. PICK x \in S : \A y \in S : ~(<<y, x>> \in OpToRel(<, Nat))
  BY <1>1
<1>3. \A y \in S : x <= y
  <2> SUFFICES ASSUME NEW y \in S PROVE ~(y < x)
    OBVIOUS
  <2>1. <<y, x>> \in Nat \X Nat
    OBVIOUS
  <2> QED
    BY <1>2, <2>1 DEF OpToRel
<1> QED
  BY <1>3 DEF Min

\* A strict total order on S
IsOrder(S, R) ==
  /\ \A i \in S : <<i, i>> \notin R
  /\ \A i, j \in S : i # j => <<i, j>> \in R \/ <<j, i>> \in R
  /\ \A i, j, k \in S : <<i, j>> \in R /\ <<j, k>> \in R => <<i, k>> \in R

\* A finite set has a last element.
LEMMA LastOf ==
  ASSUME NEW S, IsFiniteSet(S), S # {}, NEW R, IsOrder(S, R)
  PROVE  \E m \in S : \A i \in S \ {m} : <<i, m>> \in R
<1> DEFINE NoLast(T) == \A m \in T : \E i \in T \ {m} : <<i, m>> \notin R
           Bad == {n \in Nat : \E T \in SUBSET S : T # {} /\ Cardinality(T) = n /\ NoLast(T)}
<1>1. ASSUME Bad # {} PROVE FALSE
  <2>1. PICK n \in Bad : \A k \in Bad : n <= k
    BY <1>1, LeastElement
  <2>2. PICK T \in SUBSET S : T # {} /\ Cardinality(T) = n /\ NoLast(T)
    OBVIOUS
  <2>3. PICK x \in T : TRUE
    BY <2>2
  <2> DEFINE U == T \ {x}
  <2>4. IsFiniteSet(T) /\ IsFiniteSet(U) /\ Cardinality(U) = n - 1 /\ Cardinality(U) \in Nat
    BY <2>2, <2>3, FS_Subset, FS_RemoveElement, FS_CardinalityType
  <2>5. U # {}
    BY <2>2, <2>3
  <2>6. ~NoLast(U)
    <3>1. n - 1 \notin Bad
      BY <2>1, <2>4
    <3> QED
      BY <2>4, <2>5, <3>1
  <2>7. PICK m \in U : \A i \in U \ {m} : <<i, m>> \in R
    BY <2>6
  <2>8. CASE <<x, m>> \in R
    BY <2>2, <2>7, <2>8
  <2>9. CASE <<m, x>> \in R
    <3>1. \A i \in T \ {x} : <<i, x>> \in R
      BY <2>3, <2>7, <2>9 DEF IsOrder
    <3> QED
      BY <2>2, <2>3, <3>1
  <2> QED
    BY <2>3, <2>7, <2>8, <2>9 DEF IsOrder
<1>2. Cardinality(S) \in Nat
  BY FS_CardinalityType
<1> QED
  BY <1>1, <1>2

\* ... and a first one.
LEMMA FirstOf ==
  ASSUME NEW S, IsFiniteSet(S), S # {}, NEW R, IsOrder(S, R)
  PROVE  \E m \in S : \A i \in S \ {m} : <<m, i>> \in R
<1> DEFINE I == {p \in S \X S : <<p[2], p[1]>> \in R}
<1>1. \A i, j \in S : <<i, j>> \in I <=> <<j, i>> \in R
  OBVIOUS
<1> HIDE DEF I
<1>2. IsOrder(S, I)
  BY <1>1 DEF IsOrder
<1>3. PICK m \in S : \A i \in S \ {m} : <<i, m>> \in I
  BY <1>2, LastOf
<1> QED
  BY <1>1, <1>3

Sorted(p, R) == \A i, j \in DOMAIN p : i < j => <<p[i], p[j]>> \in R

\* A finite set can be listed in order.
LEMMA Sortable ==
  ASSUME NEW S, IsFiniteSet(S), NEW R, IsOrder(S, R)
  PROVE  \E p \in SetToSeqs(S) : Sorted(p, R)
<1> DEFINE Good(T) == \E p \in SetToSeqs(T) : Sorted(p, R)
           Bad == {n \in Nat : \E T \in SUBSET S : Cardinality(T) = n /\ ~Good(T)}
<1>1. ASSUME Bad # {} PROVE FALSE
  <2>1. PICK n \in Bad : \A k \in Bad : n <= k
    BY <1>1, LeastElement
  <2>2. PICK T \in SUBSET S : Cardinality(T) = n /\ ~Good(T)
    BY <2>1
  <2>3. IsFiniteSet(T) /\ IsOrder(T, R) /\ n \in Nat
    BY <2>2, FS_Subset DEF IsOrder
  <2>4. T # {}
    <3> SUFFICES ASSUME T = {} PROVE FALSE
      OBVIOUS
    <3>1. Cardinality(T) = 0
      BY FS_EmptySet
    <3> DEFINE e == [i \in 1..0 |-> i]
    <3>2. e \in SetToSeqs(T) /\ Sorted(e, R)
      BY <3>1 DEF SetToSeqs, Sorted
    <3> QED
      BY <2>2, <3>2
  <2>5. PICK m \in T : \A i \in T \ {m} : <<i, m>> \in R
    BY <2>3, <2>4, LastOf
  <2> DEFINE U == T \ {m}
  <2>6. Cardinality(U) = n - 1 /\ Cardinality(U) \in Nat
    BY <2>2, <2>3, FS_RemoveElement, FS_CardinalityType
  <2>7. Good(U)
    <3>1. n - 1 \notin Bad /\ U \in SUBSET S
      BY <2>1, <2>6
    <3> QED
      BY <2>6, <3>1
  <2>8. PICK p \in SetToSeqs(U) : Sorted(p, R)
    BY <2>7
  <2>9. /\ p \in [1..(n - 1) -> U]
        /\ \A i, j \in 1..(n - 1) : i # j => p[i] # p[j]
        /\ \A i, j \in 1..(n - 1) : i < j => <<p[i], p[j]>> \in R
    BY <2>6, <2>8 DEF SetToSeqs, Sorted
  <2> DEFINE q == [i \in 1..n |-> IF i = n THEN m ELSE p[i]]
  <2>10. \A i \in 1..n : i # n => i \in 1..(n - 1)
    BY <2>3
  <2>11. q \in [1..n -> T]
    BY <2>9, <2>10
  <2>12. \A i, j \in 1..n : i # j => q[i] # q[j]
    BY <2>9, <2>10
  <2>13. \A i, j \in 1..n : i < j => <<q[i], q[j]>> \in R
    BY <2>3, <2>5, <2>9, <2>10
  <2>14. q \in SetToSeqs(T) /\ Sorted(q, R)
    BY <2>2, <2>11, <2>12, <2>13 DEF SetToSeqs, Sorted
  <2> QED
    BY <2>2, <2>14
<1>2. Cardinality(S) \in Nat
  BY FS_CardinalityType
<1> QED
  BY <1>1, <1>2

\* A listing of a finite set has each element at one place.
LEMMA Listing ==
  ASSUME NEW S, IsFiniteSet(S), NEW p \in SetToSeqs(S)
  PROVE  /\ p \in Seq(S) /\ Len(p) = Cardinality(S) /\ Len(p) \in Nat
         /\ DOMAIN p = 1..Len(p)
         /\ \A i, j \in 1..Len(p) : i # j => p[i] # p[j]
         /\ ToSet(p) = S
         /\ \A x \in S : \E i \in 1..Len(p) : p[i] = x
<1> DEFINE n == Cardinality(S)
<1>1. n \in Nat /\ p \in [1..n -> S] /\ \A i, j \in 1..n : i # j => p[i] # p[j]
  BY FS_CardinalityType DEF SetToSeqs
<1> HIDE DEF n
<1>2. p \in Seq(S) /\ Len(p) = n
  BY <1>1, LenProperties
<1>3. IsFiniteSet(1..n) /\ Cardinality(1..n) = n
  BY <1>1, FS_Interval
<1>4. p \in Injection(1..n, S)
  BY <1>1 DEF Injection, IsInjective
<1>5. p \in Surjection(1..n, S)
  BY <1>3, <1>4, FS_Injection DEF n
<1>6. \A x \in S : \E i \in 1..n : p[i] = x
  BY <1>5 DEF Surjection
<1> QED
  BY <1>1, <1>2, <1>6 DEF ToSet, n

\* What InOrder returns
LEMMA Ordered ==
  ASSUME NEW S, IsFiniteSet(S), NEW R, IsOrder(S, R)
  PROVE  InOrder(S, R) \in SetToSeqs(S) /\ Sorted(InOrder(S, R), R)
<1>1. \E p \in SetToSeqs(S) : Sorted(p, R)
  BY Sortable
<1> QED
  BY <1>1 DEF InOrder, Sorted
\* What Those returns
LEMMA Picked ==
  ASSUME NEW A, NEW s \in Seq(A), NEW P \in SUBSET (1..Len(s))
  PROVE  /\ IsFiniteSet(P)
         /\ \E at \in SetToSeqs(P) :
              /\ \A i, j \in DOMAIN at : i < j => at[i] < at[j]
              /\ Those(s, P) = [k \in 1..Len(at) |-> s[at[k]]]
         /\ Those(s, P) \in Seq(A)
         /\ Len(Those(s, P)) = Cardinality(P)
<1> DEFINE R == {p \in P \X P : p[1] < p[2]}
           at == InOrder(P, R)
<1>1. IsFiniteSet(P)
  <2>1. IsFiniteSet(1..Len(s))
    BY LenProperties, FS_Interval
  <2> QED
    BY <2>1, FS_Subset
<1>2. \A i, j \in P : <<i, j>> \in R <=> i < j
  OBVIOUS
<1>3. P \subseteq Int
  BY LenProperties
<1> HIDE DEF R
<1>4. IsOrder(P, R)
  BY <1>2, <1>3 DEF IsOrder
<1>5. at \in SetToSeqs(P) /\ Sorted(at, R)
  BY <1>1, <1>4, Ordered
<1> HIDE DEF at
<1>6. /\ at \in Seq(P) /\ Len(at) \in Nat /\ DOMAIN at = 1..Len(at)
      /\ Len(at) = Cardinality(P)
      /\ \A i \in 1..Len(at) : at[i] \in P
  BY <1>1, <1>5, Listing, ElementOfSeq
<1>7. \A i, j \in DOMAIN at : i < j => at[i] < at[j]
  BY <1>2, <1>5, <1>6 DEF Sorted
<1>8. Those(s, P) = [k \in 1..Len(at) |-> s[at[k]]]
  BY <1>6 DEF Those, at, R
<1>9. \A k \in 1..Len(at) : s[at[k]] \in A
  BY <1>6, ElementOfSeq
<1>10. Those(s, P) \in Seq(A) /\ Len(Those(s, P)) = Len(at)
  BY <1>6, <1>8, <1>9, IsASeq, LenProperties
<1> QED
  BY <1>1, <1>5, <1>6, <1>7, <1>8, <1>10
=============================================================================
