------------------------------ MODULE RateLimiter ------------------------------
(***************************************************************************)
(* internal/api/middleware.go: a token bucket per client, found or created *)
(* by each request and removed by a cleanup when no request has touched it *)
(* for a while.  A request looks a bucket up under the read lock and uses  *)
(* it without any, so it may use one that the cleanup has removed.  Time   *)
(* is counted in ticks, of the order of minutes; buckets know their age.   *)
(***************************************************************************)
EXTENDS Integers, FiniteSets, FiniteSetsExt

CONSTANTS
  Clients,   \* the addresses requests come from
  Slots,     \* requests that may be in progress at a time
  Burst,     \* RATE_LIMIT_BURST
  Refill,    \* tokens that a tick brings: RATE_LIMIT_REQUESTS_PER_SECOND
  IdleLimit  \* ticks after which a bucket is removed: 10 minutes

\* A bucket that was idle long enough to be removed is full, even if requests in
\* progress had used it.
ASSUME RateLimiterAssumption ==
  /\ IsFiniteSet(Clients) /\ Clients # {} /\ IsFiniteSet(Slots)
  /\ Burst \in Nat \ {0} /\ Refill \in Nat /\ IdleLimit \in Nat
  /\ Burst + Cardinality(Slots) <= Refill * IdleLimit

Buckets == 1..(Cardinality(Clients) + Cardinality(Slots))
NoBucket == 0

VARIABLES
  limiters,  \* the bucket in each client's entry
  tokens,    \* what is in each bucket
  idle,      \* ticks since lastSeen of each bucket's entry
  uses,      \* the bucket each request has looked up
  ideal      \* history: tokens of a bucket that is never removed

limiter == <<limiters, tokens, idle, uses, ideal>>

LimiterTypeOK ==
  /\ limiters \in [Clients -> Buckets \cup {NoBucket}]
  /\ tokens \in [Buckets -> 0..Burst]
  /\ idle \in [Buckets -> 0..(IdleLimit + 1)]
  /\ uses \in [Slots -> Buckets \cup {NoBucket}]
  /\ ideal \in [Clients -> Int]

LimiterInit ==
  /\ limiters = [c \in Clients |-> NoBucket]
  /\ tokens = [b \in Buckets |-> 0] /\ idle = [b \in Buckets |-> 0]
  /\ uses = [s \in Slots |-> NoBucket]
  /\ ideal = [c \in Clients |-> Burst]

InUse ==
  {b \in Buckets : (\E c \in Clients : limiters[c] = b) \/ \E s \in Slots : uses[s] = b}

\* What nobody refers to any more is gone.
Collected(f) == [b \in Buckets |-> IF b \in InUse' THEN f[b] ELSE 0]

Use(s, b) == uses' = [uses EXCEPT ![s] = b]

-----------------------------------------------------------------------------
(* getLimiter and Allow *)

\* Under the read lock: is there an entry?
Lookup(s, c) ==
  /\ Use(s, limiters[c])
  /\ UNCHANGED <<limiters, tokens, idle, ideal>>

\* The entry found is touched, whether or not it is still the client's.
Touch(s) ==
  /\ idle' = [idle EXCEPT ![uses[s]] = 0]
  /\ UNCHANGED <<limiters, tokens, uses, ideal>>

\* Under the lock: look again, then make a full bucket.
Create(s, c) ==
  \/ /\ limiters[c] # NoBucket
     /\ Use(s, limiters[c])
     /\ idle' = [idle EXCEPT ![limiters[c]] = 0]
     /\ UNCHANGED <<limiters, tokens, ideal>>
  \/ /\ limiters[c] = NoBucket
     /\ LET b == Min(Buckets \ InUse) IN
        /\ limiters' = [limiters EXCEPT ![c] = b]
        /\ Use(s, b)
        /\ tokens' = [tokens EXCEPT ![b] = Burst]
        /\ idle' = [idle EXCEPT ![b] = 0]
     /\ UNCHANGED ideal

\* Allow: a token is taken.
TakeToken(s, c) ==
  /\ tokens[uses[s]] > 0
  /\ Use(s, NoBucket) /\ UNCHANGED limiters
  /\ tokens' = Collected([tokens EXCEPT ![uses[s]] = @ - 1])
  /\ idle' = Collected(idle)
  /\ ideal' = [ideal EXCEPT ![c] = @ - 1]

\* Allow: there is none.
NoToken(s) ==
  /\ tokens[uses[s]] = 0
  /\ Use(s, NoBucket) /\ UNCHANGED limiters
  /\ idle' = Collected(idle)
  /\ UNCHANGED <<tokens, ideal>>

-----------------------------------------------------------------------------
(* Time *)

\* Mutation of Cleanup: entries are removed although they are in use.
CleanupAll(c) ==
  /\ limiters[c] # NoBucket
  /\ limiters' = [limiters EXCEPT ![c] = NoBucket] /\ UNCHANGED <<uses, ideal>>
  /\ tokens' = Collected(tokens) /\ idle' = Collected(idle)

\* cleanupLoop, on the shard of a client: its entry goes if it is older than the
\* limit.
Cleanup(c) ==
  /\ limiters[c] # NoBucket /\ idle[limiters[c]] > IdleLimit
  /\ limiters' = [limiters EXCEPT ![c] = NoBucket] /\ UNCHANGED <<uses, ideal>>
  /\ tokens' = Collected(tokens) /\ idle' = Collected(idle)

Lesser(a, b) == IF a < b THEN a ELSE b

\* The clock: every bucket in an entry is refilled up to its burst.
Age ==
  /\ tokens' = [b \in Buckets |->
       IF b \in InUse THEN Lesser(tokens[b] + Refill, Burst) ELSE 0]
  /\ idle' = [b \in Buckets |->
       IF b \in InUse THEN Lesser(idle[b] + 1, IdleLimit + 1) ELSE 0]
  /\ ideal' = [c \in Clients |-> Lesser(ideal[c] + Refill, Burst)]
  /\ UNCHANGED <<limiters, uses>>
=============================================================================
