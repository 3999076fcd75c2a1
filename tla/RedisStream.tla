------------------------------ MODULE RedisStream ------------------------------
(***************************************************************************)
(* One Redis 7 stream with one consumer group, as internal/queue uses it:  *)
(* XADD with an approximate MAXLEN, XREADGROUP ">", XPENDING, XAUTOCLAIM,  *)
(* XACK, XDEL and XGROUP CREATE ... 0 MKSTREAM.  Redis itself is not part  *)
(* of the repository; each operator below is the effect of one command as  *)
(* the commands issued in redis_queue.go and consumer.go rely on it.       *)
(*                                                                         *)
(* Entry ids are consecutive naturals: only their order matters.  The      *)
(* payload of an entry is identified with its id.                          *)
(***************************************************************************)
EXTENDS Integers, FiniteSets

CONSTANTS
  MaxMsgs,    \* bound: how many entries are ever added
  MaxLen      \* STREAM_MAX_LEN, the MAXLEN given to XADD

ASSUME StreamAssumption == MaxMsgs \in Nat /\ MaxLen \in Nat \ {0}

Ids == 1..MaxMsgs

VARIABLES
  stream,     \* ids of the entries in the stream
  lastId,     \* the id generated last
  group,      \* does the consumer group exist?
  cursor,     \* the group's last-delivered-id; 0 while there is no group
  pel,        \* the group's pending entries list
  count,      \* delivery counter of each pending entry
  stale       \* pending entries idle for at least the reclaimer's MinIdle

redis == <<stream, lastId, group, cursor, pel, count, stale>>

RedisTypeOK ==
  /\ stream \subseteq Ids
  /\ lastId \in 0..MaxMsgs
  /\ group \in BOOLEAN
  /\ cursor \in 0..MaxMsgs
  /\ pel \subseteq Ids
  /\ count \in [Ids -> Nat]
  /\ stale \subseteq Ids

RedisInit ==
  /\ stream = {} /\ lastId = 0
  /\ group = TRUE /\ cursor = 0
  /\ pel = {} /\ count = [i \in Ids |-> 0] /\ stale = {}

-----------------------------------------------------------------------------
(* Reading the stream *)

\* The n smallest ids of S: every listing is in id order and cut by COUNT.
FirstN(S, n) == {i \in S : Cardinality({j \in S : j < i}) < n}

\* What XREADGROUP with id ">" may return: entries never delivered to the group.
Unread == {i \in stream : i > cursor}

\* Entries that still lead to a delivery: unread, or pending and in the stream.
Owed == {i \in stream : i > cursor \/ i \in pel}

-----------------------------------------------------------------------------
(* Commands: each primes every variable of redis *)

\* XADD MAXLEN ~ MaxLen *: append, then perhaps evict the oldest entries, never
\* below MaxLen; evicted entries stay in the PEL.
XAdd ==
  /\ lastId < MaxMsgs
  /\ lastId' = lastId + 1
  /\ \E cut \in 0..lastId :
       LET kept == {i \in stream \cup {lastId + 1} : i > cut}
       IN  /\ cut = 0 \/ Cardinality(kept) >= MaxLen
           /\ stream' = kept
  /\ UNCHANGED <<group, cursor, pel, count, stale>>

\* XREADGROUP delivers ids to the group: pending, counted once, not idle.
XReadGroup(ids) ==
  /\ group /\ ids # {}
  /\ \E last \in ids : (\A i \in ids : i <= last) /\ cursor' = last
  /\ pel' = pel \cup ids
  /\ count' = [i \in Ids |-> IF i \in ids THEN 1 ELSE count[i]]
  /\ stale' = stale \ ids
  /\ UNCHANGED <<stream, lastId, group>>

\* XAUTOCLAIM from 0-0: the first n pending entries that are idle, or no longer
\* in the stream (evicted); these leave the PEL and are not returned.
AutoClaimable(n) == FirstN((pel \cap stale) \cup (pel \ stream), n)

XAutoClaim(n) ==
  /\ group
  /\ pel' = pel \ (AutoClaimable(n) \ stream)
  /\ count' = [i \in Ids |-> IF i \in AutoClaimable(n) \cap stream
                             THEN count[i] + 1 ELSE count[i]]
  /\ stale' = stale \ AutoClaimable(n)
  /\ UNCHANGED <<stream, lastId, group, cursor>>

\* XACK: ids that are not pending are ignored.
XAck(ids) ==
  /\ pel' = pel \ ids
  /\ stale' = stale \ ids
  /\ UNCHANGED <<lastId, group, cursor, count>>

\* Time passes: a pending entry reaches MinIdle.
XIdle(i) ==
  /\ i \in pel \ stale
  /\ stale' = stale \cup {i}
  /\ UNCHANGED <<stream, lastId, group, cursor, pel, count>>

\* Mutation of XGroupCreate: the group starts at the end of the stream, "$".
XGroupCreateAtEnd ==
  /\ group' = TRUE
  /\ cursor' = IF group THEN cursor ELSE lastId
  /\ UNCHANGED <<stream, lastId, pel, count, stale>>

\* XGROUP CREATE stream group 0 MKSTREAM; BUSYGROUP when it exists already.
XGroupCreate ==
  /\ group' = TRUE
  /\ cursor' = IF group THEN cursor ELSE 0
  /\ UNCHANGED <<stream, lastId, pel, count, stale>>

\* The group is gone: with FLUSHDB or a Redis restart without persistence the
\* entries too (kept = {}), with XGROUP DESTROY only the group.
XForget(kept) ==
  /\ stream' = kept
  /\ group' = FALSE /\ cursor' = 0
  /\ pel' = {} /\ count' = [i \in Ids |-> 0] /\ stale' = {}
  /\ UNCHANGED lastId
=============================================================================
