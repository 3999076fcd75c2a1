-------------------------------- MODULE Ingest ---------------------------------
(***************************************************************************)
(* The producers of the queue: concurrent POST /api/gps/reports handlers   *)
(* (internal/api/handler.go), which look at the depth cached by the last   *)
(* enqueue before they add to the stream, and the Teltonika TCP path,      *)
(* which adds without looking.  Of the stream only its length is kept; the *)
(* consumer and Redis shorten it.                                          *)
(***************************************************************************)
EXTENDS Integers, FiniteSets

CONSTANTS
  Slots,              \* HTTP requests that may be in progress at a time
  MaxLen,             \* REDIS_MAX_LEN
  BackpressureLimit,  \* QUEUE_BACKPRESSURE_LIMIT; 0: 90% of MaxLen
  MaxTCP,             \* bound on enqueues of the TCP path
  MaxFaults,          \* bound on Redis calls that fail or lose their reply
  MaxRestarts         \* bound on restarts of the process

ASSUME IngestAssumption ==
  /\ IsFiniteSet(Slots)
  /\ MaxLen \in Nat \ {0} /\ BackpressureLimit \in Int
  /\ MaxTCP \in Nat /\ MaxFaults \in Nat /\ MaxRestarts \in Nat

VARIABLES
  depth,    \* XLEN of the stream
  cached,   \* Handler.cachedDepth
  pc,       \* where the handler of each slot is
  read,     \* the depth its pipeline returned
  evicted,  \* history: did MAXLEN ever evict an entry?
  tcp, faults, restarts

vars == <<depth, cached, pc, read, evicted, tcp, faults, restarts>>

Limit == IF BackpressureLimit <= 0 THEN (MaxLen * 9) \div 10 ELSE BackpressureLimit

TypeOK ==
  /\ depth \in Nat /\ cached \in Nat
  /\ pc \in [Slots -> {"idle", "checked", "added", "enqueued"}]
  /\ read \in [Slots -> Nat]
  /\ evicted \in BOOLEAN
  /\ tcp \in 0..MaxTCP /\ faults \in 0..MaxFaults /\ restarts \in 0..MaxRestarts

\* The first start, with an empty stream; Restart is every later one.
Init ==
  /\ depth = 0 /\ cached = 0
  /\ pc = [s \in Slots |-> "idle"]
  /\ read = [s \in Slots |-> 0]
  /\ evicted = FALSE /\ tcp = 0 /\ faults = 0 /\ restarts = 0

Goto(s, label) == pc' = [pc EXCEPT ![s] = label]

\* The handler returns and its locals are gone.
Return(s) == Goto(s, "idle") /\ read' = [read EXCEPT ![s] = 0]

\* XADD MAXLEN ~: one more entry, and perhaps an eviction down to MaxLen at most.
Append ==
  \/ depth' = depth + 1 /\ UNCHANGED evicted
  \/ depth >= MaxLen /\ depth' \in MaxLen..depth /\ evicted' = TRUE

-----------------------------------------------------------------------------
(* ReceiveGPSData *)

\* Mutation of Full: the limit itself still passes.
FullLate == Limit > 0 /\ cached > Limit

\* The backpressure check; when it holds the request is answered 503.
Full == Limit > 0 /\ cached >= Limit

\* A request with a valid body passes the check.
Admit(s) ==
  /\ pc[s] = "idle" /\ ~Full
  /\ Goto(s, "checked")
  /\ UNCHANGED <<depth, cached, read, evicted, tcp, faults, restarts>>

\* EnqueueWithDepth, first command of the pipeline.
AddEntry(s) ==
  /\ pc[s] = "checked"
  /\ Append
  /\ Goto(s, "added")
  /\ UNCHANGED <<cached, read, tcp, faults, restarts>>

\* The reply of the pipeline is lost: the client, which has its default MaxRetries,
\* executes the XADD once more.
Reexecute(s) ==
  /\ pc[s] = "added" /\ faults < MaxFaults
  /\ faults' = faults + 1
  /\ Goto(s, "checked")
  /\ UNCHANGED <<depth, cached, read, evicted, tcp, restarts>>

\* EnqueueWithDepth, second command: XLEN.
ReadLength(s) ==
  /\ pc[s] = "added"
  /\ read' = [read EXCEPT ![s] = depth]
  /\ Goto(s, "enqueued")
  /\ UNCHANGED <<depth, cached, evicted, tcp, faults, restarts>>

\* The pipeline fails before or after the entry was added: 503, and the cached
\* depth is left alone.
EnqueueFails(s) ==
  /\ pc[s] \in {"checked", "added"} /\ faults < MaxFaults
  /\ faults' = faults + 1
  /\ Return(s)
  /\ UNCHANGED <<depth, cached, evicted, tcp, restarts>>

\* cachedDepth.Store(depth), mirror, 200 OK.
Store(s) ==
  /\ pc[s] = "enqueued"
  /\ cached' = read[s]
  /\ Return(s)
  /\ UNCHANGED <<depth, evicted, tcp, faults, restarts>>

-----------------------------------------------------------------------------
(* The other users of the stream *)

\* processPostAck: the TCP path enqueues without a check and stores no depth.
EnqueueTCP ==
  /\ tcp < MaxTCP
  /\ tcp' = tcp + 1
  /\ Append
  /\ UNCHANGED <<cached, pc, read, faults, restarts>>

\* The reply to an XADD of the TCP path is lost and the client repeats it.
ReexecuteTCP ==
  /\ tcp > 0 /\ faults < MaxFaults
  /\ faults' = faults + 1
  /\ Append
  /\ UNCHANGED <<cached, pc, read, tcp, restarts>>

\* Mutation of Consume: an entry already gone is deleted once more.
ConsumeTwice ==
  /\ depth' = depth - 1
  /\ UNCHANGED <<cached, pc, read, evicted, tcp, faults, restarts>>

\* batchAck removes an entry.
Consume ==
  /\ depth > 0
  /\ depth' = depth - 1
  /\ UNCHANGED <<cached, pc, read, evicted, tcp, faults, restarts>>

\* The process stops or dies and starts again: its requests are gone, NewHandler
\* starts with a cached depth of zero, and the stream is what it was.
Restart ==
  /\ restarts < MaxRestarts
  /\ restarts' = restarts + 1
  /\ cached' = 0
  /\ pc' = [s \in Slots |-> "idle"]
  /\ read' = [s \in Slots |-> 0]
  /\ UNCHANGED <<depth, evicted, tcp, faults>>

Next ==
  \/ \E s \in Slots :
       \/ Admit(s) \/ AddEntry(s) \/ Reexecute(s) \/ ReadLength(s)
       \/ EnqueueFails(s) \/ Store(s)
  \/ EnqueueTCP \/ ReexecuteTCP
  \/ Consume
  \/ Restart

Spec == Init /\ [][Next]_vars

\* Requests keep coming and are served, and the consumer keeps up.
FairSpec ==
  /\ Spec
  /\ \A s \in Slots :
       WF_vars(Admit(s)) /\ WF_vars(AddEntry(s) \/ ReadLength(s) \/ Store(s))
  /\ SF_vars(Consume)

-----------------------------------------------------------------------------
(* Properties *)

\* How far concurrent requests can overrun the limit: those that passed the check
\* together, again after each straggler that stores an old, smaller depth
\* (handler.go: the check and the store are not one step).
Overrun == LET n == Cardinality(Slots) IN (n * (n + 1)) \div 2 - 1

\* What is added without anyone having looked at a depth: by the TCP path, by calls
\* that failed or were repeated, and by the requests that each restart lets in.
Unseen == tcp + faults + Cardinality(Slots) * restarts

\* The queue stays within the limit and the overrun, in whatever order handlers
\* read and store depths and the process restarts over a filled stream; only what
\* was added unseen comes on top (ReceiveGPSData, NewHandler).
DepthBounded == Limit > 0 => depth <= Limit + Overrun + Unseen

\* Backpressure keeps MAXLEN from evicting accepted messages as long as the slack
\* above the limit has room for the overrun and for what was added unseen, restarts
\* over a filled stream included (ReceiveGPSData, NewHandler, XADD MAXLEN).
NoHttpEviction == Limit > 0 /\ Limit + Overrun + Unseen <= MaxLen => ~evicted

\* "Queue is full, try again later" (handler.go:181): when the queue has drained
\* requests are accepted again.
BackpressureLifts == [](Full /\ depth = 0 => <>~Full)
=============================================================================
