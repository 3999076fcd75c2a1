------------------------------- MODULE HttpFront -------------------------------
(***************************************************************************)
(* The way of a POST /api/gps/reports through the middleware               *)
(* (internal/api/middleware.go) and what its handler tells the request     *)
(* tracker (internal/api/handler.go).  Composes RateLimiter and            *)
(* RequestTracker; Ingest models what the handler does with the queue.     *)
(***************************************************************************)
EXTENDS RateLimiter, RequestTracker

CONSTANT MaxTracked  \* bound on the requests that carry an id

ASSUME FrontAssumption == MaxTracked \in Nat

NoId == "none"

VARIABLES
  at,       \* where each request is
  client,   \* where it comes from
  id,       \* its X-Request-ID, or none
  told,     \* history: how many requests had each id, and the last one's status
  panicked  \* history: how many handlers panicked

front == <<at, client, id, told, panicked>>
vars == <<limiter, tracker, front>>

Middleware == {"found", "absent", "allow"}

TypeOK ==
  /\ LimiterTypeOK /\ TrackerTypeOK
  /\ at \in [Slots -> {"idle", "handler", "tracked"} \cup Middleware]
  /\ client \in [Slots -> Clients]
  /\ id \in [Slots -> RequestIds \cup {NoId}]
  /\ told \in [RequestIds ->
       [requests : Nat, last : {"none", "received", "queued", "failed"}]]
  /\ panicked \in Nat

Init ==
  /\ LimiterInit /\ TrackerInit
  /\ at = [s \in Slots |-> "idle"]
  /\ client = [s \in Slots |-> CHOOSE c \in Clients : TRUE]
  /\ id = [s \in Slots |-> NoId]
  /\ told = [i \in RequestIds |-> [requests |-> 0, last |-> "none"]]
  /\ panicked = 0

Goto(s, where) == at' = [at EXCEPT ![s] = where]

\* The request is answered, and what was known of it is gone.
Answer(s) ==
  /\ Goto(s, "idle")
  /\ client' = [client EXCEPT ![s] = CHOOSE c \in Clients : TRUE]
  /\ id' = [id EXCEPT ![s] = NoId]

-----------------------------------------------------------------------------
(* RateLimitMiddleware *)

\* A request arrives, with or without an id of its own, and looks for its bucket.
Arrive(s, c, i) ==
  /\ at[s] = "idle"
  /\ Lookup(s, c)
  /\ Goto(s, IF limiters[c] = NoBucket THEN "absent" ELSE "found")
  /\ client' = [client EXCEPT ![s] = c]
  /\ id' = [id EXCEPT ![s] = i]
  /\ UNCHANGED <<tracker, told, panicked>>

TouchEntry(s) ==
  /\ at[s] = "found" /\ Touch(s) /\ Goto(s, "allow")
  /\ UNCHANGED <<tracker, client, id, told, panicked>>

CreateEntry(s) ==
  /\ at[s] = "absent" /\ Create(s, client[s]) /\ Goto(s, "allow")
  /\ UNCHANGED <<tracker, client, id, told, panicked>>

Allow(s) ==
  /\ at[s] = "allow" /\ TakeToken(s, client[s]) /\ Goto(s, "handler")
  /\ UNCHANGED <<tracker, client, id, told, panicked>>

\* 429 Too many requests
Deny(s) ==
  /\ at[s] = "allow" /\ NoToken(s) /\ Answer(s)
  /\ UNCHANGED <<tracker, told, panicked>>

-----------------------------------------------------------------------------
(* ReceiveGPSData *)

\* ContentTypeMiddleware refuses the request, its body cannot be read or is too
\* large, or it has no id: the tracker hears nothing.
NotTracked(s) ==
  /\ at[s] = "handler" /\ Answer(s)
  /\ UNCHANGED <<limiter, tracker, told, panicked>>

Track(s) ==
  /\ at[s] = "handler" /\ id[s] # NoId /\ totalReceived < MaxTracked
  /\ TrackRequest(id[s])
  /\ told' = [told EXCEPT ![id[s]] = [requests |-> @.requests + 1, last |-> "received"]]
  /\ Goto(s, "tracked")
  /\ UNCHANGED <<limiter, client, id, panicked>>

\* Mutation of Report: an answer that is an error is not reported.
ReportQueuedOnly(s, status) ==
  /\ at[s] = "tracked"
  /\ IF status = "queued" THEN UpdateStatus(id[s], status) ELSE UNCHANGED tracker
  /\ told' = [told EXCEPT ![id[s]].last = status]
  /\ Answer(s)
  /\ UNCHANGED <<limiter, panicked>>

\* Every answer of the handler is reported: 200, or 400 for an empty body or one
\* that does not parse, 503 for backpressure or a failed enqueue.
Report(s, status) ==
  /\ at[s] = "tracked"
  /\ UpdateStatus(id[s], status)
  /\ told' = [told EXCEPT ![id[s]].last = status]
  /\ Answer(s)
  /\ UNCHANGED <<limiter, panicked>>

\* ParsePacket panics on a packet whose records end too early, in prepareBodyForQueue:
\* RecoveryMiddleware answers 500, and the tracker hears nothing.
Panic(s) ==
  /\ at[s] = "tracked" /\ Answer(s)
  /\ panicked' = panicked + 1
  /\ UNCHANGED <<limiter, tracker, told>>

-----------------------------------------------------------------------------
(* Background *)

CleanupLoop(c) == Cleanup(c) /\ UNCHANGED <<tracker, front>>

\* main's ticker of 5 minutes
CleanupTracker == RemoveOld /\ UNCHANGED <<limiter, front>>

\* No request spends a tick in the middleware.
Tick ==
  /\ \A s \in Slots : at[s] \notin Middleware
  /\ Age
  /\ UNCHANGED <<tracker, front>>

Next ==
  \/ \E s \in Slots :
       \/ \E c \in Clients, i \in RequestIds \cup {NoId} : Arrive(s, c, i)
       \/ TouchEntry(s) \/ CreateEntry(s) \/ Allow(s) \/ Deny(s)
       \/ NotTracked(s) \/ Track(s) \/ Panic(s)
       \/ \E status \in {"queued", "failed"} : Report(s, status)
  \/ \E c \in Clients : CleanupLoop(c)
  \/ CleanupTracker
  \/ Tick

Spec == Init /\ [][Next]_vars

-----------------------------------------------------------------------------
(* Properties *)

\* "Per-IP rate limiting" (README.md:12): whatever requests and the cleanup do at the
\* same time, a client never has more requests allowed than one bucket would let
\* pass, plus one for each request that may hold a bucket the cleanup has removed
\* (getLimiter, cleanupLoop).
RateKept == \A c \in Clients : ideal[c] >= - Cardinality(Slots)

\* The statistics add up: what was received was queued or failed, but for the
\* requests whose handler still runs and those whose handler panicked, in whatever
\* order handlers, evictions and cleanups come (TrackRequest, UpdateStatus,
\* ReceiveGPSData, RecoveryMiddleware).
Counted ==
  totalReceived =
    totalQueued + totalFailed + panicked + Cardinality({s \in Slots : at[s] = "tracked"})

\* The entry of an id that only one request had says what became of that request,
\* whatever was evicted, cleaned up or tracked under other ids (UpdateStatus).
Truthful ==
  \A i \in DOMAIN requests :
    LET known == told[requests[i].id] IN
    known.requests = 1 => requests[i].status = known.last

\* An entry whose request has not failed leaves the table only to make room, when
\* no failed one is left, or for a newer request with its id ("removes the oldest
\* completed request", request_tracker.go:281).
FailedLeaveFirst ==
  [][\A i \in DOMAIN requests :
       LET gone == requests[i] IN
       ~Completed(gone) /\ (\A j \in DOMAIN requests' : requests'[j].id # gone.id)
         => /\ Len(requests) = MaxSize
            /\ \A j \in DOMAIN requests : ~Completed(requests[j])]_vars
=============================================================================
