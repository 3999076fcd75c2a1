---------------------------- MODULE RequestTracker -----------------------------
(***************************************************************************)
(* internal/tracking/request_tracker.go: a bounded table of what has       *)
(* become of the requests that carry an id, with counters of its own.  The *)
(* table is a sequence in the order of ReceivedAt.                         *)
(***************************************************************************)
EXTENDS Integers, Sequences, SequencesExt

CONSTANTS
  RequestIds,  \* values of X-Request-ID
  MaxSize,     \* TRACKING_MAX_REQUESTS
  SampleAll    \* is the sample rate 1.0 (or else between 0 and 1)?

ASSUME TrackerAssumption == MaxSize \in Nat \ {0} /\ SampleAll \in BOOLEAN

VARIABLES
  requests,       \* the table
  totalReceived,  \* the counters
  totalQueued,
  totalFailed

tracker == <<requests, totalReceived, totalQueued, totalFailed>>

Entry == [id : RequestIds, status : {"received", "queued", "failed"}]

TrackerTypeOK ==
  /\ requests \in Seq(Entry) /\ Len(requests) <= MaxSize
  /\ \A i, j \in DOMAIN requests : requests[i].id = requests[j].id => i = j
  /\ totalReceived \in Nat /\ totalQueued \in Nat /\ totalFailed \in Nat

TrackerInit ==
  requests = <<>> /\ totalReceived = 0 /\ totalQueued = 0 /\ totalFailed = 0

\* No request is ever given the other final status, StatusSuccess.
Completed(entry) == entry.status = "failed"

\* Mutation of EvictOldest: the oldest entry goes, whatever its status.
EvictFirst(table) == IF table = <<>> THEN table ELSE Tail(table)

\* Mutation of EvictOldest: only a completed entry goes.
EvictCompleted(table) ==
  LET done == SelectInSeq(table, Completed) IN
  IF done # 0 THEN RemoveAt(table, done) ELSE table

\* evictOldest: the oldest completed entry, or the oldest of all.
EvictOldest(table) ==
  LET done == SelectInSeq(table, Completed) IN
  IF table = <<>> THEN table
  ELSE RemoveAt(table, IF done # 0 THEN done ELSE 1)

\* TrackRequest: the size is looked at before the id is; an entry with the same id
\* is replaced and is the youngest then.
TrackRequest(id) ==
  /\ totalReceived' = totalReceived + 1
  /\ \/ ~SampleAll /\ UNCHANGED requests
     \/ LET room == IF Len(requests) >= MaxSize THEN EvictOldest(requests) ELSE requests
            Same(entry) == entry.id = id
        IN requests' = Append(RemoveFirstMatch(room, Same), [id |-> id, status |-> "received"])
  /\ UNCHANGED <<totalQueued, totalFailed>>

\* Mutation of Marked: the youngest entry is taken for the request's.
MarkedLast(id, status) ==
  [i \in DOMAIN requests |->
     IF i = Len(requests) THEN [requests[i] EXCEPT !.status = status] ELSE requests[i]]

Marked(id, status) ==
  [i \in DOMAIN requests |->
     IF requests[i].id = id THEN [requests[i] EXCEPT !.status = status] ELSE requests[i]]

\* UpdateStatus: the counters in any case, the entry if there is one.
UpdateStatus(id, status) ==
  /\ requests' = Marked(id, status)
  /\ totalQueued' = IF status = "queued" THEN totalQueued + 1 ELSE totalQueued
  /\ totalFailed' = IF status = "failed" THEN totalFailed + 1 ELSE totalFailed
  /\ UNCHANGED totalReceived

\* Cleanup: the completed entries that are old enough.
RemoveOld ==
  /\ \E n \in 1..Len(requests) :
       LET kept[i \in 0..Len(requests)] ==
             IF i = 0 THEN <<>>
             ELSE IF i <= n /\ Completed(requests[i]) THEN kept[i - 1]
             ELSE Append(kept[i - 1], requests[i])
       IN requests' = kept[Len(requests)] /\ requests' # requests
  /\ UNCHANGED <<totalReceived, totalQueued, totalFailed>>
=============================================================================
