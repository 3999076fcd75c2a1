# A TLA+ model of gps-data-receiver

The server takes GPS reports over HTTP (and from Teltonika devices over TCP), puts
them into a Redis stream, and a pool of workers parses them, filters redundant
stoppages and sends the rest to destination servers.  Around this path there are
a PostgreSQL writer, an HTTP mirror, a Socket.IO broadcaster and a request tracker.
The modules here are written from the Go source; `PROJECT.json` ("map") names the
lines behind every definition.

    devices --HTTP--> ReceiveGPSData --XADD--> Redis stream --XREADGROUP--> workers
    devices --TCP---> session, pipeline --^         ^   |                     |
                                                    |   XPENDING/XAUTOCLAIM   | messageHandler:
                                                    |     (reclaimer) ------->| parse, filter, send
                                                  XACK, XDEL  <---------------|
                                                                 destinations, PostgreSQL, mirror

## 1. Inventory

| Part | State | Operations | Meets others through | Hard because | Correct when |
|---|---|---|---|---|---|
| Delivery queue (`internal/queue`) | stream, group, pending list, delivery counts (Redis); batches in progress | Enqueue, processMessages, handleMessage, batchAck, claimStaleMessages, dropExcessiveRetries, EnsureConsumerGroup, Stop | Redis commands; the handler callback | crashes and lost replies between read and acknowledgement, workers against reclaimer, group recreation, MAXLEN | nothing disappears unhandled; deliveries are bounded; everything settles |
| HTTP ingest (`internal/api/handler.go`) | cachedDepth | ReceiveGPSData | EnqueueWithDepth | check, enqueue and store are three steps of concurrent requests | the overrun is bounded; backpressure goes away again |
| Sender (`internal/sender`) | round-robin counter, pausedUntil | Send, NextServer, pauseServer | shared by all handlers | concurrent callers move the counter and set pauses | pauses hold, 429 reaches the consumer, Send returns, a healthy host is found |
| Message handler (`cmd/server/main.go`) | none of its own | messageHandler | called by the consumer; calls filter, sender, writer, mirror | redelivery repeats every effect | a message is acknowledged only when its movements arrived |
| Stoppage filter (`internal/filter`) | last kind of record per IMEI, saved to Redis | FilterData, syncToRedis, loadFromRedis, Close | shared by all handlers | state moves before the send it stands for; saved state is old | movements always pass, stops are not hidden |
| PostgreSQL writer (`internal/storage`) | channel, overflow goroutines, one writer | Enqueue*, run, Close | handlers; main's defers | full channel, close against senders, order of the closes | every write is tried once; Close drains |
| Start and shutdown (`cmd/server/main.go`) | where main is | signal, consumer.Stop, srv.Shutdown, defers | everything | reverse order of the defers, one 30 s budget | accepted work is finished before what it needs is closed |
| Hooshnics forwarder (`internal/hooshnics`) | buffered channel, spill files | Forward*, deliver, spill, Close | handlers, HTTP and TCP ingest | full buffer, retries, Close against enqueue | every payload is delivered or in a file; Close drains |
| Teltonika TCP (`internal/teltonika/tcp`) | sessions, job channel | handshake, frames, ACK, post-ACK pipeline, Stop | Enqueue, mirror | the device is acknowledged before the frame is queued | an acknowledged frame reaches the queue unless the channel is full or Redis refuses it |
| Teltonika codec, parser | none | packet and record decoding, CRC-16/IBM, recovery of malformed arrays | handler, session | lengths, widths, signs, CRC, half-good messages | decoding inverts encoding, damage is refused, no object disappears |
| Request tracker (`internal/tracking`) | map of entries, counters | Track, UpdateStatus, evict, clean up | HTTP handlers | eviction at the limit, ids that repeat | counters add up, an entry tells the truth |
| Rate limiter (`internal/api/middleware.go`) | token bucket per client | allow, cleanup | HTTP requests | cleanup against lookup | no burst above the bucket but for requests in the gap |
| Queries (`internal/storage/postgres.go`, `internal/api`) | tables | path of a device, list of invalid records | rows stored meanwhile | two statements, ties, a last page that moves | a path shows every movement, a list misses nothing that was there |
| Broadcaster (`internal/api/handler.go`) | bounded channel | Emit, Close | handlers | full channel, close | never blocks a handler |
| Configuration, metrics, logging, raw log, frontend, load test | - | - | - | - | not modelled: without influence on the above, or not wired in |

`PROJECT.json` lists every part with its files, and every hazard with its line and
the properties that would catch it.

## 2. Modules

| Module | Models | Used by |
|---|---|---|
| `RedisStream` | one stream with one group, as the commands of `internal/queue` rely on it (external) | `DeliveryQueue` |
| `AtLeastOnce` | the promise of the queue, abstractly | refined by `DeliveryQueue` |
| `DeliveryQueue` | producers, workers, reclaimer, stop, crash, restart, failing Redis calls, loss of the group | `MCDeliveryQueue`, the proofs |
| `DeliveryQueue_proofs` | the safety properties of the queue, and that it implements `AtLeastOnce` | - |
| `Ingest` | concurrent requests against backpressure | `MCIngest` |
| `HTTPSender` | concurrent calls of Send, server selection, pauses | `MCHTTPSender` |
| `MessageHandler` | handler and filter, redelivery, saved state, crash | `MCMessageHandler` |
| `AsyncWriter` | channel, overflow goroutines, writer, Close, and main's shutdown around them | `MCAsyncWriter` |
| `Forwarder` | the mirror: channel, workers, retries, spill files, Close | `Shutdown` |
| `TeltonikaServer` | sessions, acknowledgements, post-ACK pipeline, Stop | `Shutdown` |
| `Shutdown` | the receiving side of the process to its end: TCP sessions, HTTP handlers, mirror, Redis client and main's steps after the signal | `MCShutdown` |
| `RateLimiter` | token buckets of the HTTP clients, and their cleanup | `HttpFront` |
| `RequestTracker` | entries, counters, eviction, cleanup | `HttpFront` |
| `HttpFront` | a request's way through middleware and tracking | `MCHttpFront` |
| `Codec` | CRC-16/IBM, packets and records of the three codecs, byte by byte | `MCAlgorithms` |
| `Parsing` | routing of a message, recovery of malformed arrays, envelopes, what is stored as invalid | `MCAlgorithms` |
| `RawRequest` | how the mirror encodes a body | `MCAlgorithms` |
| `StoreQueries` | the tables of points and of invalid records, the path query, the paged list | `MCAlgorithms` |
| `Ordering` | a set put in order (ORDER BY), what a loop keeps of a slice | `Parsing`, `StoreQueries` |
| `SequenceLemmas` | what a send, a receive, a removal and a concatenation do to the elements of a sequence; what `Ordering`'s operators return | the proofs |
| `Ingest_proofs`, `HTTPSender_proofs`, `Shutdown_proofs`, `HttpFront_proofs` | the safety properties of each for every value of the constants (section 4) | - |
| `MessageHandler_proofs` | those of `MessageHandler` and of `Parsing` | - |
| `Storage_proofs` | those of `AsyncWriter` and of `StoreQueries` | - |

How states and actions correspond to the code:

* `RedisStream`.  Entry ids are consecutive naturals, since only their order matters,
  and an entry's payload is its id.  `stream`, `cursor`, `pel`, `count` are the
  stream's entries, the group's last-delivered-id, its pending list and the delivery
  counters; `stale` is the set of pending entries idle for the reclaimer's MinIdle.
  `MAXLEN ~` evicts any number of oldest entries as long as MaxLen stay.  XAUTOCLAIM
  removes pending ids whose entry is gone, as Redis 7 does.
* `DeliveryQueue`.  `pc`, `todo`, `acks` are a goroutine's position in worker /
  processBatchConcurrently, the messages of its batch whose handler still runs, and
  ackIDs.  Each Redis round trip is one action, each return of a handler is one
  action (the fan-out runs handlers concurrently), and the acknowledgement comes
  after all of them, as in the code.  The reclaimer's XPENDING, drop, XAUTOCLAIM and
  batch are separate actions.  A pipeline XACK+XDEL may apply both, the XACK alone,
  or nothing.  `deliveries`, `handled`, `lost` are history variables.
  The handler is any function that returns nil or an error (a panic counts as an error).
  `LeftBehind` are the entries of the stream that are neither unread nor pending.
* `Ingest`.  Of the stream only its length is kept.  The handler's check, the two
  commands of EnqueueWithDepth's pipeline and the store of cachedDepth are four
  steps; a request that fails or is rejected stores nothing.  When the reply to the pipeline is
  lost, the Redis client, which has its default of three retries, executes the XADD again
  (`Reexecute`, `ReexecuteTCP`).  `Restart` is NewHandler over the stream as it is: the cached depth is
  zero again, however full the stream.
* `HTTPSender`.  Each call has its loop variable, candidate count, target and error;
  one atomic add of the counter, one look at the pause table, one request, one
  extension of a pause are a step each.  Time is a bounded clock.  `WaitRefused` is the limiter's Wait that
  sees the deadline come before its next token and fails at once: the attempt counts, and no request
  was made.  `tried` and `crossed` are the servers that the call and concurrent calls took meanwhile.
* `MessageHandler`.  A record is its device, whether its speed is zero and whether its numbers are
  finite: parseFloat lets "NaN" through, the Marshal of a record that was kept then fails, and the message
  is acknowledged unsent (`Discard`; main.go:244-252).
  FilterData takes one record per step (the shard lock is held per record), and the
  send is one step which may fail before or after the destination took the records.
  A failed message is queued again, up to MaxRetries deliveries, as `DeliveryQueue`
  shows the queue to do.  `kept` are the numbers of a message's records that FilterData let
  pass, in their order.  syncToRedis copies and writes in two steps.
* `AsyncWriter`.  Sending to the channel is split as Go does it: a full channel
  spawns a goroutine, whose select takes any ready case, waits if none is, and
  panics on a closed channel.  When the writer receives, the first waiting goroutine
  moves into the buffer.  A write begins (BeginTx) and commits or fails.  Main runs
  consumer.Stop, the store's Close and the writer's Close (cancel, close, wait) in
  the order in which its defers run.  `handed` is the history of what handlers gave to the writer.
* `Forwarder` and `TeltonikaServer` constrain their own variables only; `Shutdown` conjoins
  their actions, so that one step of a pipeline worker is its return from
  ForwardTeltonikaAVL and the mirror's enqueue at once.  A channel is a sequence; a send
  with a `default` looks at its room and takes effect in one step, as the runtime does it
  under the channel's lock.  A worker of the mirror is at its select, in `post`, in the backoff,
  or has returned.  A spill file may fail, or may be overwritten by one named in the same
  nanosecond (`wrecked`).  A session is at its handshake, at the top of its loop, in
  readFrame, between readFrame and its acknowledgement, or between that and
  submitPostAck; a frame is a model value that validateFrame accepts or refuses, or on which it
  panics (a record that ends too early, under a valid checksum); deadlines and lost peers are `Disconnect`.
* `Shutdown`.  `stage` is where main is: its body after the signal, then the defers, last
  one first.  The context of srv.Shutdown may expire from the signal on, since it is
  created before consumer.Stop.  Handlers that it did not wait for keep running
  (`expired` says later whether there were any).  `Exit` ends everything at once, and so does the
  panic of a session, which nothing recovers (`died`).
* `RateLimiter`.  A bucket has a number of tokens and is refilled by `Tick`; `limiters`
  has each client's entry, `uses` the bucket a request has got from getLimiter.  The RLock,
  the write of lastSeen and Allow are three steps, which is where the cleanup comes in
  between.  `ideal` is what one bucket that is never removed would hold.
* `RequestTracker`.  `requests` is the map, ordered by ReceivedAt; a repeated id
  takes its entry over.  Cleanup's loop over the map is a recursive function over that
  order, since several entries may go at once.  `HttpFront` reports the outcome of each tracked request, but for one
  whose handler panics in ParsePacket (`Panic`): RecoveryMiddleware answers it, and the tracker hears nothing.
* `Codec`.  Bytes are numbers; ParsePacket, decodeRecord and parseIOBlock are functions that return
  what was read and where to go on, or an error.  Values stay byte strings, except those
  that the parser looks at.  `Encode` is the device, written from the protocol's layout and not
  from the decoder.
* `Parsing`.  A message is what it wraps and its objects, each of which is good or wrong in
  one of the ways the code tells apart: its text is not closed, its value is not a
  string, its number or date does not convert, its data stands behind a space or another member.  An array that decodes
  (`Decodes`) yields all its objects; of one that does not, the recovery looks only for those that `Begins` describes
  (parser.go:56).  `Handled` is the messageHandler's split
  between what goes to the filter and what is stored as invalid.  `ParseSpec` is a worker that
  handles one message after another, of which `received` and `outcome` are the last.  sort.Slice is not stable, so records
  of the same second come in any order.
* `RawRequest`.  A body is JSON or not, UTF-8 or not, hexadecimal or not; `Restored` is
  what a receiver of the mirror can have back.
* `StoreQueries`.  A row of `gps_records` is a device, a time of its clock and whether it is
  a stop, in order of arrival; one of `gps_invalid_records` is its created_at.  COUNT and SELECT
  of the list are two steps, and rows are stored in between; rows with the same created_at come in
  any order.  The SELECT of a path is given by what it returns: the rows it keeps (`FollowsStop` is
  LAG), in order, cut at the limit.  `StoreSpec` stores batches of both kinds in any order while a client
  reads the list.
* `Ordering`.  What a loop or a SELECT returns is defined by its elements and their order, not by
  the loop, so that it can be reasoned about.

Properties, mutations and model-checking constants are the definitions without an
entry in "map".  A "Mutation of X" is X with a plausible bug; the mutants of
`PROJECT.json` put it in X's place and TLC then finds the named property violated.

## 3. Runs

| Run | Result | Shows | Bounds, and why they are enough |
|---|---|---|---|
| `queue_safety` | holds | `TypeOK`, `NoSilentLoss`, `OnlyFailuresLeaveEntries`, `DeliveryBound` | two workers, the reclaimer, three messages, batches of two (two members, one short batch), two deliveries, one failed call of any kind, one stop or crash; symmetric workers |
| `queue_recover` | holds | `KeepsPromise` (refinement), `Settles`, `Drains` | one worker and the reclaimer, two messages, MAXLEN 1 so that it evicts, one failed call of any kind (also the XACK that loses its XDEL), one stop or crash, one loss of group or database |
| `ingest_bound` | holds | `DepthBounded`, `NoHttpEviction` | three requests at a time, one TCP enqueue, one failed or repeated pipeline, one restart, limit 2: an overrun of 5 and 2, and the three requests a restart lets in; MAXLEN 10 leaves room for the overrun and the restart, but not for TCP and failures on top, so that evictions happen too |
| `ingest_latch` | violated | `BackpressureLifts` | two requests, limit 2, one restart |
| `sender_concurrent` | holds | `RateLimitReported`, `HealthyHostReached`, `NoPauseShortened`, `Terminates` | two callers, a healthy server and one that may answer anything, two attempts, deadlines and refusals of the limiter at any moment |
| `handler_trips` | holds | `MovesDelivered`, `StopCovered`, `AllSettle` | three messages of one device (stop; move, stop; move, stop with a NaN), two handled at a time, one failed send, one crash, two deliveries |
| `handler_retry` | violated | `StateIsLastSent` after one failed send | the same device, one message at a time |
| `writer_close` | holds | `Conserved`, `CloseDrains`, `Tried` | four writes, a channel of one: one in the writer, one in the channel, two goroutines |
| `writer_defers` | violated | `CloseFinishesWrites` | the same, no refused write |
| `shutdown_end` | holds | `AckedKept`, `NoSendOnClosed`, `MirrorKept`, `MirrorDrained`, `ShutdownEnds`, `MirrorSettles` | one session that connects again and again, two good frames, a refused one and one that panics, one HTTP request, channels of one place (both overflow), one pipeline worker, one worker of the mirror with two attempts, one failed enqueue, one lost spill file |
| `http_front` | holds | `RateKept`, `Counted`, `Truthful`, `FailedLeaveFirst` | two requests at a time from one client, three ids that may repeat, a table of two, three tracked requests (one more than the table holds), handlers that may panic, a burst of two; symmetric requests and ids |
| `algorithms` | holds | `Understood`, `DamageRefused`, `ObjectsAccounted`, `WrappedKept`, `MirrorRestores`, `PathFaithful`, `ListComplete` | packets of up to two records with up to four IO values in all three codecs; ten damages of each byte and each shorter length; messages of up to three objects of ten kinds, in arrays that are closed or not, packets and envelopes; every kind of body with every content type; four rows of two devices in batches of up to two, paths cut at three, pages of two |

The counters `MaxMsgs`, `MaxDeliveries`, `MaxFaults`, `MaxExits`, `MaxResets`, `MaxTCP`, `MaxRestarts`,
`MaxClock`, `MaxFailures`, `MaxCrashes`, `MaxDiskFaults`, `MaxRedisFaults`, `MaxTracked`, `MaxObjects`, `MaxBatch` and `MaxRows` bound what the environment may do; nothing in
the code depends on them.  `MaxDeliveries` is 10, and no passing run reaches it.
An acknowledgement that loses its XDEL leaves entries in the stream for good (until MAXLEN
evicts them): `OnlyFailuresLeaveEntries` says that nothing else does, and `Drains` that the stream comes
down to them, and to nothing when no call failed.  The queue runs leave the deadlock check on: the reclaimer
keeps ticking, and a process that is down is restarted.

`TypeOK` is among the properties of the queue, `Ingest`, `AsyncWriter`, `Shutdown` and
`HttpFront` runs; `HTTPSender`, `MessageHandler` and `StoreQueries` (`StoreTypeOK`) state theirs as
the description of their state.

Deadlock is not checked where the system may really stop: `Ingest` (every request is
rejected, finding 1), `MessageHandler` (all messages are settled), `AsyncWriter` and
`Shutdown` (the process has ended), and `MCAlgorithms` (a question is answered).

What some of these say is weaker than one might expect, because the code is:

* `HealthyHostReached`: NextServer (http_sender.go:266) takes one step of a counter that all calls
  share, so with two callers a retry may come back to the server that has just failed, and a healthy server
  may be missed; the comment at http_sender.go:139 holds for a caller alone.  The property says that this is the
  only way to miss one: as many servers in a row as there were attempts were taken by the call itself or
  by one that crossed it, and none that it took was healthy unless its context ended or the limiter refused
  (http_sender.go:295).  The run has as many attempts as servers; with fewer, or none, the theorem says the same.
* `DepthBounded` allows, for each restart, as many requests above the limit as may be in progress: the
  first ones find a cached depth of zero over a stream that may be full (handler.go:110-119).
* `MovesDelivered` and `StopCovered` exclude messages with a kept record that cannot be encoded: the message is
  acknowledged, and its other records are lost with it (main.go:244-252).
* `Conserved` ends with a panic of a goroutine on the closed channel.
* `Counted` excludes the requests whose handler panicked: they stay in `received` for ever.
* `AckedKept` and `MirrorDrained` are about main's orderly end; when a session panics, what was in progress is gone.
* `RateKept` allows one request above the bucket for each request that looked up its
  bucket before the cleanup removed it.
* `AckedKept` excludes frames dropped because the channel was full (pipeline.go:56) and those
  whose one enqueue failed; the device has been told that they arrived.
* `MirrorDrained` excludes what a handler hands over that srv.Shutdown did not wait for.
* `Truthful` is about ids that one request used; with a repeated X-Request-ID the answer of
  one is recorded for the other.
* `ListComplete` excludes records that share their created_at with another (those of one message
  do: one INSERT), and readers whose last page moved while they read it.
* `ObjectsAccounted` is about `Traceable` objects: those whose `data` is a string, if the array decodes, and else
  those that begin with it.  `{ "data":"..."}` and `{"id":1,"data":"..."}` are not matched by the pattern of the recovery
  (parser.go:56), and vanish from an array that does not decode without a row.
* `DeliveryBound` is checked with a window of XPENDING that covers the pending list.

### Fairness

* `DeliveryQueue!Fairness`: goroutines keep running and Redis answers in the end (weak
  fairness on the steps of each worker and of the reclaimer); handlers return because
  their ctx expires after 30 s (weak fairness on each batch); time passes (`GrowStale`);
  a stopping process ends and one that is down is started again (`restart:
  unless-stopped` in docker-compose.yml).  Failures, crashes and enqueues are not fair:
  they may happen or not.
* `Ingest!FairSpec`: requests keep coming, each is served, the consumer keeps consuming.
  The violation of `BackpressureLifts` needs only that: nothing else can help.
* `HTTPSender!FairSpec`: a call that has begun keeps running; requests and delays end by
  their timeouts.  The clock is not fair: `Terminates` does not need a pause to end.
* `MessageHandler!FairSpec`: filtering and sending go on; delivery is strongly fair,
  because other messages may keep taking the free handlers.
* `Shutdown!FairSpec`: sessions, pipeline workers, workers of the mirror, handlers and main keep
  running as long as the process does: reads have a deadline of 120 s, writes of 10 s, posts and
  Redis calls their timeouts, the context of srv.Shutdown its 30 s.  Connections, requests
  and the signal need never come.  A device that sends for ever does not keep `ShutdownEnds`
  from holding, since a session looks at its context before each frame.
* `AsyncWriter!FairSpec`: the writer, the goroutines and a shutdown that has begun go on;
  the signal itself need never come.

## 4. Proofs

TLAPS checks every leaf of the theorems below.  Each holds for every value of the constants
that the named assumptions of the modules allow (`StreamAssumption`, `QueueAssumption`,
`IngestAssumption`, ...; TLC evaluates them in the runs): any number of workers, requests, sessions,
servers, clients, records, any sizes, limits and retries.  Every invariant and every action
property of the runs over a component's states is proved, and of `MCAlgorithms` those of the parser and the
queries.

The argument is the same everywhere: an inductive invariant, checked by TLC on small instances
first, that holds initially, is preserved by every action (one lemma or step for each), and
implies the property.  What had to be added to the property, and why:

**Delivery queue** (`DeliveryQueue_proofs`).

* `TypeCorrect`, and `NeverSilentlyLost`: `Spec => []NoSilentLoss`.  A message in ackIDs or deadIDs
  will be acknowledged later, so that it must already be settled: `AcksHandled` (ids to be
  acknowledged were handled), `DeadExhausted` (ids to be dropped used up their deliveries),
  `CountsBounded` (Redis' counter never exceeds the deliveries that happened, which makes the
  drop sound also after a group was recreated and the counters started over), `Issued` (ids in
  stream and pending list were issued).
* `OnlyFailuresLeave`: `OnlyFailuresLeaveEntries`.  Step by step (`LeftBehindStep`): what leaves the pending list leaves the
  stream too, unless the pipeline was half applied, and a group created at 0 owes again all that is there.
* `DeliveryBounded`: `DeliveryBound`.  While the group stays, what is pending was handed out (`PendingRead`), the counters are exact (`CountsExact`), and
  between XPENDING and XAUTOCLAIM a pending entry has deliveries left unless dropExcessiveRetries
  is about to drop it (`Screened`).  The theorem has two hypotheses.  XPENDING's window covers the pending list:
  the code inspects 200 entries and claims what lies behind them unseen.  And MaxRetries is not 1:
  a worker may read a message after the inspection, and if it turns stale before XAUTOCLAIM
  the message is delivered a second time; with MaxRetries = 1 TLC shows that run.  (The default
  of MAX_RETRY_ATTEMPTS is 3.)
* `PromiseKept`: `Spec => KeepsPromise`.  Every step of the queue is a step of `AtLeastOnce` or a
  stutter.  The mapping takes `accepted` to the ids issued and `owed` to the entries unread or pending.
  It needs, besides, that what a goroutine holds has been delivered (`HeldDelivered`) and that
  what Redis removed is not in the stream (`LostIsGone`).

**Ingest** (`Ingest_proofs`): `TypeCorrect`, `DepthCorrect` (`DepthBounded`), `EvictionCorrect` (`NoHttpEviction`).
The bound n(n+1)/2 - 1 on the overrun comes from stragglers, handlers that still hold a depth below
the limit and will open the door once more by storing it.  `Reserved` weighs them: what is above the
limit, plus what can enter now, plus n - k + 1, n - k + 2, ... for each of the k stragglers, never
grows but for what is added without a look at a depth (`Unseen`): by TCP, by failed and repeated pipelines, and by
the n requests of each restart, which clears the cached depth and the stragglers with it
(`RestartReserved`).  It is stated doubled, so that nothing has to be halved.

**Sender** (`HTTPSender_proofs`): `PausesKept` (the action property `NoPauseShortened`), `RateLimitCorrect`
(`RateLimitReported`) and `RotationCorrect` (`HealthyHostReached`), for any number of attempts.  `Rotating` says which servers the last j takes
from the shared counter were, counted backwards from it, so that no remainder is needed: the call has them, or one that
crossed it; `Honest` that none of those the call is done with is healthy, unless its context ended or the limiter refused.
`NeverPaused` and `Remembered` link the pause table and a 429 to the call.

**Message handler** (`MessageHandler_proofs`): `MovesCorrect` (`MovesDelivered`), `StopsCorrect` (`StopCovered`).
The filter's state is shared and moves before the send it stands for, so a stop that one message
drops depends on another that is still in progress: `StandingCovered` (a state "stop" stands for a stop that
was sent, is in a message in progress, or went with one that was discarded) and `StopsSeen`.  Both end with the first failed send or crash,
which is finding 2.  `MovesKept` and `Through` say how far FilterData is, `DiscardedOdd` that only a
message that cannot be encoded is discarded.

**PostgreSQL writer** (`Storage_proofs`): `TypeCorrect`, `ConservedCorrect` (`Conserved`), `DrainCorrect`
(`CloseDrains`).  `HandedKept` says that what was handed over is somewhere or has ended, and `NotDropped` that nothing is
dropped before the cancel; `Apart` says without counting that a write is in one place only and once in its
channel; `Returned` and `Waited` that the writer leaves an empty closed channel and main waits for it.

**Queries** (`Storage_proofs`): `ListCorrect` (`StoreSpec => []ListComplete`) and `PathCorrect`
(`StoreSpec => []PathFaithful`), for any page size, limit, devices, times and batches.

* `ListInv`.  Rows are stored in the order of created_at (`Monotone`), so a row with a created_at of its own stands
  in every listing at the place given by how many rows follow it in the table (`Alone`), whichever way the
  database settles the ties around it.  New rows move it back by as many places as they are, so a page
  once read never has to be read again: `HadPagesBefore` says that such a row, if it was there when
  the reader began, is on a page to come or has been seen.  `Remembers` relates the reader's COUNT and rows to
  the table, which only grows; a page is clamped to the last page of its COUNT, so its SELECT finds something.
* A path (`PathKeeps`).  The point before another in the order exists (`LastOf`, the last of a finite set),
  and so does the first row of a run of stops (`FirstOf`).  Two stops that follow each other in the path would have
  a row that moves between them, which would be a point itself.  A stop left out belongs to a run whose first row is
  kept, and which is shown or lies behind the limit, with everything after it.

**Parser** (`MessageHandler_proofs`): `AccountedCorrect` (`ParseSpec => []ObjectsAccounted`) and `WrappedCorrect`
(`ParseSpec => []WrappedKept`), for messages of any length.  `Numbered` says that a sequence holds the objects with the
numbers of a set, each once, and `Lists` that they are unchanged.  What keeps some places (`ThoseLists`), joins two lists
(`ListsJoined`) or sorts (`ByTimeNumbered`) keeps this for a set that is known, so that at the end the sets
of the two lists, forwarded and invalid, are disjoint and cover every object that may be looked for (`JSONTold`, `AVLTold`,
`EnvelopeTold`), also where the array does not decode and objects are picked out of it one by one.

**Start and shutdown** (`Shutdown_proofs`): `TypeCorrect`, `NoPanic` (`NoSendOnClosed`), `AckedCorrect` (`AckedKept`),
`MirrorCorrect` (`MirrorKept`), `DrainCorrect` (`MirrorDrained`).  `Phases` is the order of main's steps as facts
(what has been stopped stays stopped); `PipersDrained` and `PostersDrained` say what a worker that has
returned leaves behind; `AckedSomewhere` follows an acknowledged frame through session, channel and
worker, and `RefusedCounted` bounds those that Redis refused by its faults.  A panic of a session changes nothing but
`died`, which the invariant does not look at (`SameElse`).

**Middleware and tracker** (`HttpFront_proofs`): `RateCorrect` (`RateKept`), `CountedCorrect` (`Counted`),
`FrontTypesCorrect` (`TypeOK`), `TruthfulCorrect` (`Truthful`), `EvictionCorrect` (the action property `FailedLeaveFirst`).

* `RateKept` compares a client's real buckets with one that is never removed.  `NotBehind` bounds the
  difference by what requests took, or still may take, from removed buckets (`Ghosts`).  A removal starts the
  client with a full bucket, so nothing may be owed by then: `CaughtUp` says that the bucket that is never removed has been
  refilled for as long as the entry was idle, and `RateLimiterAssumption` that ten minutes' refill is a burst
  and one token for each request in progress.  `Young` says that whoever holds a removed bucket
  keeps the entry young, since no tick passes while a request is in the middleware; `Owned` that buckets are not
  shared.  That `Create` always finds an unused bucket is a pigeonhole (`FreeBucket`).
* The table's operations have lemmas of their own (`Evicted`, `Replaced`, `TrackedTable`, `MarkedTable`, `CleanedTable`): what each
  leaves in the table, and that ids stay unique.  Cleanup is a recursive function;
  that it exists (`KeptExists`) and what it keeps (`KeptProperties`) follow from the least number for which
  that fails (`LeastElement`).  `Known` adds to `Truthful` that every entry is of some request, so
  that an id's first request finds no old entry.

Lemmas used in several of them: `SequenceLemmas`, with channels and tables as sequences, and with orders: a
finite set has a first and a last element (`FirstOf`, `LastOf`) and can be put in order (`Sortable`), by the least
cardinality for which that fails, since the library's induction theorems cannot be instantiated; `Ordered`
and `Picked` say from this what the operators of `Ordering` return, which are defined with CHOOSE.  The rest
are the library's theorems on finite sets, sequences and functions.

Only model-checked:

* liveness: `Settles`, `Drains`, `Terminates`, `AllSettle`, `Tried`, `ShutdownEnds`, `MirrorSettles`.  Liveness under
  fairness is out of the prover's reach;
* `Understood`: the decoders are recursive over the bytes of a packet, and what they compute for every
  packet needs an induction over it;
* `DamageRefused`: that CRC-16/IBM finds these damages is a fact about polynomials, and not true of every damage;
* `MirrorRestores`: it has no constants, and TLC goes through all kinds of bodies and content types.

## 5. Where code and documents disagree

A run shows each of these:

1. `ingest_latch`: cachedDepth is refreshed only by an accepted request, and none is accepted
   once it has reached the limit: 503 "try again later" for ever (`internal/api/handler.go:168-181`).
2. `handler_retry`: FilterData records a stoppage as sent before it is; if the send fails the
   redelivered message is filtered out, against `internal/filter/stoppage_filter.go:27-28`.
3. `writer_defers`: the database is closed before the writer, against
   `internal/storage/async_writer.go:155`.

Limits met while modelling, which the properties above are worded around and no run refutes:

* MAX_RETRY_ATTEMPTS=0 is recommended for unlimited redelivery (`env.example:45`); the loop of
  Send (`internal/sender/http_sender.go:153`) takes the same value and is then empty.
* dropExcessiveRetries sees 200 pending entries (`internal/queue/consumer.go:346`); entries behind
  that window are claimed again without a look at their count.
* "Every request is tracked" (the repository's `README.md:577`) means one that has an X-Request-ID header
  of its own, is sampled (1 % by default) and passes the middleware.
* A body that the mirror sends as it is names its device in headers, and a spill file
  keeps the body only (`internal/hooshnics/forwarder.go:332`).
* The raw data of a record is left out of the envelope (`internal/parser/parser.go:37`).
* One record with a NaN or an infinity, which parseFloat lets through (`internal/parser/parser.go:337-339`), makes the
  whole message undeliverable, and it is acknowledged (`cmd/server/main.go:244-252`); its good movements are lost, and the filter
  has moved on.
* An object whose data is not its first member, or stands behind a space, disappears from an array that does not
  decode, neither filtered nor stored as invalid (`internal/parser/parser.go:56`).
* A restart over a full stream lets requests pass that backpressure would refuse
  (`internal/api/handler.go:110-119`), and they may evict accepted messages if the slack to MAXLEN does not allow for it.
* A call of Send can miss a healthy server when concurrent calls take it from the shared counter, and loses an attempt without
  a request when the limiter sees its deadline coming (`internal/sender/http_sender.go:266`, `:295`).
* ParsePacket panics on records that end too early under a valid checksum (`internal/teltonika/codec/record.go:197`).  In a handler
  the recovery answers 500 and the tracker's `received` stays above queued and failed for ever
  (`internal/api/handler.go:153`); in a session nothing recovers, and the process ends
  (`internal/teltonika/tcp/session.go:136`); in a worker the message is retried until it is dropped.

## 6. What is not modelled

* The contents of payloads, but for `Codec`: a message is its id, or the kinds of its records.
  How the text of one ASCII record becomes numbers and dates is an outcome.
* Durations: a timeout is a step that may happen at any time it is possible.  That XAUTOCLAIM's
  60 s can be shorter than a batch in progress is in the model (`GrowStale`).
* Redis beyond one stream and one group; several server processes on one group.
* A client or device that repeats a request answered 503, as a request of its own: the queue promises at least once.  In
  `Ingest` it is another request; that the Redis client itself repeats an XADD is in the model.
* In `Parsing`, a packet on which ParsePacket panics: the worker recovers, and the message is delivered again and dropped in
  the end without an invalid row; `DeliveryQueue` has it as a failed handler, `HttpFront` and `Shutdown` have the
  panics of handlers and sessions.
* The restart after a session's panic: `Shutdown` is one run of the process, `DeliveryQueue` and `Ingest` restart.
* The broadcaster: its channel is bounded and events are dropped when it is full, which only
  the live map shows.
* The monitoring and health endpoints, the lists of points and of failed records that are
  cut at 5000 rows (one SELECT each), the sanitizer, configuration.
* Metrics, logging, wording of responses, SQL, the raw log (not wired in), the frontend, the load test.
* A panic of AsyncWriter's overflow goroutine on the closed channel (async_writer.go:105) is an
  outcome of the model, `panicked`; no property of its runs looks past it.

## 7. Plan

Done, in order: `RedisStream`, `DeliveryQueue` with its abstraction and proofs, `Ingest`,
`HTTPSender`, `MessageHandler`, `AsyncWriter`; `Forwarder`, `TeltonikaServer`, `Shutdown`;
`RateLimiter`, `RequestTracker`, `HttpFront`; `Codec`, `Parsing`, `RawRequest`, `StoreQueries`; the
proofs of every safety property of the components' runs, of the parser and of the queries.
Left to do:

1. Proofs: lemmas about the decoders' fixed-size reads (`Codec`), where they need no induction over bytes.
2. Compositions: `MessageHandler` over `DeliveryQueue` instead of its own count of tries, and
   `Ingest` as an abstraction of the queue's stream length.
