------------------------------- MODULE Shutdown --------------------------------
(***************************************************************************)
(* cmd/server/main.go: the receiving side of the process from the moment   *)
(* it serves to its end.  Composes the Teltonika server, the mirror and    *)
(* the HTTP handlers that enqueue and mirror (internal/api/handler.go);    *)
(* after a signal main stops them, first in its body and then by its       *)
(* deferred calls, last one first.  AsyncWriter has the deferred calls of  *)
(* the storage, DeliveryQueue the consumer's Stop.                         *)
(***************************************************************************)
EXTENDS Forwarder, TeltonikaServer

CONSTANT Requests   \* the HTTP requests, each also the body it carries

ASSUME ShutdownAssumption == (Frames \ (Invalid \cup Short)) \cup Requests \subseteq Payloads

VARIABLES
  request,     \* where the handler of each request is
  queued,      \* history: payloads added to the stream
  redisOpen,   \* is the Redis client open?
  redisFaults, \* enqueues that failed on an open client
  stage,       \* where main is
  expired,     \* are the 30 s of the context of srv.Shutdown over; later: did it
               \* leave handlers running?
  died         \* has a panic ended the process?

main == <<stage, expired, died>>
redis == <<queued, redisOpen, redisFaults>>
vars == <<forwarder, server, request, redis, main>>

Stages ==
  {"serve", "consumerStop", "httpShutdown", "cancel", "closeListener", "waitSessions",
   "closeJobs", "waitPipers", "closeForwarder", "waitPosters", "closeRedis", "sync",
   "exit"}

TypeOK ==
  /\ ForwarderTypeOK /\ ServerTypeOK
  /\ request \in [Requests -> {"new", "enqueue", "mirror", "ended"}]
  /\ queued \subseteq Payloads
  /\ redisOpen \in BOOLEAN /\ redisFaults \in 0..MaxRedisFaults
  /\ stage \in Stages /\ expired \in BOOLEAN /\ died \in BOOLEAN

Init ==
  /\ ForwarderInit /\ ServerInit
  /\ request = [r \in Requests |-> "new"]
  /\ queued = {} /\ redisOpen = TRUE /\ redisFaults = 0
  /\ stage = "serve" /\ expired = FALSE /\ died = FALSE

-----------------------------------------------------------------------------
(* Redis, as Enqueue and EnqueueWithDepth see it *)

XAdd(p) ==
  /\ redisOpen
  /\ queued' = queued \cup {p}
  /\ UNCHANGED <<redisOpen, redisFaults>>

\* The call fails or its time is over, and the entry may have been added all the
\* same; on a closed client it always fails.
XAddFails(p) ==
  \/ ~redisOpen /\ UNCHANGED redis
  \/ /\ redisOpen /\ redisFaults < MaxRedisFaults
     /\ redisFaults' = redisFaults + 1
     /\ queued' \in {queued, queued \cup {p}}
     /\ UNCHANGED redisOpen

-----------------------------------------------------------------------------
(* The Teltonika path *)

SessionStep(s) ==
  /\ \/ Handshake(s) \/ Check(s) \/ Ack(s) \/ Disconnect(s) \/ Submit(s)
     \/ \E f \in Frames : ReadFrame(s, f)
  /\ UNCHANGED <<forwarder, request, redis, main>>

\* A panic of a session that nothing recovers ends the process where it is.
SessionPanics(s) ==
  /\ Panics(s)
  /\ died' = TRUE
  /\ UNCHANGED <<forwarder, request, redis, stage, expired>>

Connect(s) == Accept(s) /\ UNCHANGED <<forwarder, request, redis, main>>

\* processPostAck: mirror, then enqueue.
PiperStep(w) ==
  /\ \/ Receive(w) /\ UNCHANGED <<forwarder, redis>>
     \/ PiperReturns(w) /\ UNCHANGED <<forwarder, redis>>
     \/ MirrorDone(w) /\ Forward(piper[w].frame) /\ UNCHANGED redis
     \/ EnqueueDone(w) /\ XAdd(piper[w].frame) /\ UNCHANGED forwarder
     \/ EnqueueRefused(w) /\ XAddFails(piper[w].frame) /\ UNCHANGED forwarder
  /\ UNCHANGED <<request, main>>

-----------------------------------------------------------------------------
(* HTTP handlers *)

SetRequest(r, where) == request' = [request EXCEPT ![r] = where]

\* The server accepts connections until srv.Shutdown closes its listener.
Serve(r) ==
  /\ request[r] = "new" /\ stage \in {"serve", "consumerStop"}
  /\ SetRequest(r, "enqueue")
  /\ UNCHANGED <<forwarder, server, redis, main>>

\* ReceiveGPSData: enqueue, or 503 ...
HandlerEnqueues(r) ==
  /\ request[r] = "enqueue"
  /\ \/ XAdd(r) /\ SetRequest(r, "mirror")
     \/ XAddFails(r) /\ SetRequest(r, "ended")
  /\ UNCHANGED <<forwarder, server, main>>

\* ... and mirror what was queued; 200.
HandlerMirrors(r) ==
  /\ request[r] = "mirror"
  /\ Forward(r) /\ SetRequest(r, "ended")
  /\ UNCHANGED <<server, redis, main>>

Serving == \E r \in Requests : request[r] \in {"enqueue", "mirror"}

-----------------------------------------------------------------------------
(* main *)

MainGoes(from, to) == stage = from /\ stage' = to

\* <-quit; the context of 30 s begins, then consumer.Stop.
Signal ==
  /\ MainGoes("serve", "consumerStop")
  /\ UNCHANGED <<forwarder, server, request, redis, expired, died>>

\* consumer.Stop waits for the workers as long as it takes.
ConsumerStopped ==
  /\ MainGoes("consumerStop", "httpShutdown")
  /\ UNCHANGED <<forwarder, server, request, redis, expired, died>>

Expire ==
  /\ stage \in {"consumerStop", "httpShutdown"} /\ ~expired
  /\ expired' = TRUE
  /\ UNCHANGED <<forwarder, server, request, redis, stage, died>>

\* srv.Shutdown returns when no handler runs or the context is over; the handlers
\* it has not waited for keep running ("Server forced to shutdown").
HttpShutdown ==
  /\ MainGoes("httpShutdown", "cancel")
  /\ ~Serving \/ expired
  /\ expired' = Serving
  /\ UNCHANGED <<forwarder, server, request, redis, died>>

\* teltonikaServer.Stop, the defer registered last.
Cancel ==
  /\ MainGoes("cancel", "closeListener") /\ CancelSessions
  /\ UNCHANGED <<forwarder, request, redis, expired, died>>

Unlisten ==
  /\ MainGoes("closeListener", "waitSessions") /\ CloseListener
  /\ UNCHANGED <<forwarder, request, redis, expired, died>>

\* Mutation of SessionsWaited: the pipeline is closed under the sessions.
SessionsNotWaited ==
  /\ MainGoes("waitSessions", "closeJobs")
  /\ UNCHANGED <<forwarder, server, request, redis, expired, died>>

SessionsWaited ==
  /\ MainGoes("waitSessions", "closeJobs") /\ SessionsGone
  /\ UNCHANGED <<forwarder, server, request, redis, expired, died>>

StopPipeline ==
  /\ MainGoes("closeJobs", "waitPipers") /\ CloseJobs
  /\ UNCHANGED <<forwarder, request, redis, expired, died>>

PipersWaited ==
  /\ MainGoes("waitPipers", "closeForwarder") /\ PipersGone
  /\ UNCHANGED <<forwarder, server, request, redis, expired, died>>

\* hooshnicsForwarder.Close
StopForwarder ==
  /\ MainGoes("closeForwarder", "waitPosters") /\ CloseForwarder
  /\ UNCHANGED <<server, request, redis, expired, died>>

PostersWaited ==
  /\ MainGoes("waitPosters", "closeRedis") /\ PostersGone
  /\ UNCHANGED <<forwarder, server, request, redis, expired, died>>

\* redisQueue.Close, the defer registered first of these.
CloseRedis ==
  /\ MainGoes("closeRedis", "sync")
  /\ redisOpen' = FALSE
  /\ UNCHANGED <<forwarder, server, request, queued, redisFaults, expired, died>>

\* logger.Sync; main returns, and with it the process ends.
Exit ==
  /\ MainGoes("sync", "exit")
  /\ UNCHANGED <<forwarder, server, request, redis, expired, died>>

Stop ==
  \/ ConsumerStopped \/ HttpShutdown \/ Cancel \/ Unlisten \/ SessionsWaited
  \/ StopPipeline \/ PipersWaited \/ StopForwarder \/ PostersWaited \/ CloseRedis
  \/ Exit

Alive == stage # "exit" /\ ~died

PosterStep(w) == WorkerStep(w) /\ UNCHANGED <<server, request, redis, main>>

HandlerStep(r) == HandlerEnqueues(r) \/ HandlerMirrors(r)

Next ==
  /\ Alive
  /\ \/ \E s \in Sessions : Connect(s) \/ SessionStep(s) \/ SessionPanics(s)
     \/ \E w \in Pipers : PiperStep(w)
     \/ \E w \in Posters : PosterStep(w)
     \/ \E r \in Requests : Serve(r) \/ HandlerStep(r)
     \/ Signal \/ Expire \/ Stop

Spec == Init /\ [][Next]_vars

\* Goroutines keep running: reads, writes, posts and Redis calls have deadlines, and
\* so has the context of srv.Shutdown.  No signal need ever come.
FairSpec ==
  /\ Spec
  /\ \A s \in Sessions : WF_vars(Alive /\ (SessionStep(s) \/ SessionPanics(s)))
  /\ \A w \in Pipers : WF_vars(Alive /\ PiperStep(w))
  /\ \A w \in Posters : WF_vars(Alive /\ PosterStep(w))
  /\ \A r \in Requests : WF_vars(Alive /\ HandlerStep(r))
  /\ WF_vars(Alive /\ (Expire \/ Stop))

-----------------------------------------------------------------------------
(* Properties *)

\* Stop "waits for sessions, then drains the post-ACK pipeline" (server.go:120)
\* before main closes the Redis client: when main returns, a frame that was
\* acknowledged is in the queue, or was dropped because the channel was full, or
\* Redis itself refused it; no enqueue of the pipeline finds the client closed.
AckedKept ==
  /\ Cardinality(refused) <= redisFaults
  /\ stage = "exit" => acked \subseteq queued \cup full \cup refused

\* No session sends on the closed channel of jobs, which would panic: the pipeline
\* is closed when every session has returned (submitPostAck, Stop).
NoSendOnClosed == jobsClosed => \A s \in Sessions : session[s] = None

\* What was handed to the mirror is in its hands, delivered or in a file, unless the
\* file went wrong, whatever the callers, the workers and Close do at the same time
\* (enqueue, deliver, spill).
MirrorKept == handed \subseteq InForwarder \cup mirrored \cup spilled \cup wrecked

\* "Close stops workers after draining in-flight jobs" (forwarder.go:131): nothing
\* stays in the mirror's hands when main returns, except what a handler that
\* srv.Shutdown did not wait for handed over too late (enqueue ignores done).
MirrorDrained ==
  stage = "exit" => InForwarder = {} \/ (expired /\ InForwarder \subseteq Requests)

\* After a signal main comes to its end, whatever devices, the mirror's target and
\* slow handlers do (Stop, Close, srv.Shutdown), unless a session panics before.
ShutdownEnds == stage = "consumerStop" ~> stage = "exit" \/ died

\* Retries end: the mirror gets rid of what it was handed, by delivering it or by
\* putting it into a file, as long as the process runs (deliver).
MirrorSettles == InForwarder # {} ~> InForwarder = {} \/ ~Alive
=============================================================================
