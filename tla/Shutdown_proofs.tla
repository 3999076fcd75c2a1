---------------------------- MODULE Shutdown_proofs -----------------------------
(***************************************************************************)
(* Proofs about Shutdown for every number of sessions, frames, workers,    *)
(* requests and attempts and every size of the channels: what the order in *)
(* which main stops the parts is good for.                                 *)
(***************************************************************************)
EXTENDS Shutdown, SequenceLemmas

-----------------------------------------------------------------------------
(* The inductive invariant *)

\* Where main is when it has taken a step, the last first.
AfterRedis == {"sync", "exit"}
AfterPosters == {"closeRedis"} \cup AfterRedis
AfterDone == {"waitPosters"} \cup AfterPosters
AfterPipers == {"closeForwarder"} \cup AfterDone
AfterClose == {"waitPipers"} \cup AfterPipers
AfterSessions == {"closeJobs"} \cup AfterClose
AfterListener == {"waitSessions"} \cup AfterSessions
AfterHttp == {"cancel", "closeListener"} \cup AfterListener

\* What main has stopped stays stopped.
Phases ==
  /\ stage \in AfterListener => ~listening
  /\ stage \in AfterSessions => SessionsGone
  /\ jobsClosed <=> stage \in AfterClose
  /\ stage \in AfterPipers => PipersGone
  /\ done <=> stage \in AfterDone
  /\ stage \in AfterPosters => PostersGone
  /\ ~redisOpen <=> stage \in AfterRedis
  /\ stage \in AfterHttp /\ Serving => expired

Valid == Frames \ (Invalid \cup Short)

\* Only frames that were validated get behind the acknowledgement.
FramesValid ==
  /\ \A s \in Sessions : session[s].at = "submit" => session[s].frame \in Valid
  /\ jobs \in Seq(Valid)
  /\ \A w \in Pipers : piper[w].at \in {"mirror", "enqueue"} => piper[w].frame \in Valid

\* A worker waits only for an attempt that is left.
BackoffsLeft ==
  \A w \in Posters : poster[w].at = "backoff" => poster[w].attempt < FwdAttempts

\* A pipeline worker returns from a channel to which nobody sends any more.
PipersDrained == \A w \in Pipers : piper[w] = Returned => jobsClosed /\ jobs = <<>>

\* A mirror worker returns when only late handlers can still hand something over.
PostersDrained ==
  \A w \in Posters : poster[w] = Gone =>
    /\ done
    /\ ToSet(ch) \subseteq Requests
    /\ ch # <<>> => expired

\* The acknowledged frames the server still holds.
Submitting == {session[s].frame : s \in {r \in Sessions : session[r].at = "submit"}}
Piping == {piper[w].frame : w \in {v \in Pipers : piper[v].at \in {"mirror", "enqueue"}}}

AckedSomewhere ==
  acked \subseteq queued \cup full \cup refused \cup ToSet(jobs) \cup Submitting \cup Piping

RefusedCounted == IsFiniteSet(refused) /\ Cardinality(refused) <= redisFaults

IInv ==
  /\ TypeOK /\ Phases /\ FramesValid /\ BackoffsLeft
  /\ PipersDrained /\ PostersDrained
  /\ AckedSomewhere /\ RefusedCounted /\ MirrorKept
-----------------------------------------------------------------------------
(* The mirror *)

ForwarderInv == ForwarderTypeOK /\ BackoffsLeft /\ MirrorKept

\* The payloads that workers post.
Posting == {poster[w].job : w \in {v \in Posters : poster[v].at \in {"post", "backoff"}}}

\* Whatever goes wrong with files, a spilled payload is in one or counted as wrecked.
LEMMA SpillFacts ==
  ASSUME ForwarderTypeOK, NEW p \in Payloads, Spill(p)
  PROVE  /\ spilled' \subseteq Payloads /\ wrecked' \subseteq Payloads
         /\ spilled \cup wrecked \cup {p} \subseteq spilled' \cup wrecked'
BY DEF ForwarderTypeOK, Spill

\* The payloads of the other workers stay where they are.
LEMMA PosterMoves ==
  ASSUME ForwarderTypeOK, NEW w \in Posters, NEW to, SetPoster(w, to)
  PROVE  /\ Posting \subseteq Posting' \cup {poster[w].job}
         /\ poster[w].at \notin {"post", "backoff"} => Posting \subseteq Posting'
         /\ to.at \in {"post", "backoff"} => to.job \in Posting'
<1>1. /\ poster' = [poster EXCEPT ![w] = to] /\ DOMAIN poster = Posters
      /\ poster'[w] = to /\ \A v \in Posters \ {w} : poster'[v] = poster[v]
  BY DEF SetPoster, ForwarderTypeOK
<1>2. ASSUME NEW v \in Posters, v # w, poster[v].at \in {"post", "backoff"}
      PROVE  poster[v].job \in Posting'
  BY <1>1, <1>2 DEF Posting
<1>3. to.at \in {"post", "backoff"} => to.job \in Posting'
  BY <1>1 DEF Posting
<1>4. \A p \in Posting : \E v \in Posters : poster[v].at \in {"post", "backoff"} /\ p = poster[v].job
  BY DEF Posting
<1> QED
  BY <1>2, <1>3, <1>4

LEMMA ForwardStep ==
  ASSUME ForwarderInv, NEW p \in Payloads, Forward(p)
  PROVE  ForwarderInv' /\ poster' = poster /\ done' = done
<1>1. ForwarderTypeOK /\ poster' = poster /\ done' = done /\ mirrored' = mirrored
      /\ handed' = handed \cup {p}
  BY DEF ForwarderInv, Forward
<1>2. Posting' = Posting /\ BackoffsLeft'
  BY <1>1 DEF Posting, BackoffsLeft, ForwarderInv
<1>3. handed \subseteq ToSet(ch) \cup Posting \cup mirrored \cup spilled \cup wrecked
  BY DEF ForwarderInv, MirrorKept, InForwarder, Posting
<1>4. CASE Len(ch) < FwdBuffer /\ ch' = Append(ch, p) /\ UNCHANGED <<spilled, wrecked>>
  <2>1. ch' \in Seq(Payloads) /\ Len(ch') <= FwdBuffer /\ ToSet(ch') = ToSet(ch) \cup {p}
    BY <1>1, <1>4, Sent, LenProperties, ForwarderAssumption DEF ForwarderTypeOK
  <2>2. ForwarderTypeOK'
    BY <1>1, <1>4, <2>1 DEF ForwarderTypeOK
  <2>3. handed' \subseteq ToSet(ch') \cup Posting' \cup mirrored' \cup spilled' \cup wrecked'
    BY <1>1, <1>2, <1>3, <1>4, <2>1
  <2>4. MirrorKept'
    BY <2>3 DEF MirrorKept, InForwarder, Posting
  <2> QED
    BY <1>1, <1>2, <2>2, <2>4 DEF ForwarderInv
<1>5. CASE Spill(p) /\ UNCHANGED ch
  <2>1. ForwarderTypeOK'
    BY <1>1, <1>5, SpillFacts DEF ForwarderTypeOK
  <2>2. handed' \subseteq ToSet(ch') \cup Posting' \cup mirrored' \cup spilled' \cup wrecked'
    BY <1>1, <1>2, <1>3, <1>5, SpillFacts
  <2>3. MirrorKept'
    BY <2>2 DEF MirrorKept, InForwarder, Posting
  <2> QED
    BY <1>1, <1>2, <2>1, <2>3 DEF ForwarderInv
<1> QED
  BY <1>4, <1>5 DEF Forward

\* A worker that has ended with its payload, which is now in one of three places.
LEMMA PosterFreed ==
  ASSUME ForwarderInv, NEW w \in Posters, SetPoster(w, Free), UNCHANGED <<ch, done, handed>>,
         poster[w].at \in {"post", "backoff"},
         mirrored' \subseteq Payloads, spilled' \subseteq Payloads, wrecked' \subseteq Payloads,
         mirrored \cup spilled \cup wrecked \cup {poster[w].job}
           \subseteq mirrored' \cup spilled' \cup wrecked'
  PROVE  ForwarderInv'
<1>1. ForwarderTypeOK
  BY DEF ForwarderInv
<1>2. poster' = [poster EXCEPT ![w] = Free]
  BY DEF SetPoster
<1>3. ForwarderTypeOK'
  BY <1>1, <1>2 DEF ForwarderTypeOK
<1>4. BackoffsLeft'
  BY <1>1, <1>2 DEF ForwarderTypeOK, BackoffsLeft, ForwarderInv, Free
<1>5. handed \subseteq ToSet(ch) \cup Posting \cup mirrored \cup spilled \cup wrecked
  BY DEF ForwarderInv, MirrorKept, InForwarder, Posting
<1>6. Posting \subseteq Posting' \cup {poster[w].job}
  BY <1>1, PosterMoves
<1>7. handed' \subseteq ToSet(ch') \cup Posting' \cup mirrored' \cup spilled' \cup wrecked'
  BY <1>5, <1>6
<1> QED
  BY <1>3, <1>4, <1>7 DEF ForwarderInv, MirrorKept, InForwarder, Posting

LEMMA SpillOwnStep ==
  ASSUME ForwarderInv, NEW w \in Posters, SpillOwn(w), poster[w].at \in {"post", "backoff"}
  PROVE  ForwarderInv' /\ poster' = [poster EXCEPT ![w] = Free] /\ UNCHANGED <<ch, done>>
<1>1. ForwarderTypeOK /\ poster[w] \in {Free, Gone} \cup Delivery
  BY DEF ForwarderInv, ForwarderTypeOK
<1>2. poster[w].job \in Payloads
  BY <1>1 DEF Free, Gone, Delivery
<1>3. Spill(poster[w].job) /\ SetPoster(w, Free) /\ UNCHANGED <<ch, done, handed, mirrored>>
  BY DEF SpillOwn
<1>4. ForwarderInv'
  BY <1>1, <1>2, <1>3, SpillFacts, PosterFreed DEF ForwarderTypeOK
<1> QED
  BY <1>3, <1>4 DEF SetPoster

\* A worker that goes on with its payload.
LEMMA PosterKeeps ==
  ASSUME ForwarderInv, NEW w \in Posters, NEW to \in Delivery, SetPoster(w, to),
         poster[w].at \in {"post", "backoff"}, to.job = poster[w].job,
         to.at = "backoff" => to.attempt < FwdAttempts,
         UNCHANGED <<ch, done, handed, mirrored, spilled, wrecked>>
  PROVE  ForwarderInv'
<1>1. ForwarderTypeOK
  BY DEF ForwarderInv
<1>2. poster' = [poster EXCEPT ![w] = to]
  BY DEF SetPoster
<1>3. ForwarderTypeOK'
  BY <1>1, <1>2 DEF ForwarderTypeOK
<1>4. BackoffsLeft'
  BY <1>1, <1>2 DEF ForwarderTypeOK, BackoffsLeft, ForwarderInv
<1>5. handed \subseteq ToSet(ch) \cup Posting \cup mirrored \cup spilled \cup wrecked
  BY DEF ForwarderInv, MirrorKept, InForwarder, Posting
<1>6. to.at \in {"post", "backoff"}
  BY DEF Delivery
<1>7. Posting \subseteq Posting'
  BY <1>1, <1>6, PosterMoves
<1>8. handed' \subseteq ToSet(ch') \cup Posting' \cup mirrored' \cup spilled' \cup wrecked'
  BY <1>5, <1>7
<1> QED
  BY <1>3, <1>4, <1>8 DEF ForwarderInv, MirrorKept, InForwarder, Posting

LEMMA TakeStep ==
  ASSUME ForwarderInv, NEW w \in Posters, Take(w) PROVE ForwarderInv'
<1> DEFINE to == [at |-> "post", job |-> Head(ch), attempt |-> 1]
<1>1. ForwarderTypeOK /\ ch \in Seq(Payloads) /\ ch # <<>>
  BY DEF ForwarderInv, ForwarderTypeOK, Take
<1>2. /\ Head(ch) \in Payloads /\ ch' \in Seq(Payloads) /\ Len(ch') = Len(ch) - 1
      /\ Len(ch) \in Nat /\ ToSet(ch) = {Head(ch)} \cup ToSet(ch')
  BY <1>1, Received DEF Take
<1>3. poster[w] = Free /\ SetPoster(w, to) /\ UNCHANGED <<done, handed, mirrored, spilled, wrecked>>
  BY DEF Take
<1>4. to \in Delivery
  BY <1>2, ForwarderAssumption DEF Delivery
<1>5. ForwarderTypeOK'
  BY <1>1, <1>2, <1>3, <1>4, ForwarderAssumption DEF ForwarderTypeOK, SetPoster
<1>6. BackoffsLeft'
  BY <1>1, <1>3 DEF BackoffsLeft, ForwarderInv, ForwarderTypeOK, SetPoster
<1>7. Posting \subseteq Posting' /\ Head(ch) \in Posting'
  <2>1. poster[w].at \notin {"post", "backoff"} /\ to.at \in {"post", "backoff"}
        /\ to.job = Head(ch)
    BY <1>3 DEF Free
  <2> HIDE DEF to
  <2> QED
    BY <2>1, <1>1, <1>3, PosterMoves
<1>8. handed \subseteq ToSet(ch) \cup Posting \cup mirrored \cup spilled \cup wrecked
  BY DEF ForwarderInv, MirrorKept, InForwarder, Posting
<1>9. handed' \subseteq ToSet(ch') \cup Posting' \cup mirrored' \cup spilled' \cup wrecked'
  BY <1>2, <1>3, <1>7, <1>8
<1> QED
  BY <1>5, <1>6, <1>9 DEF ForwarderInv, MirrorKept, InForwarder, Posting

LEMMA LeaveStep ==
  ASSUME ForwarderInv, NEW w \in Posters, Leave(w) PROVE ForwarderInv'
<1>1. ForwarderTypeOK /\ poster[w] = Free /\ SetPoster(w, Gone)
      /\ UNCHANGED <<ch, done, handed, mirrored, spilled, wrecked>>
  BY DEF ForwarderInv, Leave
<1>2. ForwarderTypeOK'
  BY <1>1 DEF ForwarderTypeOK, SetPoster
<1>3. BackoffsLeft'
  BY <1>1 DEF BackoffsLeft, ForwarderInv, ForwarderTypeOK, SetPoster, Gone
<1>4. Posting \subseteq Posting'
  <2>1. poster[w].at \notin {"post", "backoff"}
    BY <1>1 DEF Free
  <2> QED
    BY <2>1, <1>1, PosterMoves
<1>5. handed \subseteq ToSet(ch) \cup Posting \cup mirrored \cup spilled \cup wrecked
  BY DEF ForwarderInv, MirrorKept, InForwarder, Posting
<1>6. handed' \subseteq ToSet(ch') \cup Posting' \cup mirrored' \cup spilled' \cup wrecked'
  BY <1>1, <1>4, <1>5
<1> QED
  BY <1>2, <1>3, <1>6 DEF ForwarderInv, MirrorKept, InForwarder, Posting

LEMMA PosterType ==
  ASSUME ForwarderInv, NEW w \in Posters, poster[w].at \in {"post", "backoff"}
  PROVE  /\ poster[w] \in Delivery /\ poster[w].job \in Payloads
         /\ poster[w].attempt \in 1..FwdAttempts
         /\ poster[w].at = "backoff" => poster[w].attempt < FwdAttempts
         /\ \A a \in {"post", "backoff"}, n \in 1..FwdAttempts :
              [at |-> a, job |-> poster[w].job, attempt |-> n] \in Delivery
<1>1. poster[w] \in {Free, Gone} \cup Delivery
  BY DEF ForwarderInv, ForwarderTypeOK
<1>2. poster[w] \in Delivery
  BY <1>1 DEF Free, Gone
<1> QED
  BY <1>2 DEF Delivery, ForwarderInv, BackoffsLeft

\* The record that Retry makes.
LEMMA NextAttempt ==
  ASSUME NEW d \in Delivery, NEW n \in 1..FwdAttempts
  PROVE  LET to == [d EXCEPT !.at = "post", !.attempt = n] IN
         to \in Delivery /\ to.job = d.job /\ to.at = "post"
<1> DEFINE to == [d EXCEPT !.at = "post", !.attempt = n]
<1> DEFINE moved == [d EXCEPT !.at = "post"]
<1>1. to = [moved EXCEPT !.attempt = n]
  BY DEF Delivery
<1>2. moved \in Delivery /\ moved.job = d.job /\ moved.at = "post"
  BY DEF Delivery
<1> HIDE DEF moved
<1>3. [moved EXCEPT !.attempt = n] \in Delivery
  BY <1>2 DEF Delivery
<1>4. [moved EXCEPT !.attempt = n].job = moved.job /\ [moved EXCEPT !.attempt = n].at = moved.at
  BY <1>2 DEF Delivery
<1> QED
  BY <1>1, <1>2, <1>3, <1>4

LEMMA WorkerStepKeeps ==
  ASSUME ForwarderInv, NEW w \in Posters, WorkerStep(w) PROVE ForwarderInv'
<1>1. CASE Take(w)
  BY <1>1, TakeStep
<1>2. CASE Delivered(w)
  <2>1. /\ poster[w].at \in {"post", "backoff"} /\ SetPoster(w, Free)
        /\ mirrored' = mirrored \cup {poster[w].job}
        /\ UNCHANGED <<ch, done, handed, spilled, wrecked>>
    BY <1>2 DEF Delivered
  <2> QED
    BY <2>1, PosterType, PosterFreed DEF ForwarderInv, ForwarderTypeOK
<1>3. CASE Rejected(w)
  BY <1>3, SpillOwnStep DEF Rejected
<1>4. CASE Failed(w)
  <2>1. poster[w].at = "post" /\ poster[w].at \in {"post", "backoff"}
    BY <1>4 DEF Failed
  <2>2. CASE SpillOwn(w)
    BY <2>1, <2>2, SpillOwnStep
  <2>3. CASE /\ poster[w].attempt < FwdAttempts
             /\ SetPoster(w, [poster[w] EXCEPT !.at = "backoff"])
             /\ UNCHANGED <<ch, done, handed, mirrored, spilled, wrecked>>
    <3> DEFINE to == [poster[w] EXCEPT !.at = "backoff"]
    <3>1. to \in Delivery /\ to.job = poster[w].job /\ to.attempt = poster[w].attempt
      BY <2>1, PosterType DEF Delivery
    <3> HIDE DEF to
    <3> QED
      BY <2>1, <2>3, <3>1, PosterKeeps DEF to
  <2> QED
    BY <1>4, <2>2, <2>3 DEF Failed
<1>5. CASE Retry(w)
  <2>1. poster[w].at \in {"post", "backoff"} /\ poster[w].at = "backoff"
    BY <1>5 DEF Retry
  <2> DEFINE to == [poster[w] EXCEPT !.at = "post", !.attempt = @ + 1]
  <2>2. poster[w].attempt + 1 \in 1..FwdAttempts
    BY <2>1, PosterType, ForwarderAssumption
  <2>3. to \in Delivery /\ to.job = poster[w].job /\ to.at = "post"
    BY <2>1, <2>2, PosterType, NextAttempt
  <2>4. SetPoster(w, to) /\ UNCHANGED <<ch, done, handed, mirrored, spilled, wrecked>>
    BY <1>5 DEF Retry
  <2> HIDE DEF to
  <2> QED
    BY <2>1, <2>3, <2>4, PosterKeeps
<1>6. CASE GiveUp(w)
  BY <1>6, SpillOwnStep DEF GiveUp
<1>7. CASE Leave(w)
  BY <1>7, LeaveStep
<1> QED
  BY <1>1, <1>2, <1>3, <1>4, <1>5, <1>6, <1>7 DEF WorkerStep

\* A worker never comes back, and leaves when done is closed and nothing is left; only
\* Forward makes the channel longer.
LEMMA WorkerLeaves ==
  ASSUME ForwarderInv, NEW w \in Posters, WorkerStep(w)
  PROVE  /\ done' = done
         /\ ToSet(ch') \subseteq ToSet(ch) /\ (ch = <<>> => ch' = <<>>)
         /\ \A v \in Posters : poster[v] = Gone => poster'[v] = Gone
         /\ \A v \in Posters :
              poster'[v] = Gone /\ poster[v] # Gone => done /\ ch' = <<>>
<1>1. /\ ForwarderTypeOK /\ poster \in [Posters -> {Free, Gone} \cup Delivery]
      /\ ch \in Seq(Payloads) /\ Free # Gone /\ Gone \notin Delivery
  BY DEF ForwarderInv, ForwarderTypeOK, Free, Gone, Delivery
<1>2. CASE Take(w)
  BY <1>1, <1>2, Received DEF Take, SetPoster, Gone
<1>3. CASE Delivered(w)
  BY <1>1, <1>3 DEF Delivered, SetPoster, Gone
<1>4. ASSUME SpillOwn(w), poster[w].at \in {"post", "backoff"}
      PROVE  /\ UNCHANGED <<ch, done>> /\ poster' = [poster EXCEPT ![w] = Free]
             /\ poster[w] # Gone
  BY <1>4, SpillOwnStep DEF Gone
<1>5. CASE Rejected(w)
  BY <1>1, <1>4, <1>5 DEF Rejected
<1>6. CASE Failed(w)
  <2>1. CASE SpillOwn(w)
    BY <1>1, <1>4, <1>6, <2>1 DEF Failed
  <2>2. CASE ~SpillOwn(w)
    BY <1>1, <1>6, <2>2 DEF Failed, SetPoster, Gone
  <2> QED
    BY <2>1, <2>2
<1>7. CASE Retry(w)
  <2> DEFINE to == [poster[w] EXCEPT !.at = "post", !.attempt = @ + 1]
  <2>1. poster[w].at \in {"post", "backoff"} /\ poster[w] # Gone
    BY <1>7 DEF Retry, Gone
  <2>2. to.at = "post"
    <3>1. poster[w].attempt + 1 \in 1..FwdAttempts
      BY <1>7, <2>1, PosterType, ForwarderAssumption DEF Retry
    <3> QED
      BY <2>1, <3>1, PosterType, NextAttempt
  <2>3. poster' = [poster EXCEPT ![w] = to] /\ UNCHANGED <<ch, done>>
    BY <1>7 DEF Retry, SetPoster
  <2> HIDE DEF to
  <2> QED
    BY <1>1, <2>1, <2>2, <2>3 DEF Gone
<1>8. CASE GiveUp(w)
  BY <1>1, <1>4, <1>8 DEF GiveUp
<1>9. CASE Leave(w)
  BY <1>1, <1>9 DEF Leave, SetPoster
<1> QED
  BY <1>2, <1>3, <1>5, <1>6, <1>7, <1>8, <1>9 DEF WorkerStep
-----------------------------------------------------------------------------
(* Sessions *)

Moments == [at : {"none", "handshake", "loop", "read"}]
             \cup [at : {"validate", "submit"}, frame : Frames]

\* The order of the stages, as far as one implies another.
LEMMA Order ==
  /\ AfterRedis \subseteq AfterPosters /\ AfterPosters \subseteq AfterDone
  /\ AfterDone \subseteq AfterPipers /\ AfterPipers \subseteq AfterClose
  /\ AfterClose \subseteq AfterSessions /\ AfterSessions \subseteq AfterListener
  /\ AfterListener \subseteq AfterHttp /\ "exit" \in AfterRedis
  /\ AfterHttp \cap {"serve", "consumerStop", "httpShutdown"} = {}
BY DEF AfterRedis, AfterPosters, AfterDone, AfterPipers, AfterClose, AfterSessions,
       AfterListener, AfterHttp

\* While a session can do something the pipeline is open.
LEMMA SessionsEarly ==
  ASSUME Phases, NEW s \in Sessions, session[s] # None \/ listening
  PROVE  /\ stage \notin AfterSessions /\ ~jobsClosed
         /\ stage \notin AfterPipers /\ stage \notin AfterClose
BY Order DEF Phases, SessionsGone

\* The frames of the other sessions stay where they are.
LEMMA SessionMoves ==
  ASSUME ServerTypeOK, NEW s \in Sessions, NEW to, session' = [session EXCEPT ![s] = to]
  PROVE  /\ Submitting \subseteq Submitting' \cup {session[s].frame}
         /\ session[s].at # "submit" => Submitting \subseteq Submitting'
         /\ to.at = "submit" => to.frame \in Submitting'
<1>1. /\ DOMAIN session = Sessions
      /\ session'[s] = to /\ \A r \in Sessions \ {s} : session'[r] = session[r]
  BY DEF ServerTypeOK
<1>2. ASSUME NEW r \in Sessions, r # s, session[r].at = "submit"
      PROVE  session[r].frame \in Submitting'
  BY <1>1, <1>2 DEF Submitting
<1>3. to.at = "submit" => to.frame \in Submitting'
  BY <1>1 DEF Submitting
<1>4. \A f \in Submitting : \E r \in Sessions : session[r].at = "submit" /\ f = session[r].frame
  BY DEF Submitting
<1> QED
  BY <1>2, <1>3, <1>4

\* What no step of a session touches.
LEMMA SessionElse ==
  ASSUME IInv, UNCHANGED <<forwarder, request, redis, main, listening, cancelled, jobsClosed,
                           piper, refused>>,
         ServerTypeOK', FramesValid', AckedSomewhere',
         stage \notin AfterSessions, jobs' = jobs \/ ~jobsClosed
  PROVE  IInv'
<1> USE DEF forwarder, redis, main
<1>1. TypeOK'
  BY DEF IInv, TypeOK, ForwarderTypeOK
<1>2. Phases'
  BY DEF IInv, Phases, PipersGone, PostersGone, Serving
<1>3. BackoffsLeft' /\ PostersDrained' /\ MirrorKept'
  BY DEF IInv, BackoffsLeft, PostersDrained, MirrorKept, InForwarder
<1>4. PipersDrained'
  BY DEF IInv, PipersDrained
<1>5. RefusedCounted'
  BY DEF IInv, RefusedCounted
<1> QED
  BY <1>1, <1>2, <1>3, <1>4, <1>5 DEF IInv

\* A session that has no acknowledged frame, before the step or after it.
LEMMA SessionQuiet ==
  ASSUME IInv, NEW s \in Sessions, NEW to \in Moments, session' = [session EXCEPT ![s] = to],
         to.at # "submit", session[s].at # "submit", session[s] # None \/ listening,
         UNCHANGED <<forwarder, request, redis, main, listening, cancelled, acked, pipeline>>
  PROVE  IInv'
<1>1. ServerTypeOK /\ FramesValid /\ AckedSomewhere
  BY DEF IInv, TypeOK
<1>2. stage \notin AfterSessions
  BY SessionsEarly DEF IInv
<1>3. ServerTypeOK'
  BY <1>1 DEF ServerTypeOK, pipeline, Moments
<1>4. FramesValid'
  BY <1>1 DEF ServerTypeOK, FramesValid, pipeline
<1>5. AckedSomewhere'
  <2>1. Submitting \subseteq Submitting' /\ Piping' = Piping
    BY <1>1, SessionMoves DEF pipeline, Piping
  <2> QED
    BY <1>1, <2>1 DEF AckedSomewhere, pipeline, redis
<1> QED
  BY <1>2, <1>3, <1>4, <1>5, SessionElse DEF pipeline

LEMMA ConnectKeeps ==
  ASSUME IInv, NEW s \in Sessions, Connect(s) PROVE IInv'
<1>1. session[s].at # "submit" /\ [at |-> "handshake"] \in Moments
  BY DEF Connect, Accept, None, Moments
<1> QED
  BY <1>1, SessionQuiet DEF Connect, Accept, Goto

LEMMA AckKeeps ==
  ASSUME IInv, NEW s \in Sessions, Ack(s), UNCHANGED <<forwarder, request, redis, main>>
  PROVE  IInv'
<1> DEFINE f == session[s].frame
<1>1. ServerTypeOK /\ FramesValid /\ AckedSomewhere
  BY DEF IInv, TypeOK
<1>2. /\ session[s].at = "validate" /\ f \notin Short
      /\ UNCHANGED <<listening, cancelled, pipeline>>
  BY DEF Ack
<1>3. f \in Frames /\ session[s] # None
  BY <1>1, <1>2 DEF ServerTypeOK, None
<1>4. CASE f \in Invalid
  <2>1. session' = [session EXCEPT ![s] = [at |-> "loop"]] /\ UNCHANGED acked
    BY <1>4 DEF Ack, Goto
  <2>2. [at |-> "loop"] \in Moments
    BY DEF Moments
  <2> QED
    BY <1>2, <1>3, <2>1, <2>2, SessionQuiet
<1>5. CASE f \notin Invalid
  <2> DEFINE to == [at |-> "submit", frame |-> f]
  <2>1. session' = [session EXCEPT ![s] = to] /\ acked' = acked \cup {f}
    BY <1>5 DEF Ack, Goto
  <2>2. stage \notin AfterSessions
    BY <1>3, SessionsEarly DEF IInv
  <2>3. to \in Moments /\ to.at = "submit" /\ to.frame \in Valid /\ to.frame = f
    BY <1>2, <1>3, <1>5 DEF Moments, Valid
  <2> HIDE DEF to
  <2>4. ServerTypeOK'
    BY <1>1, <1>2, <1>3, <2>1, <2>3 DEF ServerTypeOK, pipeline, Moments
  <2>5. FramesValid'
    BY <1>1, <1>2, <2>1, <2>3 DEF ServerTypeOK, FramesValid, pipeline
  <2>6. AckedSomewhere'
    <3>1. Submitting \subseteq Submitting' /\ f \in Submitting' /\ Piping' = Piping
      BY <1>1, <1>2, <2>1, <2>3, SessionMoves DEF pipeline, Piping
    <3> QED
      BY <1>1, <1>2, <2>1, <3>1 DEF AckedSomewhere, pipeline, redis
  <2> QED
    BY <1>2, <2>2, <2>4, <2>5, <2>6, SessionElse DEF pipeline
<1> QED
  BY <1>4, <1>5

LEMMA SubmitKeeps ==
  ASSUME IInv, NEW s \in Sessions, Submit(s), UNCHANGED <<forwarder, request, redis, main>>
  PROVE  IInv'
<1> DEFINE f == session[s].frame
<1> DEFINE to == [at |-> "loop"]
<1>1. ServerTypeOK /\ FramesValid /\ AckedSomewhere
  BY DEF IInv, TypeOK
<1>2. /\ session[s].at = "submit" /\ session' = [session EXCEPT ![s] = to]
      /\ UNCHANGED <<listening, cancelled, acked, jobsClosed, piper, refused>>
  BY DEF Submit, Goto
<1>3. f \in Valid /\ f \in Frames /\ session[s] # None
  BY <1>1, <1>2 DEF FramesValid, None, Valid
<1>4. stage \notin AfterSessions /\ ~jobsClosed
  BY <1>3, SessionsEarly DEF IInv
<1>5. to \in Moments /\ to.at # "submit"
  BY DEF Moments
<1>6. /\ jobs' \in Seq(Frames) /\ jobs' \in Seq(Valid) /\ Len(jobs') <= JobBuffer
      /\ full' \subseteq Frames
      /\ ToSet(jobs) \cup full \cup {f} \subseteq ToSet(jobs') \cup full'
  <2>1. CASE Len(jobs) < JobBuffer /\ jobs' = Append(jobs, f) /\ UNCHANGED full
    BY <1>1, <1>3, <2>1, Sent, LenProperties, ServerAssumption DEF ServerTypeOK, FramesValid
  <2>2. CASE full' = full \cup {f} /\ UNCHANGED jobs
    BY <1>1, <1>3, <2>2 DEF ServerTypeOK, FramesValid
  <2> QED
    BY <2>1, <2>2 DEF Submit
<1> HIDE DEF to, f
<1>7. ServerTypeOK'
  BY <1>1, <1>2, <1>5, <1>6 DEF ServerTypeOK, Moments
<1>8. FramesValid'
  BY <1>1, <1>2, <1>5, <1>6 DEF ServerTypeOK, FramesValid
<1>9. AckedSomewhere'
  <2>1. Submitting \subseteq Submitting' \cup {f} /\ Piping' = Piping
    BY <1>1, <1>2, SessionMoves DEF Piping, f
  <2> QED
    BY <1>1, <1>2, <1>6, <2>1 DEF AckedSomewhere, redis
<1> QED
  BY <1>2, <1>4, <1>7, <1>8, <1>9, SessionElse

LEMMA SessionKeeps ==
  ASSUME IInv, NEW s \in Sessions, SessionStep(s) PROVE IInv'
<1>1. UNCHANGED <<forwarder, request, redis, main>>
  BY DEF SessionStep
<1>2. CASE Handshake(s)
  <2>1. [at |-> "loop"] \in Moments /\ session[s].at = "handshake" /\ session[s] # None
    BY <1>2 DEF Moments, Handshake, None
  <2> QED
    BY <1>1, <1>2, <2>1, SessionQuiet DEF Handshake, Goto
<1>3. CASE Check(s)
  <2>1. /\ None \in Moments /\ [at |-> "read"] \in Moments /\ None.at # "submit"
        /\ session[s].at = "loop" /\ session[s] # None
    BY <1>3 DEF Moments, Check, None
  <2> QED
    BY <1>1, <1>3, <2>1, SessionQuiet DEF Check, Goto
<1>4. CASE Ack(s)
  BY <1>1, <1>4, AckKeeps
<1>5. CASE Disconnect(s)
  <2>1. /\ None \in Moments /\ None.at # "submit"
        /\ session[s].at # "submit" /\ session[s] # None
    BY <1>5 DEF Moments, Disconnect, None
  <2> QED
    BY <1>1, <1>5, <2>1, SessionQuiet DEF Disconnect, Goto
<1>6. CASE Submit(s)
  BY <1>1, <1>6, SubmitKeeps
<1>7. ASSUME NEW f \in Frames, ReadFrame(s, f) PROVE IInv'
  <2>1. /\ [at |-> "validate", frame |-> f] \in Moments
        /\ session[s].at = "read" /\ session[s] # None
    BY <1>7 DEF Moments, ReadFrame, None
  <2> QED
    BY <1>1, <1>7, <2>1, SessionQuiet DEF ReadFrame, Goto
<1> QED
  BY <1>2, <1>3, <1>4, <1>5, <1>6, <1>7 DEF SessionStep
-----------------------------------------------------------------------------
(* Pipeline workers *)

Jobs == {Idle, Returned} \cup [at : {"mirror", "enqueue"}, frame : Frames]

\* While a pipeline worker runs, neither the mirror nor the Redis client is closed.
LEMMA PipersEarly ==
  ASSUME TypeOK, Phases, NEW w \in Pipers, piper[w] # Returned
  PROVE  stage \notin AfterPipers /\ ~done /\ redisOpen
BY Order DEF TypeOK, ForwarderTypeOK, Phases, PipersGone

LEMMA PiperMoves ==
  ASSUME ServerTypeOK, NEW w \in Pipers, NEW to, piper' = [piper EXCEPT ![w] = to]
  PROVE  /\ Piping \subseteq Piping' \cup {piper[w].frame}
         /\ piper[w].at \notin {"mirror", "enqueue"} => Piping \subseteq Piping'
         /\ to.at \in {"mirror", "enqueue"} => to.frame \in Piping'
<1>1. /\ DOMAIN piper = Pipers
      /\ piper'[w] = to /\ \A v \in Pipers \ {w} : piper'[v] = piper[v]
  BY DEF ServerTypeOK
<1>2. ASSUME NEW v \in Pipers, v # w, piper[v].at \in {"mirror", "enqueue"}
      PROVE  piper[v].frame \in Piping'
  BY <1>1, <1>2 DEF Piping
<1>3. to.at \in {"mirror", "enqueue"} => to.frame \in Piping'
  BY <1>1 DEF Piping
<1>4. \A f \in Piping :
        \E v \in Pipers : piper[v].at \in {"mirror", "enqueue"} /\ f = piper[v].frame
  BY DEF Piping
<1> QED
  BY <1>2, <1>3, <1>4

\* What no step of a pipeline worker touches.
LEMMA PiperElse ==
  ASSUME IInv, UNCHANGED <<sessions, jobsClosed, full, request, main, poster, done, redisOpen>>,
         stage \notin AfterPipers, ~done,
         ServerTypeOK', FramesValid', PipersDrained', AckedSomewhere', RefusedCounted',
         ForwarderInv', queued' \subseteq Payloads, redisFaults' \in 0..MaxRedisFaults
  PROVE  IInv'
<1> USE DEF sessions, main
<1>1. TypeOK'
  BY DEF IInv, TypeOK, ForwarderInv
<1>2. Phases'
  BY Order DEF IInv, Phases, SessionsGone, PostersGone, Serving
<1>3. PostersDrained'
  BY DEF IInv, PostersDrained
<1> QED
  BY <1>1, <1>2, <1>3 DEF IInv, ForwarderInv

LEMMA ForwarderSame == ASSUME IInv, UNCHANGED forwarder PROVE ForwarderInv'
BY DEF IInv, TypeOK, ForwarderInv, forwarder, ForwarderTypeOK, BackoffsLeft, MirrorKept, InForwarder

LEMMA ReceiveKeeps ==
  ASSUME IInv, NEW w \in Pipers, Receive(w), UNCHANGED <<forwarder, redis, request, main>>
  PROVE  IInv'
<1> DEFINE to == [at |-> "mirror", frame |-> Head(jobs)]
<1>1. ServerTypeOK /\ FramesValid /\ AckedSomewhere /\ TypeOK
  BY DEF IInv, TypeOK
<1>2. /\ piper[w] = Idle /\ jobs # <<>> /\ jobs' = Tail(jobs)
      /\ piper' = [piper EXCEPT ![w] = to] /\ UNCHANGED <<sessions, jobsClosed, full, refused>>
  BY DEF Receive, SetPiper
<1>3. /\ Head(jobs) \in Valid /\ jobs' \in Seq(Valid) /\ Len(jobs') = Len(jobs) - 1
      /\ Len(jobs) \in Nat /\ ToSet(jobs) = {Head(jobs)} \cup ToSet(jobs')
  BY <1>1, <1>2, Received DEF FramesValid
<1>4. Head(jobs) \in Frames /\ jobs' \in Seq(Frames)
  BY <1>1, <1>2, Received DEF ServerTypeOK
<1>5. to \in Jobs /\ to.at \in {"mirror", "enqueue"} /\ to.frame = Head(jobs)
  BY <1>4 DEF Jobs
<1>6. stage \notin AfterPipers /\ ~done /\ piper[w].at \notin {"mirror", "enqueue"}
      /\ piper[w] # Returned
  <2>1. piper[w] # Returned /\ piper[w].at \notin {"mirror", "enqueue"}
    BY <1>2 DEF Idle, Returned
  <2> QED
    BY <2>1, PipersEarly DEF IInv
<1> HIDE DEF to
<1>7. ServerTypeOK'
  BY <1>1, <1>2, <1>3, <1>4, <1>5, ServerAssumption DEF ServerTypeOK, Jobs, sessions
<1>8. FramesValid'
  BY <1>1, <1>2, <1>3, <1>5 DEF ServerTypeOK, FramesValid, sessions
<1>9. PipersDrained'
  <2>1. \A v \in Pipers : piper[v] # Returned
    BY <1>2 DEF IInv, PipersDrained
  <2>2. to # Returned
    BY <1>5 DEF Returned
  <2> QED
    BY <1>1, <1>2, <2>1, <2>2 DEF PipersDrained, ServerTypeOK
<1>10. AckedSomewhere'
  <2>1. Piping \subseteq Piping' /\ Head(jobs) \in Piping' /\ Submitting' = Submitting
    BY <1>1, <1>2, <1>5, <1>6, PiperMoves DEF sessions, Submitting
  <2> QED
    BY <1>1, <1>2, <1>3, <2>1 DEF AckedSomewhere, sessions, redis
<1>11. RefusedCounted' /\ queued' \subseteq Payloads /\ redisFaults' \in 0..MaxRedisFaults
  BY <1>2 DEF IInv, RefusedCounted, redis, TypeOK
<1>12. ForwarderInv'
  BY ForwarderSame
<1> QED
  BY <1>2, <1>6, <1>7, <1>8, <1>9, <1>10, <1>11, <1>12, PiperElse DEF forwarder, redis

\* A worker that changes only its own place and, perhaps, what was queued or refused.
LEMMA PiperPlace ==
  ASSUME IInv, NEW w \in Pipers, NEW to \in Jobs, piper' = [piper EXCEPT ![w] = to],
         to = Returned => jobsClosed /\ jobs = <<>>, piper[w] # Returned,
         to.at \in {"mirror", "enqueue"} => to.frame \in Valid,
         Piping \subseteq Piping' \cup queued' \cup refused',
         queued \cup refused \subseteq queued' \cup refused',
         queued' \subseteq Payloads, refused' \subseteq Frames,
         redisFaults' \in 0..MaxRedisFaults, RefusedCounted', ForwarderInv',
         UNCHANGED <<sessions, jobs, jobsClosed, full, request, main, poster, done, redisOpen>>
  PROVE  IInv'
<1>1. ServerTypeOK /\ FramesValid /\ AckedSomewhere /\ TypeOK
  BY DEF IInv, TypeOK
<1>2. stage \notin AfterPipers /\ ~done
  BY PipersEarly DEF IInv
<1>3. ServerTypeOK'
  BY <1>1 DEF ServerTypeOK, Jobs, sessions
<1>4. FramesValid'
  BY <1>1 DEF ServerTypeOK, FramesValid, sessions
<1>5. PipersDrained'
  BY <1>1 DEF IInv, PipersDrained, ServerTypeOK
<1>6. AckedSomewhere'
  <2>1. Submitting' = Submitting
    BY DEF Submitting, sessions
  <2> QED
    BY <1>1, <2>1 DEF AckedSomewhere, sessions
<1> QED
  BY <1>2, <1>3, <1>4, <1>5, <1>6, PiperElse

\* A frame in the hands of a worker is a payload of the stream and of the mirror.
LEMMA PiperFrame ==
  ASSUME IInv, NEW w \in Pipers, piper[w].at \in {"mirror", "enqueue"}
  PROVE  /\ piper[w].frame \in Valid /\ piper[w].frame \in Frames /\ piper[w].frame \in Payloads
         /\ piper[w] # Returned
         /\ [piper[w] EXCEPT !.at = "enqueue"] \in Jobs
         /\ [piper[w] EXCEPT !.at = "enqueue"].at = "enqueue"
         /\ [piper[w] EXCEPT !.at = "enqueue"].frame = piper[w].frame
<1>1. piper[w] \in Jobs
  BY DEF IInv, TypeOK, ServerTypeOK, Jobs
<1>2. piper[w] \in [at : {"mirror", "enqueue"}, frame : Frames]
  BY <1>1 DEF Jobs, Idle, Returned
<1>3. piper[w].frame \in Valid
  BY DEF IInv, FramesValid
<1> QED
  BY <1>2, <1>3, ShutdownAssumption DEF Jobs, Returned, Valid

LEMMA PiperKeeps ==
  ASSUME IInv, NEW w \in Pipers, PiperStep(w) PROVE IInv'
<1>1. TypeOK /\ ServerTypeOK /\ UNCHANGED <<request, main>>
  BY DEF IInv, TypeOK, PiperStep
<1>2. CASE Receive(w) /\ UNCHANGED <<forwarder, redis>>
  BY <1>1, <1>2, ReceiveKeeps
<1>3. CASE PiperReturns(w) /\ UNCHANGED <<forwarder, redis>>
  <2>1. /\ piper[w] = Idle /\ jobsClosed /\ jobs = <<>>
        /\ piper' = [piper EXCEPT ![w] = Returned]
        /\ UNCHANGED <<sessions, jobs, jobsClosed, full, refused>>
    BY <1>3 DEF PiperReturns, SetPiper
  <2>2. /\ piper[w] # Returned /\ Returned \in Jobs
        /\ Returned.at \notin {"mirror", "enqueue"} /\ piper[w].at \notin {"mirror", "enqueue"}
    BY <2>1 DEF Idle, Returned, Jobs
  <2>3. Piping \subseteq Piping'
    BY <1>1, <2>1, <2>2, PiperMoves
  <2>4. RefusedCounted' /\ ForwarderInv'
    BY <1>3, <2>1, ForwarderSame DEF IInv, RefusedCounted, redis
  <2> QED
    BY <1>1, <1>3, <2>1, <2>2, <2>3, <2>4, PiperPlace DEF TypeOK, ServerTypeOK, redis, forwarder
<1>4. CASE MirrorDone(w) /\ Forward(piper[w].frame) /\ UNCHANGED redis
  <2> DEFINE to == [piper[w] EXCEPT !.at = "enqueue"]
  <2>1. /\ piper[w].at \in {"mirror", "enqueue"} /\ piper' = [piper EXCEPT ![w] = to]
        /\ UNCHANGED <<sessions, jobs, jobsClosed, full, refused>>
    BY <1>4 DEF MirrorDone, SetPiper
  <2>2. /\ to \in Jobs /\ to.at = "enqueue" /\ to.frame = piper[w].frame /\ to.frame \in Valid
        /\ piper[w].frame \in Payloads /\ piper[w] # Returned
    BY <2>1, PiperFrame
  <2> HIDE DEF to
  <2>3. to # Returned
    BY <2>2 DEF Returned
  <2>4. Piping \subseteq Piping'
    BY <1>1, <2>1, <2>2, PiperMoves
  <2>5. RefusedCounted'
    BY <1>4, <2>1 DEF IInv, RefusedCounted, redis
  <2>6. ForwarderInv' /\ poster' = poster /\ done' = done
    BY <1>4, <2>2, ForwardStep DEF IInv, TypeOK, ForwarderInv
  <2> QED
    BY <1>1, <1>4, <2>1, <2>2, <2>3, <2>4, <2>5, <2>6, PiperPlace DEF TypeOK, ServerTypeOK, redis
<1>5. CASE EnqueueDone(w) /\ XAdd(piper[w].frame) /\ UNCHANGED forwarder
  <2>1. /\ piper[w].at \in {"mirror", "enqueue"} /\ piper' = [piper EXCEPT ![w] = Idle]
        /\ UNCHANGED <<sessions, jobs, jobsClosed, full, refused>>
    BY <1>5 DEF EnqueueDone, SetPiper
  <2>2. Idle \in Jobs /\ Idle.at \notin {"mirror", "enqueue"} /\ Idle # Returned
    BY DEF Idle, Returned, Jobs
  <2>3. queued' = queued \cup {piper[w].frame} /\ UNCHANGED <<redisOpen, redisFaults>>
    BY <1>5 DEF XAdd
  <2>4. Piping \subseteq Piping' \cup {piper[w].frame}
    BY <1>1, <2>1, PiperMoves
  <2>5. RefusedCounted' /\ ForwarderInv'
    BY <1>5, <2>1, <2>3, ForwarderSame DEF IInv, RefusedCounted
  <2>6. piper[w].frame \in Payloads /\ piper[w] # Returned
    BY <2>1, PiperFrame
  <2> QED
    BY <1>1, <1>5, <2>1, <2>2, <2>3, <2>4, <2>5, <2>6, PiperPlace
    DEF TypeOK, ServerTypeOK, forwarder
<1>6. CASE EnqueueRefused(w) /\ XAddFails(piper[w].frame) /\ UNCHANGED forwarder
  <2>1. /\ piper[w].at \in {"mirror", "enqueue"} /\ piper' = [piper EXCEPT ![w] = Idle]
        /\ refused' = refused \cup {piper[w].frame}
        /\ UNCHANGED <<sessions, jobs, jobsClosed, full>>
    BY <1>6 DEF EnqueueRefused, SetPiper
  <2>2. Idle \in Jobs /\ Idle.at \notin {"mirror", "enqueue"} /\ Idle # Returned
    BY DEF Idle, Returned, Jobs
  <2>3. piper[w].frame \in Payloads /\ piper[w].frame \in Frames /\ piper[w] # Returned
    BY <2>1, PiperFrame
  <2>4. redisOpen
    BY <2>3, PipersEarly DEF IInv
  <2>5. /\ redisFaults < MaxRedisFaults /\ redisFaults' = redisFaults + 1
        /\ queued' \in {queued, queued \cup {piper[w].frame}} /\ UNCHANGED redisOpen
    BY <1>6, <2>4 DEF XAddFails
  <2>6. redisFaults' \in 0..MaxRedisFaults
    BY <1>1, <2>5, ServerAssumption DEF TypeOK
  <2>7. RefusedCounted'
    <3>1. IsFiniteSet(refused) /\ Cardinality(refused) \in Nat /\ Cardinality(refused) <= redisFaults
      BY FS_CardinalityType DEF IInv, RefusedCounted
    <3>2. IsFiniteSet(refused') /\ Cardinality(refused') <= Cardinality(refused) + 1
          /\ Cardinality(refused') \in Nat
      <4>1. /\ IsFiniteSet(refused \cup {piper[w].frame})
            /\ Cardinality(refused \cup {piper[w].frame}) =
                 IF piper[w].frame \in refused THEN Cardinality(refused) ELSE Cardinality(refused) + 1
        BY <3>1, FS_AddElement
      <4> QED
        BY <2>1, <3>1, <4>1
    <3> QED
      BY <1>1, <2>5, <3>1, <3>2 DEF RefusedCounted, TypeOK
  <2>8. Piping \subseteq Piping' \cup {piper[w].frame}
    BY <1>1, <2>1, PiperMoves
  <2>9. ForwarderInv'
    BY <1>6, ForwarderSame
  <2> QED
    BY <1>1, <1>6, <2>1, <2>2, <2>3, <2>5, <2>6, <2>7, <2>8, <2>9, PiperPlace
    DEF TypeOK, ServerTypeOK, forwarder
<1> QED
  BY <1>2, <1>3, <1>4, <1>5, <1>6 DEF PiperStep
-----------------------------------------------------------------------------
(* Mirror workers *)

LEMMA PosterKeepsAll ==
  ASSUME IInv, NEW w \in Posters, PosterStep(w) PROVE IInv'
<1>1. WorkerStep(w) /\ UNCHANGED <<server, request, redis, main>>
  BY DEF PosterStep
<1>2. ForwarderInv /\ ForwarderInv'
  BY <1>1, WorkerStepKeeps DEF IInv, TypeOK, ForwarderInv
<1>3. /\ done' = done
      /\ ToSet(ch') \subseteq ToSet(ch) /\ (ch = <<>> => ch' = <<>>)
      /\ \A v \in Posters : poster[v] = Gone => poster'[v] = Gone
      /\ \A v \in Posters : poster'[v] = Gone /\ poster[v] # Gone => done /\ ch' = <<>>
  BY <1>1, <1>2, WorkerLeaves
<1> USE DEF server, sessions, pipeline, redis, main
<1>4. TypeOK'
  BY <1>1, <1>2 DEF IInv, TypeOK, ForwarderInv, ServerTypeOK
<1>5. Phases'
  BY <1>1, <1>3 DEF IInv, Phases, SessionsGone, PipersGone, PostersGone, Serving
<1>6. PostersDrained'
  <2> SUFFICES ASSUME NEW v \in Posters, poster'[v] = Gone
               PROVE  done' /\ ToSet(ch') \subseteq Requests /\ (ch' # <<>> => expired')
    BY DEF PostersDrained
  <2>1. CASE poster[v] = Gone
    BY <1>1, <1>3, <2>1 DEF IInv, PostersDrained
  <2>2. CASE poster[v] # Gone
    BY <1>3, <2>2, ToSetEmpty
  <2> QED
    BY <2>1, <2>2
<1>7. FramesValid' /\ PipersDrained' /\ RefusedCounted'
  BY <1>1 DEF IInv, FramesValid, PipersDrained, RefusedCounted
<1>8. AckedSomewhere'
  BY <1>1 DEF IInv, AckedSomewhere, Submitting, Piping
<1> QED
  BY <1>2, <1>4, <1>5, <1>6, <1>7, <1>8 DEF IInv, ForwarderInv

-----------------------------------------------------------------------------
(* HTTP handlers *)

\* What no handler touches.
LEMMA HandlerElse ==
  ASSUME IInv, UNCHANGED <<server, main, poster, done, redisOpen>>,
         request' \in [Requests -> {"new", "enqueue", "mirror", "ended"}],
         Serving' => Serving \/ stage \notin AfterHttp,
         queued \subseteq queued', queued' \subseteq Payloads,
         redisFaults' \in 0..MaxRedisFaults, redisFaults' >= redisFaults,
         ForwarderInv', PostersDrained'
  PROVE  IInv'
<1> USE DEF server, sessions, pipeline, main
<1>1. TypeOK'
  BY DEF IInv, TypeOK, ForwarderInv, ServerTypeOK
<1>2. Phases'
  BY DEF IInv, Phases, SessionsGone, PipersGone, PostersGone
<1>3. FramesValid' /\ PipersDrained'
  BY DEF IInv, FramesValid, PipersDrained
<1>4. RefusedCounted'
  <2>1. Cardinality(refused) \in Nat /\ Cardinality(refused) <= redisFaults /\ IsFiniteSet(refused)
    BY FS_CardinalityType DEF IInv, RefusedCounted
  <2>2. redisFaults \in Int /\ redisFaults' \in Int
    BY ServerAssumption DEF IInv, TypeOK
  <2> QED
    BY <2>1, <2>2 DEF RefusedCounted
<1>5. AckedSomewhere'
  <2>1. Submitting' = Submitting /\ Piping' = Piping
    BY DEF Submitting, Piping
  <2> QED
    BY <2>1 DEF IInv, AckedSomewhere
<1> QED
  BY <1>1, <1>2, <1>3, <1>4, <1>5 DEF IInv, ForwarderInv

LEMMA PostersSame == ASSUME IInv, UNCHANGED <<forwarder, main>> PROVE PostersDrained'
BY DEF IInv, PostersDrained, forwarder, main

LEMMA HandlerKeeps ==
  ASSUME IInv, NEW r \in Requests, Serve(r) \/ HandlerStep(r) PROVE IInv'
<1>1. /\ TypeOK /\ r \in Payloads
      /\ request \in [Requests -> {"new", "enqueue", "mirror", "ended"}]
      /\ redisFaults \in 0..MaxRedisFaults /\ redisFaults \in Nat /\ queued \subseteq Payloads
  BY ShutdownAssumption, ServerAssumption DEF IInv, TypeOK
<1>2. CASE Serve(r)
  <2>1. stage \notin AfterHttp
    BY <1>2, Order DEF Serve
  <2>2. request' \in [Requests -> {"new", "enqueue", "mirror", "ended"}]
    BY <1>1, <1>2 DEF Serve, SetRequest
  <2>3. UNCHANGED <<forwarder, server, redis, main>>
    BY <1>2 DEF Serve
  <2> QED
    BY <1>1, <2>1, <2>2, <2>3, HandlerElse, ForwarderSame, PostersSame DEF forwarder, redis
<1>3. CASE HandlerEnqueues(r)
  <2>1. request[r] = "enqueue" /\ UNCHANGED <<forwarder, server, main>>
    BY <1>3 DEF HandlerEnqueues
  <2>2. /\ queued \subseteq queued' /\ queued' \subseteq Payloads /\ redisOpen' = redisOpen
        /\ redisFaults' \in 0..MaxRedisFaults /\ redisFaults' >= redisFaults
    BY <1>1, <1>3, ServerAssumption DEF HandlerEnqueues, XAdd, XAddFails, redis
  <2>3. request' \in [Requests -> {"new", "enqueue", "mirror", "ended"}]
    BY <1>1, <1>3 DEF HandlerEnqueues, SetRequest
  <2>4. Serving
    BY <2>1 DEF Serving
  <2> QED
    BY <2>1, <2>2, <2>3, <2>4, HandlerElse, ForwarderSame, PostersSame DEF forwarder
<1>4. CASE HandlerMirrors(r)
  <2>1. request[r] = "mirror" /\ Forward(r) /\ UNCHANGED <<server, redis, main>>
    BY <1>4 DEF HandlerMirrors
  <2>2. request' \in [Requests -> {"new", "enqueue", "mirror", "ended"}]
    BY <1>1, <1>4 DEF HandlerMirrors, SetRequest
  <2>3. Serving
    BY <2>1 DEF Serving
  <2>4. ForwarderInv' /\ poster' = poster /\ done' = done
    BY <1>1, <2>1, ForwardStep DEF IInv, TypeOK, ForwarderInv
  <2>5. PostersDrained'
    <3> SUFFICES ASSUME NEW v \in Posters, poster[v] = Gone
                 PROVE  done' /\ ToSet(ch') \subseteq Requests /\ (ch' # <<>> => expired')
      BY <2>4 DEF PostersDrained
    <3>1. done /\ ToSet(ch) \subseteq Requests
      BY DEF IInv, PostersDrained
    <3>2. expired /\ expired' = expired
      BY <2>1, <2>3, <3>1, Order DEF IInv, Phases, main
    <3>3. ToSet(ch') \subseteq ToSet(ch) \cup {r}
      <4>1. ch \in Seq(Payloads) /\ (ch' = ch \/ ch' = Append(ch, r))
        BY <1>1, <2>1 DEF Forward, TypeOK, ForwarderTypeOK
      <4>2. ToSet(Append(ch, r)) = ToSet(ch) \cup {r}
        BY <1>1, <4>1, Sent
      <4> QED
        BY <4>1, <4>2
    <3> QED
      BY <2>4, <3>1, <3>2, <3>3
  <2> QED
    BY <1>1, <2>1, <2>2, <2>3, <2>4, <2>5, HandlerElse DEF redis
<1> QED
  BY <1>2, <1>3, <1>4 DEF HandlerStep

-----------------------------------------------------------------------------
(* main *)

Phase == <<stage, expired, listening, cancelled, jobsClosed, done, redisOpen>>

\* What main does not touch when it takes a step.
LEMMA MainElse ==
  ASSUME IInv, UNCHANGED <<ch, poster, handed, mirrored, spilled, wrecked, session, acked,
                           jobs, piper, full, refused, request, queued, redisFaults>>,
         Phase' \in Stages \X BOOLEAN \X BOOLEAN \X BOOLEAN \X BOOLEAN \X BOOLEAN \X BOOLEAN,
         UNCHANGED died,
         jobsClosed => jobsClosed', done => done', done => expired' = expired,
         Phases'
  PROVE  IInv'
<1>1. TypeOK'
  BY DEF IInv, TypeOK, ForwarderTypeOK, ServerTypeOK, Phase
<1>2. FramesValid' /\ PipersDrained' /\ RefusedCounted'
  BY DEF IInv, FramesValid, PipersDrained, RefusedCounted
<1>3. BackoffsLeft' /\ PostersDrained' /\ MirrorKept'
  BY DEF IInv, BackoffsLeft, PostersDrained, MirrorKept, InForwarder
<1>4. AckedSomewhere'
  BY DEF IInv, AckedSomewhere, Submitting, Piping
<1> QED
  BY <1>1, <1>2, <1>3, <1>4 DEF IInv

LEMMA MainKeeps == ASSUME IInv, Signal \/ Expire \/ Stop PROVE IInv'
<1> USE DEF MainGoes, forwarder, server, sessions, pipeline, redis, Phase, Stages,
            SessionsGone, PipersGone, PostersGone, Serving,
            AfterRedis, AfterPosters, AfterDone, AfterPipers, AfterClose, AfterSessions,
            AfterListener, AfterHttp
<1>1. /\ stage \in Stages /\ expired \in BOOLEAN /\ listening \in BOOLEAN /\ cancelled \in BOOLEAN
      /\ jobsClosed \in BOOLEAN /\ done \in BOOLEAN /\ redisOpen \in BOOLEAN /\ Phases
  BY DEF IInv, TypeOK, ForwarderTypeOK, ServerTypeOK
<1>2. CASE Signal
  BY <1>1, <1>2, MainElse DEF Signal, Phases
<1>3. CASE Expire
  BY <1>1, <1>3, MainElse DEF Expire, Phases
<1>4. CASE ConsumerStopped
  BY <1>1, <1>4, MainElse DEF ConsumerStopped, Phases
<1>5. CASE HttpShutdown
  BY <1>1, <1>5, MainElse DEF HttpShutdown, Phases
<1>6. CASE Cancel
  BY <1>1, <1>6, MainElse DEF Cancel, CancelSessions, Phases
<1>7. CASE Unlisten
  BY <1>1, <1>7, MainElse DEF Unlisten, CloseListener, Phases
<1>8. CASE SessionsWaited
  BY <1>1, <1>8, MainElse DEF SessionsWaited, Phases
<1>9. CASE StopPipeline
  BY <1>1, <1>9, MainElse DEF StopPipeline, CloseJobs, Phases
<1>10. CASE PipersWaited
  BY <1>1, <1>10, MainElse DEF PipersWaited, Phases
<1>11. CASE StopForwarder
  BY <1>1, <1>11, MainElse DEF StopForwarder, CloseForwarder, Phases
<1>12. CASE PostersWaited
  BY <1>1, <1>12, MainElse DEF PostersWaited, Phases
<1>13. CASE CloseRedis
  BY <1>1, <1>13, MainElse DEF CloseRedis, Phases
<1>14. CASE Exit
  BY <1>1, <1>14, MainElse DEF Exit, Phases
<1> QED
  BY <1>2, <1>3, <1>4, <1>5, <1>6, <1>7, <1>8, <1>9, <1>10, <1>11, <1>12, <1>13, <1>14 DEF Stop

-----------------------------------------------------------------------------
(* The invariant *)

LEMMA IInvInit == Init => IInv
<1> SUFFICES ASSUME Init PROVE IInv
  OBVIOUS
<1> USE DEF Init, ForwarderInit, ServerInit
<1>1. TypeOK
  <2>1. <<>> \in Seq(Payloads) /\ <<>> \in Seq(Frames) /\ Len(<<>>) = 0
    BY EmptySeq
  <2>2. ForwarderTypeOK
    <3>1. poster \in [Posters -> {Free, Gone} \cup Delivery]
      OBVIOUS
    <3>2. ch \in Seq(Payloads) /\ Len(ch) <= FwdBuffer
      BY <2>1, ForwarderAssumption
    <3> QED
      BY <3>1, <3>2 DEF ForwarderTypeOK
  <2>3. session \in [Sessions -> Moments]
    BY DEF None, Moments
  <2>4. piper \in [Pipers -> Jobs]
    BY DEF Jobs
  <2>5. ServerTypeOK
    <3>1. jobs \in Seq(Frames) /\ Len(jobs) <= JobBuffer
      BY <2>1, ServerAssumption
    <3> QED
      BY <2>3, <2>4, <3>1 DEF ServerTypeOK, Moments, Jobs
  <2>6. request \in [Requests -> {"new", "enqueue", "mirror", "ended"}]
    OBVIOUS
  <2>7. redisFaults \in 0..MaxRedisFaults
    BY ServerAssumption
  <2> QED
    BY <2>2, <2>5, <2>6, <2>7 DEF TypeOK, Stages
<1>2. Phases
  BY DEF Phases, AfterRedis, AfterPosters, AfterDone, AfterPipers, AfterClose, AfterSessions,
         AfterListener, AfterHttp
<1>3. FramesValid
  BY EmptySeq DEF FramesValid, None, Idle
<1>4. BackoffsLeft /\ PostersDrained
  BY DEF BackoffsLeft, PostersDrained, Free, Gone
<1>5. PipersDrained
  BY DEF PipersDrained, Idle, Returned
<1>6. AckedSomewhere /\ MirrorKept
  BY DEF AckedSomewhere, MirrorKept
<1>7. RefusedCounted
  BY FS_EmptySet DEF RefusedCounted
<1> QED
  BY <1>1, <1>2, <1>3, <1>4, <1>5, <1>6, <1>7 DEF IInv

\* The invariant does not look at died.
LEMMA SameElse ==
  ASSUME IInv, UNCHANGED <<forwarder, server, redis, request, stage, expired>>,
         died' \in BOOLEAN
  PROVE  IInv'
<1> USE DEF forwarder, server, sessions, pipeline, redis
<1>1. TypeOK'
  BY DEF IInv, TypeOK, ForwarderTypeOK, ServerTypeOK
<1>2. Phases'
  BY DEF IInv, Phases, SessionsGone, PipersGone, PostersGone, Serving
<1>3. FramesValid' /\ PipersDrained' /\ RefusedCounted'
  BY DEF IInv, FramesValid, PipersDrained, RefusedCounted
<1>4. BackoffsLeft' /\ PostersDrained' /\ MirrorKept'
  BY DEF IInv, BackoffsLeft, PostersDrained, MirrorKept, InForwarder
<1>5. AckedSomewhere'
  BY DEF IInv, AckedSomewhere, Submitting, Piping
<1> QED
  BY <1>1, <1>2, <1>3, <1>4, <1>5 DEF IInv

LEMMA IInvStep == IInv /\ [Next]_vars => IInv'
<1> SUFFICES ASSUME IInv, [Next]_vars PROVE IInv'
  OBVIOUS
<1>1. ASSUME NEW s \in Sessions, Connect(s) \/ SessionStep(s) PROVE IInv'
  BY <1>1, ConnectKeeps, SessionKeeps
<1>2. ASSUME NEW w \in Pipers, PiperStep(w) PROVE IInv'
  BY <1>2, PiperKeeps
<1>3. ASSUME NEW w \in Posters, PosterStep(w) PROVE IInv'
  BY <1>3, PosterKeepsAll
<1>4. ASSUME NEW r \in Requests, Serve(r) \/ HandlerStep(r) PROVE IInv'
  BY <1>4, HandlerKeeps
<1>5. CASE Signal \/ Expire \/ Stop
  BY <1>5, MainKeeps
<1>6. ASSUME UNCHANGED <<forwarder, server, redis, request, stage, expired>>, died' \in BOOLEAN
      PROVE  IInv'
  BY <1>6, SameElse
<1>7. ASSUME NEW s \in Sessions, SessionPanics(s) PROVE IInv'
  BY <1>6, <1>7 DEF SessionPanics, Panics
<1>8. CASE UNCHANGED vars
  BY <1>6, <1>8 DEF vars, main, IInv, TypeOK
<1> QED
  BY <1>1, <1>2, <1>3, <1>4, <1>5, <1>7, <1>8 DEF Next

-----------------------------------------------------------------------------
(* The theorems *)

\* Every reachable state has its types: the channels stay within their sizes, and only
\* frames that were validated reach the stream and the mirror.
THEOREM TypeCorrect == Spec => []TypeOK
<1>1. IInv => TypeOK
  BY DEF IInv
<1> QED
  BY <1>1, IInvInit, IInvStep, PTL DEF Spec

\* Whatever devices and sessions do while main stops, no session sends on the closed
\* channel of jobs (submitPostAck, Stop).
THEOREM NoPanic == Spec => []NoSendOnClosed
<1>1. IInv => NoSendOnClosed
  BY Order DEF IInv, Phases, NoSendOnClosed, SessionsGone
<1> QED
  BY <1>1, IInvInit, IInvStep, PTL DEF Spec

\* An acknowledged frame is accounted for when the process ends, with any number of
\* sessions and workers (submitPostAck, processPostAck, Stop and the order of main's
\* deferred calls).
THEOREM AckedCorrect == Spec => []AckedKept
<1>1. IInv => AckedKept
  <2> SUFFICES ASSUME IInv, stage = "exit" PROVE acked \subseteq queued \cup full \cup refused
    BY DEF AckedKept, IInv, RefusedCounted
  <2>1. SessionsGone /\ PipersGone
    BY Order DEF IInv, Phases
  <2>2. Submitting = {}
    BY <2>1 DEF SessionsGone, Submitting, None
  <2>3. Piping = {}
    BY <2>1 DEF PipersGone, Piping, Returned
  <2>4. ToSet(jobs) = {}
    <3>1. jobs = <<>>
      BY <2>1, ServerAssumption DEF PipersGone, IInv, PipersDrained
    <3> QED
      BY <3>1, ToSetEmpty
  <2> QED
    BY <2>2, <2>3, <2>4 DEF IInv, AckedSomewhere
<1> QED
  BY <1>1, IInvInit, IInvStep, PTL DEF Spec

\* The mirror loses nothing it was handed, whatever its target, its files and Close do
\* (enqueue, deliver, spill).
THEOREM MirrorCorrect == Spec => []MirrorKept
<1>1. IInv => MirrorKept
  BY DEF IInv
<1> QED
  BY <1>1, IInvInit, IInvStep, PTL DEF Spec

\* Close leaves nothing in the mirror's channel but what late handlers put there (worker,
\* Close, enqueue).
THEOREM DrainCorrect == Spec => []MirrorDrained
<1>1. IInv => MirrorDrained
  <2> SUFFICES ASSUME IInv, stage = "exit"
               PROVE  InForwarder = {} \/ (expired /\ InForwarder \subseteq Requests)
    BY DEF MirrorDrained
  <2>1. PostersGone
    BY Order DEF IInv, Phases
  <2>2. InForwarder = ToSet(ch)
    BY <2>1 DEF PostersGone, InForwarder, Gone
  <2>3. ToSet(ch) \subseteq Requests /\ (ch # <<>> => expired)
    BY <2>1, ForwarderAssumption DEF PostersGone, IInv, PostersDrained
  <2> QED
    BY <2>2, <2>3, ToSetEmpty
<1> QED
  BY <1>1, IInvInit, IInvStep, PTL DEF Spec
=============================================================================
