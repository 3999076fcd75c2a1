---------------------------- MODULE TeltonikaServer ----------------------------
(***************************************************************************)
(* internal/teltonika/tcp: sessions read frames from devices, acknowledge  *)
(* them and hand them to a buffered channel without waiting; pipeline      *)
(* workers mirror them and add them to the queue.  Every action here       *)
(* constrains the server's own variables only.                             *)
(***************************************************************************)
EXTENDS Integers, Sequences, FiniteSets, SequencesExt

CONSTANTS
  Sessions,        \* connections that may be open at a time
  Frames,          \* what devices send
  Invalid,         \* the frames that validateFrame refuses
  Short,           \* the frames on which it panics: a record is cut, the CRC is right
  Pipers,          \* pipeline workers: 64
  JobBuffer,       \* size of the channel: 100000
  MaxRedisFaults   \* bound on enqueues that Redis refuses

ASSUME ServerAssumption ==
  /\ Invalid \subseteq Frames /\ Short \subseteq Frames \ Invalid /\ Pipers # {}
  /\ JobBuffer \in Nat \ {0} /\ MaxRedisFaults \in Nat

VARIABLES
  listening,   \* is the listener open?
  cancelled,   \* is runCtx cancelled?
  session,     \* what each session does
  jobs,        \* the channel's buffer
  jobsClosed,  \* is the channel closed?
  piper,       \* what each pipeline worker does
  acked,       \* history: frames the device was told were received
  full,        \* history: frames dropped because the channel was full
  refused      \* history: frames whose enqueue failed

sessions == <<listening, cancelled, session, acked>>
pipeline == <<jobs, jobsClosed, piper, full, refused>>
server == <<sessions, pipeline>>

None == [at |-> "none"]
Idle == [at |-> "receive"]
Returned == [at |-> "returned"]

ServerTypeOK ==
  /\ listening \in BOOLEAN /\ cancelled \in BOOLEAN /\ jobsClosed \in BOOLEAN
  /\ session \in [Sessions ->
       [at : {"none", "handshake", "loop", "read"}]
         \cup [at : {"validate", "submit"}, frame : Frames]]
  /\ jobs \in Seq(Frames) /\ Len(jobs) <= JobBuffer
  /\ piper \in [Pipers ->
       {Idle, Returned} \cup [at : {"mirror", "enqueue"}, frame : Frames]]
  /\ acked \subseteq Frames /\ full \subseteq Frames /\ refused \subseteq Frames

ServerInit ==
  /\ listening = TRUE /\ cancelled = FALSE /\ jobsClosed = FALSE
  /\ session = [s \in Sessions |-> None]
  /\ jobs = <<>> /\ piper = [w \in Pipers |-> Idle]
  /\ acked = {} /\ full = {} /\ refused = {}

-----------------------------------------------------------------------------
(* Sessions *)

Goto(s, what) == session' = [session EXCEPT ![s] = what]

\* Start: the accept loop, which ends when the listener is closed.
Accept(s) ==
  /\ listening /\ session[s] = None
  /\ Goto(s, [at |-> "handshake"])
  /\ UNCHANGED <<listening, cancelled, acked, pipeline>>

\* run: the IMEI is read and allowed.
Handshake(s) ==
  /\ session[s].at = "handshake"
  /\ Goto(s, [at |-> "loop"])
  /\ UNCHANGED <<listening, cancelled, acked, pipeline>>

\* Mutation of Check: sessions do not look at the context.
CheckNothing(s) ==
  /\ session[s].at = "loop"
  /\ Goto(s, [at |-> "read"])
  /\ UNCHANGED <<listening, cancelled, acked, pipeline>>

\* run: the select at the top of the loop.
Check(s) ==
  /\ session[s].at = "loop"
  /\ Goto(s, IF cancelled THEN None ELSE [at |-> "read"])
  /\ UNCHANGED <<listening, cancelled, acked, pipeline>>

\* readFrame; a device sends again what was not acknowledged, and nothing else.
ReadFrame(s, f) ==
  /\ session[s].at = "read"
  /\ f \notin acked /\ \A r \in Sessions : session[r] # [at |-> "validate", frame |-> f]
  /\ Goto(s, [at |-> "validate", frame |-> f])
  /\ UNCHANGED <<listening, cancelled, acked, pipeline>>

\* validateFrame and writeAck: the number of records, or 0 and no job.
Ack(s) ==
  /\ session[s].at = "validate" /\ session[s].frame \notin Short
  /\ LET f == session[s].frame IN
     IF f \in Invalid
     THEN Goto(s, [at |-> "loop"]) /\ UNCHANGED acked
     ELSE Goto(s, [at |-> "submit", frame |-> f]) /\ acked' = acked \cup {f}
  /\ UNCHANGED <<listening, cancelled, pipeline>>

\* validateFrame: ParsePacket panics, and nothing in the session recovers.
Panics(s) ==
  /\ session[s].at = "validate" /\ session[s].frame \in Short
  /\ UNCHANGED server

\* run returns: the peer is gone, a deadline of 120 s or 10 s is over, the IMEI is
\* not allowed, the header is malformed, or the acknowledgement cannot be written.
Disconnect(s) ==
  /\ \/ session[s].at \in {"handshake", "read"}
     \/ session[s].at = "validate" /\ session[s].frame \notin Short
  /\ Goto(s, None)
  /\ UNCHANGED <<listening, cancelled, acked, pipeline>>

\* Mutation of Submit: the size of the channel is not looked at.
SubmitUnbounded(s) ==
  /\ session[s].at = "submit"
  /\ jobs' = Append(jobs, session[s].frame)
  /\ Goto(s, [at |-> "loop"])
  /\ UNCHANGED <<listening, cancelled, acked, jobsClosed, piper, full, refused>>

\* submitPostAck: a full channel drops the frame.
Submit(s) ==
  /\ session[s].at = "submit"
  /\ LET f == session[s].frame IN
     IF Len(jobs) < JobBuffer
     THEN jobs' = Append(jobs, f) /\ UNCHANGED full
     ELSE full' = full \cup {f} /\ UNCHANGED jobs
  /\ Goto(s, [at |-> "loop"])
  /\ UNCHANGED <<listening, cancelled, acked, jobsClosed, piper, refused>>

-----------------------------------------------------------------------------
(* Pipeline workers *)

SetPiper(w, what) == piper' = [piper EXCEPT ![w] = what]

\* pipelineWorker: the next job.
Receive(w) ==
  /\ piper[w] = Idle /\ jobs # <<>>
  /\ SetPiper(w, [at |-> "mirror", frame |-> Head(jobs)])
  /\ jobs' = Tail(jobs)
  /\ UNCHANGED <<sessions, jobsClosed, full, refused>>

\* processPostAck: mirror.ForwardTeltonikaAVL has returned.
MirrorDone(w) ==
  /\ piper[w].at = "mirror"
  /\ SetPiper(w, [piper[w] EXCEPT !.at = "enqueue"])
  /\ UNCHANGED <<sessions, jobs, jobsClosed, full, refused>>

\* processPostAck: queue.Enqueue has returned.
EnqueueDone(w) ==
  /\ piper[w].at = "enqueue"
  /\ SetPiper(w, Idle)
  /\ UNCHANGED <<sessions, jobs, jobsClosed, full, refused>>

\* ... with an error, which is only logged.
EnqueueRefused(w) ==
  /\ piper[w].at = "enqueue"
  /\ refused' = refused \cup {piper[w].frame}
  /\ SetPiper(w, Idle)
  /\ UNCHANGED <<sessions, jobs, jobsClosed, full>>

\* Mutation of PiperReturns: a worker does not empty the closed channel.
PiperReturnsEarly(w) ==
  /\ piper[w] = Idle /\ jobsClosed
  /\ SetPiper(w, Returned)
  /\ UNCHANGED <<sessions, jobs, jobsClosed, full, refused>>

\* pipelineWorker: the channel is closed and empty.
PiperReturns(w) ==
  /\ piper[w] = Idle /\ jobsClosed /\ jobs = <<>>
  /\ SetPiper(w, Returned)
  /\ UNCHANGED <<sessions, jobs, jobsClosed, full, refused>>

-----------------------------------------------------------------------------
(* Stop *)

CancelSessions ==
  /\ cancelled' = TRUE
  /\ UNCHANGED <<listening, session, acked, pipeline>>

CloseListener ==
  /\ listening' = FALSE
  /\ UNCHANGED <<cancelled, session, acked, pipeline>>

SessionsGone == \A s \in Sessions : session[s] = None

\* stopPipeline
CloseJobs ==
  /\ jobsClosed' = TRUE
  /\ UNCHANGED <<sessions, jobs, piper, full, refused>>

PipersGone == \A w \in Pipers : piper[w] = Returned
=============================================================================
