------------------------------- MODULE Forwarder -------------------------------
(***************************************************************************)
(* internal/hooshnics/forwarder.go: the mirror.  Callers put payloads into *)
(* a buffered channel, or into a file when it is full, and never wait;     *)
(* workers post them with retries and put into a file what they give up.   *)
(* Every action here constrains the forwarder's own variables only; the    *)
(* module that composes it says what else a step does.                     *)
(***************************************************************************)
EXTENDS Integers, Sequences, FiniteSets, SequencesExt

CONSTANTS
  Payloads,        \* what is mirrored, each handed over once
  Posters,         \* the workers: HOOSHNICS_WORKERS
  FwdBuffer,       \* HOOSHNICS_BUFFER_SIZE
  FwdAttempts,     \* maxAttempts of deliver: 5
  MaxDiskFaults    \* bound on spill files that fail or are overwritten

ASSUME ForwarderAssumption ==
  /\ IsFiniteSet(Payloads) /\ Posters # {}
  /\ FwdBuffer \in Nat \ {0} /\ FwdAttempts \in Nat \ {0} /\ MaxDiskFaults \in Nat

VARIABLES
  ch,        \* the channel's buffer
  poster,    \* what each worker does
  done,      \* is the channel done closed?
  handed,    \* history: payloads that ForwardRaw was given
  mirrored,  \* history: payloads answered 2xx
  spilled,   \* payloads that have a spill file
  wrecked    \* history: payloads whose spill file failed or was overwritten

forwarder == <<ch, poster, done, handed, mirrored, spilled, wrecked>>

Free == [at |-> "select"]
Gone == [at |-> "returned"]
Delivery == [at : {"post", "backoff"}, job : Payloads, attempt : 1..FwdAttempts]

ForwarderTypeOK ==
  /\ ch \in Seq(Payloads) /\ Len(ch) <= FwdBuffer
  /\ poster \in [Posters -> {Free, Gone} \cup Delivery]
  /\ done \in BOOLEAN
  /\ handed \subseteq Payloads /\ mirrored \subseteq Payloads
  /\ spilled \subseteq Payloads /\ wrecked \subseteq Payloads

ForwarderInit ==
  /\ ch = <<>> /\ poster = [w \in Posters |-> Free] /\ done = FALSE
  /\ handed = {} /\ mirrored = {} /\ spilled = {} /\ wrecked = {}

\* spill: the file is named by the nanosecond, so a payload that is spilled in the
\* same one takes its place; directory and file may also fail.  Errors are logged.
Spill(p) ==
  \/ spilled' = spilled \cup {p} /\ UNCHANGED wrecked
  \/ /\ Cardinality(wrecked) < MaxDiskFaults
     /\ \E lost \in spilled \cup {p} :
          /\ spilled' = (spilled \cup {p}) \ {lost}
          /\ wrecked' = wrecked \cup {lost}

-----------------------------------------------------------------------------
(* Callers *)

\* Mutation of Forward: a full channel loses the payload.
ForwardOrDrop(p) ==
  /\ handed' = handed \cup {p}
  /\ ch' = IF Len(ch) < FwdBuffer THEN Append(ch, p) ELSE ch
  /\ UNCHANGED <<poster, done, mirrored, spilled, wrecked>>

\* ForwardTeltonikaAVL, ForwardHTTPBody, ForwardRaw: enqueue, which looks at the
\* room in the channel and not at done.
Forward(p) ==
  /\ handed' = handed \cup {p}
  /\ \/ Len(ch) < FwdBuffer /\ ch' = Append(ch, p) /\ UNCHANGED <<spilled, wrecked>>
     \/ Len(ch) >= FwdBuffer /\ Spill(p) /\ UNCHANGED ch
  /\ UNCHANGED <<poster, done, mirrored>>

-----------------------------------------------------------------------------
(* Workers *)

SetPoster(w, what) == poster' = [poster EXCEPT ![w] = what]

\* worker: receive, in the select as well as in the loop that drains.
Take(w) ==
  /\ poster[w] = Free /\ ch # <<>>
  /\ SetPoster(w, [at |-> "post", job |-> Head(ch), attempt |-> 1])
  /\ ch' = Tail(ch)
  /\ UNCHANGED <<done, handed, mirrored, spilled, wrecked>>

\* deliver: 2xx.
Delivered(w) ==
  /\ poster[w].at = "post"
  /\ mirrored' = mirrored \cup {poster[w].job}
  /\ SetPoster(w, Free)
  /\ UNCHANGED <<ch, done, handed, spilled, wrecked>>

\* deliver: spill and go on with the next payload.
SpillOwn(w) ==
  /\ Spill(poster[w].job)
  /\ SetPoster(w, Free)
  /\ UNCHANGED <<ch, done, handed, mirrored>>

\* deliver: a status of 4xx other than 429.
Rejected(w) == poster[w].at = "post" /\ SpillOwn(w)

\* deliver: no answer, or another status; the last attempt spills.
Failed(w) ==
  /\ poster[w].at = "post"
  /\ \/ poster[w].attempt = FwdAttempts /\ SpillOwn(w)
     \/ /\ poster[w].attempt < FwdAttempts
        /\ SetPoster(w, [poster[w] EXCEPT !.at = "backoff"])
        /\ UNCHANGED <<ch, done, handed, mirrored, spilled, wrecked>>

\* Mutation of Retry: attempts are not counted.
RetryUncounted(w) ==
  /\ poster[w].at = "backoff" /\ ~done
  /\ SetPoster(w, [poster[w] EXCEPT !.at = "post"])
  /\ UNCHANGED <<ch, done, handed, mirrored, spilled, wrecked>>

\* deliver: the backoff is over.
Retry(w) ==
  /\ poster[w].at = "backoff" /\ ~done
  /\ SetPoster(w, [poster[w] EXCEPT !.at = "post", !.attempt = @ + 1])
  /\ UNCHANGED <<ch, done, handed, mirrored, spilled, wrecked>>

\* deliver: done is closed during the backoff.
GiveUp(w) == poster[w].at = "backoff" /\ done /\ SpillOwn(w)

\* Mutation of Leave: a worker that sees done returns at once.
LeaveUndrained(w) ==
  /\ poster[w] = Free /\ done
  /\ SetPoster(w, Gone)
  /\ UNCHANGED <<ch, done, handed, mirrored, spilled, wrecked>>

\* worker: done is closed and the channel is empty.
Leave(w) ==
  /\ poster[w] = Free /\ done /\ ch = <<>>
  /\ SetPoster(w, Gone)
  /\ UNCHANGED <<ch, done, handed, mirrored, spilled, wrecked>>

WorkerStep(w) ==
  \/ Take(w) \/ Delivered(w) \/ Rejected(w) \/ Failed(w)
  \/ Retry(w) \/ GiveUp(w) \/ Leave(w)

-----------------------------------------------------------------------------
(* Close *)

CloseForwarder ==
  /\ done' = TRUE
  /\ UNCHANGED <<ch, poster, handed, mirrored, spilled, wrecked>>

PostersGone == \A w \in Posters : poster[w] = Gone

\* What the forwarder still has to deal with.
InForwarder ==
  ToSet(ch) \cup {poster[w].job : w \in {v \in Posters : poster[v].at \in {"post", "backoff"}}}
=============================================================================
