------------------------------ MODULE AsyncWriter ------------------------------
(***************************************************************************)
(* internal/storage/async_writer.go: message handlers hand their rows to a *)
(* buffered channel, or, when it is full, to a goroutine that waits for    *)
(* room; one writer goroutine stores them in PostgreSQL.  At shutdown main *)
(* (cmd/server/main.go) stops the handlers and then runs its deferred      *)
(* calls, last one first: the store is closed before the writer.           *)
(***************************************************************************)
EXTENDS Integers, Sequences, FiniteSets, SequencesExt

CONSTANTS
  Ops,        \* the writes that handlers hand over, each once
  Capacity,   \* size of the channel: 10000
  MaxFaults   \* bound on writes that PostgreSQL refuses

ASSUME WriterAssumption ==
  /\ IsFiniteSet(Ops)
  /\ Capacity \in Nat \ {0} /\ MaxFaults \in Nat

VARIABLES
  queue,     \* the channel's buffer
  spawned,   \* overflow goroutines that have not reached their select
  parked,    \* overflow goroutines waiting in it, first come first
  writing,   \* what the writer has received and not yet finished, at most one
  begun,     \* has its transaction begun?
  running,   \* has the writer goroutine not returned?
  open,      \* is the store (sql.DB) open?
  stage,     \* where main is
  panicked,  \* did a goroutine send on the closed channel?
  handed,    \* history: the writes that handlers handed over
  ended,     \* history: how each write ended
  faults

channel == <<queue, spawned, parked>>
writer == <<writing, begun, running>>
vars == <<channel, writer, open, stage, panicked, handed, ended, faults>>

Stages == {"serve", "stop", "storeClose", "cancel", "close", "wait", "exit"}

Waiting == spawned \cup ToSet(parked)
Accepted == ToSet(queue) \cup writing

TypeOK ==
  /\ queue \in Seq(Ops) /\ Len(queue) <= Capacity
  /\ spawned \subseteq Ops /\ parked \in Seq(Ops)
  /\ writing \subseteq Ops /\ Cardinality(writing) <= 1
  /\ begun \in BOOLEAN /\ running \in BOOLEAN /\ open \in BOOLEAN
  /\ stage \in Stages /\ panicked \in BOOLEAN /\ handed \subseteq Ops
  /\ ended \in [Ops -> {"no", "stored", "refused", "storeClosed", "dropped"}]
  /\ faults \in 0..MaxFaults

Init ==
  /\ queue = <<>> /\ spawned = {} /\ parked = <<>>
  /\ writing = {} /\ begun = FALSE /\ running = TRUE
  /\ open = TRUE /\ stage = "serve" /\ panicked = FALSE
  /\ handed = {}
  /\ ended = [o \in Ops |-> "no"]
  /\ faults = 0

Cancelled == stage \in {"close", "wait", "exit"}   \* w.cancel() has been called
Closed == stage \in {"wait", "exit"}               \* close(w.ch) has been called
Room == Len(queue) < Capacity

End(os, how) == ended' = [o \in Ops |-> IF o \in os THEN how ELSE ended[o]]

-----------------------------------------------------------------------------
(* Handlers and overflow goroutines *)

\* Mutation of Enqueue: the size of the channel is not looked at.
EnqueueUnbounded(o) ==
  /\ o \notin handed /\ stage \in {"serve", "stop"}
  /\ handed' = handed \cup {o}
  /\ queue' = Append(queue, o)
  /\ UNCHANGED <<spawned, parked, writer, open, stage, panicked, ended, faults>>

\* Mutation of Enqueue: a full channel loses the write.
EnqueueOrLose(o) ==
  /\ o \notin handed /\ stage \in {"serve", "stop"}
  /\ handed' = handed \cup {o}
  /\ IF Room THEN queue' = Append(queue, o) ELSE UNCHANGED queue
  /\ UNCHANGED <<spawned, parked, writer, open, stage, panicked, ended, faults>>

\* enqueueSuccessOrFailed, enqueueInvalid, as long as handlers run.
Enqueue(o) ==
  /\ o \notin handed /\ stage \in {"serve", "stop"}
  /\ handed' = handed \cup {o}
  /\ IF Room THEN queue' = Append(queue, o) /\ UNCHANGED spawned
             ELSE spawned' = spawned \cup {o} /\ UNCHANGED queue
  /\ UNCHANGED <<parked, writer, open, stage, panicked, ended, faults>>

\* The goroutine's select: any case that is ready may be taken, a send on a closed
\* channel is ready and panics, and without a ready case the goroutine waits.
Select(o) ==
  /\ o \in spawned
  /\ spawned' = spawned \ {o}
  /\ \/ Closed /\ panicked' = TRUE /\ UNCHANGED <<queue, parked, ended>>
     \/ ~Closed /\ Room /\ queue' = Append(queue, o)
        /\ UNCHANGED <<parked, panicked, ended>>
     \/ Cancelled /\ End({o}, "dropped") /\ UNCHANGED <<queue, parked, panicked>>
     \/ ~Cancelled /\ ~Room /\ parked' = Append(parked, o)
        /\ UNCHANGED <<queue, panicked, ended>>
  /\ UNCHANGED <<writer, open, stage, faults, handed>>

-----------------------------------------------------------------------------
(* The writer goroutine *)

\* run: the next write; the first goroutine that waits moves up into the buffer.
Receive ==
  /\ running /\ writing = {} /\ queue # <<>>
  /\ writing' = {Head(queue)}
  /\ \/ parked = <<>> /\ queue' = Tail(queue) /\ UNCHANGED parked
     \/ parked # <<>> /\ queue' = Append(Tail(queue), Head(parked)) /\ parked' = Tail(parked)
  /\ UNCHANGED <<spawned, begun, running, open, stage, panicked, ended, faults, handed>>

\* process: StoreRecords, StoreFailedRecords or StoreInvalidRecords calls BeginTx.
Begin ==
  /\ writing # {} /\ ~begun /\ open
  /\ begun' = TRUE
  /\ UNCHANGED <<channel, writing, running, open, stage, panicked, ended, faults, handed>>

EndWriting(how) ==
  /\ End(writing, how)
  /\ writing' = {} /\ begun' = FALSE

\* The rows are inserted and committed; closing the store does not disturb a
\* transaction that has begun.
Commit ==
  /\ writing # {} /\ begun
  /\ EndWriting("stored")
  /\ UNCHANGED <<channel, running, open, stage, panicked, faults, handed>>

\* Mutation of Refused: the writer goroutine returns at an error.
RefusedReturn ==
  /\ writing # {} /\ (begun \/ open) /\ faults < MaxFaults
  /\ EndWriting("refused")
  /\ faults' = faults + 1
  /\ running' = FALSE
  /\ UNCHANGED <<channel, open, stage, panicked, handed>>

\* PostgreSQL refuses the transaction or 10 s are over; the error is only logged.
Refused ==
  /\ writing # {} /\ (begun \/ open) /\ faults < MaxFaults
  /\ EndWriting("refused")
  /\ faults' = faults + 1
  /\ UNCHANGED <<channel, running, open, stage, panicked, handed>>

\* BeginTx on a closed store fails; the error is only logged.
StoreIsClosed ==
  /\ writing # {} /\ ~begun /\ ~open
  /\ EndWriting("storeClosed")
  /\ UNCHANGED <<channel, running, open, stage, panicked, faults, handed>>

\* Mutation of Return: the writer stops at the cancellation.
ReturnAtCancel ==
  /\ running /\ writing = {} /\ Cancelled
  /\ running' = FALSE
  /\ UNCHANGED <<channel, writing, begun, open, stage, panicked, ended, faults, handed>>

\* run: the channel is closed and empty.
Return ==
  /\ running /\ writing = {} /\ Closed /\ queue = <<>>
  /\ running' = FALSE
  /\ UNCHANGED <<channel, writing, begun, open, stage, panicked, ended, faults, handed>>

-----------------------------------------------------------------------------
(* main *)

\* A signal: consumer.Stop begins ...
Signal ==
  /\ stage = "serve" /\ stage' = "stop"
  /\ UNCHANGED <<channel, writer, open, panicked, ended, faults, handed>>

\* ... and returns when no handler runs any more; then the HTTP and the TCP server.
HandlersStopped ==
  /\ stage = "stop" /\ stage' = "storeClose"
  /\ UNCHANGED <<channel, writer, open, panicked, ended, faults, handed>>

\* postgresStore.Close, the defer registered last.
StoreClose ==
  /\ stage = "storeClose" /\ stage' = "cancel"
  /\ open' = FALSE
  /\ UNCHANGED <<channel, writer, panicked, ended, faults, handed>>

\* postgresWriter.Close: cancel; who waits in the select leaves by ctx.Done ...
Cancel ==
  /\ stage = "cancel" /\ stage' = "close"
  /\ End(ToSet(parked), "dropped") /\ parked' = <<>>
  /\ UNCHANGED <<queue, spawned, writer, open, panicked, faults, handed>>

\* ... close the channel ...
CloseChannel ==
  /\ stage = "close" /\ stage' = "wait"
  /\ UNCHANGED <<channel, writer, open, panicked, ended, faults, handed>>

\* ... and wait for the writer; main goes on to its end.
WaitWriter ==
  /\ stage = "wait" /\ ~running /\ stage' = "exit"
  /\ UNCHANGED <<channel, writer, open, panicked, ended, faults, handed>>

Alive == stage # "exit" /\ ~panicked

Shutdown ==
  HandlersStopped \/ StoreClose \/ Cancel \/ CloseChannel \/ WaitWriter

Writer ==
  Receive \/ Begin \/ Commit \/ Refused \/ StoreIsClosed \/ Return

Next ==
  Alive /\ (Signal \/ Shutdown \/ Writer \/ \E o \in Ops : Enqueue(o) \/ Select(o))

Spec == Init /\ [][Next]_vars

\* Goroutines keep running; no signal need ever come.
FairSpec ==
  /\ Spec
  /\ WF_vars(Alive /\ Writer)
  /\ \A o \in Ops : WF_vars(Alive /\ Select(o))
  /\ WF_vars(Alive /\ Shutdown)

-----------------------------------------------------------------------------
(* Properties *)

\* No write that was handed over gets lost between handler, goroutine, channel and
\* writer, nor is one in two places: unless a goroutine has panicked it waits, is in the
\* channel, is being written or has ended, through Close as well; and none is given up
\* before Close cancels (Enqueue, run, Close).
Conserved ==
  /\ ~panicked => handed = Waiting \cup Accepted \cup {o \in Ops : ended[o] # "no"}
  /\ Cardinality(Waiting) = Cardinality(spawned) + Len(parked)
  /\ Waiting \cap Accepted = {} /\ ToSet(queue) \cap writing = {}
  /\ Cardinality(ToSet(queue)) = Len(queue)
  /\ \A o \in Waiting \cup Accepted : ended[o] = "no"
  /\ ~Cancelled => \A o \in Ops : ended[o] # "dropped"

\* Close drains the channel: when main has come to its end every write that was
\* accepted has been tried, also one that a goroutine sent between cancel and
\* close (async_writer.go: Close, run).
CloseDrains == stage = "exit" => Accepted = {}

\* As long as the process runs, a write handed over is eventually tried (run).
Tried == \A o \in Ops :
  o \in Waiting \cup Accepted ~> ended[o] # "no" \/ panicked \/ stage = "exit"

\* "Close stops the writer and waits for in-flight writes to finish"
\* (async_writer.go:155): none of them finds the store closed.
CloseFinishesWrites == \A o \in Ops : ended[o] # "storeClosed"
=============================================================================
