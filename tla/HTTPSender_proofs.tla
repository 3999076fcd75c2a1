--------------------------- MODULE HTTPSender_proofs ----------------------------
(***************************************************************************)
(* Proofs about HTTPSender for every number of servers, callers, attempts  *)
(* and delays: what concurrent calls of Send that share the round-robin    *)
(* counter and the table of pauses can rely on.                            *)
(***************************************************************************)
EXTENDS HTTPSender, TLAPS

-----------------------------------------------------------------------------
(* The inductive invariant *)

\* The steps of a call inside its loop, and those that follow a candidate.
Attempting == {"scan", "check", "post", "pause", "backoff"}
Chosen == {"check", "post", "pause", "backoff"}

\* The loop variable of a call in the loop is within the attempts, and an attempt
\* that has a target has looked at a server.
LoopBounded(s) ==
  /\ pc[s] \in Attempting => attempt[s] <= MaxAttempts
  /\ pc[s] \in Chosen => scanned[s] >= 1

\* A 429 is remembered once the pause is set, until the call ends.
Remembered(s) ==
  /\ pc[s] \in Steps /\ hit429[s] => rateLimited[s] \/ pc[s] = "pause"
  /\ pc[s] = "exhausted" => ~hit429[s]

\* A healthy server is never paused.
NeverPaused ==
  /\ \A v \in Healthy : pausedUntil[v] = 0
  /\ \A s \in Senders : pc[s] = "pause" => target[s] \notin Healthy

\* The server that was taken j takes ago, all takes counted.
Back(j) == Before(counter, j)

\* What a call has taken at least: one server in each earlier attempt.
Taken(s) == attempt[s] - 1 + scanned[s]

\* The last servers taken, at least as many as the call has taken itself, were taken
\* by it or by one that crossed it.
Rotating(s) ==
  /\ pc[s] \in Attempting =>
       \A j \in 1..NumServers : j <= Taken(s) => Back(j) \in tried[s] \cup crossed[s]
  /\ pc[s] \in {"finish", "rateLimited", "exhausted"} => Rotated(s)

\* A healthy server that was taken is the one being tried, or ends the call, unless
\* the ctx ended or the limiter refused.
Honest(s) ==
  \A v \in tried[s] \cap Healthy :
    \/ ctxDone[s] \/ refused[s] \/ pc[s] = "ok"
    \/ pc[s] \in {"check", "post"} /\ target[s] = v

CallInv(s) == LoopBounded(s) /\ Remembered(s) /\ Rotating(s) /\ Honest(s)

IInv == TypeOK /\ NeverPaused /\ \A s \in Senders : CallInv(s)

-----------------------------------------------------------------------------
(* The round robin *)

LEMMA NumServersType == NumServers \in Nat \ {0} /\ MaxAttempts \in Nat /\ Healthy \subseteq Servers
BY SenderAssumption

\* The counter goes round.
LEMMA CounterNext ==
  ASSUME NEW c \in Servers
  PROVE  (c + 1) % NumServers = IF c + 1 = NumServers THEN 0 ELSE c + 1
BY NumServersType DEF Servers

\* A take makes the server taken the last one, and every other one older.
LEMMA BackNext ==
  ASSUME counter \in Servers, counter' = (counter + 1) % NumServers
  PROVE  /\ counter' \in Servers
         /\ Back(1)' = counter
         /\ \A j \in 2..NumServers : Back(j)' = Back(j - 1)
<1>1. counter' = IF counter + 1 = NumServers THEN 0 ELSE counter + 1
  BY CounterNext
<1> QED
  BY <1>1, NumServersType DEF Back, Before, Servers

\* A call that has used its attempts, or taken every server, leaves none out.
LEMMA AllTaken ==
  ASSUME TypeOK, NEW s \in Senders, Rotating(s), pc[s] \in Attempting,
         Taken(s) >= NumServers \/ Taken(s) >= MaxAttempts
  PROVE  Rotated(s)
<1>1. NumServers \in Nat /\ MaxAttempts \in Nat /\ Taken(s) \in Int /\ counter \in Servers
  BY NumServersType DEF TypeOK, Taken
<1>2. \A j \in 1..NumServers :
        j <= MaxAttempts => Before(counter, j) \in tried[s] \cup crossed[s]
  BY <1>1 DEF Rotating, Back
<1> QED
  BY <1>1, <1>2 DEF Rotated

-----------------------------------------------------------------------------
(* Type correctness *)

LEMMA TypeInit == Init => TypeOK
<1> SUFFICES ASSUME Init PROVE TypeOK
  OBVIOUS
<1>1. counter \in Servers /\ 0 \in Servers /\ now \in 0..MaxClock
  BY SenderAssumption DEF Init, Servers
<1>2. 1 \in 1..(MaxAttempts + 1) /\ 0 \in 0..NumServers
  BY SenderAssumption
<1> QED
  BY <1>1, <1>2 DEF Init, TypeOK

LEMMA TypeStep ==
  ASSUME TypeOK, \A s \in Senders : LoopBounded(s), [Next]_vars PROVE TypeOK'
<1> USE DEF call, history, Goto, Results, Steps
<1> USE SenderAssumption
<1>1. ASSUME NEW s \in Senders, Call(s) PROVE TypeOK'
  <2>1. 1 \in 1..(MaxAttempts + 1) /\ 0 \in 0..NumServers
    OBVIOUS
  <2>2. tried' \in [Senders -> SUBSET Servers] /\ crossed' \in [Senders -> SUBSET Servers]
    BY <1>1 DEF TypeOK, Call
  <2> QED
    BY <1>1, <2>1, <2>2 DEF TypeOK, Call
<1>2. ASSUME NEW s \in Senders, NextServer(s) PROVE TypeOK'
  <2>1. counter' \in Servers /\ counter \in Servers
    BY <1>2, BackNext DEF NextServer, Take, TypeOK
  <2>2. scanned[s] + 1 \in 0..NumServers
    BY <1>2 DEF TypeOK, NextServer, Take
  <2>3. target' \in [Senders -> Servers] /\ scanned' \in [Senders -> 0..NumServers]
    BY <1>2, <2>1, <2>2 DEF TypeOK, NextServer, Take
  <2>4. tried' \in [Senders -> SUBSET Servers] /\ crossed' \in [Senders -> SUBSET Servers]
    BY <1>2, <2>1 DEF TypeOK, NextServer, Take
  <2> QED
    BY <1>2, <2>1, <2>3, <2>4 DEF TypeOK, NextServer, Take
<1>3. ASSUME NEW s \in Senders, CheckPaused(s) \/ NoneAvailable(s) \/ Accepted(s) \/ Failed(s)
                                 \/ WaitRefused(s) \/ Cancelled(s) \/ Finish(s)
      PROVE  TypeOK'
  BY <1>3 DEF TypeOK, CheckPaused, NoneAvailable, Accepted, Failed, WaitRefused, Cancelled, Finish
<1>4. ASSUME NEW s \in Senders, TooManyRequests(s) PROVE TypeOK'
  <2>1. until' \in [Senders -> Nat]
    BY <1>4 DEF TypeOK, TooManyRequests
  <2> QED
    BY <1>4, <2>1 DEF TypeOK, TooManyRequests
<1>5. ASSUME NEW s \in Senders, NextAttempt(s), pc[s] \in Attempting
      PROVE  /\ attempt' \in [Senders -> 1..(MaxAttempts + 1)]
             /\ scanned' \in [Senders -> 0..NumServers]
             /\ pc' \in [Senders -> {"idle"} \cup Steps \cup Results]
  <2>1. attempt[s] + 1 \in 1..(MaxAttempts + 1) /\ 0 \in 0..NumServers
    BY <1>5 DEF TypeOK, LoopBounded
  <2> QED
    BY <1>5, <2>1 DEF TypeOK, NextAttempt
<1>6. ASSUME NEW s \in Senders, PauseServer(s) PROVE TypeOK'
  <2>1. pausedUntil' \in [Servers -> Nat] /\ until' \in [Senders -> Nat]
    BY <1>6 DEF TypeOK, PauseServer
  <2>2. NextAttempt(s) /\ pc[s] \in Attempting
    BY <1>6 DEF PauseServer, Attempting
  <2> QED
    BY <1>5, <1>6, <2>1, <2>2 DEF TypeOK, PauseServer
<1>7. ASSUME NEW s \in Senders, BackedOff(s) PROVE TypeOK'
  <2>1. NextAttempt(s) /\ pc[s] \in Attempting
    BY <1>7 DEF BackedOff, Attempting
  <2> QED
    BY <1>5, <1>7, <2>1 DEF TypeOK, BackedOff
<1>8. ASSUME NEW s \in Senders, Expire(s) PROVE TypeOK'
  BY <1>8 DEF TypeOK, Expire
<1>9. CASE Tick
  BY <1>9 DEF TypeOK, Tick
<1>10. CASE UNCHANGED vars
  BY <1>10 DEF TypeOK, vars
<1> QED
  BY <1>1, <1>2, <1>3, <1>4, <1>6, <1>7, <1>8, <1>9, <1>10 DEF Next, Step

-----------------------------------------------------------------------------
(* Pauses *)

\* A pause that is set replaces none that lasts longer.
LEMMA PauseStep ==
  ASSUME TypeOK, [Next]_vars PROVE \A v \in Servers : pausedUntil'[v] >= pausedUntil[v]
<1>1. pausedUntil \in [Servers -> Nat] /\ until \in [Senders -> Nat]
  BY DEF TypeOK
<1>2. ASSUME NEW s \in Senders, PauseServer(s)
      PROVE  \A v \in Servers : pausedUntil'[v] >= pausedUntil[v]
  BY <1>1, <1>2 DEF PauseServer, TypeOK
<1>3. CASE UNCHANGED pausedUntil
  BY <1>1, <1>3
<1> QED
  BY <1>2, <1>3 DEF Next, Step, vars, Call, NextServer, Take, CheckPaused, NoneAvailable, Accepted,
     TooManyRequests, Failed, WaitRefused, BackedOff, Cancelled, Finish, Expire, Tick

LEMMA NeverPausedStep == ASSUME TypeOK, NeverPaused, [Next]_vars PROVE NeverPaused'
<1> USE DEF Goto
<1>1. pc \in [Senders -> {"idle"} \cup Steps \cup Results] /\ Healthy \subseteq Servers
  BY NumServersType DEF TypeOK
<1>2. ASSUME NEW s \in Senders, PauseServer(s) PROVE NeverPaused'
  <2>1. target[s] \notin Healthy /\ target' = target
    BY <1>2 DEF PauseServer, NeverPaused
  <2>2. pausedUntil' = [pausedUntil EXCEPT ![target[s]] =
                          IF until[s] > @ THEN until[s] ELSE @]
    BY <1>2 DEF PauseServer
  <2>3. \A v \in Healthy : pausedUntil'[v] = 0
    BY <1>1, <2>1, <2>2 DEF NeverPaused, TypeOK
  <2>4. \A t \in Senders : pc'[t] = "pause" => pc[t] = "pause"
    BY <1>1, <1>2 DEF PauseServer, NextAttempt
  <2> QED
    BY <2>1, <2>3, <2>4 DEF NeverPaused
<1>3. ASSUME NEW s \in Senders, TooManyRequests(s) PROVE NeverPaused'
  BY <1>1, <1>3 DEF TooManyRequests, NeverPaused
<1>4. ASSUME NEW s \in Senders, NextServer(s) PROVE NeverPaused'
  <2>1. pausedUntil' = pausedUntil /\ target' = [target EXCEPT ![s] = counter]
        /\ pc' = [pc EXCEPT ![s] = "check"]
    BY <1>4 DEF NextServer, Take
  <2>2. \A t \in Senders : pc'[t] = "pause" => pc[t] = "pause" /\ target'[t] = target[t]
    BY <1>1, <2>1 DEF TypeOK
  <2> QED
    BY <2>1, <2>2 DEF NeverPaused
<1>5. ASSUME NEW s \in Senders, Call(s) \/ CheckPaused(s) \/ NoneAvailable(s) \/ Accepted(s)
                                 \/ Failed(s) \/ WaitRefused(s) \/ BackedOff(s) \/ Cancelled(s)
                                 \/ Finish(s)
      PROVE  NeverPaused'
  <2>1. pausedUntil' = pausedUntil /\ target' = target
    BY <1>5 DEF Call, CheckPaused, NoneAvailable, Accepted, Failed, WaitRefused, BackedOff,
       Cancelled, Finish, call
  <2>2. \A t \in Senders : pc'[t] = "pause" => pc[t] = "pause"
    BY <1>1, <1>5 DEF Call, CheckPaused, NoneAvailable, Accepted, Failed, WaitRefused, BackedOff,
       Cancelled, Finish, NextAttempt
  <2> QED
    BY <2>1, <2>2 DEF NeverPaused
<1>6. CASE UNCHANGED <<pausedUntil, pc, target>>
  BY <1>6 DEF NeverPaused
<1> QED
  BY <1>2, <1>3, <1>4, <1>5, <1>6 DEF Next, Step, vars, Expire, Tick, call
-----------------------------------------------------------------------------
(* Calls *)

\* A call that does not move, and is crossed if another one takes a server.
LEMMA OtherCall ==
  ASSUME TypeOK, NEW t \in Senders, CallInv(t),
         pc'[t] = pc[t], attempt'[t] = attempt[t], scanned'[t] = scanned[t],
         target'[t] = target[t], rateLimited'[t] = rateLimited[t], hit429'[t] = hit429[t],
         refused'[t] = refused[t], tried'[t] = tried[t], crossed[t] \subseteq crossed'[t],
         ~ctxDone'[t] => ~ctxDone[t],
         \/ counter' = counter
         \/ /\ counter' = (counter + 1) % NumServers
            /\ pc[t] \in Steps => counter \in crossed'[t]
  PROVE  CallInv(t)'
<1>1. LoopBounded(t)' /\ Remembered(t)' /\ Honest(t)'
  BY DEF CallInv, LoopBounded, Remembered, Honest
<1>2. Rotated(t) => Rotated(t)'
  BY DEF Rotated
<1>3. ASSUME pc[t] \in Attempting, NEW j \in 1..NumServers, j <= Taken(t)
      PROVE  Back(j)' \in tried'[t] \cup crossed'[t]
  <2>1. CASE counter' = counter
    BY <1>3, <2>1 DEF CallInv, Rotating, Back
  <2>2. CASE counter' = (counter + 1) % NumServers /\ counter \in crossed'[t]
    <3>1. counter \in Servers /\ Taken(t) \in Int /\ NumServers \in Nat
      BY NumServersType DEF TypeOK, Taken
    <3>2. CASE j = 1
      BY <2>2, <3>1, <3>2, BackNext
    <3>3. CASE j # 1
      <4>1. j \in 2..NumServers /\ j - 1 \in 1..NumServers /\ j - 1 <= Taken(t)
        BY <1>3, <3>1, <3>3
      <4>2. Back(j)' = Back(j - 1)
        BY <2>2, <3>1, <4>1, BackNext
      <4> QED
        BY <1>3, <4>1, <4>2 DEF CallInv, Rotating
    <3> QED
      BY <3>2, <3>3
  <2> QED
    BY <1>3, <2>1, <2>2 DEF Attempting, Steps
<1>4. Taken(t)' = Taken(t)
  BY DEF Taken
<1>5. Rotating(t)'
  BY <1>2, <1>3, <1>4 DEF CallInv, Rotating
<1> QED
  BY <1>1, <1>5 DEF CallInv

LEMMA NextServerCall ==
  ASSUME IInv, NEW s \in Senders, NextServer(s) PROVE CallInv(s)'
<1>1. TypeOK /\ CallInv(s) /\ counter \in Servers /\ NumServers \in Nat /\ MaxAttempts \in Nat
  BY NumServersType DEF IInv, TypeOK
<1>2. /\ pc[s] = "scan" /\ pc'[s] = "check" /\ scanned'[s] = scanned[s] + 1
      /\ attempt'[s] = attempt[s] /\ target'[s] = counter /\ crossed'[s] = crossed[s]
      /\ tried'[s] = tried[s] \cup {counter} /\ refused'[s] = refused[s]
      /\ rateLimited'[s] = rateLimited[s] /\ hit429'[s] = hit429[s] /\ ctxDone'[s] = ctxDone[s]
      /\ counter' = (counter + 1) % NumServers
  BY <1>1 DEF NextServer, Take, Goto, TypeOK
<1>3. /\ attempt[s] \in Nat /\ scanned[s] \in Nat
  BY <1>1 DEF TypeOK
<1>4. LoopBounded(s)' /\ Remembered(s)'
  BY <1>1, <1>2, <1>3 DEF CallInv, LoopBounded, Remembered, Attempting, Chosen, Steps
<1>5. Honest(s)'
  BY <1>1, <1>2 DEF CallInv, Honest
<1>6. ASSUME NEW j \in 1..NumServers, j <= Taken(s)' PROVE Back(j)' \in tried'[s] \cup crossed'[s]
  <2>1. CASE j = 1
    BY <1>1, <1>2, <2>1, BackNext
  <2>2. CASE j # 1
    <3>1. j \in 2..NumServers /\ j - 1 \in 1..NumServers /\ j - 1 <= Taken(s)
      BY <1>1, <1>2, <1>3, <1>6, <2>2 DEF Taken
    <3>2. Back(j)' = Back(j - 1)
      BY <1>1, <1>2, <3>1, BackNext
    <3> QED
      BY <1>1, <1>2, <3>1, <3>2 DEF CallInv, Rotating, Attempting
  <2> QED
    BY <2>1, <2>2
<1>7. Rotating(s)'
  BY <1>2, <1>6 DEF Rotating
<1> QED
  BY <1>4, <1>5, <1>7 DEF CallInv

\* The next attempt, or the end of the loop, after a target that is not healthy.
LEMMA NextAttemptCall ==
  ASSUME IInv, NEW s \in Senders, pc[s] \in {"pause", "backoff"}, NextAttempt(s),
         UNCHANGED <<counter, target, ctxDone, history>>,
         rateLimited'[s] = (rateLimited[s] \/ pc[s] = "pause")
  PROVE  CallInv(s)'
<1>1. /\ TypeOK /\ CallInv(s) /\ NumServers \in Nat \ {0} /\ MaxAttempts \in Nat
      /\ attempt[s] \in Nat /\ scanned[s] \in Nat /\ pc[s] \in Attempting /\ pc[s] \in Chosen
      /\ pc[s] \in Steps
  BY NumServersType DEF IInv, TypeOK, Attempting, Chosen, Steps
<1>2. /\ attempt'[s] = attempt[s] + 1 /\ scanned'[s] = 0
      /\ pc'[s] = (IF attempt[s] < MaxAttempts THEN "scan" ELSE "finish")
  BY <1>1 DEF NextAttempt, Goto, TypeOK
<1>3. scanned[s] >= 1 /\ attempt[s] <= MaxAttempts
  BY <1>1 DEF CallInv, LoopBounded
<1>4. LoopBounded(s)'
  BY <1>1, <1>2 DEF LoopBounded, Attempting, Chosen
<1>5. Remembered(s)' /\ Honest(s)'
  BY <1>1, <1>2 DEF CallInv, Remembered, Honest, history
<1>6. \A j \in 1..NumServers : j <= Taken(s)' => Back(j)' \in tried'[s] \cup crossed'[s]
  <2> SUFFICES ASSUME NEW j \in 1..NumServers, j <= Taken(s)'
               PROVE  Back(j)' \in tried'[s] \cup crossed'[s]
    OBVIOUS
  <2>1. Back(j)' = Back(j) /\ j <= Taken(s)
    BY <1>1, <1>2, <1>3 DEF Taken, Back, Before
  <2> QED
    BY <1>1, <2>1 DEF CallInv, Rotating, history
<1>7. pc'[s] = "finish" => Rotated(s)'
  <2> SUFFICES ASSUME pc'[s] = "finish" PROVE Rotated(s)'
    OBVIOUS
  <2>1. Taken(s) >= MaxAttempts
    BY <1>1, <1>2, <1>3 DEF Taken
  <2>2. Rotated(s)
    BY <1>1, <2>1, AllTaken DEF CallInv
  <2> QED
    BY <2>2 DEF Rotated, history
<1> QED
  BY <1>2, <1>4, <1>5, <1>6, <1>7 DEF CallInv, Rotating

\* An attempt that failed is followed by the delay, or is the last one.
LEMMA FailedCall ==
  ASSUME IInv, NEW s \in Senders, Failed(s) \/ WaitRefused(s) PROVE CallInv(s)'
<1>1. /\ TypeOK /\ CallInv(s) /\ NumServers \in Nat \ {0} /\ MaxAttempts \in Nat
      /\ attempt[s] \in Nat /\ scanned[s] \in Nat
  BY NumServersType DEF IInv, TypeOK
<1>2. /\ pc[s] = "post" /\ pc[s] \in Chosen /\ pc[s] \in Attempting
      /\ target[s] \notin Healthy \/ ctxDone[s] \/ refused'[s]
      /\ refused[s] => refused'[s]
      /\ pc'[s] = (IF attempt[s] >= MaxAttempts THEN "finish" ELSE "backoff")
      /\ UNCHANGED <<counter, attempt, scanned, target, rateLimited, ctxDone, hit429, tried, crossed>>
  BY <1>1 DEF Failed, WaitRefused, Goto, TypeOK, call, history, Chosen, Attempting
<1>3. LoopBounded(s)' /\ Remembered(s)'
  BY <1>1, <1>2 DEF CallInv, LoopBounded, Remembered, Attempting, Chosen, Steps
<1>4. Honest(s)'
  BY <1>1, <1>2 DEF CallInv, Honest
<1>5. \A j \in 1..NumServers : j <= Taken(s)' => Back(j)' \in tried'[s] \cup crossed'[s]
  BY <1>1, <1>2 DEF CallInv, Rotating, Back, Taken
<1>6. pc'[s] = "finish" => Rotated(s)'
  <2> SUFFICES ASSUME pc'[s] = "finish" PROVE Rotated(s)'
    OBVIOUS
  <2>1. Taken(s) >= MaxAttempts
    BY <1>1, <1>2 DEF CallInv, LoopBounded, Taken
  <2>2. Rotated(s)
    BY <1>1, <1>2, <2>1, AllTaken DEF CallInv
  <2> QED
    BY <1>2, <2>2 DEF Rotated
<1> QED
  BY <1>2, <1>3, <1>4, <1>5, <1>6 DEF CallInv, Rotating

LEMMA OwnStep == ASSUME IInv, NEW s \in Senders, Call(s) \/ Step(s) \/ Expire(s) PROVE CallInv(s)'
<1> USE DEF Goto, call, history
<1>1. /\ TypeOK /\ CallInv(s) /\ NumServers \in Nat \ {0} /\ MaxAttempts \in Nat
      /\ attempt[s] \in 1..(MaxAttempts + 1) /\ scanned[s] \in 0..NumServers
      /\ counter \in Servers /\ pc \in [Senders -> {"idle"} \cup Steps \cup Results]
  BY NumServersType DEF IInv, TypeOK
<1>2. CASE Call(s)
  <2>1. /\ pc'[s] = (IF MaxAttempts > 0 THEN "scan" ELSE "finish") /\ attempt'[s] = 1
        /\ scanned'[s] = 0 /\ ~hit429'[s] /\ tried'[s] = {}
    BY <1>1, <1>2 DEF Call, TypeOK
  <2>2. LoopBounded(s)' /\ Remembered(s)' /\ Honest(s)'
    BY <1>1, <2>1 DEF LoopBounded, Remembered, Honest, Attempting, Chosen
  <2>3. Rotating(s)'
    <3>1. Taken(s)' = 0
      BY <2>1 DEF Taken
    <3>2. \A j \in 1..NumServers : ~(j <= 0)
      OBVIOUS
    <3>3. MaxAttempts = 0 => Rotated(s)'
      BY <1>1, <3>2 DEF Rotated
    <3> QED
      BY <1>1, <2>1, <3>1, <3>2, <3>3 DEF Rotating, Attempting
  <2> QED
    BY <2>2, <2>3 DEF CallInv
<1>3. CASE NextServer(s)
  BY <1>3, NextServerCall
<1>4. CASE CheckPaused(s)
  <2>1. /\ pc[s] = "check" /\ pc'[s] = (IF IsPaused(target[s]) THEN "scan" ELSE "post")
        /\ UNCHANGED <<counter, attempt, scanned, target, rateLimited, ctxDone, history>>
    BY <1>1, <1>4 DEF CheckPaused
  <2>2. LoopBounded(s)' /\ Remembered(s)'
    BY <1>1, <2>1 DEF CallInv, LoopBounded, Remembered, Attempting, Chosen, Steps
  <2>3. IsPaused(target[s]) => target[s] \notin Healthy
    BY <1>1, SenderAssumption DEF IsPaused, IInv, NeverPaused, TypeOK
  <2>4. Honest(s)'
    BY <1>1, <2>1, <2>3 DEF CallInv, Honest
  <2>5. Rotating(s)'
    BY <1>1, <2>1 DEF CallInv, Rotating, Attempting, Back, Taken
  <2> QED
    BY <2>2, <2>4, <2>5 DEF CallInv
<1>5. CASE NoneAvailable(s)
  <2>1. /\ pc[s] = "scan" /\ scanned[s] = NumServers /\ pc'[s] = "finish"
        /\ UNCHANGED <<counter, attempt, scanned, target, rateLimited, ctxDone, history>>
    BY <1>1, <1>5 DEF NoneAvailable
  <2>2. LoopBounded(s)' /\ Remembered(s)' /\ Honest(s)'
    BY <1>1, <2>1 DEF CallInv, LoopBounded, Remembered, Honest, Attempting, Chosen, Steps
  <2>3. Taken(s) >= NumServers
    BY <1>1, <2>1 DEF Taken
  <2>4. Rotated(s)
    BY <1>1, <2>1, <2>3, AllTaken DEF CallInv, Attempting
  <2>5. Rotating(s)'
    BY <2>1, <2>4 DEF Rotating, Rotated, Attempting
  <2> QED
    BY <2>2, <2>5 DEF CallInv
<1>6. CASE Accepted(s)
  <2>1. pc'[s] = "ok"
    BY <1>1, <1>6 DEF Accepted
  <2> QED
    BY <2>1
    DEF CallInv, LoopBounded, Remembered, Rotating, Honest, Attempting, Chosen, Steps
<1>7. CASE TooManyRequests(s)
  <2>1. /\ pc[s] = "post" /\ pc'[s] = "pause" /\ target[s] \notin Healthy
        /\ UNCHANGED <<counter, attempt, scanned, target, rateLimited, ctxDone, refused, tried, crossed>>
    BY <1>1, <1>7 DEF TooManyRequests
  <2>2. LoopBounded(s)' /\ Remembered(s)' /\ Honest(s)'
    BY <1>1, <2>1 DEF CallInv, LoopBounded, Remembered, Honest, Attempting, Chosen, Steps
  <2>3. Rotating(s)'
    BY <1>1, <2>1 DEF CallInv, Rotating, Attempting, Back, Taken
  <2> QED
    BY <2>2, <2>3 DEF CallInv
<1>8. CASE Failed(s) \/ WaitRefused(s)
  BY <1>8, FailedCall
<1>9. CASE PauseServer(s)
  <2>1. pc[s] = "pause" /\ rateLimited'[s] = TRUE
    BY <1>1, <1>9 DEF PauseServer, TypeOK
  <2> QED
    BY <1>9, <2>1, NextAttemptCall DEF PauseServer
<1>10. CASE BackedOff(s)
  <2>1. pc[s] = "backoff" /\ rateLimited'[s] = (rateLimited[s] \/ pc[s] = "pause")
    BY <1>1, <1>10 DEF BackedOff, TypeOK
  <2> QED
    BY <1>10, <2>1, NextAttemptCall DEF BackedOff
<1>11. CASE Cancelled(s)
  <2>1. pc'[s] = "cancelled" /\ ctxDone[s] /\ ctxDone' = ctxDone
    BY <1>1, <1>11 DEF Cancelled
  <2> QED
    BY <2>1
    DEF CallInv, LoopBounded, Remembered, Rotating, Honest, Attempting, Chosen, Steps
<1>12. CASE Finish(s)
  <2>1. /\ pc[s] = "finish" /\ pc'[s] = (IF rateLimited[s] THEN "rateLimited" ELSE "exhausted")
        /\ UNCHANGED <<rateLimited, ctxDone, target, history>>
    BY <1>1, <1>12 DEF Finish
  <2>2. LoopBounded(s)' /\ Remembered(s)' /\ Honest(s)'
    BY <1>1, <2>1 DEF CallInv, LoopBounded, Remembered, Honest, Attempting, Chosen, Steps
  <2>3. Rotating(s)'
    BY <1>1, <2>1 DEF CallInv, Rotating, Rotated, Attempting
  <2> QED
    BY <2>2, <2>3 DEF CallInv
<1>13. CASE Expire(s)
  <2>1. /\ pc[s] \in Steps /\ ctxDone'[s] = TRUE
        /\ UNCHANGED <<counter, pc, attempt, scanned, rateLimited, history>>
    BY <1>1, <1>13 DEF Expire, TypeOK
  <2>2. LoopBounded(s)' /\ Remembered(s)' /\ Honest(s)'
    BY <1>1, <2>1 DEF CallInv, LoopBounded, Remembered, Honest
  <2>3. Rotating(s)'
    BY <1>1, <2>1 DEF CallInv, Rotating, Rotated, Back, Taken
  <2> QED
    BY <2>2, <2>3 DEF CallInv
<1> QED
  BY <1>2, <1>3, <1>4, <1>5, <1>6, <1>7, <1>8, <1>9, <1>10, <1>11, <1>12, <1>13 DEF Step

LEMMA OthersStep ==
  ASSUME IInv, NEW s \in Senders, Call(s) \/ Step(s) \/ Expire(s), NEW t \in Senders, t # s
  PROVE  CallInv(t)'
<1> USE DEF Goto, call, history
<1>1. TypeOK /\ CallInv(t)
  BY DEF IInv
<1>2. CASE NextServer(s)
  <2>1. /\ pc'[t] = pc[t] /\ attempt'[t] = attempt[t] /\ scanned'[t] = scanned[t]
        /\ target'[t] = target[t] /\ rateLimited'[t] = rateLimited[t] /\ hit429'[t] = hit429[t]
        /\ ctxDone'[t] = ctxDone[t] /\ refused'[t] = refused[t] /\ tried'[t] = tried[t]
        /\ crossed'[t] = (IF pc[t] \in Steps THEN crossed[t] \cup {counter} ELSE crossed[t])
        /\ counter' = (counter + 1) % NumServers
    BY <1>1, <1>2 DEF NextServer, Take, TypeOK
  <2> QED
    BY <1>1, <2>1, OtherCall
<1>3. CASE Call(s) \/ CheckPaused(s) \/ NoneAvailable(s) \/ Accepted(s) \/ TooManyRequests(s)
            \/ Failed(s) \/ WaitRefused(s) \/ PauseServer(s) \/ BackedOff(s) \/ Cancelled(s) \/ Finish(s) \/ Expire(s)
  <2>1. /\ pc'[t] = pc[t] /\ attempt'[t] = attempt[t] /\ scanned'[t] = scanned[t]
        /\ target'[t] = target[t] /\ rateLimited'[t] = rateLimited[t] /\ hit429'[t] = hit429[t]
        /\ ctxDone'[t] = ctxDone[t] /\ refused'[t] = refused[t] /\ tried'[t] = tried[t]
        /\ crossed'[t] = crossed[t] /\ counter' = counter
    BY <1>1, <1>3 DEF Call, CheckPaused, NoneAvailable, Accepted, TooManyRequests, Failed,
       WaitRefused, PauseServer, BackedOff, Cancelled, Finish, Expire, NextAttempt, TypeOK
  <2> QED
    BY <1>1, <2>1, OtherCall
<1> QED
  BY <1>2, <1>3 DEF Step

-----------------------------------------------------------------------------
(* The theorems *)

LEMMA IInvInit == Init => IInv
<1> SUFFICES ASSUME Init PROVE IInv
  OBVIOUS
<1>1. NeverPaused
  BY NumServersType DEF Init, NeverPaused
<1>2. ASSUME NEW s \in Senders PROVE CallInv(s)
  BY DEF Init, CallInv, LoopBounded, Remembered, Rotating, Honest, Attempting, Chosen, Steps
<1> QED
  BY <1>1, <1>2, TypeInit DEF IInv

LEMMA IInvStep == IInv /\ [Next]_vars => IInv'
<1> SUFFICES ASSUME IInv, [Next]_vars PROVE IInv'
  OBVIOUS
<1>1. TypeOK'
  BY TypeStep DEF IInv, CallInv
<1>2. NeverPaused'
  BY NeverPausedStep DEF IInv
<1>3. ASSUME NEW t \in Senders PROVE CallInv(t)'
  <2>1. ASSUME NEW s \in Senders, Call(s) \/ Step(s) \/ Expire(s) PROVE CallInv(t)'
    BY <2>1, OwnStep, OthersStep
  <2>2. CASE Tick \/ UNCHANGED vars
    <3>1. UNCHANGED <<counter, pc, call>> /\ CallInv(t) /\ TypeOK
      BY <2>2 DEF Tick, vars, IInv
    <3> QED
      BY <3>1, OtherCall DEF call, history
  <2> QED
    BY <2>1, <2>2 DEF Next
<1> QED
  BY <1>1, <1>2, <1>3 DEF IInv

\* No call ever shortens a pause that a server asked for, whatever delays concurrent
\* answers bring (pauseServer).
THEOREM PausesKept == Spec => NoPauseShortened
<1>1. IInv /\ [Next]_vars => [\A v \in Servers : pausedUntil'[v] >= pausedUntil[v]]_vars
  BY PauseStep DEF IInv
<1> QED
  BY <1>1, IInvInit, IInvStep, PTL DEF Spec, NoPauseShortened

\* A call that some server answered 429 never ends as merely exhausted (Send).
THEOREM RateLimitCorrect == Spec => []RateLimitReported
<1>1. IInv => RateLimitReported
  BY DEF IInv, CallInv, Remembered, RateLimitReported
<1> QED
  BY <1>1, IInvInit, IInvStep, PTL DEF Spec

\* For every number of servers, attempts and concurrent calls: a call that fails had
\* no healthy server among those it took, unless its ctx ended or was about to, and it
\* and the calls that crossed it took as many servers in a row as it had attempts, or
\* all of them (Send, NextServer).
THEOREM RotationCorrect == Spec => []HealthyHostReached
<1>1. IInv => HealthyHostReached
  BY DEF IInv, CallInv, Rotating, Honest, HealthyHostReached
<1> QED
  BY <1>1, IInvInit, IInvStep, PTL DEF Spec
=============================================================================
