------------------------------ MODULE HTTPSender -------------------------------
(***************************************************************************)
(* internal/sender: concurrent Send calls (one per message in progress)    *)
(* share a round-robin counter (load_balancer.go) and a table of servers   *)
(* paused after a 429 (http_sender.go).  Destinations answer 2xx, 429 with *)
(* a Retry-After, or fail; a healthy one always answers 2xx.               *)
(***************************************************************************)
EXTENDS Integers, FiniteSets

CONSTANTS
  NumServers,    \* len(DESTINATION_SERVERS)
  Healthy,       \* the servers that accept every request
  Senders,       \* concurrent callers of Send
  MaxAttempts,   \* MAX_RETRY_ATTEMPTS
  RetryAfters,   \* the delays a 429 may ask for
  MaxClock       \* bound on the clock

Servers == 0..(NumServers - 1)

ASSUME SenderAssumption ==
  /\ NumServers \in Nat \ {0} /\ Healthy \subseteq Servers
  /\ MaxAttempts \in Nat /\ RetryAfters \subseteq Nat \ {0} /\ MaxClock \in Nat

VARIABLES
  counter,      \* LoadBalancer.counter, modulo NumServers
  now,          \* the clock
  pausedUntil,  \* HTTPSender.pausedUntil; 0: no entry
  pc,           \* where each call is
  attempt,      \* its loop variable
  scanned,      \* servers nextAvailableServer has looked at
  target,       \* its targetServer
  until,        \* end of the pause it is about to set
  rateLimited,  \* is its rateLimitErr set?
  ctxDone,      \* has its ctx expired or been cancelled?
  hit429,       \* history: did a server answer 429?
  refused,      \* history: did limiter.Wait refuse an attempt?
  tried,        \* history: the servers it has taken
  crossed       \* history: the servers other calls have taken since it began

history == <<hit429, refused, tried, crossed>>
call == <<attempt, scanned, target, until, rateLimited, ctxDone, history>>
vars == <<counter, now, pausedUntil, pc, call>>

Results == {"ok", "rateLimited", "cancelled", "exhausted"}
Steps == {"scan", "check", "post", "pause", "backoff", "finish"}

TypeOK ==
  /\ counter \in Servers
  /\ now \in 0..MaxClock
  /\ pausedUntil \in [Servers -> Nat]
  /\ pc \in [Senders -> {"idle"} \cup Steps \cup Results]
  /\ attempt \in [Senders -> 1..(MaxAttempts + 1)]
  /\ scanned \in [Senders -> 0..NumServers]
  /\ target \in [Senders -> Servers]
  /\ until \in [Senders -> Nat]
  /\ rateLimited \in [Senders -> BOOLEAN]
  /\ ctxDone \in [Senders -> BOOLEAN]
  /\ hit429 \in [Senders -> BOOLEAN] /\ refused \in [Senders -> BOOLEAN]
  /\ tried \in [Senders -> SUBSET Servers] /\ crossed \in [Senders -> SUBSET Servers]

Init ==
  /\ counter = 0 /\ now = 0
  /\ pausedUntil = [v \in Servers |-> 0]
  /\ pc = [s \in Senders |-> "idle"]
  /\ attempt = [s \in Senders |-> 1]
  /\ scanned = [s \in Senders |-> 0]
  /\ target = [s \in Senders |-> 0] /\ until = [s \in Senders |-> 0]
  /\ rateLimited = [s \in Senders |-> FALSE]
  /\ ctxDone = [s \in Senders |-> FALSE] /\ hit429 = [s \in Senders |-> FALSE]
  /\ refused = [s \in Senders |-> FALSE]
  /\ tried = [s \in Senders |-> {}] /\ crossed = [s \in Senders |-> {}]

Goto(s, label) == pc' = [pc EXCEPT ![s] = label]

IsPaused(v) == now < pausedUntil[v]

-----------------------------------------------------------------------------
(* Send *)

\* A caller enters Send; with MaxAttempts = 0 the loop body never runs.
Call(s) ==
  /\ pc[s] \in {"idle"} \cup Results
  /\ Goto(s, IF MaxAttempts > 0 THEN "scan" ELSE "finish")
  /\ attempt' = [attempt EXCEPT ![s] = 1]
  /\ scanned' = [scanned EXCEPT ![s] = 0]
  /\ rateLimited' = [rateLimited EXCEPT ![s] = FALSE]
  /\ ctxDone' = [ctxDone EXCEPT ![s] = FALSE]
  /\ hit429' = [hit429 EXCEPT ![s] = FALSE]
  /\ refused' = [refused EXCEPT ![s] = FALSE]
  /\ tried' = [tried EXCEPT ![s] = {}] /\ crossed' = [crossed EXCEPT ![s] = {}]
  /\ UNCHANGED <<counter, now, pausedUntil, target, until>>

\* Server v is the next candidate, and has crossed the other calls under way.
Take(s, v) ==
  /\ pc[s] = "scan" /\ scanned[s] < NumServers
  /\ target' = [target EXCEPT ![s] = v]
  /\ scanned' = [scanned EXCEPT ![s] = @ + 1]
  /\ tried' = [tried EXCEPT ![s] = @ \cup {v}]
  /\ crossed' = [t \in Senders |->
                   IF t # s /\ pc[t] \in Steps THEN crossed[t] \cup {v} ELSE crossed[t]]
  /\ counter' = (counter + 1) % NumServers
  /\ Goto(s, "check")
  /\ UNCHANGED <<now, pausedUntil, attempt, until, rateLimited, ctxDone, hit429, refused>>

\* Mutation of NextServer: every attempt looks from the first server on.
NextServerFromFirst(s) == Take(s, scanned[s])

\* nextAvailableServer takes the next candidate: NextServer, one atomic add.
NextServer(s) == Take(s, counter)

\* ... and tests whether it is paused.
CheckPaused(s) ==
  /\ pc[s] = "check"
  /\ Goto(s, IF IsPaused(target[s]) THEN "scan" ELSE "post")
  /\ UNCHANGED <<counter, now, pausedUntil, call>>

\* Mutation of NoneAvailable: keep scanning until some server is available.
NoneAvailableRescan(s) ==
  /\ pc[s] = "scan" /\ scanned[s] = NumServers
  /\ scanned' = [scanned EXCEPT ![s] = 0]
  /\ UNCHANGED <<counter, now, pausedUntil, pc, attempt, target, until,
                 rateLimited, ctxDone, history>>

\* Every candidate was paused: Send gives up.
NoneAvailable(s) ==
  /\ pc[s] = "scan" /\ scanned[s] = NumServers
  /\ Goto(s, "finish")
  /\ UNCHANGED <<counter, now, pausedUntil, call>>

\* The loop goes on to the next attempt, or ends after the last.
NextAttempt(s) ==
  /\ attempt' = [attempt EXCEPT ![s] = @ + 1]
  /\ scanned' = [scanned EXCEPT ![s] = 0]
  /\ Goto(s, IF attempt[s] < MaxAttempts THEN "scan" ELSE "finish")

\* sendToServer: 2xx.
Accepted(s) ==
  /\ pc[s] = "post" /\ ~ctxDone[s]
  /\ Goto(s, "ok")
  /\ UNCHANGED <<counter, now, pausedUntil, call>>

\* sendToServer: 429; the end of the pause is computed before the lock is taken.
TooManyRequests(s) ==
  /\ pc[s] = "post" /\ ~ctxDone[s] /\ target[s] \notin Healthy
  /\ \E d \in RetryAfters : until' = [until EXCEPT ![s] = now + d]
  /\ hit429' = [hit429 EXCEPT ![s] = TRUE]
  /\ Goto(s, "pause")
  /\ UNCHANGED <<counter, now, pausedUntil, attempt, scanned, target, rateLimited,
                 ctxDone, refused, tried, crossed>>

\* Mutation of PauseServer: the last answer wins.
PauseServerOverwrite(s) ==
  /\ pc[s] = "pause"
  /\ pausedUntil' = [pausedUntil EXCEPT ![target[s]] = until[s]]
  /\ rateLimited' = [rateLimited EXCEPT ![s] = TRUE]
  /\ until' = [until EXCEPT ![s] = 0]
  /\ NextAttempt(s)
  /\ UNCHANGED <<counter, now, target, ctxDone, history>>

\* pauseServer, which only extends a pause; then continue, without a delay.
PauseServer(s) ==
  /\ pc[s] = "pause"
  /\ pausedUntil' = [pausedUntil EXCEPT ![target[s]] =
                       IF until[s] > @ THEN until[s] ELSE @]
  /\ rateLimited' = [rateLimited EXCEPT ![s] = TRUE]
  /\ until' = [until EXCEPT ![s] = 0]
  /\ NextAttempt(s)
  /\ UNCHANGED <<counter, now, target, ctxDone, history>>

\* Mutation of Failed: an earlier 429 is forgotten.
FailedForgetful(s) ==
  /\ pc[s] = "post" /\ (target[s] \notin Healthy \/ ctxDone[s])
  /\ rateLimited' = [rateLimited EXCEPT ![s] = FALSE]
  /\ Goto(s, IF attempt[s] >= MaxAttempts THEN "finish" ELSE "backoff")
  /\ UNCHANGED <<counter, now, pausedUntil, attempt, scanned, target, until, ctxDone,
                 history>>

\* sendToServer: another error; after the last attempt the loop breaks, before
\* it Send waits for getRetryDelay.
Failed(s) ==
  /\ pc[s] = "post" /\ (target[s] \notin Healthy \/ ctxDone[s])
  /\ Goto(s, IF attempt[s] >= MaxAttempts THEN "finish" ELSE "backoff")
  /\ UNCHANGED <<counter, now, pausedUntil, call>>

\* sendToServer: limiter.Wait refuses, because the ctx would end before the limiter
\* lets the request through; the attempt is counted and no request made.
WaitRefused(s) ==
  /\ pc[s] = "post" /\ ~ctxDone[s]
  /\ refused' = [refused EXCEPT ![s] = TRUE]
  /\ Goto(s, IF attempt[s] >= MaxAttempts THEN "finish" ELSE "backoff")
  /\ UNCHANGED <<counter, now, pausedUntil, attempt, scanned, target, until,
                 rateLimited, ctxDone, hit429, tried, crossed>>

\* After either failure Send goes on when the delay is over.
BackedOff(s) ==
  /\ pc[s] = "backoff"
  /\ NextAttempt(s)
  /\ UNCHANGED <<counter, now, pausedUntil, target, until, rateLimited, ctxDone,
                 history>>

\* The ctx ends during the delay.
Cancelled(s) ==
  /\ pc[s] = "backoff" /\ ctxDone[s]
  /\ Goto(s, "cancelled")
  /\ UNCHANGED <<counter, now, pausedUntil, call>>

\* After the loop: the rate limit error if there was one, so that the consumer
\* delays the redelivery, else "max retry attempts reached".
Finish(s) ==
  /\ pc[s] = "finish"
  /\ Goto(s, IF rateLimited[s] THEN "rateLimited" ELSE "exhausted")
  /\ UNCHANGED <<counter, now, pausedUntil, call>>

-----------------------------------------------------------------------------
\* The 30 s of the handler are over, or the consumer stops.
Expire(s) ==
  /\ pc[s] \in Steps /\ ~ctxDone[s]
  /\ ctxDone' = [ctxDone EXCEPT ![s] = TRUE]
  /\ UNCHANGED <<counter, now, pausedUntil, pc, attempt, scanned, target, until,
                 rateLimited, history>>

Tick ==
  /\ now < MaxClock
  /\ now' = now + 1
  /\ UNCHANGED <<counter, pausedUntil, pc, call>>

Step(s) ==
  \/ NextServer(s) \/ CheckPaused(s) \/ NoneAvailable(s)
  \/ Accepted(s) \/ TooManyRequests(s) \/ Failed(s) \/ WaitRefused(s)
  \/ PauseServer(s) \/ BackedOff(s) \/ Cancelled(s) \/ Finish(s)

Next == Tick \/ \E s \in Senders : Call(s) \/ Step(s) \/ Expire(s)

Spec == Init /\ [][Next]_vars

\* A call that has begun keeps running: requests and delays end.
FairSpec == Spec /\ \A s \in Senders : WF_vars(Step(s))

-----------------------------------------------------------------------------
(* Properties *)

\* A pause a server asked for is never shortened by another call that was given
\* a shorter or older Retry-After (http_sender.go: pauseServer).
NoPauseShortened ==
  [][\A v \in Servers : pausedUntil'[v] >= pausedUntil[v]]_vars

\* A call that was told 429 by any server ends with the rate limit error unless it
\* succeeds or is cancelled: the consumer needs it to delay the message.
RateLimitReported == \A s \in Senders : pc[s] = "exhausted" => ~hit429[s]

\* Every call of Send returns, however many servers are paused (Send).
Terminates == \A s \in Senders : pc[s] = "scan" ~> pc[s] \in Results

\* The server j places before v in the round robin.
Before(v, j) == IF j <= v THEN v - j ELSE v - j + NumServers

\* As many servers in a row as the call had attempts, or all of them, were taken by
\* the call or by one that crossed it.
Rotated(s) ==
  \E v \in Servers : \A j \in 1..NumServers :
    j <= MaxAttempts => Before(v, j) \in tried[s] \cup crossed[s]

\* "Each retry rotates to the next server so a single unhealthy host doesn't block
\* the worker" (http_sender.go:139): a call that fails had no healthy server among
\* those it took, unless its ctx ended or the limiter saw the end coming, and it has
\* left none out of the rotation but to a concurrent call: with as many attempts as
\* servers every healthy one was taken by another call meanwhile.
HealthyHostReached ==
  \A s \in Senders : pc[s] \in {"rateLimited", "exhausted"} =>
    /\ Rotated(s)
    /\ tried[s] \cap Healthy # {} => ctxDone[s] \/ refused[s]
=============================================================================
