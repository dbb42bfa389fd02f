---------------------------- MODULE EmbeddingWorker ----------------------------
(***************************************************************************)
(* The whole client of internal/service/embeddingworker/client.go: Healthy *)
(* (WorkerHealth) and, on the same clock and against the same worker, the  *)
(* calls of Generate, which retry with a doubling back-off.                *)
(***************************************************************************)
EXTENDS WorkerHealth

CONSTANTS Calls,         \* goroutines calling Generate
          Timeout,       \* httpClient.Timeout, of one attempt
          RetryMax, RetryBackoff,
          MaxBackoff     \* the literal 2 * time.Second

ASSUME RetryAssumption ==
    /\ Timeout \in Nat /\ RetryMax \in Nat \ {0} /\ RetryBackoff \in Nat \ {0}
    /\ MaxBackoff \in Nat /\ RetryBackoff <= MaxBackoff

VARIABLES call,  \* locals of each call: stage, attempt, backoff, and since when
                 \* it has been in its stage
          began  \* history: when each call began

calls == <<call, began>>

Idle == [stage |-> "idle", attempt |-> 0, backoff |-> 0, at |-> 0]
Over == {"served", "rejected", "gaveup", "cancelled"}

EmbeddingInit == /\ Init
                 /\ call = [c \in Calls |-> Idle]
                 /\ began = [c \in Calls |-> 0]

Smaller(a, b) == IF a < b THEN a ELSE b

\* Attempts end at their timeout and timers fire when they are due.
EmbeddingTick ==
    /\ \A c \in Calls : LET k == call[c] IN
         /\ k.stage = "calling" => clock - k.at < Timeout
         /\ k.stage = "waiting" => clock - k.at < k.backoff
         /\ k.stage \notin Over
    /\ Tick
    /\ UNCHANGED calls

\* Faulty variants: the back-off is not capped; it does not grow.
NextBackoffUncapped(b) == 2 * b
NextBackoffConstant(b) == b

NextBackoff(b) == Smaller(2 * b, MaxBackoff)
LastAttempt(k) == k.attempt = RetryMax - 1

Begin(c) == /\ call[c].stage = "idle"
            /\ call' = [call EXCEPT ![c] = [stage |-> "calling", attempt |-> 0,
                                            backoff |-> RetryBackoff, at |-> clock]]
            /\ began' = [began EXCEPT ![c] = clock]

Enter(c, stage) == /\ call' = [call EXCEPT ![c].stage = stage, ![c].at = clock]
                   /\ UNCHANGED began

\* 200, or an answer that is not Retryable, which needs a worker that is up.
Serve(c) == call[c].stage = "calling" /\ worker /\ Enter(c, "served")
Reject(c) == call[c].stage = "calling" /\ worker /\ Enter(c, "rejected")

\* An attempt fails retryably when the worker is down.
FailAttempt(c) == /\ call[c].stage = "calling" /\ ~ worker
                  /\ Enter(c, IF LastAttempt(call[c]) THEN "gaveup" ELSE "waiting")

\* The client goes: the attempt fails and is not repeated, or the wait ends.
CancelCall(c) == \/ /\ call[c].stage = "calling"
                    /\ Enter(c, IF LastAttempt(call[c]) THEN "gaveup" ELSE "cancelled")
                 \/ call[c].stage = "waiting" /\ Enter(c, "cancelled")

Retry(c) == /\ call[c].stage = "waiting"
            /\ clock - call[c].at >= call[c].backoff
            /\ call' = [call EXCEPT ![c] = [stage |-> "calling",
                                            attempt |-> @.attempt + 1,
                                            backoff |-> NextBackoff(@.backoff),
                                            at |-> clock]]
            /\ UNCHANGED began

ReturnCall(c) == /\ call[c].stage \in Over
                 /\ call' = [call EXCEPT ![c] = Idle]
                 /\ began' = [began EXCEPT ![c] = 0]

CallStep(c) == \/ Begin(c) \/ Serve(c) \/ Reject(c) \/ FailAttempt(c)
               \/ CancelCall(c) \/ Retry(c) \/ ReturnCall(c)

EmbeddingNext ==
    \/ EmbeddingTick
    \/ (Change \/ \E r \in Requests : Step(r)) /\ UNCHANGED calls
    \/ \E c \in Calls : CallStep(c) /\ UNCHANGED vars

EmbeddingSpec == EmbeddingInit /\ [][EmbeddingNext]_<<vars, calls>>
-------------------------------------------------------------------------------
\* The wait after attempt n, and all the waits before attempt n.
Wait[n \in Nat] == IF n = 0 THEN RetryBackoff ELSE Smaller(2 * Wait[n - 1], MaxBackoff)
Waits[n \in Nat] == IF n = 0 THEN 0 ELSE Waits[n - 1] + Wait[n - 1]

\* client.go:153 "Generate calls embedding worker with retry": a call reports the
\* worker's failure only after all of its back-offs, so a worker that is back
\* within their sum loses no call to one outage.
GivesUpLate == \A c \in Calls :
    call[c].stage = "gaveup" => call[c].at - began[c] >= Waits[RetryMax - 1]

\* However the worker comes and goes, a call takes no longer than its attempts'
\* timeouts and the capped back-offs between them (client.go:168-192).
CallBounded == \A c \in Calls : LET k == call[c] IN
    k.stage # "idle" =>
        clock - began[c] <= (k.attempt + 1) * Timeout + Waits[k.attempt]
                            + (IF k.stage \in {"waiting", "cancelled"} THEN Wait[k.attempt] ELSE 0)
===============================================================================
