---------------------------- MODULE EmbeddingHandler ----------------------------
(***************************************************************************)
(* The handler of internal/handler/embedding.go around the client of       *)
(* EmbeddingWorker: a request calls Generate once, maps its error, answers *)
(* and is recorded by the deferred function.  A slot of Calls is a request *)
(* here.  The handler's own steps take no time.                            *)
(***************************************************************************)
EXTENDS EmbeddingWorker, Errors

CONSTANTS Models, DefaultModel,  \* model names; "text-embedding-ada-002"
          Statuses,   \* statuses of WorkerErrors
          TokenCounts, \* usage.total_tokens of answers; 0 when they have no usage
          MaxRequests, \* bound on the number of embedding requests
          None

\* WorkerError.Retryable, of an answer that wraps no error.
Retryable == {429, 500, 502, 503, 504}

ASSUME HandlerAssumption ==
    /\ DefaultModel \in Models /\ None \notin Models /\ None \notin ErrorCodes
    /\ Statuses \subseteq Nat /\ 503 \in Statuses
    /\ TokenCounts \subseteq Int /\ MaxRequests \in Nat

VARIABLES serving,   \* locals of each request
          received   \* requests so far

handlers == <<serving, received>>

NotServing == [stage |-> "idle", model |-> None, status |-> 200, code |-> None,
               tokens |-> 0, sent |-> None, record |-> None]

HandlerInit == /\ EmbeddingInit
               /\ serving = [c \in Calls |-> NotServing]
               /\ received = 0

mapEmbeddingWorkerError(status) ==
    CASE status = 400 -> InvalidRequest
      [] status = 401 -> InvalidAPIKey
      [] status = 403 -> KeyDisabled
      [] status = 429 -> RateLimitExceeded
      [] status = 502 -> BadGateway
      [] status = 503 -> ServiceUnavailable
      [] OTHER -> IF status >= 500 THEN ProviderError ELSE InternalError

Open(c) == /\ serving[c].stage = "idle" /\ received < MaxRequests
           /\ received' = received + 1

\* An absent model is the default one.
Receive(c, m) ==
    /\ Open(c)
    /\ Begin(c)
    /\ serving' = [serving EXCEPT ![c].stage = "generating", ![c].model = m]

\* ShouldBindJSON fails, or there is no worker client.
ReceiveRefused(c, m, e) ==
    /\ Open(c)
    /\ serving' = [serving EXCEPT ![c].stage = "reply", ![c].model = m,
                                  ![c].status = HTTPStatus(e), ![c].code = e.code]
    /\ UNCHANGED calls

\* Generate returns a response: its model, if it names one, and its tokens.
Generated(c, m, n) ==
    /\ call[c].stage = "served"
    /\ ReturnCall(c)
    /\ serving' = [serving EXCEPT ![c].stage = "reply", ![c].tokens = n,
                                  ![c].model = IF m = None THEN @ ELSE m]
    /\ UNCHANGED received

\* The errors that Generate can return from where it stopped.
ErrorStatuses(c) == CASE call[c].stage = "rejected"  -> Statuses \ Retryable
                      [] call[c].stage = "gaveup"    -> Statuses \cap Retryable
                      [] call[c].stage = "cancelled" -> {503}
                      [] OTHER -> {}

\* Faulty variant: the mapped error is sent but the locals keep the success.
NotGeneratedUnnoted(c, status) ==
    /\ status \in ErrorStatuses(c)
    /\ ReturnCall(c)
    /\ serving' = [serving EXCEPT ![c].stage = "record",
                                  ![c].sent = HTTPStatus(mapEmbeddingWorkerError(status))]
    /\ UNCHANGED received

NotGenerated(c, status) ==
    /\ status \in ErrorStatuses(c)
    /\ ReturnCall(c)
    /\ LET mapped == mapEmbeddingWorkerError(status)
       IN  serving' = [serving EXCEPT ![c].stage = "reply",
                                      ![c].status = HTTPStatus(mapped),
                                      ![c].code = mapped.code]
    /\ UNCHANGED received

Reply(c) ==
    /\ serving[c].stage = "reply"
    /\ serving' = [serving EXCEPT ![c].stage = "record", ![c].sent = serving[c].status]
    /\ UNCHANGED <<calls, received>>

\* The deferred function.
Record(c) ==
    /\ serving[c].stage = "record"
    /\ serving' = [serving EXCEPT
                     ![c].stage = "done",
                     ![c].record = [status |-> serving[c].status, code |-> serving[c].code,
                                    model |-> serving[c].model,
                                    tokens |-> serving[c].tokens]]
    /\ UNCHANGED <<calls, received>>

Finish(c) == /\ serving[c].stage = "done"
             /\ serving' = [serving EXCEPT ![c] = NotServing]
             /\ UNCHANGED <<calls, received>>

HandlerStep(c) ==
    \/ \E m \in Models : \/ Receive(c, m)
                         \/ ReceiveRefused(c, m, ServiceUnavailable)
    \/ ReceiveRefused(c, DefaultModel, InvalidRequest)
    \/ \E m \in Models \cup {None}, n \in TokenCounts : Generated(c, m, n)
    \/ \E status \in Statuses : NotGenerated(c, status)
    \/ Reply(c) \/ Record(c) \/ Finish(c)

\* Steps of Generate between its beginning and its return.
GenerateStep(c) == Serve(c) \/ Reject(c) \/ FailAttempt(c) \/ CancelCall(c) \/ Retry(c)

HandlerTick == /\ \A c \in Calls : serving[c].stage \in {"idle", "generating"}
               /\ EmbeddingTick
               /\ UNCHANGED handlers

HandlerNext ==
    \/ HandlerTick
    \/ (Change \/ \E r \in Requests : Step(r)) /\ UNCHANGED <<calls, handlers>>
    \/ \E c \in Calls : /\ \/ GenerateStep(c) /\ UNCHANGED handlers
                           \/ HandlerStep(c)
                        /\ UNCHANGED vars

HandlerSpec == HandlerInit /\ [][HandlerNext]_<<vars, calls, handlers>>
-------------------------------------------------------------------------------
\* Whatever the worker did and however often it was called, the recorder
\* (embedding.go:33-97) reports what the client got: the status sent, the error
\* code that docs/SPEC.md:361-374 lists for it, and tokens for answers only (an
\* answer without usage has none).
EmbeddingRecorded ==
    \A c \in Calls : LET s == serving[c] IN
        s.stage = "done" =>
            /\ s.record.status = s.sent
            /\ s.sent = 200 <=> s.record.code = None
            /\ s.record.tokens # 0 => s.sent = 200
            /\ s.record.code \in DOMAIN Documented => s.sent = Documented[s.record.code]
=================================================================================
