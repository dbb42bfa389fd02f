------------------------------- MODULE Recording -------------------------------
(***************************************************************************)
(* What the deferred recorder of a request writes, and who reads it: the   *)
(* usage statistics (internal/service/stats.go), the request log in        *)
(* Postgres (handler/request_log.go, storage/postgres.go), the replay file *)
(* and the session summaries (service/workflow.go), GET /stats and GET     *)
(* /workflows/:session_id/summary (handler/admin.go).  A restart loses     *)
(* what is in memory; a shutdown waits for the requests it has accepted,   *)
(* for five seconds (cmd/server/main.go).  Latencies, costs and timestamps *)
(* are left out.                                                           *)
(***************************************************************************)
EXTENDS Integers, Sequences, FiniteSets, FiniteSetsExt, SequencesExt, Functions

CONSTANTS Recorders,    \* requests being recorded
          Metrics,      \* what they record: a model, status, cacheHit, tokens
                        \* (the total), parts (prompt and completion tokens),
                        \* session, phase (StepType) and tool
          Default,      \* the phase "default"
          None,         \* no session, phase or tool
          MaxRecords,   \* bound on the number of requests
          MaxRestarts   \* bound on the number of restarts

Values(field) == {x[field] : x \in Metrics}

ASSUME RecordingAssumption ==
    /\ IsFiniteSet(Recorders) /\ IsFiniteSet(Metrics)
    /\ Metrics \subseteq [model : Values("model"), status : Nat, cacheHit : BOOLEAN,
                           tokens : Nat, parts : Nat, session : Values("session"),
                           phase : Values("phase"), tool : Values("tool")]
    /\ MaxRecords \in Nat /\ MaxRestarts \in Nat

VARIABLES usage,      \* UsageStats
          rows,       \* request_logs, as the number of rows of each metric
          replay,     \* the lines of the replay file
          sessions,   \* WorkflowTracer.sessions, the summaries
          rec,        \* where each recorder is, and its metric
          reader,     \* locals of one admin request
          stopping,   \* the process was told to stop and accepts no request
          records, restarts,  \* requests accepted, processes started again
          unsaved,    \* history: since the restart, metrics that were not inserted
          unlogged,   \*          and not appended
          oldRows, oldLines,  \* history: rows and lines at the restart
          lost        \* history: requests without a row, over all processes

memory == <<usage, sessions>>
disk == <<rows, replay>>
history == <<unsaved, unlogged, oldRows, oldLines, lost>>
counts == <<stopping, records, restarts>>
vars == <<usage, rows, replay, sessions, rec, reader, counts, history>>

\* Counters that Record, updateSummary and the queries keep alike.
Zero == [requests |-> 0, errors |-> 0, tokens |-> 0]

\* Faulty variant: the boundary is one off.
IsErrorAbove400(x) == x.status > 400
IsError(x) == x.status >= 400

One(x) == [requests |-> 1, errors |-> IF IsError(x) THEN 1 ELSE 0, tokens |-> x.tokens]
Plus(c, d) == [requests |-> c.requests + d.requests, errors |-> c.errors + d.errors,
               tokens |-> c.tokens + d.tokens]

\* An entry of a map, created when it is missing.
AddAt(f, k, x) == [i \in DOMAIN f \cup {k} |->
                     IF i # k THEN f[i]
                     ELSE Plus(IF k \in DOMAIN f THEN f[k] ELSE Zero, One(x))]
Empty == [i \in {} |-> Zero]

NoUsage == [total |-> 0, tokens |-> 0, hits |-> 0, models |-> Empty]
NoRows == [x \in Metrics |-> 0]
NewSummary == [all |-> Zero, hits |-> 0, phases |-> Empty, tools |-> Empty]
Idle == [pc |-> "idle"]

Init == /\ usage = NoUsage
        /\ rows = NoRows
        /\ replay = << >>
        /\ sessions = [s \in {} |-> NewSummary]
        /\ rec = [r \in Recorders |-> Idle]
        /\ reader = Idle
        /\ stopping = FALSE /\ records = 0 /\ restarts = 0
        /\ unsaved = NoRows /\ unlogged = NoRows
        /\ oldRows = NoRows /\ oldLines = 0 /\ lost = 0
-------------------------------------------------------------------------------
\* One request and its recorder.

\* The handler runs until its deferred recorder begins; Shutdown closes the listener.
Accept(r) == /\ rec[r].pc = "idle" /\ ~stopping /\ records < MaxRecords
             /\ rec' = [rec EXCEPT ![r] = [pc |-> "serving"]]
             /\ records' = records + 1
             /\ UNCHANGED <<memory, disk, reader, stopping, restarts, history>>

\* UsageStats.Record, under its lock.
Count(r, x) ==
    /\ rec[r].pc = "serving"
    /\ usage' = [total |-> usage.total + 1,
                 tokens |-> usage.tokens + x.tokens,
                 hits |-> usage.hits + (IF x.cacheHit THEN 1 ELSE 0),
                 models |-> AddAt(usage.models, x.model, x)]
    /\ rec' = [rec EXCEPT ![r] = [pc |-> "insert", metric |-> x]]
    /\ UNCHANGED <<disk, sessions, reader, counts, history>>

Step(r, from, to) == rec[r].pc = from /\ rec' = [rec EXCEPT ![r].pc = to]

\* persistRequestLog: an error, a timeout or a nil client is only logged.
Insert(r) == /\ Step(r, "insert", "append")
             /\ rows' = [rows EXCEPT ![rec[r].metric] = @ + 1]
             /\ UNCHANGED <<memory, replay, reader, counts, history>>
InsertFails(r) == /\ Step(r, "insert", "append")
                  /\ unsaved' = [unsaved EXCEPT ![rec[r].metric] = @ + 1]
                  /\ lost' = lost + 1
                  /\ UNCHANGED <<memory, disk, reader, counts, unlogged, oldRows, oldLines>>

\* normalizeTrace: a missing total is the sum of its parts.
Trace(x) == [x EXCEPT !.tokens = IF @ = 0 THEN x.parts ELSE @]

\* appendJSONL, under writeMu.
AppendLine(r) == /\ Step(r, "append", "update")
                 /\ replay' = Append(replay, Trace(rec[r].metric))
                 /\ UNCHANGED <<memory, rows, reader, counts, history>>

\* Faulty variant: a trace that is not written is not summarised either.
AppendFailsReturns(r) ==
    /\ rec[r].pc = "append" /\ rec' = [rec EXCEPT ![r] = Idle]
    /\ unlogged' = [unlogged EXCEPT ![rec[r].metric] = @ + 1]
    /\ UNCHANGED <<memory, disk, reader, counts, unsaved, oldRows, oldLines, lost>>

AppendFails(r) ==
    /\ Step(r, "append", "update")
    /\ unlogged' = [unlogged EXCEPT ![rec[r].metric] = @ + 1]
    /\ UNCHANGED <<memory, disk, reader, counts, unsaved, oldRows, oldLines, lost>>

Phase(x) == IF x.phase = None THEN Default ELSE x.phase

InSession(x) == x.session # None

Summarised(s, x) ==
    [all |-> Plus(s.all, One(x)),
     hits |-> s.hits + (IF x.cacheHit THEN 1 ELSE 0),
     phases |-> AddAt(s.phases, Phase(x), x),
     tools |-> IF x.tool = None THEN s.tools ELSE AddAt(s.tools, x.tool, x)]

\* updateSummary, under mu.
Update(r) ==
    LET x == Trace(rec[r].metric)
        old == IF x.session \in DOMAIN sessions THEN sessions[x.session] ELSE NewSummary
    IN /\ rec[r].pc = "update" /\ rec' = [rec EXCEPT ![r] = Idle]
       /\ sessions' = IF InSession(x)
                      THEN [s \in DOMAIN sessions \cup {x.session} |->
                              IF s = x.session THEN Summarised(old, x) ELSE sessions[s]]
                      ELSE sessions
       /\ UNCHANGED <<usage, disk, reader, counts, history>>
-------------------------------------------------------------------------------
\* One admin request.

Metered(m) == {x \in Metrics : x.model = m}
CountIn(bag, S) == MapThenSumSet(LAMBDA x : bag[x], S)
TokensIn(bag, S) == MapThenSumSet(LAMBDA x : bag[x] * x.tokens, S)

\* The aggregates over some metrics, each as often as a bag says.
Aggregate(bag, S) == [requests |-> CountIn(bag, S),
                      errors |-> CountIn(bag, {x \in S : x.status >= 400}),
                      tokens |-> TokensIn(bag, S)]

AllRows == CountIn(rows, Metrics)

\* GROUP BY model.
ByModel(bag) == [m \in {x.model : x \in {y \in Metrics : bag[y] > 0}}
                   |-> Aggregate(bag, Metered(m))]

ReadOnly == UNCHANGED <<memory, disk, rec, counts, history>>

\* GetUsageSnapshot: a query for the totals, then one for the models.  since is a
\* history: what there was to count when GetStats began.
QueryTotals == /\ reader.pc = "idle"
               /\ reader' = [pc |-> "models", total |-> AllRows,
                             since |-> [rows |-> AllRows, usage |-> usage.total]]
               /\ ReadOnly

QueryModels == /\ reader.pc = "models"
               /\ reader' = [pc |-> "stats", from |-> "postgres", total |-> reader.total,
                             models |-> ByModel(rows), since |-> reader.since]
               /\ ReadOnly

\* Faulty variant: what the first query found is kept when the second fails.
QueryFailsHalfway ==
    /\ reader.pc = "models"
    /\ reader' = [pc |-> "stats", from |-> "memory", total |-> reader.total,
                  models |-> usage.models, since |-> reader.since]
    /\ ReadOnly

\* Either query may fail; GetStats then takes Snapshot.
QueryFails == /\ reader.pc = "models"
              /\ reader' = [pc |-> "stats", from |-> "memory", total |-> usage.total,
                            models |-> usage.models, since |-> reader.since]
              /\ ReadOnly

\* GetSummary copies under the lock; the copy is sent after it.
CopySummary(s) == /\ reader.pc = "idle" /\ s \in DOMAIN sessions
                  /\ reader' = [pc |-> "copied", session |-> s, summary |-> sessions[s]]
                  /\ ReadOnly

\* Faulty variant: the copy shares its maps with the summary.
SendSharedSummary ==
    /\ reader.pc = "copied"
    /\ reader' = [pc |-> "summary",
                  summary |-> [reader.summary EXCEPT
                                 !.phases = sessions[reader.session].phases]]
    /\ ReadOnly

SendSummary == /\ reader.pc = "copied"
               /\ reader' = [pc |-> "summary", summary |-> reader.summary]
               /\ ReadOnly

Answered == /\ reader.pc \in {"stats", "summary"}
            /\ reader' = Idle
            /\ ReadOnly

\* SIGINT or SIGTERM.
Shutdown == /\ ~stopping /\ restarts < MaxRestarts
            /\ stopping' = TRUE
            /\ UNCHANGED <<memory, disk, rec, reader, records, restarts, history>>

\* The process starts again: Postgres and the file stay.
StartAgain == /\ restarts < MaxRestarts
              /\ restarts' = restarts + 1 /\ stopping' = FALSE
              /\ usage' = NoUsage
              /\ sessions' = [s \in {} |-> NewSummary]
              /\ rec' = [r \in Recorders |-> Idle]
              /\ reader' = Idle
              /\ oldRows' = rows /\ oldLines' = Len(replay)
              /\ unsaved' = NoRows /\ unlogged' = NoRows
              /\ UNCHANGED <<disk, records>>

At(pcs) == {r \in Recorders : rec[r].pc \in pcs}

\* Faulty variant: a recorder that has answered its client is not waited for.
ExitOnceAnswered == /\ stopping /\ At({"serving"}) = {} /\ reader.pc = "idle"
                    /\ StartAgain /\ lost' = lost

\* Shutdown returns when every handler has returned.
Exit == /\ stopping /\ At({"idle"}) = Recorders /\ reader.pc = "idle"
        /\ StartAgain /\ lost' = lost

\* Shutdown has waited for five seconds and Fatal exits, or the process crashes:
\* either may find any request anywhere.
CutOff == StartAgain /\ lost' = lost + Cardinality(At({"serving", "insert"}))

Next == \/ \E r \in Recorders : \/ Accept(r) \/ \E x \in Metrics : Count(r, x)
                                \/ Insert(r) \/ InsertFails(r)
                                \/ AppendLine(r) \/ AppendFails(r) \/ Update(r)
        \/ QueryTotals \/ QueryModels \/ QueryFails
        \/ \E s \in DOMAIN sessions : CopySummary(s)
        \/ SendSummary \/ Answered \/ Shutdown \/ Exit \/ CutOff

Spec == Init /\ [][Next]_vars
-------------------------------------------------------------------------------
Sessions == {x.session : x \in Metrics} \ {None}

\* How many recorders with a metric are at some steps.
Busy(x, pcs) == Cardinality({r \in At(pcs) : rec[r].metric = x})

\* stats.go:61 and postgres.go:203 count the same requests: since the restart, the
\* statistics in memory are the aggregates of the rows inserted, of the inserts
\* that failed and of those still to come.
SinksAgree ==
    LET counted == [x \in Metrics |-> rows[x] - oldRows[x] + unsaved[x] + Busy(x, {"insert"})]
    IN /\ usage.models = ByModel(counted)
       /\ usage.total = CountIn(counted, Metrics)
       /\ usage.tokens = TokensIn(counted, Metrics)

\* workflow.go:123 "appends a replay event and updates in-memory summary": since
\* the restart, a session's summary with the updates still to come is what the
\* replay file says of it, with the lines that could not be written.
ReplayAgrees ==
    \A s \in Sessions :
        LET own == {x \in Metrics : x.session = s}
            lines == {i \in (oldLines + 1)..Len(replay) : replay[i].session = s}
            summarised == IF s \in DOMAIN sessions THEN sessions[s].all.requests ELSE 0
        IN summarised + Cardinality({r \in At({"update"}) : rec[r].metric \in own})
           = Cardinality(lines) + CountIn(unlogged, own)

\* GetStats reports no request that did not happen and leaves out none that was
\* counted before it began; the models cover at least the total, and in memory
\* exactly (postgres.go:257 and 296 are two queries).
Total(models) == MapThenSumSet(LAMBDA m : models[m].requests, DOMAIN models)
StatsBracketed ==
    reader.pc = "stats" =>
        IF reader.from = "postgres"
        THEN /\ reader.since.rows <= reader.total
             /\ reader.total <= Total(reader.models)
             /\ Total(reader.models) <= AllRows
        ELSE /\ reader.since.usage <= reader.total
             /\ reader.total = Total(reader.models)
             /\ reader.total <= usage.total

\* A summary that is sent adds up: its phases are its requests, its tools at most
\* those, although others update the session meanwhile (workflow.go:147, 365).
SummaryCoherent ==
    reader.pc = "summary" =>
        LET s == reader.summary IN
            /\ Total(s.phases) = s.all.requests
            /\ Total(s.tools) <= s.all.requests
            /\ s.hits <= s.all.requests

\* main.go:153 waits for the requests in flight: every request ever accepted has its
\* row, is still on its way to one, or was lost to a failed insert or to a process
\* that was cut off.  An orderly exit loses none.
DurableAccount == records = AllRows + lost + Cardinality(At({"serving", "insert"}))
===============================================================================
