-------------------------- MODULE ChatCompletionProofs --------------------------
(***************************************************************************)
(* No interleaving of requests, misses, failed writes and panics gives a   *)
(* client an answer to another question, has the recorder report what was  *)
(* not sent, or counts the tokens of an answer twice or never: for any     *)
(* number of requests, models, prompts, policies and fallbacks.            *)
(***************************************************************************)
EXTENDS ChatCompletion, FiniteSetTheorems, TLAPS

Codes == ErrorCodes \cup {None}

RequestType == [stage : Stages, requested : Models \cup {None},
                model : Models \cup {None}, prompt : Prompts \cup {None},
                vector : Range(Meaning) \cup {None}, reply : Replies \cup {None},
                source : Sources \cup {None}, status : Nat, code : Codes,
                sent : Nat \cup {None}, record : Records \cup {None}]

\* AnswerMatches, of one request.
Matches(q) ==
    /\ q.reply.by \in Chain[q.model] /\ q.reply.asked[1] = q.model
    /\ IF q.source = "cache_l2"
       THEN Meaning[q.reply.asked[2]] = Meaning[q.prompt]
       ELSE q.reply.asked[2] = q.prompt

\* What the handler knows of a request at each stage.
Sound(q) ==
    /\ q.reply # None => Matches(q)
    /\ q.stage \in {"search", "store"} => q.vector # None
    /\ q.vector # None => q.vector = Meaning[q.prompt]
    /\ q.stage \in {"setL1", "setL2", "store"} => q.source = "provider" /\ q.reply # None
    /\ q.stage \in {"l1", "l2", "search", "forward", "setL1", "setL2", "store"}
         => q.model \in Models /\ q.prompt \in Prompts

\* A cache holds every answer under the key it was asked for.
Filed(cache) ==
    \A k \in DOMAIN cache : /\ k \in Keys /\ cache[k] \in Replies
                            /\ cache[k].asked = k /\ cache[k].by \in Chain[k[1]]

Totals == given \in [Origins -> Nat] /\ counted \in [Origins -> Nat]

IInv == /\ enabled \in BOOLEAN
        /\ received \in 0..MaxRequests /\ Totals
        /\ req \in [Requests -> RequestType]
        /\ Filed(l1) /\ Filed(l2)
        /\ \A r \in Requests : Sound(req[r])

-------------------------------------------------------------------------------
LEMMA NoneApart == /\ None \notin Models /\ None \notin Prompts /\ None \notin Replies
                   /\ \A p \in Prompts : Meaning[p] # None
                   /\ \A p \in Prompts : Meaning[p] \in Range(Meaning)
  BY ChatAssumption DEF Range

\* A step that replaces one request by a sound one and leaves the caches alone.
LEMMA OneRequest ==
    ASSUME IInv, NEW r \in Requests, NEW q \in RequestType, Sound(q),
           req' = [req EXCEPT ![r] = q], UNCHANGED caches,
           received' \in 0..MaxRequests, Totals'
    PROVE  IInv'
<1>1. req' \in [Requests -> RequestType] /\ \A x \in Requests : Sound(req'[x])
  BY DEF IInv
<1>2. enabled' \in BOOLEAN /\ Filed(l1)' /\ Filed(l2)'
  BY DEF IInv, caches, Filed
<1> QED
  BY <1>1, <1>2 DEF IInv

LEMMA InitIInv == Init => IInv
<1> SUFFICES ASSUME Init PROVE IInv
  OBVIOUS
<1>1. NoRequest \in RequestType
  BY DEF NoRequest, RequestType, Stages, Codes, ErrorCodes
<1>2. Sound(NoRequest)
  BY DEF NoRequest, Sound
<1>3. Filed(l1) /\ Filed(l2)
  BY DEF Init, Filed
<1>4. enabled \in BOOLEAN
  BY Zenon DEF Init
<1> QED
  BY <1>1, <1>2, <1>3, <1>4, ChatAssumption DEF Init, IInv, Totals

LEMMA ReceiveIInv ==
    ASSUME IInv, NEW r \in Requests, NEW q \in Questions, Receive(r, q) PROVE IInv'
<1> DEFINE new == [NoRequest EXCEPT !.requested = q.model, !.model = RoutedModel(q),
                                    !.prompt = q.prompt,
                                    !.stage = IF Valid(q) THEN "l1" ELSE "reply",
                                    !.status = IF Valid(q) THEN 200 ELSE 400,
                                    !.code = IF Valid(q) THEN None ELSE "invalid_request"]
<1>1. RoutedModel(q) \in Models \cup {None} /\ q.model \in Models \cup {None}
      /\ q.prompt \in Prompts \cup {None}
  BY ChatAssumption DEF RoutedModel
<1>2. new \in RequestType
  <2> DEFINE stage == IF Valid(q) THEN "l1" ELSE "reply"
             status == IF Valid(q) THEN 200 ELSE 400
             code == IF Valid(q) THEN None ELSE "invalid_request"
  <2>1. stage \in Stages /\ status \in Nat /\ code \in Codes
    <3>1. CASE Valid(q)
      BY <3>1 DEF Stages, Codes, ErrorCodes
    <3>2. CASE ~ Valid(q)
      BY <3>2 DEF Stages, Codes, ErrorCodes
    <3> QED
      BY <3>1, <3>2
  <2>2. NoRequest \in RequestType
    BY DEF NoRequest, RequestType, Stages, Codes, ErrorCodes
  <2> HIDE DEF stage, status, code
  <2>3. [NoRequest EXCEPT !.requested = q.model, !.model = RoutedModel(q),
                          !.prompt = q.prompt, !.stage = stage,
                          !.status = status, !.code = code] \in RequestType
    BY <1>1, <2>1, <2>2 DEF RequestType
  <2> QED
    BY <2>3 DEF stage, status, code
<1>3. Sound(new)
  BY <1>1 DEF NoRequest, Sound, Valid
<1>4. received' \in 0..MaxRequests /\ Totals'
  BY ChatAssumption DEF Receive, IInv, totals, Totals
<1>5. req' = [req EXCEPT ![r] = new] /\ UNCHANGED caches
  BY DEF Receive
<1> HIDE DEF new
<1> QED
  BY <1>2, <1>3, <1>4, <1>5, OneRequest

LEMMA MalformedIInv ==
    ASSUME IInv, NEW r \in Requests, ReceiveMalformed(r) PROVE IInv'
<1> DEFINE new == [req[r] EXCEPT !.stage = "reply", !.status = 400,
                           !.code = "invalid_request"]
<1>1. req[r] \in RequestType /\ Sound(req[r]) /\ At(r, "idle")
  BY DEF IInv, ReceiveMalformed
<1>2. new \in RequestType /\ Sound(new)
  <2>1. "reply" \in Stages /\ "invalid_request" \in Codes
    BY DEF Stages, Codes, ErrorCodes
  <2>2. \A status \in Nat :
          [req[r] EXCEPT !.stage = "reply", !.status = status,
                         !.code = "invalid_request"] \in RequestType
    BY <1>1, <2>1 DEF RequestType
  <2>3. new \in RequestType
    <3>1. 400 \in Nat
      OBVIOUS
    <3> QED
      BY <2>2, <3>1, Zenon
  <2>4. Sound(new)
    BY <1>1 DEF RequestType, Sound, Matches
  <2> QED
    BY <2>3, <2>4
<1>3. received' \in 0..MaxRequests /\ Totals'
  BY ChatAssumption DEF ReceiveMalformed, IInv, totals, Totals
<1>4. req' = [req EXCEPT ![r] = new] /\ UNCHANGED caches
  BY DEF ReceiveMalformed
<1> HIDE DEF new
<1> QED
  BY <1>2, <1>3, <1>4, OneRequest

\* A step that only moves a request on, to a stage it is ready for.
LEMMA SkipIInv ==
    ASSUME IInv, NEW r \in Requests, NEW from, NEW to \in Stages, Skip(r, from, to),
           Sound([req[r] EXCEPT !.stage = to])
    PROVE  IInv'
<1> DEFINE new == [req[r] EXCEPT !.stage = to]
<1>1. new \in RequestType
  BY DEF IInv, RequestType
<1>2. received' \in 0..MaxRequests /\ Totals'
  BY DEF Skip, IInv, totals, Totals
<1>3. req' = [req EXCEPT ![r] = new] /\ UNCHANGED caches
  BY DEF Skip, Move
<1> HIDE DEF new
<1>4. Sound(new)
  BY DEF new
<1> QED
  BY <1>1, <1>2, <1>3, <1>4, OneRequest

LEMMA MissesIInv ==
    ASSUME IInv, NEW r \in Requests,
           L1Miss(r) \/ L2Skip(r) \/ L2Miss(r) \/ SetL1Fails(r) \/ SkipStore(r)
             \/ StoreFails(r) \/ StorePanics(r)
    PROVE  IInv'
<1>1. req[r] \in RequestType /\ Sound(req[r])
  BY DEF IInv
<1>2. /\ {"l2", "forward", "setL2", "store", "reply", "record"} \subseteq Stages
      /\ (IF enabled THEN "l2" ELSE "forward") \in {"l2", "forward"}
      /\ (IF req[r].vector = None THEN "setL2" ELSE "store") \in {"setL2", "store"}
  BY DEF Stages
<1>3. CASE L1Miss(r)
  <2>1. \A to \in {"l2", "forward"} : Sound([req[r] EXCEPT !.stage = to])
    BY <1>1, <1>3 DEF L1Miss, Skip, At, Sound, Matches, RequestType
  <2> QED
    BY <1>2, <1>3, <2>1, SkipIInv DEF L1Miss
<1>4. CASE L2Skip(r) \/ L2Miss(r)
  <2>1. Sound([req[r] EXCEPT !.stage = "forward"])
    BY <1>1, <1>4 DEF L2Skip, L2Miss, Skip, At, Sound, Matches, RequestType
  <2> QED
    BY <1>2, <1>4, <2>1, SkipIInv DEF L2Skip, L2Miss
<1>5. CASE SetL1Fails(r)
  <2> DEFINE to == IF req[r].vector = None THEN "setL2" ELSE "store"
  <2>1. Sound([req[r] EXCEPT !.stage = to])
    BY <1>1, <1>5 DEF SetL1Fails, Skip, At, Sound, Matches, RequestType
  <2> QED
    BY <1>2, <1>5, <2>1, SkipIInv DEF SetL1Fails
<1>6. CASE SkipStore(r) \/ StoreFails(r)
  <2>1. Sound([req[r] EXCEPT !.stage = "reply"])
    BY <1>1 DEF Sound, Matches, RequestType
  <2> QED
    BY <1>2, <1>6, <2>1, SkipIInv DEF SkipStore, StoreFails
<1>7. CASE StorePanics(r)
  <2>1. Sound([req[r] EXCEPT !.stage = "record"])
    BY <1>1 DEF Sound, Matches, RequestType
  <2> QED
    BY <1>2, <1>7, <2>1, SkipIInv DEF StorePanics
<1> QED
  BY <1>3, <1>4, <1>5, <1>6, <1>7

LEMMA HitIInv ==
    ASSUME IInv, NEW r \in Requests, L1Hit(r) \/ L2Hit(r) PROVE IInv'
<1>1. req[r] \in RequestType /\ Sound(req[r]) /\ "reply" \in Stages
  BY DEF IInv, Stages
<1>2. ASSUME NEW reply \in Replies, NEW source \in Sources, Hit(r, reply, source),
             Matches([req[r] EXCEPT !.stage = "reply", !.reply = reply,
                                    !.source = source])
      PROVE  IInv'
  <2> DEFINE new == [req[r] EXCEPT !.stage = "reply", !.reply = reply,
                                   !.source = source]
  <2>1. new \in RequestType
    BY <1>1 DEF RequestType
  <2>2. Sound(new)
    BY <1>1, <1>2 DEF Sound, RequestType
  <2>3. received' \in 0..MaxRequests /\ Totals'
    BY <1>2, ChatAssumption DEF Hit, IInv, Totals, Replies, Origins
  <2>4. req' = [req EXCEPT ![r] = new] /\ UNCHANGED caches
    BY <1>2 DEF Hit
  <2> HIDE DEF new
  <2> QED
    BY <2>1, <2>2, <2>3, <2>4, OneRequest
<1>3. CASE L1Hit(r)
  <2>1. /\ l1[Key(r)] \in Replies /\ l1[Key(r)].asked = <<req[r].model, req[r].prompt>>
        /\ l1[Key(r)].by \in Chain[req[r].model]
    BY <1>3 DEF L1Hit, IInv, Filed, Key
  <2>2. Matches([req[r] EXCEPT !.stage = "reply", !.reply = l1[Key(r)],
                               !.source = "cache_l1"])
    BY <1>1, <2>1 DEF Matches, RequestType
  <2> QED
    BY <1>2, <1>3, <2>1, <2>2 DEF L1Hit, Sources
<1>4. CASE L2Hit(r)
  <2>1. PICK k \in Similar(r) : Hit(r, l2[k], "cache_l2")
    BY <1>4 DEF L2Hit
  <2>2. /\ l2[k] \in Replies /\ l2[k].asked = k /\ l2[k].by \in Chain[k[1]]
        /\ k[1] = req[r].model /\ Meaning[k[2]] = req[r].vector
    BY DEF Similar, IInv, Filed
  <2>3. req[r].vector = Meaning[req[r].prompt]
    BY <1>1, <1>4 DEF L2Hit, At, Sound
  <2>4. Matches([req[r] EXCEPT !.stage = "reply", !.reply = l2[k],
                               !.source = "cache_l2"])
    BY <1>1, <2>2, <2>3 DEF Matches, RequestType
  <2> QED
    BY <1>2, <2>1, <2>2, <2>4 DEF Sources
<1> QED
  BY <1>3, <1>4

LEMMA EmbedIInv ==
    ASSUME IInv, NEW r \in Requests, L2Embed(r) \/ EmbedAgain(r) PROVE IInv'
<1>1. req[r] \in RequestType /\ Sound(req[r])
  BY DEF IInv
<1>2. PICK to \in {"search", "store"} :
         /\ Embed(r, IF to = "search" THEN "l2" ELSE "setL2", to)
  BY DEF L2Embed, EmbedAgain
<1> DEFINE new == [req[r] EXCEPT !.stage = to, !.vector = Meaning[req[r].prompt]]
<1>3. req[r].prompt \in Prompts /\ req[r].model \in Models
      /\ (to = "store" => req[r].source = "provider" /\ req[r].reply # None)
  BY <1>1, <1>2 DEF Embed, At, Sound
<1>4. new \in RequestType
  BY <1>1, <1>3, NoneApart DEF RequestType, Stages
<1>5. Sound(new)
  BY <1>1, <1>3, NoneApart DEF Sound, Matches, RequestType
<1>6. received' \in 0..MaxRequests /\ Totals'
  BY <1>2 DEF Embed, IInv, totals, Totals
<1>7. req' = [req EXCEPT ![r] = new] /\ UNCHANGED caches
  BY <1>2 DEF Embed
<1> HIDE DEF new
<1> QED
  BY <1>4, <1>5, <1>6, <1>7, OneRequest

LEMMA AnsweredIInv ==
    ASSUME IInv, NEW r \in Requests, NEW m \in Models,
           NEW n \in Tokens, Answered(r, m, n)
    PROVE  IInv'
<1> DEFINE reply == [asked |-> <<req[r].model, req[r].prompt>>, by |-> m, tokens |-> n]
           to == IF enabled THEN "setL1" ELSE "reply"
           new == [req[r] EXCEPT !.reply = reply, !.source = "provider", !.stage = to]
<1>1. req[r] \in RequestType /\ Sound(req[r]) /\ At(r, "forward")
  BY DEF IInv, Answered
<1>2. req[r].model \in Models /\ req[r].prompt \in Prompts /\ m \in Chain[req[r].model]
  BY <1>1 DEF At, Sound, Answered
<1>3. reply \in Replies /\ "provider" \in Sources /\ to \in {"setL1", "reply"}
      /\ to \in Stages
  BY <1>2 DEF Replies, Keys, Sources, Stages
<1>4. reply.asked[1] = req[r].model /\ reply.asked[2] = req[r].prompt /\ reply.by = m
  OBVIOUS
<1>5. req' = [req EXCEPT ![r] = new] /\ UNCHANGED caches
  BY DEF Answered
<1>6. received' \in 0..MaxRequests /\ Totals'
  BY ChatAssumption DEF Answered, IInv, Totals, Origins
<1> HIDE DEF reply, to
<1>7. new \in RequestType
  BY <1>1, <1>3 DEF RequestType
<1>8. reply # None
  BY <1>3, NoneApart
<1>9. Sound(new)
  BY <1>1, <1>2, <1>3, <1>4, <1>8 DEF Sound, Matches, RequestType
<1> HIDE DEF new
<1> QED
  BY <1>5, <1>6, <1>7, <1>9, OneRequest

\* Every upstream error is answered with a status and recorded with a code.
LEMMA MappedType ==
    ASSUME NEW e \in Upstream
    PROVE  HTTPStatus(mapUpstreamError(e)) \in Nat /\ mapUpstreamError(e).code \in Codes
<1> DEFINE answers_with == {InvalidRequest, InvalidAPIKey, KeyDisabled,
                            RateLimitExceeded, BadGateway, CircuitOpen,
                            ModelOverloaded, ServiceUnavailable, ProviderError,
                            InternalError}
<1>1. mapUpstreamError(e) \in answers_with
  BY DEF mapUpstreamError
<1>2. \A x \in answers_with : x.code \in Codes
  BY DEF Codes, ErrorCodes, GatewayError, InvalidRequest, InvalidAPIKey, KeyDisabled, RateLimitExceeded,
         BadGateway, CircuitOpen, ModelOverloaded, ServiceUnavailable, ProviderError,
         InternalError
<1>3. \A x : HTTPStatus(x) \in Nat
  BY DEF HTTPStatus, StatusOfType
<1> QED
  BY <1>1, <1>2, <1>3

LEMMA RefusedIInv ==
    ASSUME IInv, NEW r \in Requests, NEW e \in Upstream, Refused(r, e) PROVE IInv'
<1> DEFINE mapped == mapUpstreamError(e)
           new == [req[r] EXCEPT !.stage = "reply", !.status = HTTPStatus(mapped),
                                 !.code = mapped.code]
<1>1. req[r] \in RequestType /\ Sound(req[r])
  BY DEF IInv
<1>2. HTTPStatus(mapped) \in Nat /\ mapped.code \in Codes /\ "reply" \in Stages
  BY MappedType DEF Stages
<1> HIDE DEF mapped
<1>3. new \in RequestType
  BY <1>1, <1>2 DEF RequestType
<1>4. Sound(new)
  BY <1>1 DEF Sound, Matches, RequestType
<1>5. req' = [req EXCEPT ![r] = new] /\ UNCHANGED caches
  BY DEF Refused, mapped
<1>6. received' \in 0..MaxRequests /\ Totals'
  BY DEF Refused, IInv, totals, Totals
<1> HIDE DEF new
<1> QED
  BY <1>3, <1>4, <1>5, <1>6, OneRequest

\* What the recorder makes of the answer.
LEMMA RecordedType ==
    ASSUME NEW q \in RequestType
    PROVE  RecordedModel(q) \in Models \cup {None} /\ TotalTokens(q) \in Nat
  BY ChatAssumption DEF RequestType, RecordedModel, TotalTokens, Replies

LEMMA FinalIInv ==
    ASSUME IInv, NEW r \in Requests, Reply(r) \/ Record(r) \/ Recover(r) \/ Finish(r)
    PROVE  IInv'
<1>1. req[r] \in RequestType /\ Sound(req[r]) /\ {"record", "recover", "done"} \subseteq Stages
  BY DEF IInv, Stages
<1>2. UNCHANGED caches /\ received' \in 0..MaxRequests
  BY DEF Reply, Record, Recover, Finish, IInv, totals
<1>3. CASE Reply(r)
  <2> DEFINE new == [req[r] EXCEPT !.sent = req[r].status, !.stage = "record"]
  <2>1. new \in RequestType
    BY <1>1 DEF RequestType
  <2>2. Sound(new)
    BY <1>1 DEF Sound, Matches, RequestType
  <2>3. req' = [req EXCEPT ![r] = new] /\ Totals'
    BY <1>3 DEF Reply, IInv, totals, Totals
  <2> HIDE DEF new
  <2> QED
    BY <1>2, <2>1, <2>2, <2>3, OneRequest
<1>4. CASE Record(r)
  <2> DEFINE record == [status |-> req[r].status, code |-> req[r].code,
                        cacheHit |-> CacheHit(r),
                        model |-> RecordedModel(req[r]),
                        tokens |-> TotalTokens(req[r])]
             to == IF req[r].sent = None THEN "recover" ELSE "done"
             new == [req[r] EXCEPT !.record = record, !.stage = to]
  <2>1. /\ RecordedModel(req[r]) \in Models \cup {None} /\ TotalTokens(req[r]) \in Nat
        /\ CacheHit(r) \in BOOLEAN
        /\ req[r].status \in Nat /\ req[r].code \in Codes
    BY <1>1, RecordedType DEF RequestType, CacheHit
  <2>2. record \in Records /\ to \in Stages /\ to \in {"recover", "done"}
    BY <1>1, <2>1 DEF Records, Codes
  <2>3. /\ req' = [req EXCEPT ![r].record = record, ![r].stage = to]
        /\ \E origin \in Origins :
              counted' = [counted EXCEPT ![origin] = @ + TotalTokens(req[r])]
        /\ given' = given
    BY <1>4 DEF Record, Origins
  <2> HIDE DEF record, to
  <2>4. new \in RequestType
    BY <1>1, <2>2 DEF RequestType
  <2>5. Sound(new)
    BY <1>1, <2>2 DEF Sound, Matches, RequestType
  <2>6. req' = [req EXCEPT ![r] = new] /\ Totals'
    <3>1. req' = [req EXCEPT ![r] = new]
      BY <2>3
    <3>2. Totals'
      BY <2>1, <2>3 DEF IInv, Totals
    <3> QED
      BY <3>1, <3>2
  <2> HIDE DEF new
  <2> QED
    BY <1>2, <2>4, <2>5, <2>6, OneRequest
<1>5. CASE Recover(r)
  <2> DEFINE new == [req[r] EXCEPT !.sent = StatusInternalServerError, !.stage = "done"]
  <2>1. StatusInternalServerError \in Nat
    BY DEF StatusInternalServerError
  <2>2. new \in RequestType
    BY <1>1, <2>1 DEF RequestType
  <2>3. Sound(new)
    BY <1>1 DEF Sound, Matches, RequestType
  <2>4. req' = [req EXCEPT ![r] = new]
    BY <1>5 DEF Recover
  <2>5. Totals'
    BY <1>5 DEF Recover, IInv, totals, Totals
  <2> HIDE DEF new
  <2> QED
    BY <1>2, <2>2, <2>3, <2>4, <2>5, OneRequest
<1>6. CASE Finish(r)
  <2>1. NoRequest \in RequestType /\ Sound(NoRequest)
    BY DEF NoRequest, RequestType, Stages, Codes, ErrorCodes, Sound
  <2>2. req' = [req EXCEPT ![r] = NoRequest] /\ Totals'
    BY <1>6 DEF Finish, IInv, totals, Totals
  <2> QED
    BY <1>2, <2>1, <2>2, OneRequest
<1> QED
  BY <1>3, <1>4, <1>5, <1>6

\* Storing an answer under the key it was asked for keeps a cache filed.
LEMMA WithFiled ==
    ASSUME NEW cache, Filed(cache), NEW k \in Keys, NEW reply \in Replies,
           reply.asked = k, reply.by \in Chain[k[1]]
    PROVE  Filed(With(cache, k, reply))
  BY DEF Filed, With

LEMMA StoresIInv ==
    ASSUME IInv, NEW r \in Requests, SetL1(r) \/ StoreL2(r) PROVE IInv'
<1>1. req[r] \in RequestType /\ Sound(req[r])
      /\ {"setL2", "store", "reply"} \subseteq Stages
  BY DEF IInv, Stages
<1>2. /\ req[r].model \in Models /\ req[r].prompt \in Prompts
      /\ req[r].source = "provider" /\ req[r].reply # None /\ Matches(req[r])
  BY <1>1 DEF SetL1, StoreL2, At, Sound
<1>3. req[r].reply \in Replies
  BY <1>1, <1>2 DEF RequestType
<1>4. req[r].reply.asked \in Keys
  BY <1>3 DEF Replies
<1>5. req[r].reply.asked = Key(r) /\ req[r].reply.by \in Chain[Key(r)[1]]
      /\ Key(r) \in Keys
  BY <1>2, <1>4 DEF Matches, Keys, Key
<1>6. PICK to \in {"setL2", "store", "reply"} :
         /\ req' = [req EXCEPT ![r] = [req[r] EXCEPT !.stage = to]]
         /\ to = "store" => req[r].vector # None
  BY DEF SetL1, StoreL2, Move
<1>7. [req[r] EXCEPT !.stage = to] \in RequestType
  BY <1>1 DEF RequestType
<1>8. Sound([req[r] EXCEPT !.stage = to])
  BY <1>1, <1>2, <1>6 DEF Sound, Matches, RequestType
<1>9. req' \in [Requests -> RequestType] /\ \A x \in Requests : Sound(req'[x])
  BY <1>6, <1>7, <1>8 DEF IInv
<1>10. Filed(l1') /\ Filed(l2')
  BY <1>3, <1>5, WithFiled DEF IInv, SetL1, StoreL2
<1>11. enabled' \in BOOLEAN /\ received' \in 0..MaxRequests
       /\ Totals'
  BY DEF SetL1, StoreL2, IInv, totals, Totals
<1> QED
  BY <1>9, <1>10, <1>11 DEF IInv, Filed

LEMMA NextIInv == IInv /\ [Next]_vars => IInv'
<1> SUFFICES ASSUME IInv, [Next]_vars PROVE IInv'
  OBVIOUS
<1>1. CASE UNCHANGED vars
  BY <1>1 DEF vars, IInv, Filed, Totals
<1>2. ASSUME NEW r \in Requests, Progress(r) PROVE IInv'
  BY <1>2, MissesIInv, HitIInv, EmbedIInv, AnsweredIInv, RefusedIInv, FinalIInv,
     StoresIInv DEF Progress
<1>3. ASSUME NEW r \in Requests, ReceiveMalformed(r) PROVE IInv'
  BY <1>3, MalformedIInv
<1>4. ASSUME NEW r \in Requests, NEW q \in Questions, Receive(r, q) PROVE IInv'
  BY <1>4, ReceiveIInv
<1> QED
  BY <1>1, <1>2, <1>3, <1>4 DEF Next

-------------------------------------------------------------------------------
\* The handler keeps its locals and the caches well formed.
THEOREM TypeCorrect == Spec => []TypeOK
<1>1. IInv => TypeOK
  <2> SUFFICES ASSUME IInv PROVE TypeOK
    OBVIOUS
  <2>1. /\ DOMAIN l1 \subseteq Keys /\ Range(l1) \subseteq Replies
        /\ DOMAIN l2 \subseteq Keys /\ Range(l2) \subseteq Replies
    BY DEF IInv, Filed, Range
  <2>2. ASSUME NEW r \in Requests
        PROVE  /\ req[r].stage \in Stages
               /\ req[r].source \in Sources \cup {None}
               /\ req[r].reply \in Replies \cup {None}
               /\ req[r].stage \in {"search", "store"} => req[r].vector # None
               /\ req[r].stage \in {"setL1", "setL2", "store"}
                    => req[r].source = "provider"
    BY DEF IInv, RequestType, Sound
  <2> QED
    BY <2>1, <2>2 DEF IInv, TypeOK, Totals
<1> QED
  BY <1>1, InitIInv, NextIInv, PTL DEF Spec

\* Whatever other requests store meanwhile, a client gets an answer to its own
\* question, or from L2 to one of the same meaning, by a model it may get.
THEOREM AnswersMatch == Spec => []AnswerMatches
<1>1. IInv => AnswerMatches
  BY DEF IInv, Sound, Matches, AnswerMatches
<1> QED
  BY <1>1, InitIInv, NextIInv, PTL DEF Spec
-------------------------------------------------------------------------------
\* The status and the code of a request that was answered, or was not.
Tells(status, code, answered) ==
    /\ status = 200 <=> answered
    /\ code = None <=> answered
    /\ code \in DOMAIN Documented => status = Documented[code]

\* The record tells what the locals of the request told.
RecordTells(q) ==
    /\ q.record # None
    /\ Tells(q.record.status, q.record.code, q.reply # None)
    /\ q.record.cacheHit <=> q.source \in {"cache_l1", "cache_l2"}
    /\ q.record.tokens # 0 => q.reply # None
    /\ q.reply # None => /\ q.record.model = q.reply.by
                         /\ q.record.tokens = q.reply.tokens

\* What the deferred recorder finds, or has left, at each stage.
Reported(q) ==
    /\ q.source = None <=> q.reply = None
    /\ q.stage \in {"idle", "l1", "l2", "search", "forward"} => q.reply = None
    /\ q.stage \notin {"reply", "record", "recover", "done"} => q.status = 200 /\ q.code = None
    /\ q.stage \in {"reply", "record"} => Tells(q.status, q.code, q.reply # None)
    /\ q.stage \notin {"record", "done"} => q.sent = None
    /\ q.stage = "record" => \/ q.sent = q.status
                             \/ q.sent = None /\ q.source = "provider"
    /\ q.stage \notin {"recover", "done"} => q.record = None
    /\ q.stage \in {"recover", "done"} => RecordTells(q)
    /\ q.stage = "recover" => q.source = "provider"
    /\ q.stage = "done" => \/ q.record.status = q.sent
                           \/ q.sent = 500 /\ q.source = "provider"

ReportsIInv == IInv /\ \A r \in Requests : Reported(req[r])

\* The tokens that a step of a request gives it or records for it are those it
\* has more, or less, to record.
Balanced(r, new) ==
    \A origin \in Origins :
        given'[origin] + counted[origin] + Due(req[r], origin)
          = given[origin] + counted'[origin] + Due(new, origin)

\* A step of one request leaves it as the recorder wants it.
StepReports(r) ==
    \E new \in RequestType :
        /\ Reported(new)
        /\ req' = [req EXCEPT ![r] = new]
        /\ Balanced(r, new)

LEMMA NoneUnsaid ==
    /\ None \notin Nat /\ None \notin ErrorCodes /\ None \notin Sources /\ None \notin Records
    /\ None \notin Replies
    /\ None \notin DOMAIN Documented /\ "invalid_request" \notin DOMAIN Documented
  BY NoneAssumption, ChatAssumption DEF Documented, ErrorCodes

\* The error of every upstream failure has a code of its own, and the status that
\* the code is documented with.
LEMMA ErrorsTell ==
    \A e \in Upstream :
        /\ HTTPStatus(mapUpstreamError(e)) \in Nat
        /\ mapUpstreamError(e).code \in ErrorCodes
        /\ Tells(HTTPStatus(mapUpstreamError(e)), mapUpstreamError(e).code, FALSE)
<1> DEFINE answers_with == {InvalidRequest, InvalidAPIKey, KeyDisabled, RateLimitExceeded,
                            BadGateway, CircuitOpen, ModelOverloaded, ServiceUnavailable,
                            ProviderError, InternalError}
<1>1. \A e \in Upstream : mapUpstreamError(e) \in answers_with
  BY DEF mapUpstreamError
<1> USE NoneUnsaid DEF GatewayError, HTTPStatus, StatusOfType, ErrorCodes, Tells, Documented
<1>2. /\ InvalidRequest.code = "invalid_request" /\ HTTPStatus(InvalidRequest) = 400
      /\ InvalidAPIKey.code = "invalid_api_key" /\ HTTPStatus(InvalidAPIKey) = 401
  BY DEF InvalidRequest, InvalidAPIKey
<1>3. /\ KeyDisabled.code = "key_disabled" /\ HTTPStatus(KeyDisabled) = 403
      /\ RateLimitExceeded.code = "rate_limit_exceeded" /\ HTTPStatus(RateLimitExceeded) = 429
  BY DEF KeyDisabled, RateLimitExceeded
<1>4. /\ BadGateway.code = "bad_gateway" /\ HTTPStatus(BadGateway) = 502
      /\ CircuitOpen.code = "circuit_open" /\ HTTPStatus(CircuitOpen) = 503
  BY DEF BadGateway, CircuitOpen
<1>5. /\ ModelOverloaded.code = "model_overloaded" /\ HTTPStatus(ModelOverloaded) = 503
      /\ ServiceUnavailable.code = "service_unavailable" /\ HTTPStatus(ServiceUnavailable) = 503
  BY DEF ModelOverloaded, ServiceUnavailable
<1>6. /\ ProviderError.code = "provider_error" /\ HTTPStatus(ProviderError) = 500
      /\ InternalError.code = "internal_error" /\ HTTPStatus(InternalError) = 500
  BY DEF ProviderError, InternalError
<1> HIDE DEF GatewayError, HTTPStatus, StatusOfType
<1>7. \A x \in answers_with : /\ HTTPStatus(x) \in Nat /\ x.code \in ErrorCodes
                              /\ Tells(HTTPStatus(x), x.code, FALSE)
  BY <1>2, <1>3, <1>4, <1>5, <1>6
<1> HIDE DEF answers_with
<1> QED
  BY <1>1, <1>7

LEMMA DueType ==
    ASSUME NEW q \in RequestType, NEW origin \in Origins
    PROVE  Due(q, origin) \in Nat
  BY ChatAssumption DEF Due, RequestType, Replies

\* What a request without an answer, or with a record, has to record.
LEMMA NothingDue ==
    ASSUME NEW q, q.reply = None \/ q.record # None, NEW origin
    PROVE  Due(q, origin) = 0
  BY DEF Due

\* A step that leaves the totals, the answer and the record alone.
LEMMA SameDue ==
    ASSUME ReportsIInv, NEW r \in Requests, NEW new, UNCHANGED totals,
           new.source = req[r].source, new.reply = req[r].reply,
           new.record = req[r].record
    PROVE  Balanced(r, new)
<1>1. \A origin \in Origins : Due(new, origin) = Due(req[r], origin)
  BY DEF Due
<1> QED
  BY <1>1 DEF Balanced, totals

\* A step of a request that has nothing to record before and after.
LEMMA NoneDue ==
    ASSUME ReportsIInv, NEW r \in Requests, NEW new, UNCHANGED totals,
           req[r].reply = None \/ req[r].record # None,
           new.reply = None \/ new.record # None
    PROVE  Balanced(r, new)
<1>1. \A origin \in Origins : Due(new, origin) = 0 /\ Due(req[r], origin) = 0
  BY NothingDue
<1> QED
  BY <1>1 DEF Balanced, totals

\* An answer that a request gets is due.
LEMMA GivenDue ==
    ASSUME ReportsIInv, NEW r \in Requests, NEW new \in RequestType,
           NEW origin \in Origins,
           req[r].reply = None, new.reply # None, new.record = None,
           new.source = "provider" <=> origin = "provider",
           given' = [given EXCEPT ![origin] = @ + new.reply.tokens],
           counted' = counted
    PROVE  Balanced(r, new)
<1>1. \A o \in Origins : Due(req[r], o) = 0
  BY NothingDue
<1>2. \A o \in Origins : Due(new, o) = IF o = origin THEN new.reply.tokens ELSE 0
  BY DEF Due, Origins
<1>3. new.reply.tokens \in Nat
  BY ChatAssumption DEF RequestType, Replies
<1>4. \A o \in Origins : /\ given[o] \in Nat /\ counted[o] \in Nat
                         /\ given'[o] = given[o] + Due(new, o)
  BY <1>2, <1>3 DEF ReportsIInv, IInv, Totals
<1>5. \A o \in Origins : Due(new, o) \in Nat
  BY DueType
<1> QED
  BY <1>1, <1>4, <1>5 DEF Balanced

Early == {"l1", "l2", "search", "forward"}
Late == {"setL1", "setL2", "store"}

\* A request that goes on without another change.
LEMMA MoveReports ==
    ASSUME ReportsIInv, NEW r \in Requests, NEW to \in Stages,
           req' = [req EXCEPT ![r].stage = to], UNCHANGED totals,
           \/ req[r].stage \in Early /\ to \in Early
           \/ req[r].stage \in Late /\ to \in Late \cup {"reply", "record"}
    PROVE  StepReports(r)
<1> DEFINE new == [req[r] EXCEPT !.stage = to]
<1>1. req[r] \in RequestType /\ Reported(req[r]) /\ Sound(req[r])
  BY DEF ReportsIInv, IInv
<1>2. new \in RequestType /\ new.stage = to
  BY <1>1 DEF RequestType
<1>3. /\ new.source = req[r].source /\ new.reply = req[r].reply /\ new.status = req[r].status
      /\ new.code = req[r].code /\ new.sent = req[r].sent /\ new.record = req[r].record
  BY <1>1 DEF RequestType
<1>4. req' = [req EXCEPT ![r] = new]
  OBVIOUS
<1> HIDE DEF new
<1>5. Reported(new)
  BY <1>1, <1>2, <1>3, NoneUnsaid DEF Reported, Sound, Tells, Early, Late
<1>6. Balanced(r, new)
  BY <1>3, SameDue
<1> QED
  BY <1>2, <1>4, <1>5, <1>6 DEF StepReports

LEMMA MissesReport ==
    ASSUME ReportsIInv, NEW r \in Requests,
           L1Miss(r) \/ L2Skip(r) \/ L2Miss(r) \/ SetL1Fails(r) \/ SkipStore(r)
             \/ StoreFails(r) \/ StorePanics(r) \/ SetL1(r) \/ StoreL2(r)
    PROVE  StepReports(r)
<1> USE DEF Skip, At, Move, Early, Late, Stages
<1>1. CASE L1Miss(r)
  BY <1>1, MoveReports DEF L1Miss
<1>2. CASE L2Skip(r) \/ L2Miss(r)
  BY <1>2, MoveReports DEF L2Skip, L2Miss
<1>3. CASE SetL1Fails(r) \/ SetL1(r)
  BY <1>3, MoveReports DEF SetL1Fails, SetL1
<1>4. CASE SkipStore(r) \/ StoreFails(r) \/ StorePanics(r) \/ StoreL2(r)
  BY <1>4, MoveReports DEF SkipStore, StoreFails, StorePanics, StoreL2
<1> QED
  BY <1>1, <1>2, <1>3, <1>4

LEMMA ReceiveReports ==
    ASSUME ReportsIInv, NEW r \in Requests, NEW q \in Questions, Receive(r, q)
    PROVE  StepReports(r)
<1> DEFINE new == [NoRequest EXCEPT !.requested = q.model, !.model = RoutedModel(q),
                                    !.prompt = q.prompt,
                                    !.stage = IF Valid(q) THEN "l1" ELSE "reply",
                                    !.status = IF Valid(q) THEN 200 ELSE 400,
                                    !.code = IF Valid(q) THEN None ELSE "invalid_request"]
<1>1. req[r] \in RequestType /\ Reported(req[r]) /\ req[r].stage = "idle"
  BY DEF ReportsIInv, IInv, Receive, At
<1>2. /\ new.source = None /\ new.reply = None /\ new.sent = None /\ new.record = None
      /\ \/ new.stage = "l1" /\ new.status = 200 /\ new.code = None
         \/ new.stage = "reply" /\ new.status = 400 /\ new.code = "invalid_request"
  BY DEF NoRequest
<1>3. req' = [req EXCEPT ![r] = new] /\ UNCHANGED totals
  BY DEF Receive
<1>4. req'[r] = new /\ req' \in [Requests -> RequestType]
  <2>1. IInv'
    BY ReceiveIInv DEF ReportsIInv
  <2> QED
    BY <1>3, <2>1 DEF ReportsIInv, IInv
<1>5. new \in RequestType
  BY <1>4
<1> HIDE DEF new
<1>6. Reported(new)
  BY <1>2, NoneUnsaid DEF Reported, Tells, ErrorCodes
<1>7. Balanced(r, new)
  BY <1>1, <1>2, <1>3, NoneDue DEF Reported
<1> QED
  BY <1>3, <1>5, <1>6, <1>7 DEF StepReports

LEMMA MalformedReports ==
    ASSUME ReportsIInv, NEW r \in Requests, ReceiveMalformed(r) PROVE StepReports(r)
<1> DEFINE new == [req[r] EXCEPT !.stage = "reply", !.status = 400,
                                 !.code = "invalid_request"]
<1>1. req[r] \in RequestType /\ Reported(req[r]) /\ req[r].stage = "idle"
  BY DEF ReportsIInv, IInv, ReceiveMalformed, At
<1>2. /\ new.source = req[r].source /\ new.reply = req[r].reply /\ new.sent = req[r].sent
      /\ new.record = req[r].record
      /\ new.stage = "reply" /\ new.status = 400 /\ new.code = "invalid_request"
  <2> DEFINE status == 400
  <2> HIDE DEF status
  <2>1. LET q == [req[r] EXCEPT !.stage = "reply", !.status = status,
                                !.code = "invalid_request"]
        IN  /\ q.source = req[r].source /\ q.reply = req[r].reply /\ q.sent = req[r].sent
            /\ q.record = req[r].record
            /\ q.stage = "reply" /\ q.status = status /\ q.code = "invalid_request"
    BY <1>1 DEF RequestType
  <2> QED
    BY <2>1 DEF status
<1>3. req' = [req EXCEPT ![r] = new] /\ UNCHANGED totals
  <2> DEFINE status == 400
  <2> HIDE DEF status
  <2>1. [req EXCEPT ![r].stage = "reply", ![r].status = status,
                    ![r].code = "invalid_request"]
          = [req EXCEPT ![r] = [req[r] EXCEPT !.stage = "reply", !.status = status,
                                              !.code = "invalid_request"]]
    OBVIOUS
  <2> QED
    BY <2>1 DEF ReceiveMalformed, status
<1>4. req'[r] = new /\ req' \in [Requests -> RequestType]
  <2>1. IInv'
    BY MalformedIInv DEF ReportsIInv
  <2> QED
    BY <1>3, <2>1 DEF ReportsIInv, IInv
<1>5. new \in RequestType
  BY <1>4
<1> HIDE DEF new
<1>6. Reported(new)
  BY <1>1, <1>2, NoneUnsaid DEF Reported, Tells, ErrorCodes
<1>7. Balanced(r, new)
  BY <1>2, <1>3, SameDue
<1> QED
  BY <1>3, <1>5, <1>6, <1>7 DEF StepReports

LEMMA HitReports ==
    ASSUME ReportsIInv, NEW r \in Requests, L1Hit(r) \/ L2Hit(r) PROVE StepReports(r)
<1>1. req[r] \in RequestType /\ Reported(req[r]) /\ req[r].stage \in Early
  BY DEF ReportsIInv, IInv, L1Hit, L2Hit, At, Early
<1>2. PICK reply \in Replies, source \in {"cache_l1", "cache_l2"} : Hit(r, reply, source)
  <2>1. CASE L1Hit(r)
    BY <2>1 DEF L1Hit, ReportsIInv, IInv, Filed
  <2>2. CASE L2Hit(r)
    BY <2>2 DEF L2Hit, Similar, ReportsIInv, IInv, Filed
  <2> QED
    BY <2>1, <2>2
<1> DEFINE new == [req[r] EXCEPT !.stage = "reply", !.reply = reply, !.source = source]
<1>3. /\ new.source = source /\ new.reply = reply /\ new.sent = req[r].sent
      /\ new.record = req[r].record /\ new.stage = "reply" /\ new.status = req[r].status
      /\ new.code = req[r].code
  BY <1>1 DEF RequestType
<1>4. new \in RequestType
  BY <1>1, <1>2 DEF RequestType, Stages, Sources
<1>5. /\ req' = [req EXCEPT ![r] = new] /\ counted' = counted
      /\ given' = [given EXCEPT !["cache"] = @ + reply.tokens]
  BY <1>2 DEF Hit
<1> HIDE DEF new
<1>6. Reported(new)
  BY <1>1, <1>2, <1>3, NoneUnsaid DEF Reported, Tells, Sources, Early
<1>7. Balanced(r, new)
  <2>1. req[r].reply = None /\ new.reply # None /\ new.record = None
    BY <1>1, <1>3, NoneUnsaid DEF Reported, Early
  <2>2. new.source = "provider" <=> "cache" = "provider"
    BY <1>3
  <2>3. "cache" \in Origins
    BY DEF Origins
  <2> QED
    BY <1>3, <1>4, <1>5, <2>1, <2>2, <2>3, GivenDue
<1> QED
  BY <1>4, <1>5, <1>6, <1>7 DEF StepReports

LEMMA EmbedReports ==
    ASSUME ReportsIInv, NEW r \in Requests, L2Embed(r) \/ EmbedAgain(r) PROVE StepReports(r)
<1>1. req[r] \in RequestType /\ Reported(req[r]) /\ Sound(req[r])
  BY DEF ReportsIInv, IInv
<1>2. PICK to \in {"search", "store"} : Embed(r, IF to = "search" THEN "l2" ELSE "setL2", to)
  BY DEF L2Embed, EmbedAgain
<1> DEFINE new == [req[r] EXCEPT !.stage = to, !.vector = Meaning[req[r].prompt]]
<1>3. /\ new.source = req[r].source /\ new.reply = req[r].reply /\ new.sent = req[r].sent
      /\ new.record = req[r].record /\ new.stage = to /\ new.status = req[r].status
      /\ new.code = req[r].code
  BY <1>1 DEF RequestType
<1>4. req' = [req EXCEPT ![r] = new] /\ UNCHANGED totals
  BY <1>2 DEF Embed
<1>5. new \in RequestType
  <2>1. IInv'
    BY EmbedIInv DEF ReportsIInv
  <2>2. req'[r] \in RequestType
    BY <2>1 DEF IInv
  <2>3. req'[r] = new
    BY <1>4 DEF ReportsIInv, IInv
  <2> QED
    BY <2>2, <2>3
<1> HIDE DEF new
<1>6. Reported(new)
  BY <1>1, <1>2, <1>3 DEF Reported, Embed, At
<1>7. Balanced(r, new)
  BY <1>3, <1>4, SameDue
<1> QED
  BY <1>4, <1>5, <1>6, <1>7 DEF StepReports

LEMMA AnsweredReports ==
    ASSUME ReportsIInv, NEW r \in Requests, NEW m \in Models,
           NEW n \in Tokens, Answered(r, m, n)
    PROVE  StepReports(r)
<1> DEFINE reply == [asked |-> <<req[r].model, req[r].prompt>>, by |-> m, tokens |-> n]
           to == IF enabled THEN "setL1" ELSE "reply"
           new == [req[r] EXCEPT !.reply = reply, !.source = "provider", !.stage = to]
<1>1. req[r] \in RequestType /\ Reported(req[r]) /\ Sound(req[r]) /\ req[r].stage = "forward"
  BY DEF ReportsIInv, IInv, Answered, At
<1>2. reply \in Replies
  BY <1>1 DEF Sound, Replies, Keys
<1>3. to \in {"setL1", "reply"} /\ reply.tokens = n
  OBVIOUS
<1>4. /\ req' = [req EXCEPT ![r] = new]
      /\ given' = [given EXCEPT !["provider"] = @ + n] /\ counted' = counted
  BY DEF Answered
<1> HIDE DEF reply, to
<1>5. /\ new.source = "provider" /\ new.reply = reply /\ new.sent = req[r].sent
      /\ new.record = req[r].record /\ new.stage = to /\ new.status = req[r].status
      /\ new.code = req[r].code
  BY <1>1 DEF RequestType
<1>6. new \in RequestType
  BY <1>1, <1>2, <1>3 DEF RequestType, Stages, Sources
<1> HIDE DEF new
<1>7. Reported(new)
  BY <1>1, <1>2, <1>3, <1>5, NoneUnsaid DEF Reported, Tells, Sources
<1>8. Balanced(r, new)
  <2>1. req[r].reply = None /\ new.reply # None /\ new.record = None
    BY <1>1, <1>2, <1>5, NoneUnsaid DEF Reported
  <2>2. "provider" \in Origins
    BY DEF Origins
  <2> QED
    BY <1>3, <1>4, <1>5, <1>6, <2>1, <2>2, GivenDue
<1> QED
  BY <1>4, <1>6, <1>7, <1>8 DEF StepReports

LEMMA RefusedReports ==
    ASSUME ReportsIInv, NEW r \in Requests, NEW e \in Upstream, Refused(r, e)
    PROVE  StepReports(r)
<1> DEFINE mapped == mapUpstreamError(e)
           new == [req[r] EXCEPT !.stage = "reply", !.status = HTTPStatus(mapped),
                                 !.code = mapped.code]
<1>1. req[r] \in RequestType /\ Reported(req[r]) /\ req[r].stage = "forward"
  BY DEF ReportsIInv, IInv, Refused, At
<1>2. /\ HTTPStatus(mapped) \in Nat /\ mapped.code \in Codes
      /\ Tells(HTTPStatus(mapped), mapped.code, FALSE)
  BY ErrorsTell DEF Codes
<1>3. req' = [req EXCEPT ![r] = new] /\ UNCHANGED totals
  BY DEF Refused
<1> HIDE DEF mapped
<1>4. /\ new.source = req[r].source /\ new.reply = req[r].reply /\ new.sent = req[r].sent
      /\ new.record = req[r].record /\ new.stage = "reply"
      /\ new.status = HTTPStatus(mapped) /\ new.code = mapped.code
  BY <1>1 DEF RequestType
<1>5. new \in RequestType
  BY <1>1, <1>2 DEF RequestType, Stages
<1> HIDE DEF new
<1>6. Reported(new)
  BY <1>1, <1>2, <1>4 DEF Reported, Tells
<1>7. Balanced(r, new)
  BY <1>3, <1>4, SameDue
<1> QED
  BY <1>3, <1>5, <1>6, <1>7 DEF StepReports

LEMMA ReplyReports ==
    ASSUME ReportsIInv, NEW r \in Requests, Reply(r) PROVE StepReports(r)
<1> DEFINE new == [req[r] EXCEPT !.sent = req[r].status, !.stage = "record"]
<1>1. req[r] \in RequestType /\ Reported(req[r]) /\ req[r].stage = "reply"
  BY DEF ReportsIInv, IInv, Reply, At
<1>2. /\ new.source = req[r].source /\ new.reply = req[r].reply /\ new.sent = req[r].status
      /\ new.record = req[r].record /\ new.stage = "record" /\ new.status = req[r].status
      /\ new.code = req[r].code
  BY <1>1 DEF RequestType
<1>3. new \in RequestType
  BY <1>1 DEF RequestType, Stages
<1>4. req' = [req EXCEPT ![r] = new] /\ UNCHANGED totals
  BY DEF Reply
<1> HIDE DEF new
<1>5. Reported(new)
  BY <1>1, <1>2 DEF Reported
<1>6. Balanced(r, new)
  BY <1>2, <1>4, SameDue
<1> QED
  BY <1>3, <1>4, <1>5, <1>6 DEF StepReports

\* The recorder counts the answer that was due, and leaves a record that tells
\* what the locals told.
LEMMA RecordReports ==
    ASSUME ReportsIInv, NEW r \in Requests, Record(r) PROVE StepReports(r)
<1> DEFINE record == [status |-> req[r].status, code |-> req[r].code,
                      cacheHit |-> CacheHit(r), model |-> RecordedModel(req[r]),
                      tokens |-> TotalTokens(req[r])]
           to == IF req[r].sent = None THEN "recover" ELSE "done"
           new == [req[r] EXCEPT !.record = record, !.stage = to]
<1>1. req[r] \in RequestType /\ Reported(req[r]) /\ req[r].stage = "record"
  BY DEF ReportsIInv, IInv, Record, At
<1>2. /\ RecordedModel(req[r]) \in Models \cup {None} /\ TotalTokens(req[r]) \in Nat
      /\ CacheHit(r) \in BOOLEAN
      /\ req[r].status \in Nat /\ req[r].code \in ErrorCodes \cup {None}
  BY <1>1, RecordedType DEF RequestType, CacheHit, Codes
<1>3. req' = [req EXCEPT ![r] = new]
  BY DEF Record
<1>4. /\ given' = given
      /\ counted' = [counted EXCEPT ![IF CacheHit(r) THEN "cache" ELSE "provider"]
                                        = @ + TotalTokens(req[r])]
  BY DEF Record
<1>5. /\ req[r].reply # None => /\ RecordedModel(req[r]) = req[r].reply.by
                                /\ TotalTokens(req[r]) = req[r].reply.tokens
      /\ req[r].reply = None => TotalTokens(req[r]) = 0
  BY DEF RecordedModel, TotalTokens
<1>7. record \in Records
  BY <1>2 DEF Records
<1>8. /\ record.status = req[r].status /\ record.code = req[r].code
      /\ record.cacheHit = CacheHit(r) /\ record.model = RecordedModel(req[r])
      /\ record.tokens = TotalTokens(req[r])
  OBVIOUS
<1>9. to = IF req[r].sent = None THEN "recover" ELSE "done"
  OBVIOUS
<1> HIDE DEF record, to
<1>10. /\ new.source = req[r].source /\ new.reply = req[r].reply /\ new.sent = req[r].sent
       /\ new.record = record /\ new.stage = to /\ new.status = req[r].status
       /\ new.code = req[r].code
  BY <1>1 DEF RequestType
<1>11. new \in RequestType
  <2>1. to \in Stages
    BY <1>9 DEF Stages
  <2> QED
    BY <1>1, <1>7, <2>1 DEF RequestType
<1> HIDE DEF new
<1>12. record # None /\ req[r].status # None
  BY <1>2, <1>7, NoneUnsaid
<1>13. RecordTells(new)
  <2>1. Tells(req[r].status, req[r].code, req[r].reply # None)
    BY <1>1 DEF Reported
  <2>2. record.cacheHit <=> req[r].source \in {"cache_l1", "cache_l2"}
    BY <1>8, Zenon DEF CacheHit
  <2> HIDE DEF RecordTells
  <2> QED
    BY <1>5, <1>8, <1>10, <1>12, <2>1, <2>2, Zenon DEF RecordTells
<1>14. Reported(new)
  <2>1. new.stage \in {"recover", "done"}
    BY <1>9, <1>10
  <2>2. /\ req[r].sent = None => new.stage = "recover"
        /\ req[r].sent # None => new.stage = "done"
    BY <1>9, <1>10
  <2>3. \/ req[r].sent = req[r].status
        \/ req[r].sent = None /\ req[r].source = "provider"
    BY <1>1 DEF Reported
  <2>4. req[r].source = None <=> req[r].reply = None
    BY <1>1 DEF Reported
  <2> QED
    BY <1>8, <1>10, <1>12, <1>13, <2>1, <2>2, <2>3, <2>4 DEF Reported
<1>15. Balanced(r, new)
  <2> DEFINE origin == IF CacheHit(r) THEN "cache" ELSE "provider"
             n == TotalTokens(req[r])
  <2>1. \A o \in Origins : Due(new, o) = 0
    BY <1>10, <1>12, NothingDue
  <2>2. \A o \in Origins : Due(req[r], o) = IF o = origin THEN n ELSE 0
    <3>1. CASE req[r].reply = None
      BY <1>5, <3>1, NothingDue
    <3>2. CASE req[r].reply # None
      <4>1. req[r].source \in Sources /\ req[r].record = None
        BY <1>1, <3>2 DEF Reported, RequestType
      <4>2. req[r].source = "provider" <=> origin = "provider"
        BY <4>1 DEF CacheHit, Sources
      <4> QED
        BY <1>5, <3>2, <4>1, <4>2 DEF Due, Origins
    <3> QED
      BY <3>1, <3>2
  <2>3. origin \in Origins /\ n \in Nat
    BY <1>2 DEF Origins
  <2>4. counted' = [counted EXCEPT ![origin] = @ + n]
    BY <1>4
  <2> HIDE DEF origin, n
  <2>5. \A o \in Origins : /\ given[o] \in Nat /\ counted[o] \in Nat
                           /\ counted'[o] = counted[o] + Due(req[r], o)
    BY <2>2, <2>3, <2>4 DEF ReportsIInv, IInv, Totals
  <2>6. \A o \in Origins : Due(req[r], o) \in Nat
    BY <1>1, DueType
  <2> QED
    BY <1>4, <2>1, <2>5, <2>6 DEF Balanced
<1> QED
  BY <1>3, <1>11, <1>14, <1>15 DEF StepReports

LEMMA RecoverReports ==
    ASSUME ReportsIInv, NEW r \in Requests, Recover(r) PROVE StepReports(r)
<1> DEFINE new == [req[r] EXCEPT !.sent = StatusInternalServerError, !.stage = "done"]
<1>1. req[r] \in RequestType /\ Reported(req[r]) /\ req[r].stage = "recover"
  BY DEF ReportsIInv, IInv, Recover, At
<1>2. /\ new.source = req[r].source /\ new.reply = req[r].reply
      /\ new.sent = StatusInternalServerError
      /\ new.record = req[r].record /\ new.stage = "done" /\ new.status = req[r].status
      /\ new.code = req[r].code
  BY <1>1 DEF RequestType
<1>3. StatusInternalServerError = 500 /\ StatusInternalServerError \in Nat
  BY DEF StatusInternalServerError
<1>4. new \in RequestType
  <2>1. "done" \in Stages
    BY DEF Stages
  <2>2. \A status \in Nat : [req[r] EXCEPT !.sent = status, !.stage = "done"] \in RequestType
    BY <1>1, <2>1 DEF RequestType
  <2> QED
    BY <1>3, <2>2, Zenon
<1>5. req' = [req EXCEPT ![r] = new] /\ UNCHANGED totals
  BY DEF Recover
<1> HIDE DEF new
<1>6. Reported(new)
  BY <1>1, <1>2, <1>3 DEF Reported, RecordTells
<1>7. Balanced(r, new)
  BY <1>2, <1>5, SameDue
<1> QED
  BY <1>4, <1>5, <1>6, <1>7 DEF StepReports

LEMMA EmptyReported ==
    NoRequest \in RequestType /\ Reported(NoRequest) /\ NoRequest.reply = None
  BY NoneUnsaid DEF NoRequest, RequestType, Stages, Codes, ErrorCodes, Sources, Reported

LEMMA FinishReports ==
    ASSUME ReportsIInv, NEW r \in Requests, Finish(r) PROVE StepReports(r)
<1>1. req[r].record # None
  BY DEF ReportsIInv, Finish, At, Reported, RecordTells
<1>2. req' = [req EXCEPT ![r] = NoRequest] /\ UNCHANGED totals
  BY DEF Finish
<1>3. Balanced(r, NoRequest)
  BY <1>1, <1>2, EmptyReported, NoneDue
<1> QED
  BY <1>2, <1>3, EmptyReported DEF StepReports

LEMMA EveryStepReports ==
    ASSUME ReportsIInv, Next PROVE \E r \in Requests : StepReports(r)
<1>1. PICK r \in Requests : \/ Progress(r) \/ ReceiveMalformed(r)
                            \/ \E q \in Questions : Receive(r, q)
  BY DEF Next
<1> SUFFICES StepReports(r)
  OBVIOUS
<1>2. CASE Progress(r)
  BY <1>2, MissesReport, HitReports, EmbedReports, AnsweredReports, RefusedReports,
     ReplyReports, RecordReports, RecoverReports, FinishReports DEF Progress
<1>3. CASE ReceiveMalformed(r)
  BY <1>3, MalformedReports
<1>4. CASE \E q \in Questions : Receive(r, q)
  BY <1>4, ReceiveReports
<1> QED
  BY <1>1, <1>2, <1>3, <1>4

\* The pairs of one request: as many as it has tokens to record.
LEMMA PairsCount ==
    ASSUME NEW r, NEW n \in Nat
    PROVE  /\ IsFiniteSet({r} \X (1..n))
           /\ Cardinality({r} \X (1..n)) = n
<1>1. IsFiniteSet({r}) /\ Cardinality({r}) = 1
  BY FS_Singleton
<1>2. IsFiniteSet(1..n) /\ Cardinality(1..n) = n
  BY FS_Interval
<1>3. /\ IsFiniteSet({r} \X (1..n))
      /\ Cardinality({r} \X (1..n)) = Cardinality({r}) * Cardinality(1..n)
  BY <1>1, <1>2, FS_Product
<1> QED
  BY <1>1, <1>2, <1>3

\* How many tokens are unrecorded changes by what the request that moved owes.
LEMMA UnrecordedMoves ==
    ASSUME NEW r \in Requests, NEW new \in RequestType, req \in [Requests -> RequestType],
           req' = [req EXCEPT ![r] = new], NEW origin \in Origins
    PROVE  /\ Cardinality(Unrecorded(origin)) \in Nat
           /\ Cardinality(Unrecorded(origin)') \in Nat
           /\ Cardinality(Unrecorded(origin)') + Due(req[r], origin)
                = Cardinality(Unrecorded(origin)) + Due(new, origin)
<1> DEFINE Pairs(x, q) == {x} \X (1..Due(q, origin))
           Rest == UNION {Pairs(x, req[x]) : x \in Requests \ {r}}
<1>1. /\ Unrecorded(origin) = Rest \cup Pairs(r, req[r])
      /\ Unrecorded(origin)' = Rest \cup Pairs(r, new)
  <2>1. /\ Unrecorded(origin) = UNION {Pairs(x, req[x]) : x \in Requests}
        /\ Unrecorded(origin)' = UNION {Pairs(x, req'[x]) : x \in Requests}
    BY DEF Unrecorded, Due
  <2>2. \A x \in Requests : req'[x] = IF x = r THEN new ELSE req[x]
    OBVIOUS
  <2>3. Rest = UNION {Pairs(x, req[x]) : x \in Requests \ {r}}
    OBVIOUS
  <2> HIDE DEF Pairs, Rest
  <2>4. UNION {Pairs(x, req[x]) : x \in Requests} = Rest \cup Pairs(r, req[r])
    <3>1. {Pairs(x, req[x]) : x \in Requests}
            = {Pairs(x, req[x]) : x \in Requests \ {r}} \cup {Pairs(r, req[r])}
      OBVIOUS
    <3> QED
      BY <2>3, <3>1
  <2>5. UNION {Pairs(x, req'[x]) : x \in Requests} = Rest \cup Pairs(r, new)
    <3>1. {Pairs(x, req'[x]) : x \in Requests}
            = {Pairs(x, req[x]) : x \in Requests \ {r}} \cup {Pairs(r, new)}
      BY <2>2
    <3> QED
      BY <2>3, <3>1
  <2> QED
    BY <2>1, <2>4, <2>5
<1>2. \A q \in RequestType : Due(q, origin) \in Nat
  BY DueType
<1>3. \A x \in Requests, q \in RequestType :
         /\ IsFiniteSet(Pairs(x, q))
         /\ Cardinality(Pairs(x, q)) = Due(q, origin)
  BY <1>2, PairsCount
<1>4. IsFiniteSet(Rest)
  <2>1. IsFiniteSet(Requests \ {r})
    BY RequestsAssumption, FS_Subset
  <2> DEFINE T == {Pairs(x, req[x]) : x \in Requests \ {r}}
             f == [x \in Requests \ {r} |-> Pairs(x, req[x])]
  <2>2. IsFiniteSet(T)
    <3> HIDE DEF Pairs
    <3>1. f \in Surjection(Requests \ {r}, T)
      BY DEF Surjection
    <3> HIDE DEF f, T
    <3> QED
      BY <2>1, <3>1, FS_Surjection
  <2>3. \A t \in T : IsFiniteSet(t)
    BY <1>3
  <2>4. Rest = UNION T
    OBVIOUS
  <2> HIDE DEF Rest, T
  <2> QED
    BY <2>2, <2>3, <2>4, FS_UNION
<1>5. \A q \in RequestType : Rest \cap Pairs(r, q) = {}
  OBVIOUS
<1> HIDE DEF Pairs, Rest
<1>6. \A q \in RequestType :
         /\ Cardinality(Rest \cup Pairs(r, q)) \in Nat
         /\ Cardinality(Rest) \in Nat
         /\ Cardinality(Rest \cup Pairs(r, q)) = Cardinality(Rest) + Due(q, origin)
  <2> TAKE q \in RequestType
  <2>1. /\ IsFiniteSet(Rest \cup Pairs(r, q))
        /\ Cardinality(Rest \cup Pairs(r, q))
             = Cardinality(Rest) + Cardinality(Pairs(r, q)) - Cardinality({})
    <3>1. IsFiniteSet(Pairs(r, q)) /\ Rest \cap Pairs(r, q) = {}
      BY <1>3, <1>5
    <3> QED
      BY <1>4, <3>1, FS_Union
  <2>2. Cardinality({}) = 0 /\ Cardinality(Rest) \in Nat
        /\ Cardinality(Rest \cup Pairs(r, q)) \in Nat
    BY <1>4, <2>1, FS_EmptySet, FS_CardinalityType
  <2> QED
    BY <1>2, <1>3, <2>1, <2>2
<1>7. req[r] \in RequestType
  OBVIOUS
<1> QED
  BY <1>1, <1>2, <1>6, <1>7

LEMMA NextReports ==
    ReportsIInv /\ TokensCounted /\ [Next]_vars => ReportsIInv' /\ TokensCounted'
<1> SUFFICES ASSUME ReportsIInv, TokensCounted, [Next]_vars
             PROVE  ReportsIInv' /\ TokensCounted'
  OBVIOUS
<1>1. IInv'
  BY NextIInv DEF ReportsIInv
<1>2. CASE UNCHANGED vars
  BY <1>1, <1>2 DEF ReportsIInv, TokensCounted, Unrecorded, vars
<1>3. CASE Next
  <2>1. PICK r \in Requests : StepReports(r)
    BY <1>3, EveryStepReports
  <2>2. PICK new \in RequestType :
          /\ Reported(new)
          /\ req' = [req EXCEPT ![r] = new]
          /\ Balanced(r, new)
    BY <2>1 DEF StepReports
  <2>3. \A x \in Requests : Reported(req'[x])
    BY <2>2 DEF ReportsIInv, IInv
  <2>4. ASSUME NEW origin \in Origins
        PROVE  given'[origin] = counted'[origin] + Cardinality(Unrecorded(origin)')
    <3>1. /\ given[origin] \in Nat /\ counted[origin] \in Nat
          /\ given'[origin] \in Nat /\ counted'[origin] \in Nat
      BY <1>1 DEF ReportsIInv, IInv, Totals
    <3>2. Due(new, origin) \in Nat /\ Due(req[r], origin) \in Nat
      BY DueType DEF ReportsIInv, IInv
    <3>3. given'[origin] + counted[origin] + Due(req[r], origin)
            = given[origin] + counted'[origin] + Due(new, origin)
      BY <2>2 DEF Balanced
    <3>4. /\ Cardinality(Unrecorded(origin)) \in Nat
          /\ Cardinality(Unrecorded(origin)') \in Nat
          /\ Cardinality(Unrecorded(origin)') + Due(req[r], origin)
               = Cardinality(Unrecorded(origin)) + Due(new, origin)
      BY <2>2, UnrecordedMoves DEF ReportsIInv, IInv
    <3>5. given[origin] = counted[origin] + Cardinality(Unrecorded(origin))
      BY DEF TokensCounted
    <3> DEFINE a == given[origin]
               b == counted[origin]
               n == Cardinality(Unrecorded(origin))
               x == Due(req[r], origin)
               y == Due(new, origin)
               a1 == given'[origin]
               b1 == counted'[origin]
               n1 == Cardinality(Unrecorded(origin)')
    <3>6. /\ a \in Nat /\ b \in Nat /\ n \in Nat /\ x \in Nat /\ y \in Nat
          /\ a1 \in Nat /\ b1 \in Nat /\ n1 \in Nat
          /\ a1 + b + x = a + b1 + y /\ n1 + x = n + y /\ a = b + n
      BY <3>1, <3>2, <3>3, <3>4, <3>5
    <3> HIDE DEF a, b, n, x, y, a1, b1, n1
    <3>7. a1 = b1 + n1
      BY <3>6
    <3> QED
      BY <3>7 DEF a1, b1, n1
  <2>5. TokensCounted'
    BY <2>4 DEF TokensCounted
  <2> QED
    BY <1>1, <2>3, <2>5 DEF ReportsIInv
<1> QED
  BY <1>2, <1>3

LEMMA InitReports == Init => ReportsIInv /\ TokensCounted
<1> SUFFICES ASSUME Init PROVE ReportsIInv /\ TokensCounted
  OBVIOUS
<1>1. \A r \in Requests : req[r] = NoRequest
  BY DEF Init
<1>2. \A r \in Requests, origin \in Origins : Due(req[r], origin) = 0
  BY <1>1, EmptyReported, NothingDue
<1>3. ASSUME NEW origin \in Origins
      PROVE  given[origin] = counted[origin] + Cardinality(Unrecorded(origin))
  <2>1. given[origin] = 0 /\ counted[origin] = 0
    BY DEF Init
  <2>2. Unrecorded(origin) = {}
    BY <1>2 DEF Unrecorded
  <2> QED
    BY <2>1, <2>2, FS_EmptySet
<1>4. TokensCounted
  BY <1>3 DEF TokensCounted
<1> QED
  BY <1>1, <1>4, InitIInv, EmptyReported DEF ReportsIInv

\* The recorder reports what the client got, whatever failed on the way and
\* whichever way the answer came.
THEOREM RecordsAgree == Spec => []RecordsMatch
<1>1. ReportsIInv => RecordsMatch
  <2> SUFFICES ASSUME ReportsIInv, NEW r \in Requests, At(r, "done")
               PROVE  LET q == req[r] IN
                      /\ \/ q.record.status = q.sent
                         \/ q.sent = 500 /\ q.record.status = 200 /\ q.source = "provider"
                      /\ q.record.status = 200 <=> q.reply # None
                      /\ q.record.code = None <=> q.reply # None
                      /\ q.record.code \in DOMAIN Documented
                           => q.sent = Documented[q.record.code]
                      /\ q.record.cacheHit <=> q.source \in {"cache_l1", "cache_l2"}
                      /\ q.record.tokens # 0 => q.reply # None
                      /\ q.reply # None => /\ q.record.model = q.reply.by
                                           /\ q.record.tokens = q.reply.tokens
    BY DEF RecordsMatch
  <2>1. Reported(req[r]) /\ req[r].stage = "done"
    BY DEF ReportsIInv, At
  <2>2. RecordTells(req[r]) /\ (req[r].source = None <=> req[r].reply = None)
        /\ \/ req[r].record.status = req[r].sent
           \/ req[r].sent = 500 /\ req[r].source = "provider"
    BY <2>1 DEF Reported
  <2> QED
    BY <2>2, NoneUnsaid DEF RecordTells, Tells, Sources
<1> QED
  BY <1>1, InitReports, NextReports, PTL DEF Spec

\* Every token of an answer is recorded once for each time the answer is given:
\* without the cacheHit flag when a provider has just spent it, with the flag when
\* the answer comes from a cache; or its request is still to be recorded.
THEOREM TokensAreCounted == Spec => []TokensCounted
  BY InitReports, NextReports, PTL DEF Spec
===============================================================================
