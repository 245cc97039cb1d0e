---------------------------- MODULE ChatExchange ----------------------------
(***************************************************************************)
(* The data of chat requests, one after another: a body is inspected and   *)
(* rewritten (RequestControls), the response is observed chunk by chunk    *)
(* while it is relayed (ResponseObserver), and the record is added to the  *)
(* aggregate of internal/gateway/usage.go.  ChatRequest has the control    *)
(* flow and the concurrency of the same handler.                           *)
(*                                                                         *)
(* What a client sends, what upstream answers, how the response is cut     *)
(* into chunks and where it ends or breaks off are chosen freely.          *)
(***************************************************************************)
EXTENDS RequestControls, ResponseObserver, FiniteSets, FiniteSetsExt

CONSTANTS
    Inputs,        \* bound: the bodies the first, second... request may have
    Bodies,        \* bound: the responses it may get
    MaxCount       \* the greatest uint64

ResponseBytes ==
    [t: {"lf", "cr", "data:", "done", "text", "half"},
     of: DOMAIN Objects \cup {"none"}, half: 0..2]

ASSUME ExchangeAssumption ==
    /\ MaxCount \in Nat \ {0}
    /\ DOMAIN Inputs \subseteq DOMAIN Bodies
    /\ \A k \in DOMAIN Bodies : \A b \in Bodies[k] :
         b.stream \in BOOLEAN /\ b.bytes \in Seq(ResponseBytes)

VARIABLES
    stage,         \* of chat: idle, forwarding, sent, relaying, finished
    query,         \* the request body
    controls,      \* what inspectRequest and the policy report of it
    forwarded,     \* what applySamplingDefaults returned
    body, pos,     \* upstream's response, and how much of it has been read
    observer,      \* of this response
    observation,   \* what Finish returned
    usage,         \* RequestAggregate
    records        \* history: the records added, with their tokens and timings

requestVars == <<query, controls, forwarded>>
responseVars == <<body, pos, observer, observation>>
exchangeVars == <<stage, requestVars, responseVars, usage, records>>

-----------------------------------------------------------------------------
NoRequest == [shape |-> "none"]
NoControls == [ok |-> FALSE]
NoPolicy == [ok |-> FALSE]
NoBody == [stream |-> FALSE, bytes |-> <<>>]
NoObservation == [firstOutput |-> FALSE]

Metric0 == [total |-> 0, observations |-> 0]
Pair0 == [whole |-> 0, part |-> 0, observations |-> 0]
Outcomes == {"succeeded", "rejected", "upstream-error"}
EmptyUsage ==
    [requests |-> 0,
     outcomes |-> [o \in Outcomes |-> 0],
     tokens |-> [f \in DOMAIN NoTokens |-> Metric0],
     cacheReuse |-> Pair0, draft |-> Pair0,
     promptRate |-> Pair0, generationRate |-> Pair0]

\* Mutant: a counter wraps.
saturatingAdd_Wraps(current, value) == (current + value) % (MaxCount + 1)

saturatingAdd(current, value) ==
    IF MaxCount - current < value THEN MaxCount ELSE current + value

addTokenMetric(metric, value) ==
    IF value = Nil THEN metric
    ELSE [total |-> saturatingAdd(metric.total, value),
          observations |-> saturatingAdd(metric.observations, 1)]

\* Two counts that are only added together: addThroughputMetric (tokens and
\* their duration), addDraftMetric and the cache reuse of addAggregate.
addPair(pair, valid, whole, part) ==
    IF ~valid \/ whole = Nil \/ part = Nil THEN pair
    ELSE [whole |-> saturatingAdd(pair.whole, whole),
          part |-> saturatingAdd(pair.part, part),
          observations |-> saturatingAdd(pair.observations, 1)]

addDraftMetric(pair, drafted, accepted) ==
    addPair(pair, accepted <= drafted, drafted, accepted)

\* Mutant: every generated token counts as timed.
addThroughputMetric_EveryToken(pair, tokens, ms, firstTokenIsFree) ==
    addPair(pair, TRUE, tokens, ms)

\* The first generated token is not part of predicted_ms.
addThroughputMetric(pair, tokens, ms, firstTokenIsFree) ==
    addPair(pair, TRUE, IF firstTokenIsFree /\ tokens > 0 THEN tokens - 1 ELSE tokens,
            ms)

\* Durations are added like tokens, and are left out.
addAggregate(u, outcome, tokens, timings) ==
    [requests |-> saturatingAdd(u.requests, 1),
     outcomes |-> [u.outcomes EXCEPT ![outcome] = saturatingAdd(@, 1)],
     tokens |-> [f \in DOMAIN u.tokens |-> addTokenMetric(u.tokens[f], tokens[f])],
     cacheReuse |-> addPair(u.cacheReuse, tokens.cached <= tokens.input,
                            tokens.input, tokens.cached),
     draft |-> addDraftMetric(u.draft, timings.draft, timings.accepted),
     promptRate |-> addThroughputMetric(u.promptRate, timings.prompt,
                                        timings.promptMs, FALSE),
     generationRate |-> addThroughputMetric(u.generationRate, timings.generated,
                                            timings.generatedMs, TRUE)]

\* finalizedAggregate: the rates that are reported, with what they divide by.
finalizedAggregate(u) ==
    {<<rate, u[rate].whole>> : rate \in
       {r \in {"cacheReuse", "draft"} : u[r].observations > 0 /\ u[r].whole > 0}}
      \cup {<<rate, u[rate].part>> : rate \in
              {r \in {"promptRate", "generationRate"} :
                 u[r].observations > 0 /\ u[r].part > 0}}

AddRecord(outcome, tokens, timings) ==
    /\ usage' = addAggregate(usage, outcome, tokens, timings)
    /\ records' = Append(records, [outcome |-> outcome, tokens |-> tokens,
                                    timings |-> timings])

ExchangeInit ==
    /\ stage = "idle"
    /\ query = NoRequest /\ controls = NoControls /\ forwarded = NoPolicy
    /\ body = NoBody /\ pos = 0
    /\ observer = newResponseObserver(FALSE)
    /\ observation = NoObservation
    /\ usage = EmptyUsage
    /\ records = <<>>

-----------------------------------------------------------------------------
\* chat up to Acquire: a request that cannot be inspected, names no model of
\* the inventory, or has media or controls its model does not take is rejected.
Accepted(q, seen) ==
    /\ seen.ok /\ q.model # Unknown
    /\ validateRequestMedia(q, Catalog[q.model])
    /\ applySamplingDefaults(q, Catalog[q.model], seen.sampling).ok

Rejected(q) ==
    /\ stage = "idle"
    /\ ~Accepted(q, inspectRequest(q))
    /\ AddRecord("rejected", NoTokens, NoTimings)
    /\ UNCHANGED <<stage, requestVars, responseVars>>

Forward(q) ==
    /\ stage = "idle"
    /\ Accepted(q, inspectRequest(q))
    /\ stage' = "forwarding"
    /\ query' = q
    /\ controls' = inspectRequest(q)
    /\ forwarded' = applySamplingDefaults(q, Catalog[q.model],
                                          inspectRequest(q).sampling)
    /\ UNCHANGED <<responseVars, usage, records>>

\* A lease is granted and the request is sent upstream.  What it said is not
\* looked at again.
Send ==
    /\ stage = "forwarding"
    /\ stage' = "sent"
    /\ query' = NoRequest /\ controls' = NoControls /\ forwarded' = NoPolicy
    /\ UNCHANGED <<responseVars, usage, records>>

\* ModifyResponse: upstream answers, and its body is wrapped.
ModifyResponse(b) ==
    /\ stage = "sent"
    /\ stage' = "relaying"
    /\ body' = b /\ pos' = 0
    /\ observer' = newResponseObserver(b.stream)
    /\ UNCHANGED <<requestVars, observation, usage, records>>

\* observedBody.Read: some bytes arrive, and are observed.
ReadBody(n) ==
    /\ stage = "relaying" /\ pos + n <= Len(body.bytes)
    /\ observer' = Observe(observer, SubSeq(body.bytes, pos + 1, pos + n))
    /\ pos' = pos + n
    /\ UNCHANGED <<stage, requestVars, body, observation, usage, records>>

\* The proxy has returned, at the end of the body or because it broke off:
\* Finish, and the record.  Bytes that were not read were never observed.
Complete ==
    /\ stage = "relaying"
    /\ observation' = Finish(observer)
    /\ AddRecord(IF pos = Len(body.bytes) THEN "succeeded" ELSE "upstream-error",
                 observation'.tokens, observation'.timings)
    /\ stage' = "finished"
    /\ UNCHANGED <<requestVars, body, pos, observer>>

\* chat returns.
Return ==
    /\ stage = "finished"
    /\ stage' = "idle"
    /\ body' = NoBody /\ pos' = 0
    /\ observer' = newResponseObserver(FALSE)
    /\ observation' = NoObservation
    /\ UNCHANGED <<requestVars, usage, records>>

Receive == \E q \in Inputs[Len(records)] : Rejected(q) \/ Forward(q)

ExchangeNext ==
    \/ stage = "idle" /\ Len(records) \in DOMAIN Inputs /\ Receive
    \/ Send
    \/ stage = "sent" /\ \E b \in Bodies[Len(records)] : ModifyResponse(b)
    \/ \E n \in 1..Len(body.bytes) : ReadBody(n)
    \/ Complete \/ Return

ExchangeSpec == ExchangeInit /\ [][ExchangeNext]_exchangeVars

-----------------------------------------------------------------------------
(* Properties.                                                             *)

\* What a request says of thinking, wherever a policy looks.
Selections(q) ==
    (IF q.effort = "absent" THEN {} ELSE {q.effort # "none"})
      \cup IF q.kwargs.shape # "object" THEN {}
           ELSE (IF q.kwargs.thinking = "absent" THEN {}
                 ELSE {q.kwargs.thinking = "true"})
                  \cup IF q.kwargs.effort = "absent" THEN {} ELSE {TRUE}

\* A forwarded request has the samplers of the one mode it asks for: it never
\* reaches a backend with contradicting selections, with a selection its model
\* does not support, or with the defaults of another mode; without a selection
\* it has the mode of the catalog (gateway.md:424, "Malformed or conflicting
\* thinking controls return HTTP 400 before a backend starts").
ModeUnambiguous ==
    stage = "forwarding" /\ forwarded.mode # "none" =>
      LET model == Catalog[query.model]
          asked == Selections(query)
          thinking == forwarded.mode = "thinking"
      IN  /\ ~query.twice
          /\ query.kwargs.shape = "object" => ~query.kwargs.twice
          /\ asked \subseteq {thinking}
          /\ asked = {} => thinking = (/\ model.reasoningDefault \notin {"off", "none"}
                                        /\ model.reasoningControl # "none")
          /\ thinking \/ model.reasoningOff \/ asked = {}

\* What status reports of a sampler is what the backend got: a client value
\* that was valid, a gateway default only where the client gave none, and
\* "provided" exactly for the fields the client sent; and the diagnostics say
\* "conflicting" exactly when two controls of the client disagree.
ControlsTruthful ==
    stage = "forwarding" =>
      /\ \A s \in Samplers :
           LET c == forwarded.sampling[s]
               raw == query.sampling[s]
           IN  /\ c.provided = (raw # "absent")
               /\ c.source \in {"client", "gateway-default"} =>
                    c.value = forwarded.forwarded[s]
               /\ raw \notin Missing => forwarded.forwarded[s] = raw
               /\ (c.source = "gateway-default") =
                    (forwarded.mode # "none" /\ raw \in Missing
                       /\ s \in Catalog[query.model].policy[forwarded.mode])
      /\ LET given == {controls.reasoning[i] : i \in
                         {j \in DOMAIN controls.reasoning :
                            controls.reasoning[j].control.source = "client"}}
         IN  controls.conflict = \E c, d \in given :
               \/ c.kind = d.kind /\ c.control.value # d.control.value
               \/ Enables(c) # Enables(d)

\* What was inspected and what the policy made of it is of this request.
ForwardingSound ==
    stage = "forwarding" =>
      /\ controls = inspectRequest(query)
      /\ forwarded = applySamplingDefaults(query, Catalog[query.model], controls.sampling)
      /\ forwarded.ok

\* The policy a request gets is the one it asked for, and status says so.
PolicyExact == ModeUnambiguous /\ ControlsTruthful

(* The reference for the observer: the response as a whole.                *)

\* The lines of a text that a line feed ends, and what is left.
Nothing == [ended |-> <<>>, rest |-> <<>>]
AddByte(lines, b) ==
    IF b = LF THEN [ended |-> Append(lines.ended, lines.rest), rest |-> <<>>]
    ELSE [lines EXCEPT !.rest = Append(@, b)]

Lines(text) ==
    LET upTo[n \in 0..Len(text)] ==
          IF n = 0 THEN Nothing ELSE AddByte(upTo[n - 1], text[n])
    IN  upTo[Len(text)]

\* The texts of the events that a blank line ends, and of the one that is left:
\* the data lines, joined.
AddLine(events, raw) ==
    LET line == Trimmed(raw)
    IN  IF line = <<>>
        THEN [ended |-> IF events.rest = <<>> THEN events.ended
                        ELSE Append(events.ended, events.rest),
              rest |-> <<>>]
        ELSE IF Head(line).t = "data:"
        THEN [events EXCEPT !.rest = Joined(@, Tail(line))]
        ELSE events

Events(lines) ==
    LET upTo[n \in 0..Len(lines)] ==
          IF n = 0 THEN Nothing ELSE AddLine(upTo[n - 1], lines[n])
    IN  upTo[Len(lines)]

\* All lines of what was read, the last whether it was ended or not.
AllLines(read) ==
    LET lines == Lines(read)
    IN  IF lines.rest = <<>> THEN lines.ended ELSE Append(lines.ended, lines.rest)

\* No line, and no event at any of them, exceeds what the observer keeps.
LinesFit(lines) ==
    /\ \A i \in 1..Len(lines) : Len(lines[i]) <= MaxEventBytes
    /\ \A i \in 0..Len(lines) : Len(Events(SubSeq(lines, 1, i)).rest) <= MaxEventBytes

Fits(read) == IF body.stream THEN LinesFit(AllLines(read))
              ELSE Len(read) <= MaxJSONBytes

\* The JSON objects of the response in their order, and "done" for [DONE];
\* "none" is malformed text.
Meaning(text) == IF Solid(text) = <<Byte("done")>> THEN "done" ELSE responseObject(text)
Meanings(texts) == [k \in 1..Len(texts) |-> Meaning(texts[k])]

Received(read) ==
    IF body.stream THEN Meanings(Events(Append(AllLines(read), <<>>)).ended)
    ELSE <<responseObject(read)>>

\* It was read to the end of an event, and [DONE] came once, at the end.
Ended(read, received) ==
    /\ Lines(read).rest = <<>>
    /\ Events(Lines(read).ended).rest = <<>>
    /\ {k \in DOMAIN received : received[k] = "done"} = {Len(received)}

Objected(received) == {id \in Range(received) : id \in DOMAIN Objects}

Unique(choice) == choice.keys.index <= 1 /\ choice.keys.finish_reason <= 1
Indices == 0..(MaxChoices - 1)

\* A choice that makes sense.
Plain(choice) == /\ Unique(choice) /\ choice.index \in Indices
                 /\ choice.reason \in Reasons \cup {"null"}

\* All of it is known to JSON, and all of its choices make sense.
Sensible(object) ==
    /\ object.keys.choices <= 1 /\ ~object.malformed
    /\ \A c \in Range(object.choices) : Plain(c)

\* The choices of a response, and the reasons they give for an index.
GivenChoices(received) ==
    UNION {Range(Objects[id].choices) :
             id \in {i \in Objected(received) :
                       Objects[i].keys.choices <= 1 /\ ~Objects[i].malformed}}
OfIndex(choices, i) == {c \in choices : Unique(c) /\ c.index = i}
Said(choices, i) == {Closed(c.reason) :
                       c \in {d \in OfIndex(choices, i) : d.reason \notin {"null", "bad"}}}

\* The finish reasons and their standing are those of the response that was
\* read, however it was cut into chunks and wherever it broke off: "available"
\* is proof of a complete response, in which every choice has its one reason;
\* whatever was too large to be looked at leaves "partial" behind.
CompletionExact ==
    stage = "finished" =>
      LET c == observation.completion
          read == SubSeq(body.bytes, 1, pos)
          received == Received(read)
          choices == GivenChoices(received)
          seen == {i \in Indices : OfIndex(choices, i) # {}}
          agreed == {i \in Indices : \E r \in Said(choices, i) : Said(choices, i) = {r}}
          sound == /\ "none" \notin Range(received)
                   /\ \A id \in Objected(received) : Sensible(Objects[id])
                   /\ \A i \in Indices : \A r, s \in Said(choices, i) : r = s
                   /\ body.stream => Ended(read, received)
      IN  IF ~Fits(read) THEN c.observation = "partial"
          ELSE /\ c.reasons = [i \in agreed |-> CHOOSE r \in Said(choices, i) : TRUE]
               /\ c.observation =
                    IF ~sound \/ (agreed # {} /\ seen # agreed) THEN "partial"
                    ELSE IF agreed # {} THEN "available" ELSE "unavailable"

\* The last value of a number that the objects report, or Nil.
LastOf(values) ==
    LET given == {k \in DOMAIN values : values[k] # Nil}
    IN  IF given = {} THEN Nil ELSE values[Max(given)]

UsageOf(received, f) ==
    LastOf([k \in DOMAIN received |->
              IF received[k] \in DOMAIN Objects THEN Objects[received[k]].usage[f] ELSE Nil])
TimingOf(received, f) ==
    LastOf([k \in DOMAIN received |->
              IF received[k] \in DOMAIN Objects THEN Objects[received[k]].timings[f] ELSE Nil])
CacheOf(received) ==
    LastOf([k \in DOMAIN received |->
              IF received[k] \in DOMAIN Objects THEN Objects[received[k]].cacheN ELSE Nil])

\* The counts do not depend on the order in which usage and timings arrive:
\* "Fallback counts use the final observed metadata when usage and timings
\* arrive in separate streaming events. Standard usage counts take precedence"
\* (gateway.md:540), prompt_n plus the cached prefix is the input only then.
TokensExact ==
    stage = "finished" /\ Fits(SubSeq(body.bytes, 1, pos)) =>
      LET received == Received(SubSeq(body.bytes, 1, pos))
          prompt == TimingOf(received, "prompt")
          cached == Update(CacheOf(received), UsageOf(received, "cached"))
          sum == prompt + (IF cached = Nil THEN 0 ELSE cached)
          fallback == IF prompt = Nil \/ sum > MaxInt THEN Nil ELSE sum
      IN  /\ observation.tokens =
               [input |-> Update(fallback, UsageOf(received, "input")),
                output |-> Update(TimingOf(received, "generated"),
                                  UsageOf(received, "output")),
                cached |-> cached, reasoning |-> UsageOf(received, "reasoning")]
          /\ observation.timings = [f \in Timings |-> TimingOf(received, f)]
          /\ observation.firstOutput =
               (/\ body.stream
                /\ \E id \in Objected(received) : hasGeneratedDelta(Objects[id]))

\* What a counter of 64 bits shows, and the sum of the values that were reported.
Capped(n) == IF n > MaxCount THEN MaxCount ELSE n
AddCount(sum, value) == IF value = Nil THEN sum ELSE sum + value
Sum(values) ==
    LET upTo[n \in 0..Len(values)] ==
          IF n = 0 THEN 0 ELSE AddCount(upTo[n - 1], values[n])
    IN  upTo[Len(values)]

\* The two counts of a record that a rate or a ratio is made of: reported by the
\* same request, and for a ratio the one as part of the other.  The backend does
\* not time the first token it generates.
Ratios == {"cacheReuse", "draft"}
Rates == {"promptRate", "generationRate"}
WholeOf(record, p) ==
    CASE p = "cacheReuse" -> record.tokens.input
      [] p = "draft" -> record.timings.draft
      [] p = "promptRate" -> record.timings.prompt
      [] p = "generationRate" -> LET n == record.timings.generated
                                 IN  IF n > 0 THEN n - 1 ELSE n
PartOf(record, p) ==
    CASE p = "cacheReuse" -> record.tokens.cached
      [] p = "draft" -> record.timings.accepted
      [] p = "promptRate" -> record.timings.promptMs
      [] p = "generationRate" -> record.timings.generatedMs
Together(record, p) ==
    /\ WholeOf(record, p) # Nil /\ PartOf(record, p) # Nil
    /\ p \in Ratios => PartOf(record, p) <= WholeOf(record, p)

\* The aggregate is what the records add up to, until a counter is full: every
\* request is counted, each metric over the requests that reported it, each
\* outcome over its requests, and both counts of a rate or a ratio over the same
\* requests, those that had the two; a cache ratio is reported exactly if some
\* request had both of its counts, and no ratio exceeds one, also after saturation.
UsageExact ==
    /\ usage.requests = Capped(Len(records))
    /\ \A p \in Ratios \cup Rates :
         LET having == {k \in 1..Len(records) : Together(records[k], p)}
         IN  usage[p] =
               [whole |-> Capped(Sum([k \in 1..Len(records) |->
                            IF k \in having THEN WholeOf(records[k], p) ELSE Nil])),
                part |-> Capped(Sum([k \in 1..Len(records) |->
                            IF k \in having THEN PartOf(records[k], p) ELSE Nil])),
                observations |-> Capped(Cardinality(having))]
    /\ \A f \in Tokens :
         LET values == [k \in 1..Len(records) |-> records[k].tokens[f]]
         IN  usage.tokens[f] =
               [total |-> Capped(Sum(values)),
                observations |-> Capped(Cardinality({k \in DOMAIN values :
                                                       values[k] # Nil}))]
    /\ \A o \in Outcomes :
         usage.outcomes[o] = Capped(Cardinality({k \in 1..Len(records) :
                                                   records[k].outcome = o}))
    /\ ("cacheReuse" \in {r[1] : r \in finalizedAggregate(usage)}) =
         \E k \in 1..Len(records) :
           /\ records[k].tokens.cached # Nil /\ records[k].tokens.input > 0
           /\ records[k].tokens.cached <= records[k].tokens.input
    /\ usage.cacheReuse.part <= usage.cacheReuse.whole
    /\ usage.draft.part <= usage.draft.whole

\* Counts are exact, those of one response and those of the aggregate.
CountsExact == TokensExact /\ UsageExact

=============================================================================
