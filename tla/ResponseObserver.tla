-------------------------- MODULE ResponseObserver --------------------------
(***************************************************************************)
(* The observer that watches an upstream response as it is read:           *)
(* responseObserver of internal/gateway/observability.go and               *)
(* completionCollector of completion.go.                                   *)
(*                                                                         *)
(* A response is a sequence of bytes: "lf", "cr", "data:" (the field name  *)
(* of an event stream with its optional space), "done" (the text [DONE]),  *)
(* "text" (anything else), or one half of the JSON object Objects[id].     *)
(* The halves of one object in their order, with nothing but white space   *)
(* around them, are the object; every other text is malformed.             *)
(***************************************************************************)
EXTENDS Integers, Sequences

CONSTANTS
    Objects,         \* the JSON objects upstream may send, by their names
    MaxEventBytes,   \* maxObservedSSEEventBytes
    MaxJSONBytes,    \* maxObservedJSONBytes
    MaxChoices,      \* maxObservedCompletionChoices
    MaxInt           \* the greatest int64

ASSUME ObserverAssumption ==
    {MaxEventBytes, MaxJSONBytes, MaxChoices, MaxInt} \subseteq Nat \ {0}

-----------------------------------------------------------------------------
Byte(t) == [t |-> t, of |-> "none", half |-> 0]
Half(id, h) == [t |-> "half", of |-> id, half |-> h]
LF == Byte("lf")
Space(b) == b.t \in {"lf", "cr"}

\* bytes.TrimSpace, and the white space a JSON decoder skips.
Solid(text) == SelectSeq(text, LAMBDA b : ~Space(b))

\* responseObject: exactly one JSON object.  "none" if there is not.
responseObject(text) ==
    LET t == Solid(text)
    IN  IF Len(t) = 2 /\ t = <<Half(t[1].of, 1), Half(t[1].of, 2)>>
           /\ t[1].of \in DOMAIN Objects
        THEN t[1].of ELSE "none"

\* A number that was not reported, or was negative or malformed: firstInteger.
Nil == -1
Update(old, new) == IF new = Nil THEN old ELSE new

Counts == Nat \cup {Nil}
NoTokens == [input |-> Nil, output |-> Nil, cached |-> Nil, reasoning |-> Nil]
NoTimings == [prompt |-> Nil, promptMs |-> Nil, generated |-> Nil,
              generatedMs |-> Nil, draft |-> Nil, accepted |-> Nil]

Tokens == DOMAIN NoTokens
Timings == DOMAIN NoTimings

\* What is known of an object: how often a name appears in it and in each of its
\* choices, the choices, and the numbers of its usage and timings.
ChoiceObjects ==
    [index: Int, reason: STRING, delta: {"none", "generated"},
     keys: [index: Nat, finish_reason: Nat]]
ASSUME ObjectsAssumption ==
    /\ {"none", "done"} \cap DOMAIN Objects = {}
    /\ \A id \in DOMAIN Objects :
         /\ Objects[id].choices \in Seq(ChoiceObjects)
         /\ Objects[id].malformed \in BOOLEAN
         /\ Objects[id].usage \in [Tokens -> Counts]
         /\ Objects[id].timings \in [Timings -> Counts]
         /\ Objects[id].cacheN \in Counts

newResponseObserver(stream) ==
    [stream |-> stream, json |-> <<>>, jsonOversized |-> FALSE,
     line |-> <<>>, event |-> <<>>, eventOversize |-> FALSE,
     tokens |-> NoTokens, timings |-> NoTimings, cacheFromUsage |-> FALSE,
     firstOutput |-> FALSE,
     choices |-> [i \in 0..(MaxChoices - 1) |->
                    [seen |-> FALSE, reason |-> "none", conflict |-> FALSE]],
     partial |-> FALSE, streamDone |-> FALSE]

-----------------------------------------------------------------------------
(* completionCollector.                                                    *)

markPartial(o) == [o EXCEPT !.partial = TRUE]

markStreamDone(o) ==
    [o EXCEPT !.partial = @ \/ o.streamDone, !.streamDone = TRUE]

Reasons == {"stop", "length", "tool_calls", "function_call", "content_filter"}
Closed(reason) == IF reason \in Reasons THEN reason ELSE "other"

\* uniqueCompletionKeys: which of the names appears more than once decides.
uniqueCompletionKeys(keys, names) == \A name \in names : keys[name] <= 1

\* One choice that is an object with unambiguous keys and a known index.
observeReason(o, index, reason) ==
    LET known == IF reason \in Reasons THEN o ELSE markPartial(o)
        was == o.choices[index]
    IN  IF was.conflict THEN known
        ELSE IF was.reason \notin {"none", Closed(reason)}
        THEN markPartial([known EXCEPT !.choices[index] =
                            [@ EXCEPT !.reason = "none", !.conflict = TRUE]])
        ELSE [known EXCEPT !.choices[index] = [@ EXCEPT !.reason = Closed(reason)]]

observeChoice(o, choice) ==
    IF \/ ~uniqueCompletionKeys(choice.keys, {"index", "finish_reason"})
       \/ choice.index \notin 0..(MaxChoices - 1)
    THEN markPartial(o)
    ELSE LET seen == [o EXCEPT !.choices[choice.index] = [@ EXCEPT !.seen = TRUE]]
         IN  CASE choice.reason = "null" -> seen
               [] choice.reason = "bad" -> markPartial(seen)
               [] OTHER -> observeReason(seen, choice.index, choice.reason)

\* The choices, one after the other.
observeChoices(o, choices) ==
    LET after[n \in 0..Len(choices)] ==
          IF n = 0 THEN o ELSE observeChoice(after[n - 1], choices[n])
    IN  after[Len(choices)]

observeObject(o, object) ==
    LET late == IF o.streamDone THEN markPartial(o) ELSE o
    IN  IF object.malformed THEN markPartial(late)
        ELSE observeChoices(late, object.choices)

observeResponse(o, object) ==
    IF uniqueCompletionKeys(object.keys, {"choices"}) THEN observeObject(o, object)
    ELSE markPartial(o)

\* metadata.
metadata(o) ==
    LET reasons == [i \in {j \in DOMAIN o.choices : o.choices[j].reason # "none"}
                      |-> o.choices[i].reason]
        unfinished == \E i \in DOMAIN o.choices :
                        o.choices[i].seen /\ o.choices[i].reason = "none"
        partial == o.partial \/ (o.stream /\ ~o.streamDone)
    IN  [reasons |-> reasons,
         done |-> o.stream /\ o.streamDone,
         observation |->
           IF partial \/ (unfinished /\ DOMAIN reasons # {}) THEN "partial"
           ELSE IF DOMAIN reasons # {} THEN "available" ELSE "unavailable"]

-----------------------------------------------------------------------------
(* responseObserver.                                                       *)

\* Standard usage, whose cached count outlives every cache_n of the timings.
observeNumbers(o, object) ==
    LET usage == object.usage
        timings == object.timings
        fromUsage == o.cacheFromUsage \/ usage.cached # Nil
        tokens == [f \in DOMAIN o.tokens |-> Update(o.tokens[f], usage[f])]
    IN  [o EXCEPT
           !.tokens = IF fromUsage THEN tokens
                      ELSE [tokens EXCEPT !.cached = Update(@, object.cacheN)],
           !.cacheFromUsage = fromUsage,
           !.timings = [f \in DOMAIN o.timings |-> Update(@[f], timings[f])]]

\* A choice carries text, reasoning, a refusal or a piece of a tool call; roles
\* and empty deltas are no generation.
hasGeneratedDelta(object) ==
    /\ ~object.malformed
    /\ \E j \in DOMAIN object.choices : object.choices[j].delta = "generated"

observeJSON(o, text) ==
    LET id == responseObject(text)
        object == Objects[id]
        seen == observeResponse(o, object)
    IN  IF id = "none" THEN markPartial(o)
        ELSE observeNumbers([seen EXCEPT !.firstOutput =
                               @ \/ (o.stream /\ hasGeneratedDelta(object))], object)

\* A blank line: the event is over.
consumeSSEEvent(o) ==
    LET seen == IF o.eventOversize \/ o.event = <<>> THEN o
                ELSE IF Solid(o.event) = <<Byte("done")>> THEN markStreamDone(o)
                ELSE observeJSON(o, o.event)
    IN  [seen EXCEPT !.event = <<>>, !.eventOversize = FALSE]

Oversized(o) == markPartial([o EXCEPT !.eventOversize = TRUE])

\* Without its CR.
Trimmed(line) == IF line # <<>> /\ line[Len(line)].t = "cr"
                 THEN SubSeq(line, 1, Len(line) - 1) ELSE line

\* The text of an event with one more of its data lines.
Joined(event, data) == IF event = <<>> THEN data ELSE event \o <<LF>> \o data

consumeSSELine(o, raw) ==
    LET line == Trimmed(raw)
        joined == Joined(o.event, Tail(line))
    IN  IF line = <<>> THEN consumeSSEEvent(o)
        ELSE IF Head(line).t # "data:" \/ o.eventOversize THEN o
        ELSE IF Len(joined) > MaxEventBytes
        THEN Oversized([o EXCEPT !.event = <<>>])
        ELSE [o EXCEPT !.event = joined]

\* Mutant: a chunk is taken for a line.
LineGoesOn_Consumed(o, part) ==
    [consumeSSELine(o, o.line \o part) EXCEPT !.line = <<>>]

\* observeSSE, a chunk or its rest without a newline,
LineGoesOn(o, part) ==
    IF Len(o.line) + Len(part) <= MaxEventBytes
    THEN [o EXCEPT !.line = @ \o part]
    ELSE Oversized([o EXCEPT !.line = <<>>])

\* and the part before a newline.
LineEnds(o, part) ==
    IF Len(o.line) + Len(part) <= MaxEventBytes
    THEN [consumeSSELine(o, o.line \o part) EXCEPT !.line = <<>>]
    ELSE Oversized([o EXCEPT !.line = <<>>])

\* observeSSE: byte by byte, with the part of the chunk since the last newline.
Unread(o) == [observer |-> o, part |-> <<>>]
takeByte(at, b) ==
    IF b = LF THEN [observer |-> LineEnds(at.observer, at.part), part |-> <<>>]
    ELSE [at EXCEPT !.part = Append(@, b)]

observeBytes(o, value) ==
    LET after[n \in 0..Len(value)] ==
          IF n = 0 THEN Unread(o)
          ELSE takeByte(after[n - 1], value[n])
    IN  after[Len(value)]

observeSSE(o, value) ==
    LET end == observeBytes(o, value)
    IN  IF end.part = <<>> THEN end.observer ELSE LineGoesOn(end.observer, end.part)

\* Observe: a copy of the bytes that were just read.
Observe(o, value) ==
    IF o.stream THEN observeSSE(o, value)
    ELSE IF o.jsonOversized THEN o
    ELSE IF Len(o.json) + Len(value) > MaxJSONBytes
    THEN markPartial([o EXCEPT !.json = <<>>, !.jsonOversized = TRUE])
    ELSE [o EXCEPT !.json = @ \o value]

\* The end of the body: what is left is looked at, but proves nothing.
ObserveEnd(o) ==
    LET open == o.line # <<>> \/ o.event # <<>> \/ o.eventOversize
        warned == IF open THEN markPartial(o) ELSE o
        lined == IF o.line = <<>> THEN warned
                 ELSE [consumeSSELine(warned, o.line) EXCEPT !.line = <<>>]
    IN  IF o.stream THEN consumeSSEEvent(lined)
        ELSE IF o.jsonOversized THEN o ELSE observeJSON(o, o.json)

\* Mutant: prompt_n is taken for the whole input.
Fallback_Uncached(tokens, timings) ==
    [tokens EXCEPT !.input = IF @ = Nil THEN timings.prompt ELSE @,
                   !.output = IF @ = Nil THEN timings.generated ELSE @]

\* Counts from the timings where usage gave none; prompt_n leaves out the
\* cached prefix, and a sum beyond int64 is left out.
Fallback(tokens, timings) ==
    LET cached == IF tokens.cached = Nil THEN 0 ELSE tokens.cached
        input == IF timings.prompt # Nil /\ timings.prompt <= MaxInt - cached
                 THEN timings.prompt + cached ELSE Nil
    IN  [tokens EXCEPT !.input = IF @ = Nil THEN input ELSE @,
                       !.output = IF @ = Nil THEN timings.generated ELSE @]

\* Finish.
Finish(o) ==
    LET end == ObserveEnd(o)
    IN  [tokens |-> Fallback(end.tokens, end.timings), timings |-> end.timings,
         firstOutput |-> end.firstOutput, completion |-> metadata(end)]

=============================================================================
