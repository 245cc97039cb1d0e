--------------------------- MODULE MCChatExchange ---------------------------
(* Instances of ChatExchange and of ModelStatus for TLC.  The two handlers *)
(* share no variable, so one run explores either the one or the other:     *)
(* interleaving them would multiply the states and show nothing new.       *)
EXTENDS ChatExchange, ModelStatus, SequencesExt

NoStatus == installed = {} /\ gateway = "off" /\ position = 0
NoExchange == stage = "idle" /\ records = <<>>

MCInit == ExchangeInit /\ StatusInit
MCNext == \/ NoStatus /\ ExchangeNext /\ UNCHANGED statusVars
          \/ NoExchange /\ StatusNext /\ UNCHANGED exchangeVars
MCSpec == MCInit /\ [][MCNext]_<<exchangeVars, statusVars>>

RouterStatus(value, failed) == [value |-> value, failed |-> failed]
MCCandidates == <<"ma", "mb", "mc">>
MCInvalid == RouterStatus("invalid", FALSE)
MCStatuses ==
    {RouterStatus(v, FALSE) :
       v \in {"unloaded", "downloading", "loaded", "sleeping", "other"}}
      \cup {RouterStatus("loaded", TRUE)}

\* One model for each kind of reasoning control, and one without a policy.
Model(control, levels, default, off, policy) ==
    [reasoningControl |-> control, reasoningLevels |-> levels,
     reasoningDefault |-> default, reasoningOff |-> off, hasPolicy |-> policy,
     vision |-> off,
     policy |-> [thinking |-> {"temperature", "top_p"},
                 non_thinking |-> {"temperature"}]]
MCCatalog ==
    [toggle |-> Model("toggle", {}, "on", TRUE, TRUE),
     effort |-> Model("effort", {"low", "medium"}, "medium", FALSE, TRUE),
     both |-> Model("effort", {"low", "medium"}, "off", TRUE, TRUE),
     plain |-> Model("none", {}, "off", FALSE, FALSE)]

Kwargs(shape, twice, thinking, effort, strength) ==
    [shape |-> shape, twice |-> twice, thinking |-> thinking,
     effort |-> effort, strength |-> strength]
Absent == Kwargs("absent", FALSE, "absent", "absent", "absent")
AnyKwargs ==
    {Kwargs(s, FALSE, "absent", "absent", "absent") : s \in {"absent", "null", "bad"}}
      \cup {Kwargs("object", FALSE, t, e, s) :
              t \in {"absent", "null", "bad", "true", "false"},
              e \in {"absent", "null", "none", "low", "medium", "high", "odd"},
              s \in {"absent", "low", "off"}}
      \cup {Kwargs("object", TRUE, "true", "absent", "absent")}

Query(model, effort, strength, kwargs, temperature, top, twice, parts, stream, shape) ==
    [model |-> model, effort |-> effort, strength |-> strength, kwargs |-> kwargs,
     sampling |-> [temperature |-> temperature, top_p |-> top],
     twice |-> twice, parts |-> parts, stream |-> stream, shape |-> shape]

\* Every combination of reasoning controls; every combination of samplers; and
\* the rest one at a time.
AnyInput ==
    {Query(m, e, s, k, "absent", "number", FALSE, {}, "true", "object") :
       m \in DOMAIN MCCatalog,
       e \in {"absent", "null", "bad", "none", "off", "low", "medium", "high", "odd"},
       s \in {"absent", "low", "off"}, k \in AnyKwargs}
    \cup {Query(m, e, "absent", Absent, t, p, d, {}, "absent", "object") :
            m \in DOMAIN MCCatalog, e \in {"absent", "none", "low"},
            t \in {"absent", "null", "bad", "zero"},
            p \in {"absent", "null", "bad", "number"}, d \in BOOLEAN}
    \cup {Query(m, "absent", "absent", Absent, "zero", "zero", FALSE, p, s, f) :
            m \in DOMAIN MCCatalog \cup {Unknown, "empty"},
            p \in SUBSET {"image", "broken_image", "input_audio"},
            s \in {"null", "true", "bad"}, f \in {"object", "trailing"}}

PlainInput == Query("toggle", "absent", "absent", Absent, "zero", "absent", FALSE, {},
                    "true", "object")
MCInputs == 0 :> AnyInput @@ 1 :> {PlainInput}

-----------------------------------------------------------------------------
Choice(index, reason) ==
    [index |-> index, reason |-> reason, delta |-> "none",
     keys |-> [index |-> 1, finish_reason |-> 1]]
Plainly == [keys |-> [choices |-> 1], malformed |-> FALSE,
            choices |-> <<>>, usage |-> NoTokens, timings |-> NoTimings,
            cacheN |-> Nil]
With(choices) == [Plainly EXCEPT !.choices = choices]
MCObjects ==
    [role |-> With(<<Choice(0, "null")>>),
     delta |-> With(<<[Choice(0, "null") EXCEPT !.delta = "generated"]>>),
     stop |-> With(<<Choice(0, "stop")>>),
     length |-> With(<<Choice(0, "length"), Choice(1, "stop")>>),
     odd |-> With(<<Choice(0, "odd")>>),
     second |-> With(<<Choice(1, "null")>>),
     beyond |-> With(<<Choice(2, "stop")>>),
     twice |-> [With(<<Choice(0, "stop")>>) EXCEPT !.keys.choices = 2],
     ambiguous |-> With(<<[Choice(0, "stop") EXCEPT !.keys.finish_reason = 2]>>),
     malformed |-> [Plainly EXCEPT !.malformed = TRUE],
     usage |-> [Plainly EXCEPT !.usage = [NoTokens EXCEPT !.input = 2, !.cached = 1]],
     counted |-> [Plainly EXCEPT !.usage = [NoTokens EXCEPT !.output = 2]],
     timings |-> [Plainly EXCEPT !.cacheN = 2,
                    !.timings = [NoTimings EXCEPT !.prompt = 1, !.generated = 1,
                                 !.promptMs = 1, !.draft = 1, !.accepted = 1]],
     drafts |-> [Plainly EXCEPT !.cacheN = 0,
                   !.timings = [NoTimings EXCEPT !.prompt = 2, !.generatedMs = 1,
                                !.draft = 1, !.accepted = 2]]]

Data(text) == <<Byte("data:")>> \o text
Whole(id) == <<Half(id, 1), Half(id, 2)>>
Event(id) == Data(Whole(id)) \o <<LF, LF>>
Done == Data(<<Byte("done")>>)
Stream(parts) == [stream |-> TRUE, bytes |-> FlattenSeq(parts)]
Sequences(S, n) == UNION {[1..k -> S] : k \in 0..n}

\* Lines of every kind in every order: ended by LF or CRLF, blank, other
\* fields, [DONE], an object in one line or in two, malformed, too long.
Framing == {<<LF>>, <<Byte("cr"), LF>>, <<Byte("text"), LF>>, Done \o <<LF>>,
            Data(Whole("stop")) \o <<Byte("cr"), LF>>,
            Data(<<Half("length", 1)>>) \o <<LF>>,
            Data(<<Half("length", 2)>>) \o <<LF>>,
            Data(Whole("delta") \o Whole("stop")) \o <<LF>>,
            Data(<<>>) \o <<LF>>}
\* Whole events in every order.
EventsOf(S) == {Event(id) : id \in S} \cup {Done \o <<LF, LF>>}
FirstBodies ==
    {Stream(f) : f \in Sequences(Framing, 4)}
      \cup {Stream(f) : f \in Sequences(EventsOf(DOMAIN MCObjects), 3)}
      \cup {[stream |-> FALSE, bytes |-> FlattenSeq(f)] :
              f \in Sequences({Whole("stop"), Whole("usage"), <<LF>>,
                               <<Byte("text")>>}, 3)}
LaterBodies == {Stream(f) : f \in Sequences(EventsOf({"usage", "timings", "drafts"}), 2)}
MCBodies == 0 :> FirstBodies @@ 1 :> LaterBodies

=============================================================================
