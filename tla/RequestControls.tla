--------------------------- MODULE RequestControls ---------------------------
(***************************************************************************)
(* What chat makes of a request body before it asks for a backend: the     *)
(* controls that inspectRequest of internal/gateway/observability.go       *)
(* reports, the media validateRequestMedia of media.go refuses, and the    *)
(* sampling policy that applySamplingDefaults of sampling.go applies.      *)
(*                                                                         *)
(* A JSON value is "absent", "null", "bad" (of another type than the field *)
(* wants) or the value itself.  An effort is one of the closed list; "odd" *)
(* is any other string.  A sampler is one client value or a default.       *)
(***************************************************************************)
EXTENDS Integers, Sequences, FiniteSets

CONSTANTS
    Samplers,    \* samplerFields
    Catalog,     \* the frozen inventory: the models by their identifiers
    Unknown      \* an identifier the inventory does not have

ASSUME CatalogAssumption == Unknown \notin DOMAIN Catalog

-----------------------------------------------------------------------------
Efforts == {"none", "off", "low", "medium", "high"}
Positive == {"low", "medium", "high"}
Missing == {"absent", "null"}

Control(source, provided, value) ==
    [source |-> source, provided |-> provided, value |-> value]
ControlDefault(raw) ==
    Control("managed-or-backend-default", raw = "null", "absent")
ControlInvalid == Control("invalid", TRUE, "absent")

\* observeNumber, observeReasoningString and observeBool differ in the values
\* they accept.
observeValue(raw, accepted) ==
    IF raw \in Missing THEN ControlDefault(raw)
    ELSE IF raw \in accepted THEN Control("client", TRUE, raw)
    ELSE ControlInvalid

\* The reasoning controls in the order inspectRequest lists them.  Without an
\* object in chat_template_kwargs its three controls are the defaults, and of
\* one that is no object only that is reported.
reasoningControls(q) ==
    LET named(kind, c) == [kind |-> kind, control |-> c]
        top == <<named("effort", observeValue(q.effort, Efforts)),
                 named("strength", observeValue(q.strength, Efforts))>>
        kwargs == q.kwargs
        nested ==
          CASE kwargs.shape = "bad" -> <<named("kwargs", ControlInvalid)>>
            [] kwargs.shape = "object" ->
                 <<named("thinking",
                         observeValue(kwargs.thinking, {"true", "false"})),
                   named("effort", observeValue(kwargs.effort, Efforts)),
                   named("strength", observeValue(kwargs.strength, Efforts))>>
            [] OTHER -> [i \in 1..3 |->
                 named(<<"thinking", "effort", "strength">>[i],
                       ControlDefault("absent"))]
    IN  top \o nested

\* What a control says of thinking.
Enables(c) == IF c.kind = "thinking" THEN c.control.value = "true"
              ELSE c.control.value \notin {"none", "off"}

\* One turn of reasoningControlsConflict: a control of the client against the
\* last value of its kind and the last decision.
observeConflict(seen, c) ==
    IF seen.found \/ c.control.source # "client" THEN seen
    ELSE IF \/ \E value \in seen.values[c.kind] : value # c.control.value
            \/ \E decision \in seen.decision : decision # Enables(c)
    THEN [seen EXCEPT !.found = TRUE]
    ELSE [seen EXCEPT !.values[c.kind] = {c.control.value},
                      !.decision = {Enables(c)}]

Kinds == {"thinking", "effort", "strength", "kwargs"}
NothingSeen == [found |-> FALSE, values |-> [k \in Kinds |-> {}], decision |-> {}]

reasoningControlsConflict(controls) ==
    LET after[n \in 0..Len(controls)] ==
          IF n = 0 THEN NothingSeen ELSE observeConflict(after[n - 1], controls[n])
    IN  after[Len(controls)].found

\* decodeJSONObject: one JSON object and nothing after it.
decodeJSONObject(o) == o.shape = "object"

\* observeStream: another type than a Boolean is diagnosed, and is no stream.
observeStream(q) == [stream |-> q.stream = "true", diagnosed |-> q.stream = "bad"]

\* inspectRequest: an error, or the observation.
inspectRequest(q) ==
    [ok |-> decodeJSONObject(q) /\ q.model \notin {"absent", "null", "bad", "empty"},
     stream |-> observeStream(q).stream,
     sampling |-> [s \in Samplers |-> observeValue(q.sampling[s], {"zero", "number"})],
     reasoning |-> reasoningControls(q),
     conflict |-> reasoningControlsConflict(reasoningControls(q)),
     diagnosed |-> observeStream(q).diagnosed \/ q.kwargs.shape = "bad"]

\* validateRequestMedia: pictures for models that see, inline and whole; no
\* sound, no film.
validateRequestMedia(q, model) ==
    /\ q.parts \cap {"input_audio", "input_video", "video_url"} = {}
    /\ "broken_image" \notin q.parts
    /\ "image" \in q.parts => model.vision

-----------------------------------------------------------------------------
(* requestThinking, as a state that one selection after another changes.   *)

\* policyObject: an object without a field that appears twice.
policyObject(o) == o.shape = "object" /\ ~o.twice

Refused(s) == [s EXCEPT !.ok = FALSE]

\* Mutant: the last selection wins.
selectMode_LastWins(s, model, enabled) ==
    IF ~enabled /\ ~model.reasoningOff THEN Refused(s)
    ELSE [s EXCEPT !.thinking = enabled, !.selected = TRUE]

selectMode(s, model, enabled) ==
    IF \/ ~enabled /\ ~model.reasoningOff
       \/ s.selected /\ s.thinking # enabled
    THEN Refused(s)
    ELSE [s EXCEPT !.thinking = enabled, !.selected = TRUE]

selectBool(s, model, raw) ==
    CASE raw = "absent" -> s
      [] raw \in {"true", "false"} -> selectMode(s, model, raw = "true")
      [] OTHER -> Refused(s)

\* Toggle-only models have no scale: any positive effort means on.
Levels(model) == IF model.reasoningControl = "toggle" THEN Positive
                 ELSE model.reasoningLevels

selectEffort(s, model, raw, topLevel) ==
    CASE raw = "absent" -> s
      [] topLevel /\ raw = "none" -> selectMode(s, model, FALSE)
      [] OTHER ->
           IF \/ raw \notin Levels(model)
              \/ s.effort \notin {"absent", raw} /\ model.reasoningControl # "toggle"
           THEN Refused(s)
           ELSE selectMode([s EXCEPT !.effort = raw], model, TRUE)

\* Each selection is looked at only if the ones before it were accepted.
requestThinking(q, model) ==
    LET start == [ok |-> TRUE, selected |-> FALSE, effort |-> "absent",
                  thinking |-> /\ model.reasoningDefault \notin {"off", "none"}
                               /\ model.reasoningControl # "none"]
        top == selectEffort(start, model, q.effort, TRUE)
        toggled == selectBool(top, model, q.kwargs.thinking)
    IN  IF ~top.ok \/ q.kwargs.shape = "absent" THEN top
        ELSE IF ~policyObject(q.kwargs) THEN Refused(top)
        ELSE IF ~toggled.ok THEN toggled
        ELSE selectEffort(toggled, model, q.kwargs.effort, FALSE)

\* The defaults that are filled in: explicit values win, null is no value.
Fills(q, defaults) == {s \in defaults : q.sampling[s] \in Missing}

\* applySamplingDefaults: an error, or the samplers that are forwarded and the
\* controls that are reported.  A model without a policy keeps its bytes.
applySamplingDefaults(q, model, sampling) ==
    LET mode == requestThinking(q, model)
        name == IF mode.thinking THEN "thinking" ELSE "non_thinking"
        fills == Fills(q, model.policy[name])
    IN  IF ~model.hasPolicy
        THEN [ok |-> TRUE, mode |-> "none", forwarded |-> q.sampling,
              sampling |-> sampling]
        ELSE IF ~policyObject(q) \/ ~mode.ok
        THEN [ok |-> FALSE, mode |-> "none", forwarded |-> q.sampling,
              sampling |-> sampling]
        ELSE [ok |-> TRUE, mode |-> name,
              forwarded |-> [s \in Samplers |->
                               IF s \in fills THEN name ELSE q.sampling[s]],
              sampling |-> [s \in Samplers |->
                               IF s \in fills
                               THEN [sampling[s] EXCEPT !.source = "gateway-default",
                                                        !.value = name]
                               ELSE sampling[s]]]

=============================================================================
