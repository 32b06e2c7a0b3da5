--------------------------- MODULE RequestSettings ---------------------------
(***************************************************************************)
(* What a request asks for besides its messages, along the twelve routes:    *)
(* how much the model may think and say, how it samples, the form of its     *)
(* answer and its tools.  One record serves the four protocols: each uses    *)
(* the fields it has, and a converted request has the fields of its target.  *)
(*                                                                          *)
(* labels names the settings a converter copies or leaves behind unchanged:  *)
(* the sampling ones, "stop" (sequences), the "format" of the answer, "n"    *)
(* (more than one answer) and "stateful" (an answer of Responses to          *)
(* continue).  Stop sequences made from Gemini's are a "stop list" of a type *)
(* that the converter to Claude does not know.                               *)
(***************************************************************************)
EXTENDS ReasoningDialects, ToolSets

Settings(max, labels) ==
    [effort |-> "", nested |-> {}, pivot |-> {},        \* Chat; Responses and Claude have an effort too
     summary |-> "",                                    \* Responses
     thinking |-> {},                                   \* Claude
     config |-> {},                                     \* Gemini, and Chat's extra_body.google
     max |-> max, labels |-> labels,
     tools |-> <<>>, choice |-> {}, parallel |-> {}]

SamplingLabels == {"temperature", "top_p", "high top_p", "top_k"}

Outcome(ok, got, notes) == [ok |-> ok, got |-> got, notes |-> notes]
Refused == Outcome(FALSE, Settings({}, {}), {})

\* A route of two steps fails where the first does, and reports what both do.
Through(first, second) ==
    IF ~first.ok THEN Refused ELSE Outcome(second.ok, second.got, first.notes \union second.notes)

FromStopList(labels) == (labels \ {"stop list"}) \union (IF "stop list" \in labels THEN {"stop"} ELSE {})
ToStopList(labels)   == (labels \ {"stop"}) \union (IF "stop" \in labels THEN {"stop list"} ELSE {})

Positive(max) == {m \in max : m > 0}

-----------------------------------------------------------------------------
(* From Chat Completions. *)

\* Claude wants a max_tokens; the abilities looked up are those of the model the
\* request names at that moment.
Reasoned(s, r, notes, default) ==
    Outcome(r.ok,
            [Settings(IF r.max = {} THEN {default} ELSE r.max, r.sampling \union (s.labels \intersect {"stop"}))
                EXCEPT !.thinking = r.thinking, !.effort = r.effort],
            notes \union r.notes)

ForClaude(s, source, notes, named, origin, default) ==
    Reasoned(s, ApplyReasoning(named, origin, source, Positive(s.max), s.labels \intersect SamplingLabels, default), notes, default)

ChatToClaudeSettings(s, named, origin, default) ==
    IF ~ReadableChat(s) THEN Refused ELSE ForClaude(s, FromOpenAIChat(s), FromOpenAIChatNotes(s), named, origin, default)

ForGemini(s, labels, r) == Outcome(r.ok, [Settings(s.max, labels) EXCEPT !.config = r.merged.config], r.notes \union r.merged.notes)

ChatToGeminiSettings(s, model) ==
    IF ~ReadableChat(s) THEN Refused
    ELSE ForGemini(s, FromStopList(s.labels) \ {"top_k", "n"}, ApplyThinkingConfig(model, s.config, s, s.max))

ChatToResponsesSettings(s) ==
    IF ~ReadableChat(s) \/ "n" \in s.labels THEN Refused
    ELSE Outcome(TRUE, ApplyToOpenAIResponses(Settings(s.max, s.labels \ {"top_k", "stop", "stop list"}), FromOpenAIChat(s)),
                 FromOpenAIChatNotes(s))

-----------------------------------------------------------------------------
(* From Claude Messages: the family's default is told to the other families. *)

ClaudeIntent(s, origin) == ResolveClaudeDefault(origin, FromClaude(s))

ClaudeToChatSettings(s, origin) ==
    IF ~Parses(s.effort) THEN Refused
    ELSE Outcome(TRUE, ApplyToOpenAIChat(Settings(s.max, s.labels), ClaudeIntent(s, origin)), FromClaudeNotes(s))

ClaudeToResponsesSettings(s, origin) ==
    IF ~Parses(s.effort) THEN Refused
    ELSE Outcome(TRUE, ApplyToOpenAIResponses(Settings(s.max, s.labels \ {"top_k", "stop"}), ClaudeIntent(s, origin)),
                 FromClaudeNotes(s))

-----------------------------------------------------------------------------
(* From Gemini. *)

GeminiToChatSettings(s, origin) ==
    LET config == NormalizeConfig(origin, s.config)
    IN  IF ~ReadableFor(origin, s.config) \/ ~ReadableGemini(config) THEN Refused
        ELSE Outcome(TRUE, ApplyToOpenAIChat(Settings(s.max, ToStopList(s.labels \ {"format"})),
                                             ResolveGeminiDefault(origin, FromGemini(config))),
                     NormalizeConfigNotes(origin, s.config) \union FromGeminiNotes(config))

-----------------------------------------------------------------------------
(* From Responses: what only the upstream remembers cannot be converted. *)

FromResponses(s) == Parses(s.effort) /\ "stateful" \notin s.labels

ResponsesToChatSettings(s) ==
    IF ~FromResponses(s) THEN Refused
    ELSE Outcome(TRUE, ApplyToOpenAIChat(Settings(s.max, s.labels), FromOpenAIResponses(s)), {})

ResponsesToClaudeSettings(s, named, origin, default) ==
    IF ~FromResponses(s) THEN Refused
    ELSE ForClaude(s, FromOpenAIResponses(s), {}, named, origin, default)

ResponsesToGeminiSettings(s, model) ==
    IF ~FromResponses(s) THEN Refused
    ELSE ForGemini(s, s.labels,
                   ApplyThinkingConfig(model, {}, ApplyToOpenAIChat(Settings({}, {}), FromOpenAIResponses(s)), s.max))

-----------------------------------------------------------------------------
(* The routes: origin is the model the client names, model the upstream's.     *)
(* The upstream's name is written into the request after the conversion, but   *)
(* for a request made from Gemini's, which has no name in it.                  *)

ChatThenGemini(chat, model)                  == Through(chat, ChatToGeminiSettings(chat.got, model))
ChatThenClaude(chat, model, origin, default) == Through(chat, ChatToClaudeSettings(chat.got, model, origin, default))
ChatThenResponses(chat)                      == Through(chat, ChatToResponsesSettings(chat.got))

ConvertSettings(from, to, origin, model, default, s) ==
    CASE from = "Chat" /\ to = "Claude"         -> ChatToClaudeSettings(s, origin, origin, default)
      [] from = "Chat" /\ to = "Gemini"         -> ChatToGeminiSettings(s, model)
      [] from = "Chat" /\ to = "Responses"      -> ChatToResponsesSettings(s)
      [] from = "Claude" /\ to = "Chat"         -> ClaudeToChatSettings(s, origin)
      [] from = "Claude" /\ to = "Responses"    -> ClaudeToResponsesSettings(s, origin)
      [] from = "Claude" /\ to = "Gemini"       ->
            ChatThenGemini(ClaudeToChatSettings(s, origin), model)
      [] from = "Gemini" /\ to = "Chat"         -> GeminiToChatSettings(s, origin)
      [] from = "Gemini" /\ to = "Claude"       ->
            ChatThenClaude(GeminiToChatSettings(s, origin), model, origin, default)
      [] from = "Gemini" /\ to = "Responses"    ->
            ChatThenResponses(GeminiToChatSettings(s, origin))
      [] from = "Responses" /\ to = "Chat"      -> ResponsesToChatSettings(s)
      [] from = "Responses" /\ to = "Claude"    -> ResponsesToClaudeSettings(s, origin, origin, default)
      [] from = "Responses" /\ to = "Gemini"    -> ResponsesToGeminiSettings(s, model)

Joined(rest, tools) ==
    [ok        |-> rest.ok /\ tools.ok,
     got       |-> [rest.got EXCEPT !.labels = FromStopList(@), !.tools = tools.tools, !.choice = tools.choice,
                                    !.parallel = tools.parallel],
     notes     |-> rest.notes,
     toolNotes |-> tools.notes]

\* Everything but the messages: the tools are taken out before and put in after.
\* Within one protocol a request is passed on as it is, but for Responses' summary.
ConvertRequestSettings(from, to, origin, model, default, s) ==
    IF from = to
    THEN [ok |-> TRUE, got |-> IF from = "Responses" THEN EnsureSummary(s) ELSE s, notes |-> {}, toolNotes |-> {}]
    ELSE Joined(ConvertSettings(from, to, origin, model, default, [s EXCEPT !.tools = <<>>, !.choice = {}, !.parallel = {}]),
                ConvertTools(from, to, s))
=============================================================================
