--------------------------- MODULE StreamPipeline --------------------------
(***************************************************************************)
(* A converted stream from its first value to its end: a route of one or   *)
(* two converters that share a ResponseStreamState                         *)
(* (relayconvert/response_registry.go), driven by session.streamResponse   *)
(* (internal/proxy/response.go).  Values pass through the steps one after  *)
(* the other; at the end the steps are finalised in order, and what one    *)
(* makes at its end passes through those after it.                         *)
(***************************************************************************)
EXTENDS ClaudeToChatStream

CONSTANTS
    Upstreams,  \* by name, an upstream: its protocol, and the values it sends or,
                \* of a Responses upstream, its dialect (see ResponsesSource)
    MaxValues,  \* bound, by upstream: values per stream
    Prose       \* see ResponsesSource

ASSUME UpstreamsAssumption ==
    /\ \A u \in DOMAIN Upstreams : Upstreams[u].protocol \in {"chat", "claude", "responses", "gemini"}
    /\ \A u \in DOMAIN Upstreams : Upstreams[u].protocol = "chat" =>
          \A v \in Upstreams[u].sends : IsSeq(v.calls)
    /\ \A u \in DOMAIN Upstreams : Upstreams[u].protocol = "gemini" =>
          \A v \in Upstreams[u].sends :
             /\ IsSeq(v.parts)
             /\ \A k \in DOMAIN v.parts : v.parts[k].kind \in {"call", "partial"} => IsSeq(v.parts[k].args)
    /\ MaxValues \in [DOMAIN Upstreams -> Nat]

ToClaude          == INSTANCE ChatToClaudeStream
ToResponses       == INSTANCE ChatToResponsesStream
ToGemini          == INSTANCE ChatToGeminiStream
FromGemini        == INSTANCE GeminiToChatStream
FromResponses     == INSTANCE ResponsesToChatStream
ResponsesToClaude == INSTANCE ResponsesToClaudeStream

Responses == INSTANCE ResponsesEvents
Gemini    == INSTANCE GeminiEvents
Source    == INSTANCE ResponsesSource

VARIABLES
    route,      \* the converters of this stream
    upstream,   \* which upstream answers
    sent,       \* history: what the upstream has sent, as its protocol keeps count of it
    states,     \* stepStates (and ClaudeConvertInfo), one per converter
    count,      \* values read from the upstream
    billed,     \* ResponseStreamState.usage, what recordUsage reports
    failed,     \* a conversion failed
    finished,   \* FinalizeStreamResponse ran
    wire,       \* what the client has made of the events so far
    owed,       \* history: text, reasoning and annotations the client has still to get
    truth       \* history: the answer as the upstream meant it

vars == <<route, upstream, sent, states, count, billed, failed, finished, wire, owed, truth>>

Protocol == Upstreams[upstream].protocol

\* The converters from a protocol to each other one (builtinTextConverters).
RoutesFrom(protocol) ==
    CASE protocol = "chat" -> {<<"ChatToClaude">>, <<"ChatToResponses">>, <<"ChatToGemini">>}
      [] protocol = "claude" ->
            {<<"ClaudeToChat">>, <<"ClaudeToChat", "ChatToResponses">>, <<"ClaudeToChat", "ChatToGemini">>}
      [] protocol = "responses" ->
            {<<"ResponsesToChat">>, <<"ResponsesToClaude">>, <<"ResponsesToChat", "ChatToGemini">>}
      [] protocol = "gemini" ->
            {<<"GeminiToChat">>, <<"GeminiToChat", "ChatToClaude">>, <<"GeminiToChat", "ChatToResponses">>}

StartOf(c) ==
    CASE c = "ChatToClaude"      -> ToClaude!NewState
      [] c = "ChatToResponses"   -> ToResponses!NewState
      [] c = "ChatToGemini"      -> ToGemini!NewState
      [] c = "ClaudeToChat"      -> NewState
      [] c = "ResponsesToChat"   -> FromResponses!NewState
      [] c = "ResponsesToClaude" -> ResponsesToClaude!NewState
      [] c = "GeminiToChat"      -> FromGemini!NewState

\* The client's protocol.
Target ==
    CASE route[Len(route)] \in {"ClaudeToChat", "ResponsesToChat", "GeminiToChat"} -> "chat"
      [] route[Len(route)] \in {"ChatToClaude", "ResponsesToClaude"}             -> "claude"
      [] route[Len(route)] = "ChatToResponses"                                   -> "responses"
      [] route[Len(route)] = "ChatToGemini"                                      -> "gemini"

-----------------------------------------------------------------------------
(* A run of values through the steps: [states, values, billed, failed].    *)

\* A converter's new state with the values and the usage of one call.  A
\* failed call reports no usage.
Made(t, usage) ==
    [state |-> [t EXCEPT !.out = <<>>, !.error = FALSE], values |-> t.out, failed |-> t.error,
     usage |-> IF t.error THEN NoUsage ELSE usage]

MadeWithUsage(t) == Made(t, t.usage)

\* executeResponseStreamStep, with prepareResponseStreamInfo's count.
Step(c, s, v) ==
    CASE c = "ChatToClaude" -> Made(ToClaude!Convert([s EXCEPT !.sent = @ + 1], v), v.usage)
      [] c = "ChatToResponses" -> MadeWithUsage(ToResponses!Convert(s, v))
      [] c = "ChatToGemini" -> Made(ToGemini!Convert(s, v), v.usage)
      [] c = "ClaudeToChat" -> Made(Convert(s, v), UsageOf(v))
      [] c = "ResponsesToChat" -> MadeWithUsage(FromResponses!Convert(s, v))
      [] c = "ResponsesToClaude" -> MadeWithUsage(ResponsesToClaude!Convert(s, v))
      [] c = "GeminiToChat" -> Made(FromGemini!Convert(s, v), v.usage)

\* What step i made of one value joins the run.
Join(r, i, made) ==
    [states |-> [r.states EXCEPT ![i] = made.state], values |-> r.values \o made.values,
     billed |-> MergeUsageNonZero(r.billed, made.usage), failed |-> made.failed]

\* All values through step i, up to a failure.
StepAll(r, i) ==
    FoldLeft(LAMBDA t, v : IF t.failed THEN t ELSE Join(t, i, Step(route[i], t.states[i], v)),
             [r EXCEPT !.values = <<>>], r.values)

\* A failure drops the values but not what the steps have learned from them.
NothingOnFailure(r) == IF r.failed THEN [r EXCEPT !.values = <<>>] ELSE r

\* executeResponseStreamSteps from step "first".
RunSteps(r, first) ==
    NothingOnFailure(FoldLeft(LAMBDA t, i : IF t.failed THEN t ELSE StepAll(t, i), r,
                              [k \in 1 .. Len(route) - first + 1 |-> first + k - 1]))

\* finalizeResponseStreamStep: the end of one converter; a Claude target is
\* handed the usage recorded so far when its converter has none.
EndStep(c, s, usage) ==
    CASE c = "ChatToClaude" -> MadeWithUsage(ToClaude!Finalize(s, usage))
      [] c = "ChatToResponses" -> MadeWithUsage(ToResponses!Finalize(s))
      [] c = "ChatToGemini" -> MadeWithUsage(ToGemini!Finalize(s))
      [] c = "ClaudeToChat" -> Made(s, NoUsage)
      [] c = "ResponsesToChat" -> MadeWithUsage(FromResponses!Finalize(s))
      [] c = "ResponsesToClaude" -> MadeWithUsage(ResponsesToClaude!Finalize(s, usage))
      [] c = "GeminiToChat" -> MadeWithUsage(FromGemini!Finalize(s))

\* What step i makes at its end passes through the steps after it.
EndOf(r, i, usage) ==
    RunSteps(Join([r EXCEPT !.values = <<>>], i, EndStep(route[i], r.states[i], usage)), i + 1)

\* The values so far, before those of the next end; a failure drops them all.
Behind(values, r) == [r EXCEPT !.values = IF r.failed THEN <<>> ELSE values \o @]

\* Bug: the last converter is not finalised.
RunEndsButLast(r) ==
    FoldLeft(LAMBDA t, i : IF t.failed THEN t ELSE Behind(t.values, EndOf(t, i, r.billed)), r,
             [k \in 1 .. Len(route) - 1 |-> k])

\* FinalizeStreamResponse
RunEnds(r) ==
    FoldLeft(LAMBDA t, i : IF t.failed THEN t ELSE Behind(t.values, EndOf(t, i, r.billed)), r,
             Positions(route))

-----------------------------------------------------------------------------
(* The two ends of the stream, each in its protocol.                       *)

NewSource ==
    CASE Protocol \in {"chat", "claude"} -> NewClient
      [] Protocol = "responses"         -> Source!NewSource
      [] Protocol = "gemini"            -> Gemini!NewSource

\* What the upstream may send next.
Offers ==
    CASE Protocol = "chat"      -> Upstreams[upstream].sends
      [] Protocol = "claude"    -> {v \in Upstreams[upstream].sends : UpstreamSends(sent, v, truth.seen)}
      [] Protocol = "responses" -> Source!Offers(sent, Upstreams[upstream].dialect)
      [] Protocol = "gemini"    -> {v \in Upstreams[upstream].sends : Gemini!UpstreamSends(sent, v)}

SentAfter(v) ==
    CASE Protocol = "chat"      -> sent
      [] Protocol = "claude"    -> Receive(sent, v)
      [] Protocol = "responses" -> Source!Follow(sent, v)
      [] Protocol = "gemini"    -> Gemini!Follow(sent, v)

ClientGets(w, values) ==
    CASE Target = "claude"    -> FoldLeft(Receive, w, values)
      [] Target = "responses" -> FoldLeft(Responses!Receive, w, values)
      [] Target = "chat"      -> FoldLeft(ChatReceive, w, values)
      [] Target = "gemini"    -> FoldLeft(Gemini!Receive, w, values)

Prosaic(text, reasoning, notes) == [text |-> text, reasoning |-> reasoning, notes |-> notes]

One(condition) == IF condition THEN 1 ELSE 0

\* The units of prose in a value.
ProseIn(protocol, v) ==
    CASE protocol = "chat" -> Prosaic(One(v.text), One(v.reasoning), One(v.cites = "some"))
      [] protocol = "claude" ->
            IF v.type # "content_block_delta" THEN Prosaic(0, 0, 0)
            ELSE Prosaic(One(v.kind = "text_delta"), One(v.kind = "thinking_delta"),
                         One(v.kind = "citations_delta"))
      [] protocol = "responses" ->
            Prosaic(One(v.type = "delta" /\ v.kind = "message"), One(v.type = "delta" /\ v.kind = "reasoning"),
                    One(v.type = "annotation"))
      [] protocol = "gemini" ->
            Prosaic(One(\E k \in DOMAIN v.parts : v.parts[k].kind = "text"),
                    One(\E k \in DOMAIN v.parts : v.parts[k].kind = "thought"), 0)

\* The prose items of a Responses upstream hold.
ProseHeld(w) ==
    FoldLeft(LAMBDA n, item :
                Prosaic(n.text + (IF item.kind = "message" THEN Len(item.value) ELSE 0),
                        n.reasoning + (IF item.kind = "reasoning" THEN Len(item.value) ELSE 0),
                        n.notes + item.notes),
             Prosaic(0, 0, 0), w.items)

\* The prose an upstream value brings: a Responses item is in several events,
\* a Gemini source is cited once.
ProseOf(v) ==
    CASE Protocol \in {"chat", "claude"} -> ProseIn(Protocol, v)
      [] Protocol = "responses" ->
            [f \in {"text", "reasoning", "notes"} |-> ProseHeld(sent')[f] - ProseHeld(sent)[f]]
      [] Protocol = "gemini" ->
            [ProseIn("gemini", v) EXCEPT !.notes = Cardinality(sent'.cited) - Cardinality(sent.cited)]

\* What is owed with these units more and those of the values less.
Owe(more, values) ==
    FoldLeft(LAMBDA n, v : [f \in DOMAIN n |-> n[f] - ProseIn(Target, v)[f]],
             [f \in DOMAIN owed |-> owed[f] + more[f]], values)

-----------------------------------------------------------------------------
Init ==
    /\ upstream \in DOMAIN Upstreams
    /\ route \in RoutesFrom(Protocol)
    /\ sent = NewSource
    /\ states = [k \in 1 .. Len(route) |-> StartOf(route[k])]
    /\ count = 0
    /\ billed = NoUsage
    /\ failed = FALSE
    /\ finished = FALSE
    /\ wire = NewClient
    /\ owed = Prosaic(0, 0, 0)
    /\ truth = [seen |-> {}, named |-> {}, closed |-> {}, late |-> {}, given |-> [c \in Calls |-> 0],
                reason |-> "none", after |-> FALSE, usage |-> NoUsage]

\* The events reach the client, the steps keep their state.
Deliver(r, more) ==
    /\ states' = r.states
    /\ billed' = r.billed
    /\ failed' = (failed \/ r.failed)
    /\ wire' = ClientGets(wire, r.values)
    /\ owed' = Owe(more, r.values)

\* The parts of calls in an upstream value, and how it ends the answer, as
\* the chunk it amounts to.
MeantByClaude(v) ==
    CASE v.type = "content_block_start" /\ v.kind = "tool_use" ->
            [EmptyChunk EXCEPT !.calls = <<Fragment(v.id, NoIndex, v.id, v.id, 0)>>]
      [] v.type = "content_block_delta" /\ v.args # <<>> ->
            [EmptyChunk EXCEPT !.calls = <<Fragment(v.args[1], NoIndex, NoId, NoId, Len(v.args))>>]
      [] v.type = "message_delta" -> [EmptyChunk EXCEPT !.finish = v.reason]
      [] OTHER -> EmptyChunk

\* What item k of a Responses upstream has become.
MeantByItem(w, k) ==
    LET item == w.items[k]
        had  == IF k \in DOMAIN sent.items THEN sent.items[k].value ELSE <<>>
    IN  Fragment(item.call, NoIndex, NoId, IF item.stage = "silent" THEN NoId ELSE item.call,
                 Len(item.value) - Len(had))

MeantByResponses(v) ==
    LET calls == SelectSeq(Positions(sent'.items), LAMBDA k : sent'.items[k].kind = "function_call")
    IN  [EmptyChunk EXCEPT
            !.calls = [n \in DOMAIN calls |-> MeantByItem(sent', calls[n])],
            !.finish = CASE v.type # "terminal" -> "none"
                         [] v.type = "terminal" /\ v.status = "incomplete" -> "length"
                         [] OTHER -> IF calls = <<>> THEN "stop" ELSE "calls"]

MeantByGemini(v) ==
    LET calls == SelectSeq(v.parts, LAMBDA part : part.kind \in {"call", "partial"})
    IN  [EmptyChunk EXCEPT
            !.calls = [n \in DOMAIN calls |->
                          Fragment(calls[n].call, NoIndex, calls[n].id, calls[n].name, Len(calls[n].args))],
            !.finish = IF v.finish = "stop" /\ truth.seen \cup {calls[n].call : n \in DOMAIN calls} # {}
                       THEN "calls" ELSE v.finish]

Meant(v) ==
    CASE Protocol = "chat"      -> v
      [] Protocol = "claude"    -> MeantByClaude(v)
      [] Protocol = "responses" -> MeantByResponses(v)
      [] Protocol = "gemini"    -> MeantByGemini(v)

\* A Claude message that has stopped takes nothing more.
Stopped == route = <<"ChatToClaude">> /\ states[1].done

\* The calls whose Claude blocks are closed: by a chunk with other content.
ClosedCalls(seen) ==
    IF route[Len(route)] = "ChatToClaude" /\ states'[Len(route)].last # "tools" THEN seen ELSE truth.closed

\* What the upstream meant, as long as the client can be told: "closed" are
\* the calls whose Claude blocks other content has closed, "late" those that
\* went on; "after" says that content or a finish reason followed the finish;
\* "usage" is everything reported, later counts over earlier ones.
Learned(chunk, usage) ==
    LET fragments == Range(chunk.calls)
        now       == {f.call : f \in fragments}
        pieces(c) == FoldLeft(LAMBDA n, f : n + (IF f.call = c THEN f.args ELSE 0), 0, chunk.calls)
    IN  IF ~chunk.choice \/ Stopped THEN [truth EXCEPT !.usage = usage]
        ELSE [usage  |-> usage,
              seen   |-> truth.seen \cup now,
              named  |-> truth.named \cup {f.call : f \in {g \in fragments : g.name # NoId}},
              closed |-> ClosedCalls(truth.seen \cup now),
              late   |-> truth.late \cup (now \cap truth.closed),
              given  |-> [c \in Calls |-> truth.given[c] + pieces(c)],
              reason |-> IF chunk.finish = "none" THEN truth.reason ELSE chunk.finish,
              after  |-> truth.after \/ (truth.reason # "none"
                                          /\ (HasContent(chunk) \/ chunk.finish # "none"))]

Remember(v) ==
    \E chunk \in {Meant(v)} :
        truth' = Learned(chunk,
                     MergeUsageNonZero(truth.usage, IF "usage" \in DOMAIN v THEN v.usage ELSE NoUsage))

\* ConvertStreamResponseChunk for the next value the upstream sends.
Read(v) ==
    /\ ~finished /\ ~failed
    /\ count < MaxValues[upstream]
    /\ sent' = SentAfter(v)
    /\ count' = count + 1
    /\ \E r \in {RunSteps([states |-> states, values |-> <<v>>, billed |-> billed, failed |-> FALSE], 1)} :
          Deliver(r, IF Stopped THEN Prosaic(0, 0, 0) ELSE ProseOf(v))
    /\ Remember(v)
    /\ UNCHANGED <<route, upstream, finished>>

\* FinalizeStreamResponse: the upstream ended, broke off, sent [DONE], or a
\* conversion failed.
End ==
    /\ ~finished
    /\ finished' = TRUE
    /\ \E r \in {RunEnds([states |-> states, values |-> <<>>, billed |-> billed, failed |-> FALSE])} :
          Deliver(r, Prosaic(0, 0, 0))
    /\ UNCHANGED <<route, upstream, sent, count, truth>>

Next ==
    \/ End
    \/ \E v \in Offers : Read(v)

Spec == Init /\ [][Next]_vars
-----------------------------------------------------------------------------
Usages == [prompt : Nat, completion : Nat]

TypeOK ==
    /\ route \in RoutesFrom(Protocol)
    /\ DOMAIN states = DOMAIN route
    /\ \A k \in DOMAIN states : states[k].out = <<>>
    /\ count \in Nat
    /\ billed \in Usages \cup {NoUsage}
    /\ wire.phase \in {"new", "open", "ended", "stopped", "broken"}
    /\ \A i \in DOMAIN wire.blocks : wire.blocks[i].of \subseteq Calls
    /\ route = <<"ChatToClaude">> =>
          LET s == states[1] IN
          /\ \A k \in 1 .. Len(s.tools.calls) : s.tools.calls[k].block = s.tools.base + k - 1
          /\ IF s.last = "tools" THEN s.index = s.tools.base + Len(s.tools.calls) - 1
                                 ELSE s.tools = ToClaude!NoTools

\* A Responses upstream broke off before it announced a call it had begun.
Nameless ==
    Protocol = "responses" /\ finished /\ \E c \in Calls \ truth.named : truth.given[c] > 0

(* No client meets an event its protocol does not allow.  Claude: no delta *)
(* outside its block, no block opened or closed twice, no terminal event   *)
(* while a block is open, nothing after message_stop.  Responses: no delta *)
(* of an item that is not open, no gap in the output indexes, no terminal  *)
(* event before the items are done.  Chat Completions: no hole in the tool *)
(* array, whatever blocks of text, thinking or hosted tools come between   *)
(* the calls, and no content after the finish reason.                      *)
(*                                                                         *)
(* A stream without a single value has no first event; in a Responses      *)
(* stream a failed conversion loses events, and items are closed by the    *)
(* finish reason whatever follows it; a call whose arguments came without  *)
(* its item is sent without a name when the stream ends.                   *)
WellFormed ==
    (count > 0 /\ ~Nameless /\ (Target = "responses" => ~failed /\ ~truth.after))
        => wire.phase # "broken"

(* However the upstream ends, a Claude or Responses client sees the end of *)
(* the message.                                                            *)
MessageEnds ==
    (finished /\ count > 0 /\ ~failed /\ ~truth.after /\ Target \in {"claude", "responses"})
        => wire.phase = "stopped"

(* Arguments of two calls never meet in one block, item or slot of the     *)
(* client, whether the upstream tells its calls apart by index or by id:   *)
(* the Responses converter, which reads only the index, refuses them.      *)
ArgumentsApart ==
    \A i \in DOMAIN wire.blocks : \A c, d \in wire.blocks[i].of : c = d

(* Every piece of the arguments of a named call has reached the client     *)
(* when the stream ends, also pieces that came before the name or the id,  *)
(* unless the call went on after other content had closed its block.       *)
ArgumentsComplete ==
    (finished /\ count > 0 /\ ~failed /\ ~truth.after) =>
        \A c \in truth.named \ truth.late : wire.got[c] = truth.given[c]

(* Nothing of a call's arguments is mixed up, lost or sent twice.          *)
ArgumentsArrive == ArgumentsApart /\ ArgumentsComplete

(* The final response of a Responses stream is what its deltas add up to,  *)
(* item by item and in order, with the status each item was done with      *)
(* (unless a second finish reason changed it).  What a chunk whose         *)
(* conversion failed half way has added is in the response and in no delta.*)
DocumentMatchesStream ==
    (Target = "responses" /\ wire.phase = "stopped") =>
        /\ Len(wire.document) = Cardinality(DOMAIN wire.blocks)
        /\ \A k \in 1 .. Len(wire.document) :
              LET item == wire.document[k]
                  got  == wire.blocks[k - 1]
              IN  /\ item.kind = got.kind
                  /\ truth.after \/ item.status = got.status
                  /\ got.of \subseteq item.of /\ got.pieces <= item.pieces /\ got.notes <= item.notes
                  /\ failed \/ <<item.of, item.pieces, item.notes>> = <<got.of, got.pieces, got.notes>>

(* Text, reasoning and annotations reach the client once: not twice when a *)
(* Responses upstream repeats in the final response what it has streamed,  *)
(* not never when they are only there, and a source that Gemini cites      *)
(* again and again is cited once.  (A Gemini client gets no reasoning and  *)
(* no annotations.)                                                        *)
ContentOnce ==
    \A f \in IF Target = "gemini" THEN {"text"} ELSE DOMAIN owed :
        /\ owed[f] >= 0
        /\ (finished /\ count > 0 /\ ~failed /\ ~truth.after) => owed[f] = 0

(* An answer the upstream cut short is not passed off as complete, through *)
(* any number of converters, and the reverse; one that ends to have calls  *)
(* answered says so where the client's protocol can.                       *)
CutShortIsTold ==
    (finished /\ count > 0 /\ ~failed /\ ~truth.after /\ truth.reason # "none") =>
        wire.reason = IF truth.reason = "calls" /\ Target \in {"responses", "gemini"} THEN "stop"
                      ELSE truth.reason

(* A count the client is told at the end is the recorded one, or missing.  *)
ToldIsRecorded ==
    (finished /\ wire.usage # NoUsage /\ billed # NoUsage) =>
        \A f \in DOMAIN billed : wire.usage[f] \in {0, billed[f]}

Count(usage, f) == IF usage = NoUsage THEN 0 ELSE usage[f]

(* The relay records the last counts the upstream reported, through any    *)
(* number of converters that each remember usage of their own.  (Not for   *)
(* Claude clients: see LatestUsageWins.)                                   *)
RecordedIsLatest ==
    (finished /\ ~failed /\ Target # "claude") =>
        \A f \in {"prompt", "completion"} : Count(billed, f) = Count(truth.usage, f)

(* What is told and what is recorded agree with the upstream and each other. *)
CountsAgree == ToldIsRecorded /\ RecordedIsLatest

(* "Client-visible Claude stream usage matches billing merge: first frame  *)
(* records first, a later non-zero field overrides": a Claude client whose *)
(* message ended on the upstream's finish reason was told, and the relay   *)
(* has recorded, the last counts reported.                                 *)
LatestUsageWins ==
    (route = <<"ChatToClaude">> /\ finished /\ states[1].reason # "none") =>
        wire.usage = truth.usage /\ billed = truth.usage

(* A Claude message does not stop before its upstream has finished.        *)
StopsAtTheEnd ==
    (Target = "claude" /\ wire.phase = "stopped") =>
        finished \/ truth.reason # "none"
=============================================================================
