----------------------- MODULE ResponsesToChatStream -----------------------
(***************************************************************************)
(* A Responses stream rendered as a Chat Completions stream:               *)
(* ResponsesStreamEventToChatChunks and its finalizer                      *)
(* (relayconvert/internal/oai_responses/to_oai_chat_stream_resp.go).       *)
(*                                                                         *)
(* Tools are numbered by their position in "tools".  A key is the address  *)
(* a tool was first met under; byKey may lead from several keys to one     *)
(* tool.  The maps from output index, item id and call id to keys are one  *)
(* map from addresses, and so are the two maps of pending arguments.       *)
(***************************************************************************)
EXTENDS ResponsesSource

\* NewResponsesToChatStreamState
NewState == [started |-> FALSE, finalized |-> FALSE, text |-> FALSE, reasoning |-> FALSE, notes |-> 0,
             saw |-> FALSE, tools |-> <<>>, byKey |-> <<>>, keyOf |-> <<>>, pending |-> <<>>,
             usage |-> Tokens(0, 0), error |-> FALSE, out |-> <<>>]

EnsureStart(s) == IF s.started THEN s ELSE [Emit(s, <<EmptyChunk>>) EXCEPT !.started = TRUE]

Chunk(s, chunk) == Emit(EnsureStart(s), <<chunk>>)

TextDelta(s)      == [Chunk(s, [EmptyChunk EXCEPT !.text = TRUE]) EXCEPT !.text = TRUE]
ReasoningDelta(s) == [Chunk(s, [EmptyChunk EXCEPT !.reasoning = TRUE]) EXCEPT !.reasoning = TRUE]
Annotation(s)     == [Chunk(s, [EmptyChunk EXCEPT !.cites = "some"]) EXCEPT !.notes = @ + 1]

-----------------------------------------------------------------------------
(* Tools.                                                                  *)

\* An event's own addresses, the one that makes its key first.
EventAddresses(e) ==
    (IF e.index = NoIndex THEN <<>> ELSE <<AtOutput(e.index)>>) \o (IF e.id = NoId THEN <<>> ELSE <<e.id>>)

ItemAddresses(e) ==
    EventAddresses(e) \o (IF e.item.call = NoId THEN <<>> ELSE <<AtCall(e.item.call)>>)

\* findToolForEvent: 0 for an unknown tool.
FindTool(s, e) ==
    LET known == SelectSeq(EventAddresses(e), LAMBDA a : a \in DOMAIN s.keyOf)
    IN  IF known = <<>> THEN 0 ELSE s.byKey[s.keyOf[known[1]]]

\* The tool a key or, failing that, another address leads to; a new one otherwise.
ToolFor(s, key, addresses) ==
    LET known == SelectSeq(Tail(addresses), LAMBDA a : a \in DOMAIN s.keyOf)
    IN  CASE key \in DOMAIN s.byKey -> s.byKey[key]
          [] key \notin DOMAIN s.byKey /\ known # <<>> -> s.byKey[s.keyOf[known[1]]]
          [] OTHER -> Len(s.tools) + 1

NewTool(call) == [call |-> call, name |-> NoId, args |-> <<>>, sent |-> FALSE, named |-> FALSE, argsSent |-> 0]

\* Tool k, there under this key.
PlaceTool(s, k, key, call) ==
    [s EXCEPT !.tools = IF k > Len(@) THEN Append(@, NewTool(call)) ELSE @, !.byKey = Put(@, key, k)]

\* The addresses lead to the key from now on, and what was pending under
\* them is added to the tool's arguments.
Register(s, k, key, addresses) ==
    LET waiting == SelectSeq(addresses, LAMBDA a : a \in DOMAIN s.pending)
    IN  [s EXCEPT !.keyOf = [a \in Range(addresses) |-> key] @@ @,
                  !.tools[k].args = FoldLeft(LAMBDA args, a : args \o s.pending[a], @, waiting),
                  !.pending = [a \in DOMAIN @ \ Range(waiting) |-> @[a]]]

\* The call id and the name of an item; an item without call id lends its own.
Describe(s, k, item) ==
    [s EXCEPT !.tools[k].call = IF item.call # NoId THEN item.call ELSE IF @ = NoId THEN item.id ELSE @,
              !.tools[k].name = IF item.name # NoId THEN item.name ELSE @]

EnsureAt(s, k, e, addresses) ==
    Describe(Register(PlaceTool(s, k, addresses[1], NoId), k, addresses[1], addresses), k, e.item)

\* toolDelta, with the arguments of a delta or, without, all that is unsent.
\* The id is the call id, or the key when there is none.
ToolDelta(s, k, explicit) ==
    LET tool == s.tools[k]
        args == IF explicit # <<>> THEN explicit ELSE SubSeq(tool.args, tool.argsSent + 1, Len(tool.args))
        name == IF tool.named THEN NoId ELSE tool.name
        id   == IF tool.call # NoId THEN tool.call
                ELSE CHOOSE key \in DOMAIN s.byKey : s.byKey[key] = k
    IN  IF tool.sent /\ args = <<>> /\ name = NoId THEN s
        ELSE [Chunk(s, [EmptyChunk EXCEPT !.calls = Fragments(k - 1, id, name, args)])
                EXCEPT !.saw = TRUE, !.tools[k].sent = TRUE, !.tools[k].named = @ \/ name # NoId,
                       !.tools[k].argsSent = @ + Len(args)]

\* Arguments in full replace those collected.
Replace(s, k, args) == [s EXCEPT !.tools[k].args = IF args = <<>> THEN @ ELSE args]

ItemAt(s, k, e, addresses) == ToolDelta(Replace(EnsureAt(s, k, e, addresses), k, e.item.value), k, <<>>)

\* toolItem
ToolItem(s, e) ==
    LET addresses == ItemAddresses(e)
    IN  IF addresses = <<>> THEN s ELSE ItemAt(s, ToolFor(s, addresses[1], addresses), e, addresses)

AddArgs(s, k, args) == ToolDelta([s EXCEPT !.tools[k].args = @ \o args], k, args)

Wait(s, a, args) ==
    [s EXCEPT !.pending = Put(@, a, (IF a \in DOMAIN @ THEN @[a] ELSE <<>>) \o args)]

\* toolArgumentsDelta: arguments of an unknown call wait under its address.
ToolArgs(s, e) ==
    LET k == FindTool(s, e)
        addresses == EventAddresses(e)
    IN  CASE k # 0 -> AddArgs(s, k, e.value)
          [] k = 0 /\ addresses # <<>> -> Wait(s, addresses[1], e.value)
          [] OTHER -> s

\* A tool known by its address only; the item id stands in for its call id.
FallbackAt(s, k, addresses) ==
    ToolDelta(Register(PlaceTool(s, k, addresses[1], addresses[Len(addresses)]), k, addresses[1], addresses), k, <<>>)

\* flushPendingTool
FlushTool(s, e) ==
    LET k == FindTool(s, e)
        addresses == EventAddresses(e)
    IN  CASE k # 0 -> ToolDelta(s, k, <<>>)
          [] k = 0 /\ addresses # <<>> -> FallbackAt(s, Len(s.tools) + 1, addresses)
          [] OTHER -> s

\* flushAllPendingTools: every key, then every address with pending arguments
\* (a key of its own); the order among the latter is that of their names.
FlushAll(s) ==
    LET flush(key, t) ==
            IF key \in DOMAIN t.byKey
            THEN ToolDelta(Register(t, t.byKey[key], key, <<key>>), t.byKey[key], <<>>)
            ELSE FallbackAt(t, Len(t.tools) + 1, <<key>>)
    IN  FoldSet(flush, FoldSet(flush, s, DOMAIN s.byKey), DOMAIN s.pending \ DOMAIN s.byKey)

-----------------------------------------------------------------------------
(* The end of the stream.                                                  *)

\* finalize: the finish reason, and a chunk with the usage alone.
CloseWith(s, finish) ==
    [Emit(EnsureStart(s), <<[EmptyChunk EXCEPT !.finish = finish],
                            [EmptyChunk EXCEPT !.choice = FALSE, !.usage = s.usage]>>)
        EXCEPT !.finalized = TRUE]

FinishReason(s, status) ==
    CASE status = "incomplete" -> "length"
      [] status # "incomplete" /\ s.saw -> "calls"
      [] OTHER -> "stop"

CloseFlushed(s, status) == CloseWith(s, FinishReason(s, status))

Close(s, status) == IF s.finalized THEN s ELSE CloseFlushed(FlushAll(s), status)

\* The annotations of an item that were not sent; "before" counts those of
\* the items before it.
RestOfNotes(s, item, before) ==
    LET sent == IF s.notes > before THEN s.notes - before ELSE 0
    IN  FoldLeft(LAMBDA t, n : Annotation(t), s, [n \in 1 .. (item.notes - sent) |-> n])

NotesBefore(items, i) == FoldLeft(LAMBDA n, item : n + item.notes, 0, SubSeq(items, 1, i - 1))

\* Bug: the final response is taken whole.
OutputItemAgain(s, had, items, i) ==
    LET item == items[i]
    IN  CASE item.kind = "message" -> RestOfNotes(IF item.value = <<>> THEN s ELSE TextDelta(s), item, NotesBefore(items, i))
          [] item.kind = "reasoning" -> IF item.value = <<>> THEN s ELSE ReasoningDelta(s)
          [] OTHER -> ToolItem(s, ItemEvent("item_done", NoIndex, item))

\* One item of the final response; "had" is the state before its first item.
OutputItem(s, had, items, i) ==
    LET item == items[i]
    IN  CASE item.kind = "message" ->
                RestOfNotes(IF had.text \/ item.value = <<>> THEN s ELSE TextDelta(s), item, NotesBefore(items, i))
          [] item.kind = "reasoning" ->
                IF had.reasoning \/ item.value = <<>> THEN s ELSE ReasoningDelta(s)
          [] OTHER -> ToolItem(s, ItemEvent("item_done", NoIndex, item))

\* terminalOutputChunks
Output(s, items) ==
    FoldLeft(LAMBDA t, i : OutputItem(t, s, items, i), s, Positions(items))

Reported(s, usage) == [s EXCEPT !.usage = MergeUsageNonZero(@, usage)]

Finish(s, e) == Close(Output(Reported(s, e.usage), e.items), e.status)

\* ResponsesStreamEventToChatChunks
Convert(s, e) ==
    CASE e.type = "created"    -> EnsureStart(s)
      [] e.type = "text"       -> TextDelta(s)
      [] e.type = "reasoning"  -> ReasoningDelta(s)
      [] e.type = "annotation" -> Annotation(s)
      [] e.type \in {"item_added", "item_done"} -> IF e.item.kind = "function_call" THEN ToolItem(s, e) ELSE s
      [] e.type = "args"       -> ToolArgs(s, e)
      [] e.type = "part_done"  -> IF e.kind = "function_call" THEN FlushTool(s, e) ELSE s
      [] e.type = "terminal"   -> Finish(s, e)
      [] e.type = "failed"     -> [s EXCEPT !.error = TRUE]

\* FinalizeResponsesToChatStream
Finalize(s) == Close(s, "none")
=============================================================================
