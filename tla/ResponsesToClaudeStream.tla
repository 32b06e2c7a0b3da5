---------------------- MODULE ResponsesToClaudeStream ----------------------
(***************************************************************************)
(* A Responses stream rendered as a Claude Messages stream, without Chat   *)
(* Completions in between: ResponsesToClaudeStreamState (relayconvert/     *)
(* internal/oai_responses/to_claude_messages_stream_resp.go) and the       *)
(* registry's calls of it, which share the usage with ClaudeConvertInfo.   *)
(*                                                                         *)
(* The block at position k has index k - 1; "at" leads from the addresses  *)
(* of items to blocks.  The blank lines between reasoning paragraphs, the  *)
(* placeholder signature's text and the text of citations are left out.    *)
(***************************************************************************)
EXTENDS ResponsesSource

LOCAL Events == INSTANCE ClaudeEvents

\* NewResponsesToClaudeStreamState
NewState == [started |-> FALSE, done |-> FALSE, saw |-> FALSE, blocks |-> <<>>, at |-> <<>>,
             last |-> <<>>, usage |-> NoUsage, error |-> FALSE, out |-> <<>>]

EnsureMessageStart(s) ==
    IF s.started THEN s
    ELSE [Emit(s, <<Events!MessageStart(IF s.usage = NoUsage THEN Tokens(0, 0) ELSE s.usage)>>)
            EXCEPT !.started = TRUE]

Addresses(e) ==
    (IF e.index = NoIndex THEN <<>> ELSE <<AtOutput(e.index)>>) \o (IF e.id = NoId THEN <<>> ELSE <<e.id>>)

\* findBlock; an event that names no item goes on with the last open block of
\* its kind.  0 when there is none.
FindBlock(s, e, kind) ==
    LET known == SelectSeq(Addresses(e), LAMBDA a : a \in DOMAIN s.at)
    IN  CASE known # <<>> -> s.at[known[1]]
          [] Addresses(e) = <<>> /\ kind \in DOMAIN s.last ->
                IF s.blocks[s.last[kind]].stopped THEN 0 ELSE s.last[kind]
          [] OTHER -> 0

NewBlock(kind) == [kind |-> kind, call |-> NoId, id |-> NoId, name |-> NoId, started |-> FALSE,
                   stopped |-> FALSE, value |-> <<>>, sent |-> 0, notes |-> 0]

\* applyBlockMetadata: what an event tells of the item of block k.
Learn(s, k, e) ==
    LET item == IF "item" \in DOMAIN e THEN e.item ELSE [call |-> NoId, id |-> NoId, name |-> NoId]
    IN  [s EXCEPT !.at = [a \in Range(Addresses(e)) |-> k] @@ @,
                  !.last = Put(@, s.blocks[k].kind, k),
                  !.blocks[k].id   = IF e.id # NoId THEN e.id ELSE @,
                  !.blocks[k].name = IF item.name # NoId THEN item.name ELSE @,
                  !.blocks[k].call = IF item.call # NoId THEN item.call
                                     ELSE IF @ = NoId THEN item.id ELSE @]

\* ensureBlock, and what is to be done with the block.
AtBlock(s, k, e, kind, Do(_, _)) ==
    CASE k = 0 -> Do(Learn([s EXCEPT !.blocks = Append(@, NewBlock(kind))], Len(s.blocks) + 1, e), Len(s.blocks) + 1)
      [] k # 0 /\ s.blocks[k].kind # kind -> [s EXCEPT !.error = TRUE]
      [] OTHER -> Do(Learn(s, k, e), k)

WithBlock(s, e, kind, Do(_, _)) == AtBlock(s, FindBlock(s, e, kind), e, kind, Do)

-----------------------------------------------------------------------------
\* startBlock: a call without a name has to wait.
StartBlock(s, k) ==
    LET block == s.blocks[k]
    IN  IF block.started \/ block.stopped \/ (block.kind = "tool_use" /\ block.name = NoId) THEN s
        ELSE [Emit(EnsureMessageStart(s),
                   <<Events!BlockStart(k - 1, block.kind, IF block.call = NoId THEN block.id ELSE block.call)>>)
                EXCEPT !.blocks[k].started = TRUE, !.saw = @ \/ block.kind = "tool_use"]

DeltaEvent(k, kind, value) ==
    CASE kind = "text"     -> Events!Delta(k - 1, "text_delta", <<>>)
      [] kind = "thinking" -> Events!Delta(k - 1, "thinking_delta", <<>>)
      [] kind = "tool_use" -> Events!Delta(k - 1, "input_json_delta", value)

SendRest(s, k) ==
    LET block == s.blocks[k]
    IN  IF ~block.started \/ block.sent = Len(block.value) THEN s
        ELSE [Emit(s, <<DeltaEvent(k, block.kind, SubSeq(block.value, block.sent + 1, Len(block.value)))>>)
                EXCEPT !.blocks[k].sent = Len(block.value)]

\* flushBlock
Flush(s, k) == IF s.blocks[k].stopped THEN s ELSE SendRest(StartBlock(s, k), k)

\* appendDelta
AppendDelta(s, k, value) ==
    IF s.blocks[k].stopped THEN s ELSE Flush([s EXCEPT !.blocks[k].value = @ \o value], k)

\* mergeFinalValue: a value in full adds what goes beyond the deltas.
MergeFinal(s, k, final) ==
    IF s.blocks[k].stopped THEN s
    ELSE Flush([s EXCEPT !.blocks[k].value =
                   IF \E n \in 0 .. Len(final) : @ = SubSeq(final, 1, n) THEN final ELSE @], k)

Stopped(s, k) ==
    IF ~s.blocks[k].started THEN s
    ELSE [Emit(s, (IF s.blocks[k].kind = "thinking" THEN <<Events!Delta(k - 1, "signature_delta", <<>>)>> ELSE <<>>)
                  \o <<Events!BlockStop(k - 1)>>)
            EXCEPT !.blocks[k].stopped = TRUE]

\* stopBlock
StopBlock(s, k) == IF s.blocks[k].stopped THEN s ELSE Stopped(Flush(s, k), k)

\* appendAnnotations: "more" new ones, or "all" there are by now.
Annotate(s, k, more) ==
    IF s.blocks[k].stopped \/ more <= 0 THEN s
    ELSE [Emit(StartBlock(s, k), [n \in 1 .. more |-> Events!Delta(k - 1, "citations_delta", <<>>)])
            EXCEPT !.blocks[k].notes = @ + more]

AnnotateAll(s, k, all) == Annotate(s, k, all - s.blocks[k].notes)

KindOf(item) ==
    CASE item.kind = "message"       -> "text"
      [] item.kind = "reasoning"     -> "thinking"
      [] item.kind = "function_call" -> "tool_use"

\* applyOutputItem
ApplyItem(s, e, stop) ==
    WithBlock(s, e, KindOf(e.item),
        LAMBDA t, k :
            LET merged == AnnotateAll(MergeFinal(t, k, e.item.value), k, e.item.notes)
            IN  IF stop THEN StopBlock(merged, k) ELSE merged)

-----------------------------------------------------------------------------
StopAll(s) == FoldLeft(StopBlock, s, Positions(s.blocks))

StopReason(s, status) ==
    CASE status = "incomplete" -> "length"
      [] status # "incomplete" /\ s.saw -> "calls"
      [] OTHER -> "stop"

EndMessage(s, status) ==
    [Emit(EnsureMessageStart(s), <<Events!MessageDelta(s.usage, StopReason(s, status)), Events!MessageStop>>)
        EXCEPT !.done = TRUE]

\* finish: the items of the final response by position, then the end of all
\* blocks and of the message.
Finish(s, items, status) ==
    LET apply(t, i) == IF t.error THEN t ELSE ApplyItem(t, ItemEvent("item_done", i - 1, items[i]), TRUE)
        applied == FoldLeft(apply, s, Positions(items))
    IN  IF applied.error THEN applied ELSE EndMessage(StopAll(applied), status)

Reported(s, usage) == [s EXCEPT !.usage = MergeUsageNonZero(@, usage)]

Body(s, e) ==
    CASE e.type = "created"    -> EnsureMessageStart(s)
      [] e.type = "text"       -> WithBlock(s, e, "text", LAMBDA t, k : AppendDelta(t, k, e.value))
      [] e.type = "reasoning"  -> WithBlock(s, e, "thinking", LAMBDA t, k : AppendDelta(t, k, e.value))
      [] e.type = "args"       -> WithBlock(s, e, "tool_use", LAMBDA t, k : AppendDelta(t, k, e.value))
      [] e.type = "part_done"  -> WithBlock(s, e, KindOf(e), LAMBDA t, k : MergeFinal(t, k, e.value))
      [] e.type = "annotation" -> WithBlock(s, e, "text", LAMBDA t, k : Annotate(t, k, 1))
      [] e.type = "item_added" -> ApplyItem(s, e, FALSE)
      [] e.type = "item_done"  -> ApplyItem(s, e, TRUE)
      [] e.type = "terminal"   -> Finish(Reported(s, e.usage), e.items, e.status)
      [] e.type = "failed"     -> [s EXCEPT !.error = TRUE]

\* ConvertChunk; nothing follows the end of the message.
Convert(s, e) == IF s.done THEN s ELSE Body(s, e)

\* Finalize, with the usage the registry hands over.
Finalize(s, known) ==
    IF s.done THEN s
    ELSE Finish([s EXCEPT !.usage = IF known = NoUsage THEN @ ELSE known], <<>>, "none")
=============================================================================
