------------------------ MODULE ChatToClaudeStream -------------------------
(***************************************************************************)
(* A Chat Completions stream rendered as a Claude Messages stream:         *)
(* StreamResponseOpenAI2Claude and its finalizer                           *)
(* (relayconvert/internal/oai_chat/to_claude_messages_resp.go).            *)
(* StreamPipeline drives the operators of this module.                     *)
(***************************************************************************)
EXTENDS ClaudeEvents

NoTools == [calls |-> <<>>, base |-> 0, byIndex |-> <<>>, byID |-> <<>>]

\* ClaudeConvertInfo, with SendResponseCount in "sent".
NewState == [last |-> "none", index |-> 0, usage |-> NoUsage, reason |-> "none", done |-> FALSE,
             sent |-> 0, tools |-> NoTools, error |-> FALSE, out |-> <<>>]

\* content_block_start of tool k, with the arguments that arrived before it.
StartTool(s, k) ==
    LET tool == s.tools.calls[k]
        held == IF tool.pending = <<>> THEN <<>>
                ELSE <<Delta(tool.block, "input_json_delta", tool.pending)>>
    IN  [Emit(s, <<BlockStart(tool.block, "tool_use", tool.id)>> \o held)
            EXCEPT !.tools.calls[k].started = TRUE, !.tools.calls[k].pending = <<>>]

\* A named tool that has not started yet starts, under an id made for it when
\* it has none.
StartNamed(s, k) ==
    LET tool == s.tools.calls[k]
        id   == IF tool.id = NoId THEN Generated ELSE tool.id
    IN  IF tool.started \/ ~tool.named THEN s
        ELSE StartTool([s EXCEPT !.tools.calls[k].id = id], k)

\* startPendingToolBlocks
StartPending(s) ==
    IF s.last # "tools" THEN s ELSE FoldLeft(StartNamed, s, Positions(s.tools.calls))

StopTool(s, k) ==
    IF s.tools.calls[k].started THEN Emit(s, <<BlockStop(s.tools.calls[k].block)>>) ELSE s

\* stopOpenBlocks: one block of text or thinking, or every started tool.
StopOpen(s) ==
    CASE s.last \in {"text", "thinking"} -> Emit(s, <<BlockStop(s.index)>>)
      [] s.last = "tools" -> FoldLeft(StopTool, s, Positions(s.tools.calls))
      [] OTHER -> s

\* appendStopOpenBlocks
CloseBlocks(s) == StopOpen(StartPending(s))

\* stopOpenBlocksAndAdvance
CloseAndAdvance(s) ==
    LET past == IF s.last = "tools" THEN s.tools.base + Len(s.tools.calls) ELSE s.index + 1
    IN  IF s.last = "none" THEN s
        ELSE [CloseBlocks(s) EXCEPT !.index = past, !.last = "none",
                                    !.tools = IF s.last = "tools" THEN NoTools ELSE @]

StartBlock(s, kind) == [Emit(s, <<BlockStart(s.index, kind, NoId)>>) EXCEPT !.last = kind]

\* The block of this kind is open, whatever was open before.
OpenBlock(s, kind) == IF s.last = kind THEN s ELSE StartBlock(CloseAndAdvance(s), kind)

EmitDelta(s, delta) == Emit(s, <<Delta(s.index, delta, <<>>)>>)

Content(s, kind, delta) == EmitDelta(OpenBlock(s, kind), delta)

\* The position of the tool a fragment belongs to, 0 when it opens a new one.
FindTool(s, index, id) ==
    LET tools == s.tools
        k == IF id \in DOMAIN tools.byID THEN tools.byID[id]
             ELSE IF index \in DOMAIN tools.byIndex THEN tools.byIndex[index] ELSE 0
    IN  IF k # 0 /\ id # NoId /\ tools.calls[k].id \notin {NoId, id} THEN 0 ELSE k

\* A tool the state does not know yet is appended.
NewTool(s) ==
    [s EXCEPT !.tools.calls = Append(@, [block |-> s.tools.base + Len(@), id |-> NoId, named |-> FALSE,
                                         pending |-> <<>>, started |-> FALSE])]

\* Tool k under the fragment's index and id, with what the fragment tells of
\* it; arguments are held back as long as its block is not open.
Learn(s, k, f, index) ==
    LET tool == s.tools.calls[k]
        told == [tool EXCEPT !.id = IF @ = NoId THEN f.id ELSE @, !.named = @ \/ f.name # NoId,
                             !.pending = IF tool.started THEN @ ELSE @ \o [n \in 1 .. f.args |-> f.call]]
    IN  [s EXCEPT !.tools.calls[k] = told, !.tools.byIndex = Put(@, index, k),
                  !.tools.byID = IF tool.id = NoId /\ f.id # NoId THEN Put(@, f.id, k) ELSE @]

\* What tool k, fragment learned, sends: its start or the arguments.
Send(s, k, f) ==
    LET tool == s.tools.calls[k]
    IN  IF ~tool.started /\ tool.id # NoId /\ tool.named THEN StartTool(s, k)
        ELSE IF tool.started /\ f.args > 0
             THEN Emit(s, <<Delta(tool.block, "input_json_delta", [n \in 1 .. f.args |-> f.call])>>)
        ELSE s

TakeFragment(s, k, f, index) == Send(Learn(s, k, f, index), k, f)

\* One fragment, the i-th of its chunk.
ToolFragment(s, f, i) ==
    LET index == IF f.index = NoIndex THEN i - 1 ELSE f.index
        k     == FindTool(s, index, f.id)
    IN  IF k = 0 THEN TakeFragment(NewTool(s), Len(s.tools.calls) + 1, f, index)
        ELSE TakeFragment(s, k, f, index)

\* A group of tools begins at the next free block.
OpenGroup(s) == [s EXCEPT !.last = "tools", !.tools = [NoTools EXCEPT !.base = s.index]]

\* The index of an open group is that of its last tool.
AtLastTool(s) == [s EXCEPT !.index = s.tools.base + Len(s.tools.calls) - 1]

\* The fragments of one chunk; a group of tools is opened when none is open.
ToolCalls(s, fragments) ==
    AtLastTool(FoldLeft(LAMBDA t, i : ToolFragment(t, fragments[i], i),
                        IF s.last = "tools" THEN s ELSE OpenGroup(CloseAndAdvance(s)),
                        Positions(fragments)))

\* Tool calls win over reasoning, reasoning wins over text.
Body(s, chunk) ==
    IF chunk.calls # <<>> THEN ToolCalls(s, chunk.calls)
    ELSE IF chunk.reasoning THEN Content(s, "thinking", "thinking_delta")
    ELSE IF chunk.text THEN Content(s, "text", "text_delta")
    ELSE s

\* appendCitationDeltas: annotations that do not decode are passed over.
Cite(s, chunk) == IF chunk.cites = "some" THEN Content(s, "text", "citations_delta") ELSE s

Choice(s, chunk) == Cite(Body(s, chunk), chunk)

\* message_delta with the usage known so far, then message_stop.
Terminate(s, usage) ==
    LET merged == MergeUsageNonZero(s.usage, usage)
    IN  [Emit(CloseBlocks(s), <<MessageDelta(merged, IF s.reason = "none" THEN "stop" ELSE s.reason), MessageStop>>)
            EXCEPT !.usage = merged, !.done = TRUE]

\* The stream ends with the first usage known at or after the finish reason,
\* or with a chunk that has no choice.
TerminateIfDone(s, chunk) ==
    IF (~chunk.choice \/ chunk.finish # "none") /\ MergeUsageNonZero(s.usage, chunk.usage) # NoUsage
    THEN Terminate(s, chunk.usage)
    ELSE s

\* message_start with the first chunk, which may already carry usage.
Start(s, chunk) ==
    IF s.sent # 1 THEN s
    ELSE [Emit(s, <<MessageStart(chunk.usage)>>) EXCEPT
            !.usage = IF HasTokens(chunk.usage) THEN MergeUsageNonZero(@, chunk.usage) ELSE @]

\* The finish reason is kept for the terminal event.
Finished(s, chunk) == [s EXCEPT !.reason = IF chunk.finish = "none" THEN @ ELSE chunk.finish]

\* StreamResponseOpenAI2Claude
Convert(s, chunk) ==
    IF s.done THEN s
    ELSE TerminateIfDone(IF chunk.choice THEN Choice(Finished(Start(s, chunk), chunk), chunk)
                                         ELSE Start(s, chunk), chunk)

\* FinalizeStreamResponseOpenAI2Claude, with the usage FinalizeStreamResponse
\* supplies when the converter has none.
Finalize(s, usage) ==
    IF s.done THEN s
    ELSE Terminate([s EXCEPT !.usage = IF @ = NoUsage THEN usage ELSE @], NoUsage)
=============================================================================
