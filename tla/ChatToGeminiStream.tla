------------------------- MODULE ChatToGeminiStream ------------------------
(***************************************************************************)
(* A Chat Completions stream rendered as a Gemini stream:                  *)
(* ChatToGeminiStreamState.ConvertChunk and Finalize (relayconvert/        *)
(* internal/oai_chat/to_gemini_chat_resp.go).                              *)
(*                                                                         *)
(* "Gemini functionCall parts are atomic", so calls are collected until    *)
(* their choice is finished.  One choice; toolByIndex and toolByID lead to *)
(* positions in "tools".  Reasoning and annotations are not carried over.  *)
(***************************************************************************)
EXTENDS GeminiEvents

\* NewChatToGeminiStreamState
NewState == [tools |-> <<>>, byIndex |-> <<>>, byId |-> <<>>, seen |-> FALSE, finished |-> FALSE,
             usage |-> NoUsage, usageEmitted |-> FALSE, finalized |-> FALSE, error |-> FALSE, out |-> <<>>]

\* Bug: the index alone tells the calls apart.
ToolAtIndex(s, index, f) == IF index \in DOMAIN s.byIndex THEN s.byIndex[index] ELSE 0

\* The call a fragment at an index goes on with: by id, else by index unless
\* the id there is another one; 0 for a new call.
ToolAt(s, index, f) ==
    LET byIndex == IF index \in DOMAIN s.byIndex THEN s.byIndex[index] ELSE 0
    IN  CASE f.id # NoId /\ f.id \in DOMAIN s.byId -> s.byId[f.id]
          [] byIndex # 0 /\ NoId \notin {f.id, s.tools[byIndex].id} /\ s.tools[byIndex].id # f.id -> 0
          [] OTHER -> byIndex

NewTool == [id |-> NoId, name |-> NoId, args |-> <<>>, emitted |-> FALSE]

\* The fragment becomes part of call k: an error when the call is out or its
\* name changes.
AddTo(s, k, f) ==
    LET tool == s.tools[k]
    IN  IF tool.emitted \/ (NoId \notin {tool.name, f.name} /\ tool.name # f.name)
        THEN [s EXCEPT !.error = TRUE]
        ELSE [s EXCEPT !.tools[k].id   = IF f.id = NoId THEN @ ELSE f.id,
                       !.tools[k].name = IF f.name = NoId THEN @ ELSE f.name,
                       !.tools[k].args = @ \o [n \in 1 .. f.args |-> f.call],
                       !.byId = IF f.id = NoId THEN @ ELSE Put(@, f.id, k)]

AtTool(s, k, index, f) ==
    IF k = 0 THEN AddTo([s EXCEPT !.tools = Append(@, NewTool),
                                    !.byIndex = Put(@, index, Len(s.tools) + 1)], Len(s.tools) + 1, f)
    ELSE AddTo([s EXCEPT !.byIndex = Put(@, index, k)], k, f)

AtPosition(s, index, f) == AtTool(s, ToolAt(s, index, f), index, f)

\* appendToolCallDelta: a missing index is the place in the chunk.
AppendCall(s, f, place) == AtPosition(s, IF f.index = NoIndex THEN place - 1 ELSE f.index, f)

Collected(s, calls) ==
    FoldLeft(LAMBDA t, k : IF t.error THEN t ELSE AppendCall(t, calls[k], k), s, Positions(calls))

-----------------------------------------------------------------------------
Pending(s) == SelectSeq(s.tools, LAMBDA tool : ~tool.emitted)

\* A chunk, with the usage of the upstream's chunk or counts of zero.
Response(candidate, parts, finish, usage) ==
    [Candidate(parts, finish, IF usage = NoUsage THEN Tokens(0, 0) ELSE usage)
        EXCEPT !.candidate = candidate]

Finished(s) == [s EXCEPT !.tools = [k \in DOMAIN @ |-> [@[k] EXCEPT !.emitted = TRUE]], !.finished = TRUE]

CallParts(s) ==
    [k \in DOMAIN Pending(s) |-> LET tool == Pending(s)[k] IN Call(tool.id, tool.id, tool.name, tool.args)]

\* finishChoice: all collected calls, each of which needs a name.
FinishChoice(s, parts, finish, usage) ==
    IF \E k \in DOMAIN Pending(s) : Pending(s)[k].name = NoId THEN [s EXCEPT !.error = TRUE]
    ELSE Emit(Finished(s), <<Response(TRUE, parts \o CallParts(s), finish, usage)>>)

\* Bug: every finish reason becomes STOP.
ReasonStop(finish) == "stop"

\* geminiFinishReason
ReasonOf(finish) == IF finish = "length" THEN "length" ELSE "stop"

\* A choice: after its end only empty ones are let through, in silence.
Choice(s, chunk) ==
    LET collected == Collected([s EXCEPT !.seen = TRUE], chunk.calls)
        parts == IF chunk.text THEN <<Text>> ELSE <<>>
    IN  CASE s.finished -> [s EXCEPT !.error = chunk.text \/ chunk.calls # <<>>]
          [] ~s.finished /\ (collected.error \/ (chunk.finish = "none" /\ ~chunk.text)) -> collected
          [] ~s.finished /\ ~collected.error /\ chunk.finish = "none" /\ chunk.text ->
                Emit(collected, <<Response(TRUE, parts, "none", chunk.usage)>>)
          [] OTHER -> FinishChoice(collected, parts, ReasonOf(chunk.finish), chunk.usage)

UsageAlone(s) == Emit(s, <<Response(FALSE, <<>>, "none", s.usage)>>)

\* Usage goes with the chunk, or alone once the choice is finished.
WithUsage(s, chunk) ==
    CASE s.error \/ chunk.usage = NoUsage -> s
      [] ~(s.error \/ chunk.usage = NoUsage) /\ s.out # <<>> -> [s EXCEPT !.usageEmitted = TRUE]
      [] OTHER -> IF s.finished THEN [UsageAlone(s) EXCEPT !.usageEmitted = TRUE] ELSE s

\* ConvertChunk
Convert(s, chunk) ==
    LET known == [s EXCEPT !.usage = IF chunk.usage = NoUsage THEN @ ELSE chunk.usage]
    IN  WithUsage(IF chunk.choice THEN Choice(known, chunk) ELSE known, chunk)

\* Finalize: an unfinished choice is finished with STOP, usage that was not
\* sent follows.
Finalize(s) ==
    LET ended == [s EXCEPT !.finalized = TRUE]
    IN  CASE s.finalized -> s
          [] ~s.finalized /\ s.seen /\ ~s.finished -> FinishChoice(ended, <<>>, "stop", s.usage)
          [] OTHER -> IF s.usage = NoUsage \/ s.usageEmitted THEN ended ELSE UsageAlone(ended)
=============================================================================
