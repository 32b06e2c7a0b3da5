------------------------- MODULE ClaudeToChatStream ------------------------
(***************************************************************************)
(* A Claude Messages stream rendered as a Chat Completions stream:         *)
(* ClaudeToChatStreamState.ConvertChunk and StreamResponseClaude2OpenAI    *)
(* (relayconvert/internal/claude_messages/to_oai_chat_resp.go), and the    *)
(* chunks as a Chat Completions client takes them.                         *)
(*                                                                         *)
(* The code numbers tool calls apart from content blocks, because "Text    *)
(* and thinking blocks therefore do not create holes in the downstream     *)
(* tool array".  A call's id and name are one value here.                  *)
(***************************************************************************)
EXTENDS ClaudeEvents

Hosted == {"server_tool_use", "web_search_tool_result"}

\* NewClaudeToChatStreamState
NewState == [toolIndex |-> <<>>, kinds |-> <<>>, next |-> 0, error |-> FALSE, out |-> <<>>]

\* Bug: a call keeps the index of its content block.
OpenUnmapped(s, e) ==
    LET index == e.index
    IN  IF e.kind # "tool_use" THEN [s EXCEPT !.kinds = Put(@, e.index, e.kind)]
        ELSE [s EXCEPT !.kinds = Put(@, e.index, e.kind), !.toolIndex = Put(@, e.index, index),
                       !.next = @ + 1]

\* content_block_start: a call gets the next index in the tool array.
Open(s, e) ==
    LET known == e.index \in DOMAIN s.toolIndex
    IN  IF e.kind # "tool_use" \/ known THEN [s EXCEPT !.kinds = Put(@, e.index, e.kind)]
        ELSE [s EXCEPT !.kinds = Put(@, e.index, e.kind), !.toolIndex = Put(@, e.index, s.next),
                       !.next = @ + 1]

\* content_block_stop
Close(s, e) == [s EXCEPT !.kinds = [i \in DOMAIN @ \ {e.index} |-> @[i]]]

\* The chunk of a content block's start or delta; hosted blocks have none.
BlockChunk(s, e) ==
    LET tool(id, args, call) ==
            <<[EmptyChunk EXCEPT !.calls = <<Fragment(call, s.toolIndex[e.index], id, id, args)>>]>>
    IN  CASE e.kind = "tool_use" -> tool(e.id, 0, e.id)
          [] e.kind \in {"text", "thinking"} -> <<EmptyChunk>>
          [] e.kind = "text_delta" -> <<[EmptyChunk EXCEPT !.text = TRUE]>>
          [] e.kind = "citations_delta" -> <<[EmptyChunk EXCEPT !.cites = "some"]>>
          [] e.kind \in {"thinking_delta", "signature_delta"} ->
                <<[EmptyChunk EXCEPT !.reasoning = TRUE]>>
          [] e.kind = "input_json_delta" /\ e.index \in DOMAIN s.toolIndex ->
                tool(NoId, Len(e.args), e.args[1])
          [] OTHER -> <<>>

\* StreamResponseClaude2OpenAI
ToChunk(s, e) ==
    CASE e.type = "message_start" -> <<[EmptyChunk EXCEPT !.usage = e.usage]>>
      [] e.type \in {"content_block_start", "content_block_delta"} -> BlockChunk(s, e)
      [] e.type = "message_delta" -> <<[EmptyChunk EXCEPT !.finish = e.reason, !.usage = e.usage]>>
      [] OTHER -> <<>>

\* Arguments for a block that is neither a call nor hosted.
Unknown(s, e) ==
    /\ e.type = "content_block_delta"
    /\ e.kind = "input_json_delta"
    /\ e.index \notin DOMAIN s.toolIndex
    /\ ~(e.index \in DOMAIN s.kinds /\ s.kinds[e.index] \in Hosted)

\* ConvertChunk
Convert(s, e) ==
    LET t == CASE e.type = "content_block_start" -> Open(s, e)
               [] e.type = "content_block_stop"  -> Close(s, e)
               [] OTHER                          -> s
    IN  IF Unknown(s, e) THEN [s EXCEPT !.error = TRUE] ELSE Emit(t, ToChunk(t, e))

\* Bug: only message_start is read for usage.
UsageOfStart(e) == IF e.type = "message_start" THEN e.usage ELSE NoUsage

\* usageFromClaudeResponse
UsageOf(e) == IF "usage" \in DOMAIN e THEN e.usage ELSE NoUsage

-----------------------------------------------------------------------------
(* The client.  The tool array has no holes: a fragment goes on with a     *)
(* call the client knows or opens the next one, with its id and name.      *)

ChatAccepts(w, f) ==
    \/ f.index \in DOMAIN w.blocks
    \/ f.index = Cardinality(DOMAIN w.blocks) /\ NoId \notin {f.id, f.name}

ChatTake(w, f) ==
    LET block == IF f.index \in DOMAIN w.blocks THEN w.blocks[f.index] ELSE [of |-> {}]
        args  == [n \in 1 .. f.args |-> f.call]
    IN  IF ~ChatAccepts(w, f) THEN Broken(w)
        ELSE Got([w EXCEPT !.blocks = Put(@, f.index, [of |-> block.of \cup Range(args)])], args)

ChatFinish(w, chunk) ==
    IF chunk.finish = "none" \/ w.phase = "broken" THEN w
    ELSE [w EXCEPT !.phase = "ended", !.reason = chunk.finish]

ChatReceive(w, chunk) ==
    IF w.phase = "ended" /\ (HasContent(chunk) \/ chunk.finish # "none") THEN Broken(w)
    ELSE LET open == [w EXCEPT !.phase = IF @ = "new" THEN "open" ELSE @]
         IN  Told(ChatFinish(FoldLeft(ChatTake, open, chunk.calls), chunk), chunk.usage)
=============================================================================
