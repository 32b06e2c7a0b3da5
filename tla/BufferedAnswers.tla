--------------------------- MODULE BufferedAnswers ---------------------------
(***************************************************************************)
(* The converters of answers that are not streamed, each from the           *)
(* upstream's protocol to the client's: *_resp.go of oai_chat,              *)
(* oai_responses, claude_messages and gemini_chat.  An answer is the entry  *)
(* the client will find in its history (for Responses: the output items)    *)
(* and the reason why it ended, in the words of the protocol.               *)
(***************************************************************************)
EXTENDS RequestParts, TLC

Answer(entries, finish) == [entries |-> entries, finish |-> finish]

ChatAnswer(text, thought, calls, finish) ==
    Answer(<<[StringMessage("assistant", text) EXCEPT !.thought = thought, !.calls = calls]>>, finish)

HasCalls(parts) == OfKind(parts, {"call"}) # <<>>

-----------------------------------------------------------------------------
(* Responses to Chat Completions and to Claude Messages. *)

IsCallItem(item) == item.type \in {"function_call", "custom_tool_call"}
OfType(items, type) == SelectSeq(items, LAMBDA item : item.type = type)
ItemTexts(items) == FlattenSeq([i \in DOMAIN items |-> JoinedText(items[i].content)])

\* reasoningOutputText: the content of a reasoning item, else its summary.
ReasoningText(item) == IF JoinedText(item.content) # <<>> THEN JoinedText(item.content) ELSE item.thought

\* ExtractOutputTextFromResponses: without a text in a message, any text there is.
OutputText(items) ==
    IF ItemTexts(OfType(items, "message")) # <<>> THEN ItemTexts(OfType(items, "message"))
    ELSE ItemTexts(SelectSeq(items, LAMBDA item : ~IsCallItem(item)))

ReasoningTexts(items) ==
    LET thoughts == OfType(items, "reasoning")
    IN  FlattenSeq([i \in DOMAIN thoughts |-> ReasoningText(thoughts[i])])

\* Bug: custom calls are not looked for.
ItemCallsOfFunctions(items) ==
    LET calls == OfType(items, "function_call")
    IN  [i \in DOMAIN calls |-> Call(calls[i].id, calls[i].name, JoinedText(calls[i].content))]

\* Custom calls become function calls; a call without a name is dropped.
ItemCalls(items) ==
    LET calls == SelectSeq(items, LAMBDA item : IsCallItem(item) /\ item.name # NoName)
    IN  [i \in DOMAIN calls |-> Call(calls[i].id, calls[i].name, JoinedText(calls[i].content))]

\* Bug: calls decide before the status is looked at.
ChatFinishByCalls(status, calls) ==
    CASE calls # <<>> -> "tool_calls"
      [] calls = <<>> /\ status = "incomplete" -> "length"
      [] OTHER -> "stop"

ChatFinish(status, calls) ==
    CASE status = "incomplete" -> "length"
      [] status # "incomplete" /\ calls # <<>> -> "tool_calls"
      [] OTHER -> "stop"

ResponsesToChatAnswer(a) ==
    ChatAnswer(OutputText(a.entries), ReasoningTexts(a.entries), ItemCalls(a.entries),
               ChatFinish(a.finish, ItemCalls(a.entries)))

\* Bug: reasoning becomes a text block.
OutputBlocksSpoken(item) ==
    CASE item.type = "reasoning" -> IF ReasoningText(item) = <<>> THEN <<>> ELSE <<Text(ReasoningText(item))>>
      [] item.type = "message"   -> OfKind(item.content, {"text"})
      [] IsCallItem(item)        -> <<Call(item.id, item.name, JoinedText(item.content))>>

OutputBlocks(item) ==
    CASE item.type = "reasoning" -> IF ReasoningText(item) = <<>> THEN <<>> ELSE <<Thinking(ReasoningText(item))>>
      [] item.type = "message"   -> OfKind(item.content, {"text"})
      [] IsCallItem(item)        -> <<Call(item.id, item.name, JoinedText(item.content))>>

ClaudeStop(finish) ==
    CASE finish = "length" -> "max_tokens" [] finish = "tool_calls" -> "tool_use" [] OTHER -> "end_turn"

ResponsesToClaudeAnswer(a) ==
    LET blocks == FlattenSeq([i \in DOMAIN a.entries |-> OutputBlocks(a.entries[i])])
    IN  Answer(<<Message("assistant", "array", IF blocks = <<>> THEN <<Text(<<>>)>> ELSE blocks)>>,
               ClaudeStop(ChatFinish(a.finish, OfKind(blocks, {"call"}))))

-----------------------------------------------------------------------------
(* Chat Completions to Responses, Claude Messages and Gemini. *)

CallOutput(c, n) ==
    [Entry("function_call", "", "string", <<Text(c.v)>>)
        EXCEPT !.id = IF c.id = NoId THEN Generated(n) ELSE c.id, !.name = c.name]

ChatToResponsesAnswer(a) ==
    LET m    == a.entries[1]
        text == StringContent(m)
    IN  Answer((IF m.thought = <<>> THEN <<>> ELSE <<[Entry("reasoning", "", "null", <<>>) EXCEPT !.thought = m.thought]>>)
               \o (IF text = <<>> THEN <<>> ELSE <<Message("assistant", "array", <<Text(text)>>)>>)
               \o [i \in DOMAIN m.calls |-> CallOutput(m.calls[i], i)],
               IF a.finish = "length" THEN "incomplete" ELSE "completed")

\* An empty text only where there is nothing else.
ChatToClaudeAnswer(a) ==
    LET m == a.entries[1]
    IN  Answer(<<Message("assistant", "array",
                         (IF m.thought = <<>> THEN <<>> ELSE <<Thinking(m.thought)>>)
                         \o (IF StringContent(m) # <<>> \/ (m.thought = <<>> /\ m.calls = <<>>)
                             THEN <<Text(StringContent(m))>> ELSE <<>>)
                         \o m.calls)>>,
               ClaudeStop(a.finish))

\* Reasoning has no place in the answer.
ChatToGeminiAnswer(a) ==
    LET m == a.entries[1]
    IN  Answer(<<Message("model", "array",
                         (IF StringContent(m) = <<>> THEN <<>> ELSE <<Text(StringContent(m))>>) \o m.calls)>>,
               IF a.finish = "length" THEN "MAX_TOKENS" ELSE "STOP")

-----------------------------------------------------------------------------
(* Claude Messages and Gemini to Chat Completions. *)

\* Of several thoughts the last one stays.
LastThought(parts) ==
    LET thoughts == OfKind(parts, {"thinking"}) IN IF thoughts = <<>> THEN <<>> ELSE Last(thoughts).v

ChatStop(stop) ==
    CASE stop = "max_tokens" -> "length" [] stop = "tool_use" -> "tool_calls" [] OTHER -> "stop"

ClaudeToChatAnswer(a) ==
    LET blocks == a.entries[1].content
    IN  ChatAnswer(JoinedText(blocks), LastThought(blocks), OfKind(blocks, {"call"}), ChatStop(a.finish))

\* geminiResponseToolCall gives a call without an id a new one.
Identified(calls, fresh) ==
    [i \in DOMAIN calls |-> IF calls[i].id = NoId THEN [calls[i] EXCEPT !.id = "new" \o ToString(fresh + i)] ELSE calls[i]]

\* Calls decide the reason, whatever the upstream said.
GeminiToChatAnswer(a, fresh) ==
    LET parts == a.entries[1].content
    IN  ChatAnswer(JoinedText(parts), LastThought(parts), Identified(OfKind(parts, {"call"}), fresh),
                   CASE HasCalls(parts) -> "tool_calls"
                     [] ~HasCalls(parts) /\ a.finish = "MAX_TOKENS" -> "length"
                     [] OTHER -> "stop")
=============================================================================
