-------------------------- MODULE ResponsesRequests --------------------------
(***************************************************************************)
(* The converters that read a Responses request: to Chat Completions        *)
(* (oai_responses/to_oai_chat_req.go), to Claude Messages                   *)
(* (to_claude_messages_req.go) and to Gemini (to_gemini_chat_req.go with    *)
(* its filter, to_gemini_chat_req_preprocess.go).  An item has a type; the  *)
(* input may also be a single string, which the client model never sends.   *)
(***************************************************************************)
EXTENDS RequestParts

CallTypes   == {"function_call", "custom_tool_call"}
OutputTypes == {"function_call_output", "custom_tool_call_output"}
SystemNames == {"system", "developer"}

ItemCall(item) == Call(item.id, item.name, JoinedText(item.content))

-----------------------------------------------------------------------------
(* To Chat Completions. *)

\* appendToolCallToLastAssistant
AppendChatCall(messages, call) ==
    LET all == IF LastHasRole(messages, "assistant") THEN messages
               ELSE Append(messages, Message("assistant", "null", <<>>))
    IN  [all EXCEPT ![Len(all)].calls = Append(@, call)]

\* A reasoning item and the output of a custom tool become messages too, of the
\* user: empty without a content; the text of reasoning, a kind of part Chat does
\* not know, is passed on as it is.
ItemMessage(item) ==
    LET role     == IF item.role = "" THEN "user" ELSE item.role
        onlyText == \A i \in DOMAIN item.content : item.content[i].k = "text"
        raw      == [i \in DOMAIN item.content |-> [item.content[i] EXCEPT !.k = "raw"]]
    IN  CASE item.type = "reasoning" /\ item.content # <<>> -> Message(role, "array", raw)
          [] item.type = "message" /\ ~onlyText -> Message(role, "array", item.content)
          [] OTHER -> StringMessage(role, IF item.type = "message" THEN JoinedText(item.content) ELSE <<>>)

AddToChat(messages, item) ==
    CASE item.type \in CallTypes -> AppendChatCall(messages, ItemCall(item))
      [] item.type = "function_call_output" ->
            Append(messages, [StringMessage("tool", JoinedText(item.content)) EXCEPT !.id = item.id])
      [] OTHER -> Append(messages, ItemMessage(item))

SystemOf(doc) == IF FlattenSeq(doc.system) = <<>> THEN <<>> ELSE <<FlattenSeq(doc.system)>>

ResponsesToChat(doc) ==
    LET system == SystemOf(doc)
    IN  Document(<<>>, FoldLeft(AddToChat, [i \in DOMAIN system |-> StringMessage("system", system[i])], doc.entries))

-----------------------------------------------------------------------------
(* To Claude Messages. *)

\* appendClaudeToolUse, appendClaudeToolResult
AppendBlock(messages, role, block) ==
    IF LastHasRole(messages, role) THEN Extend(messages, <<block>>)
    ELSE Append(messages, Message(role, "array", <<block>>))

ClaudeRole(role) ==
    CASE role = "assistant" -> "assistant" [] role \in SystemNames -> "system" [] OTHER -> "user"

AddItemToClaude(doc, item) ==
    LET parts == IF item.type = "message" THEN NonEmpty(item.content) ELSE <<>>
        role  == ClaudeRole(item.role)
    IN  CASE item.type \in CallTypes ->
                [doc EXCEPT !.entries = AppendBlock(@, "assistant", ItemCall(item))]
          [] item.type \in OutputTypes ->
                [doc EXCEPT !.entries = AppendBlock(@, "user", Result(item.id, NoName, JoinedText(item.content)))]
          [] item.type \notin CallTypes \union OutputTypes /\ item.role = "" /\ parts = <<>> -> doc
          [] item.type = "message" /\ role = "system" ->
                [doc EXCEPT !.system = @ \o Values(OfKind(parts, {"text"}))]
          [] OTHER ->
                [doc EXCEPT !.entries = Append(@, Message(role, "array",
                                                          IF parts = <<>> THEN <<Text(Filler)>> ELSE parts))]

\* ensureClaudeMessagesStartWithUser
ResponsesToClaude(doc) ==
    LET read == FoldLeft(AddItemToClaude, Document(SystemOf(doc), <<>>), doc.entries)
        bare == read.entries = <<>> \/ read.entries[1].role # "user"
    IN  IF bare /\ (read.entries # <<>> \/ read.system # <<>>)
        THEN [read EXCEPT !.entries = <<Message("user", "array", <<Text(Filler)>>)>> \o @]
        ELSE read

-----------------------------------------------------------------------------
(* To Gemini. *)

\* PrepareOpenAIResponsesRequest: custom calls and what answers them are left out.
Prepared(items) ==
    LET skipped == {items[i].id : i \in {j \in DOMAIN items : items[j].type = "custom_tool_call"}} \ {NoId}
    IN  SelectSeq(items, LAMBDA item :
                    /\ item.type \notin {"custom_tool_call", "custom_tool_call_output"}
                    /\ ~(item.type = "function_call_output" /\ item.id \in skipped))

\* appendGeminiContentPart: a call goes behind the calls its content begins with.
LeadingCalls(parts) == CHOOSE n \in 0..Len(parts) :
    (\A i \in 1..n : parts[i].k = "call") /\ (n = Len(parts) \/ parts[n + 1].k # "call")

AppendPart(contents, role, part) ==
    CASE LastHasRole(contents, role) /\ part.k = "call" ->
            [contents EXCEPT ![Len(contents)].content = InsertAt(@, LeadingCalls(@) + 1, part)]
      [] LastHasRole(contents, role) /\ part.k # "call" -> Extend(contents, <<part>>)
      [] OTHER -> Append(contents, Message(role, "array", <<part>>))

GeminiRole(role) ==
    CASE role \in {"assistant", "model"} -> "model" [] role \in SystemNames -> "system" [] OTHER -> "user"

\* callNames: the name of the last call with that id.
NameOf(items, id) ==
    LET calls == SelectSeq(items, LAMBDA item : item.type = "function_call" /\ item.id = id)
    IN  IF id = NoId \/ calls = <<>> THEN NoName ELSE Last(calls).name

OutputPart(before, item) ==
    Result(item.id, IF item.name # NoName THEN item.name ELSE NameOf(before, item.id), JoinedText(item.content))

AddItemToGemini(doc, before, item) ==
    LET parts == IF item.type = "message" THEN NonEmpty(item.content) ELSE <<>>
    IN  CASE item.type = "function_call" ->
                [doc EXCEPT !.entries = AppendPart(@, "model", ItemCall(item))]
          [] item.type = "function_call_output" ->
                [doc EXCEPT !.entries = AppendPart(@, "user", OutputPart(before, item))]
          [] item.type = "message" /\ GeminiRole(item.role) = "system" ->
                [doc EXCEPT !.system = @ \o Values(OfKind(parts, {"text"}))]
          [] item.type = "message" /\ GeminiRole(item.role) # "system" /\ parts # <<>> ->
                [doc EXCEPT !.entries = Append(@, Message(GeminiRole(item.role), "array", parts))]
          [] OTHER -> doc

ResponsesToGemini(doc) ==
    LET items == Prepared(doc.entries)
    IN  FoldLeftDomain(LAMBDA d, i : AddItemToGemini(d, SubSeq(items, 1, i - 1), items[i]),
                       Document(SystemOf(doc), <<>>), items)
=============================================================================
