---------------------------- MODULE ChatRequests ----------------------------
(***************************************************************************)
(* The converters that read a Chat Completions request: to Claude Messages  *)
(* (oai_chat/to_claude_messages_req.go), to Gemini (to_gemini_chat_req.go)  *)
(* and to Responses (to_oai_responses_req.go).                              *)
(***************************************************************************)
EXTENDS RequestParts

ToolRoles   == {"tool", "function"}
SystemRoles == {"system", "developer"}

-----------------------------------------------------------------------------
(* To Claude Messages. *)

NormalRole(m) ==
    CASE m.role \in {"system", "user", "assistant"} -> m.role
      [] m.role = "developer"                       -> "system"
      [] m.role \in ToolRoles /\ m.id # NoId        -> "tool"
      [] OTHER                                      -> "user"

\* A message of the role of the one before it takes its text over, if both are
\* strings, and replaces it.
Joins(ms, m) ==
    /\ LastHasRole(ms, NormalRole(m)) /\ NormalRole(m) # "tool"
    /\ IsString(Last(ms)) /\ IsString(m)

Filled(m) == IF m.form = "null" \/ (IsString(m) /\ StringContent(m) = <<>>) THEN SetString(m, Filler) ELSE m

FormatMessage(ms, m) ==
    LET role == NormalRole(m)
        kept == [Message(role, m.form, m.content)
                    EXCEPT !.id    = IF role = "tool" THEN m.id ELSE NoId,
                           !.calls = IF role = "assistant" THEN m.calls ELSE <<>>]
    IN  IF Joins(ms, m)
        THEN Append(Front(ms), Filled(SetString(kept, StringContent(Last(ms)) \o StringContent(m))))
        ELSE Append(ms, Filled(kept))

Placeholder == Message("user", "array", <<Text(Filler)>>)

\* The tool_result block of a tool message; Claude has no name there.
ToolResult(m) == Result(m.id, NoName, JoinedText(m.content))

\* A string stays one, anything else becomes blocks, the calls last.
ClaudeTurn(m) ==
    IF IsString(m) /\ m.calls = <<>> THEN m
    ELSE Message(m.role, "array", NonEmpty(Content(m)) \o m.calls)

AddToClaude(doc, m) ==
    LET entries == IF doc.entries = <<>> /\ m.role # "user" THEN <<Placeholder>> ELSE doc.entries
    IN  CASE m.role = "system" ->
                [doc EXCEPT !.system = @ \o Values(NonEmpty(OfKind(Content(m), {"text"})))]
          [] m.role = "tool" /\ LastHasRole(entries, "user") ->
                [doc EXCEPT !.entries = Extend(entries, <<ToolResult(m)>>)]
          [] m.role = "tool" /\ ~LastHasRole(entries, "user") ->
                [doc EXCEPT !.entries = Append(entries, Message("user", "array", <<ToolResult(m)>>))]
          [] OTHER ->
                [doc EXCEPT !.entries = Append(entries, ClaudeTurn(m))]

ChatToClaude(chat) ==
    LET doc == FoldLeft(AddToClaude, Document(<<>>, <<>>), FoldLeft(FormatMessage, <<>>, chat.entries))
    IN  IF doc.entries = <<>> /\ doc.system # <<>> THEN [doc EXCEPT !.entries = <<Placeholder>>] ELSE doc

-----------------------------------------------------------------------------
(* To Gemini. *)

\* toolCallIDs: the name of the last call with that id among the messages read.
CallName(messages, id) ==
    LET calls == FlattenSeq([i \in DOMAIN messages |-> messages[i].calls])
        known == SelectSeq(calls, LAMBDA c : c.id = id)
    IN  IF known = <<>> THEN NoName ELSE Last(known).name

\* A response goes to the last content, unless that is the model's.
FunctionResponse(messages, m) ==
    Result(m.id, IF m.name # NoName THEN m.name ELSE CallName(messages, m.id), StringContent(m))

AddFunctionResponse(contents, part) ==
    IF contents = <<>> \/ Last(contents).role = "model"
    THEN Append(contents, Message("user", "array", <<part>>))
    ELSE Extend(contents, <<part>>)

\* The calls come first, empty texts go, and a content without parts too.
GeminiTurn(contents, m) ==
    LET parts == m.calls \o NonEmpty(Content(m))
        role  == IF m.role = "assistant" THEN "model" ELSE m.role
    IN  IF parts = <<>> THEN contents ELSE Append(contents, Message(role, "array", parts))

AddToGemini(doc, messages, m) ==
    CASE m.role \in SystemRoles -> [doc EXCEPT !.system  = Append(@, StringContent(m))]
      [] m.role \in ToolRoles   -> [doc EXCEPT !.entries = AddFunctionResponse(@, FunctionResponse(messages, m))]
      [] OTHER                  -> [doc EXCEPT !.entries = GeminiTurn(@, m)]

ChatToGemini(chat) ==
    FoldLeftDomain(LAMBDA doc, i : AddToGemini(doc, SubSeq(chat.entries, 1, i - 1), chat.entries[i]),
                   Document(<<>>, <<>>), chat.entries)

-----------------------------------------------------------------------------
(* To Responses. *)

OutputItem(m) ==
    IF m.id = NoId THEN StringMessage("user", JoinedText(m.content))
    ELSE [Entry("function_call_output", "", "string", <<Text(JoinedText(m.content))>>) EXCEPT !.id = m.id]

CallItem(c) == [Entry("function_call", "", "string", <<Text(c.v)>>) EXCEPT !.id = c.id, !.name = c.name]

\* A message without content becomes an empty item; its calls follow it.
TurnItems(m) ==
    <<IF m.form = "null" THEN StringMessage(m.role, <<>>) ELSE Message(m.role, m.form, m.content)>> \o
    (IF m.role = "assistant"
     THEN LET named == SelectSeq(m.calls, LAMBDA c : c.id # NoId /\ c.name # NoName)
          IN  [i \in DOMAIN named |-> CallItem(named[i])]
     ELSE <<>>)

AddToResponses(doc, m) ==
    CASE m.role = "" -> doc
      [] m.role \in ToolRoles   -> [doc EXCEPT !.entries = Append(@, OutputItem(m))]
      [] m.role \in SystemRoles -> [doc EXCEPT !.system  = IF JoinedText(Content(m)) = <<>> THEN @
                                                           ELSE Append(@, JoinedText(Content(m)))]
      [] OTHER                  -> [doc EXCEPT !.entries = @ \o TurnItems(m)]

ChatToResponses(chat) == FoldLeft(AddToResponses, Document(<<>>, <<>>), chat.entries)
=============================================================================
