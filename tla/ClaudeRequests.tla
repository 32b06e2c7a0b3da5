--------------------------- MODULE ClaudeRequests ---------------------------
(***************************************************************************)
(* The converters that read a Claude Messages request: to Chat Completions  *)
(* (claude_messages/to_oai_chat_req.go) and to Responses                    *)
(* (to_oai_responses_req.go).                                               *)
(***************************************************************************)
EXTENDS RequestParts

System(doc) == IF doc.system = <<>> THEN <<>> ELSE <<FlattenSeq(doc.system)>>

-----------------------------------------------------------------------------
(* To Chat Completions. *)

\* toolNames: the name of the first block with that id, in the whole request; a
\* result block counts as one without id and name.
BlockName(doc, id) ==
    LET blocks == FlattenSeq([i \in DOMAIN doc.entries |-> doc.entries[i].content])
        named  == SelectSeq(blocks, LAMBDA b : b.k # "result" /\ b.id = id)
    IN  IF id = NoId \/ named = <<>> THEN NoName ELSE named[1].name

ToolMessage(doc, b) ==
    [StringMessage("tool", b.v) EXCEPT !.id = b.id,
                                       !.name = IF b.name # NoName THEN b.name ELSE BlockName(doc, b.id)]

\* Beside calls the other content is dropped; thinking always is.
ChatTurn(m) ==
    LET calls == OfKind(m.content, {"call"})
        media == OfKind(m.content, {"text", "image"})
    IN  CASE m.form = "string" -> m
          [] m.form # "string" /\ calls # <<>> -> [Message(m.role, "null", <<>>) EXCEPT !.calls = calls]
          [] OTHER -> Message(m.role, IF media = <<>> THEN "null" ELSE "media", media)

\* The results of a message come before what else it says.
ChatMessages(doc, m) ==
    LET results == IF m.form = "string" THEN <<>> ELSE OfKind(m.content, {"result"})
        turn    == ChatTurn(m)
    IN  [i \in DOMAIN results |-> ToolMessage(doc, results[i])] \o
        (IF Content(turn) # <<>> \/ turn.calls # <<>> THEN <<turn>> ELSE <<>>)

ClaudeToChat(doc) ==
    LET system == System(doc)
    IN  Document(<<>>, [i \in DOMAIN system |-> StringMessage("system", system[i])] \o
                       FlattenSeq([i \in DOMAIN doc.entries |-> ChatMessages(doc, doc.entries[i])]))

-----------------------------------------------------------------------------
(* To Responses. *)

BlockItem(b) ==
    IF b.k = "call" THEN [Entry("function_call", "", "string", <<Text(b.v)>>) EXCEPT !.id = b.id, !.name = b.name]
    ELSE [Entry("function_call_output", "", "string", <<Text(b.v)>>) EXCEPT !.id = b.id]

\* flushContent: what was collected becomes an item before a call or result does.
Flush(acc, role) ==
    [items |-> IF acc.parts = <<>> THEN acc.items ELSE Append(acc.items, Message(role, "array", acc.parts)),
     parts |-> <<>>]

\* Bug: a call replaces what was collected.
AddBlockOver(acc, role, b) ==
    CASE b.k \in {"text", "image"}  -> [acc EXCEPT !.parts = Append(@, b)]
      [] b.k \in {"call", "result"} -> [items |-> Append(acc.items, BlockItem(b)), parts |-> <<>>]
      [] OTHER                      -> acc

AddBlock(acc, role, b) ==
    CASE b.k \in {"text", "image"}  -> [acc EXCEPT !.parts = Append(@, b)]
      [] b.k \in {"call", "result"} -> [Flush(acc, role) EXCEPT !.items = Append(@, BlockItem(b))]
      [] OTHER                      -> acc

ClaudeItems(m) ==
    CASE m.role = ""       -> <<>>
      [] m.form = "string" -> <<m>>
      [] OTHER             -> Flush(FoldLeft(LAMBDA acc, b : AddBlock(acc, m.role, b),
                                             [items |-> <<>>, parts |-> <<>>], m.content), m.role).items

ClaudeToResponses(doc) ==
    Document(System(doc), FlattenSeq([i \in DOMAIN doc.entries |-> ClaudeItems(doc.entries[i])]))
=============================================================================
