--------------------------- MODULE GeminiRequests ---------------------------
(***************************************************************************)
(* The converter that reads a Gemini request, to Chat Completions           *)
(* (gemini_chat/to_oai_chat_req.go).  Calls and responses of older Gemini   *)
(* clients have no id, so the converter keeps a history of the calls        *)
(* (geminiFunctionCallHistory) to tell which call a response is for.        *)
(***************************************************************************)
EXTENDS RequestParts

Parts(contents) == FlattenSeq([i \in DOMAIN contents |-> contents[i].content])

\* Bug: the numbering starts after the contents with calls.
NewHistoryAfter(contents) ==
    [reserved |-> {p.id : p \in ToSet(OfKind(Parts(contents), {"call", "result"}))} \ {NoId},
     pending  |-> <<>>,
     next     |-> 1 + Len(SelectSeq(contents, LAMBDA c : OfKind(c.content, {"call"}) # <<>>))]

\* newGeminiFunctionCallHistory
NewHistory(contents) ==
    [reserved |-> {p.id : p \in ToSet(OfKind(Parts(contents), {"call", "result"}))} \ {NoId},
     pending  |-> <<>>, next |-> 1]

\* newFallbackID: the first number from next on that no one uses.
Fallback(h) ==
    CHOOSE n \in h.next..(h.next + Cardinality(h.reserved)) :
        Generated(n) \notin h.reserved /\ \A k \in h.next..(n - 1) : Generated(k) \in h.reserved

TakeId(h) == [h EXCEPT !.reserved = @ \union {Generated(Fallback(h))}, !.next = Fallback(h) + 1]

\* add
AddCall(h, p) ==
    IF p.id # NoId THEN [h EXCEPT !.pending = Append(@, p)]
    ELSE [TakeId(h) EXCEPT !.pending = Append(@, [p EXCEPT !.id = Generated(Fallback(h))])]

\* match, removePendingByID: by id, otherwise the oldest open call of that name.
Candidates(h, p) ==
    {i \in DOMAIN h.pending : IF p.id # NoId THEN h.pending[i].id = p.id
                              ELSE p.name = NoName \/ h.pending[i].name = p.name}
\* Bug: the newest open call of that name.
MatchedIdNewest(h, p) ==
    CASE p.id # NoId -> p.id
      [] p.id = NoId /\ Candidates(h, p) # {} -> h.pending[Max(Candidates(h, p))].id
      [] OTHER -> Generated(Fallback(h))

MatchedId(h, p) ==
    CASE p.id # NoId -> p.id
      [] p.id = NoId /\ Candidates(h, p) # {} -> h.pending[Min(Candidates(h, p))].id
      [] OTHER -> Generated(Fallback(h))
Match(h, p) ==
    CASE Candidates(h, p) # {} -> [h EXCEPT !.pending = RemoveAt(@, Min(Candidates(h, p)))]
      [] Candidates(h, p) = {} /\ p.id = NoId -> TakeId(h)
      [] OTHER -> h

-----------------------------------------------------------------------------
Role(r) == CASE r = "model" -> "assistant" [] r = "function" -> "function" [] OTHER -> "user"

\* One part: calls collect on the message, a response is a message of its own,
\* emitted before it.
AddPart(acc, p) ==
    CASE p.k = "thinking" -> [acc EXCEPT !.message.thought = @ \o p.v]
      [] p.k \in {"text", "image"} /\ p.v # <<>> -> [acc EXCEPT !.message.content = Append(@, p)]
      [] p.k = "call" ->
            LET h == AddCall(acc.history, p)
            IN  [acc EXCEPT !.history = h, !.message.calls = Append(@, Last(h.pending))]
      [] p.k = "result" ->
            [acc EXCEPT !.history = Match(@, p),
                        !.messages = Append(@, [StringMessage("tool", p.v) EXCEPT !.id = MatchedId(acc.history, p)])]
      [] OTHER -> acc

\* Beside calls the content is dropped; a single text is a string.
Formed(m) ==
    CASE m.calls # <<>> \/ m.content = <<>> -> [m EXCEPT !.form = "null", !.content = <<>>]
      [] Len(m.content) = 1 /\ m.content[1].k = "text" /\ m.calls = <<>> -> [m EXCEPT !.form = "string"]
      [] OTHER -> [m EXCEPT !.form = "media"]

EndContent(acc) ==
    IF acc.message.content = <<>> /\ acc.message.calls = <<>> /\ acc.message.thought = <<>> THEN acc
    ELSE [acc EXCEPT !.messages = Append(@, Formed(acc.message))]

AddContent(acc, content) ==
    EndContent(FoldLeft(AddPart, [acc EXCEPT !.message = Message(Role(content.role), "null", <<>>)], content.content))

GeminiToChat(doc) ==
    LET read == FoldLeft(AddContent, [messages |-> <<>>, history |-> NewHistory(doc.entries),
                                      message |-> Message("user", "null", <<>>)], doc.entries)
    IN  Document(<<>>, (IF doc.system = <<>> THEN <<>> ELSE <<StringMessage("system", FlattenSeq(doc.system))>>)
                       \o read.messages)
=============================================================================
