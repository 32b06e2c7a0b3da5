----------------------- MODULE ChatToResponsesStream -----------------------
(***************************************************************************)
(* A Chat Completions stream rendered as a Responses stream:               *)
(* ChatCompletionsStreamChunkToResponsesEvents and its finalizer           *)
(* (relayconvert/internal/oai_chat/to_oai_responses_stream_resp.go).       *)
(* StreamPipeline drives the operators of this module.                     *)
(*                                                                         *)
(* outputOrder and the items it refers to are one sequence here, "items":  *)
(* the item at position k has output index k - 1.  A function call's key   *)
(* is the index it has in the chunks.                                      *)
(*                                                                         *)
(* Hosted tools and Fail are entry points for other hosts; the relay calls *)
(* none of them, and leaves the sequence numbers off.                      *)
(***************************************************************************)
EXTENDS ResponsesEvents

\* NewChatToResponsesStreamState
NewState == [status |-> "completed", created |-> FALSE, items |-> <<>>, usage |-> Tokens(0, 0),
             finalized |-> FALSE, error |-> FALSE, out |-> <<>>]

EnsureCreated(s) ==
    IF s.created THEN s ELSE [Emit(s, <<Created>>) EXCEPT !.created = TRUE]

PositionOf(s, kind, key) ==
    LET at == {k \in DOMAIN s.items : s.items[k].kind = kind /\ s.items[k].key = key}
    IN  IF at = {} THEN 0 ELSE Min(at)

\* The item is in the output, at the end when it was not.
Ensure(s, kind, key, id, name) ==
    IF PositionOf(s, kind, key) # 0 THEN s
    ELSE [Emit(s, <<ItemAdded(Len(s.items), kind)>>) EXCEPT
            !.items = Append(@, [kind |-> kind, key |-> key, id |-> id, name |-> name, of |-> {},
                                 pieces |-> 0, notes |-> 0, done |-> FALSE])]

\* One more piece for an item, and its delta.
AddPiece(s, k, args) ==
    [Emit(s, <<Piece(k - 1, s.items[k].kind, args)>>)
        EXCEPT !.items[k].of = @ \cup Range(args), !.items[k].pieces = @ + 1]

WriteTo(s, kind) == AddPiece(s, PositionOf(s, kind, 0), <<>>)

\* appendTextDelta and appendReasoningDelta
Write(s, kind) == WriteTo(Ensure(s, kind, 0, NoId, NoId), kind)

AddNote(s, k) == [Emit(s, <<NoteAdded(k - 1)>>) EXCEPT !.items[k].notes = @ + 1]

NoteMessage(s) == AddNote(s, PositionOf(s, "message", 0))

\* appendAnnotationDelta: annotations belong to the message item.
Annotate(s) == NoteMessage(Ensure(s, "message", 0, NoId, NoId))

\* A fragment of the call at position k.  A call that is done, or whose id or
\* name changes, is an error.
CallPiece(s, k, f) ==
    LET clash(old, new) == NoId \notin {old, new} /\ old # new
        known == [s EXCEPT !.items[k].id   = IF f.id = NoId THEN @ ELSE f.id,
                           !.items[k].name = IF f.name = NoId THEN @ ELSE f.name]
    IN  IF s.items[k].done \/ clash(s.items[k].id, f.id) \/ clash(s.items[k].name, f.name)
        THEN [s EXCEPT !.error = TRUE]
        ELSE IF f.args = 0 THEN known
        ELSE AddPiece(known, k, [n \in 1 .. f.args |-> f.call])

CallAt(s, index, f) == CallPiece(s, PositionOf(s, "function_call", index), f)

\* appendToolCallDelta: calls are found by index, a missing one counts as 0.
\* On an error the item the fragment may have opened stays.
ToolCall(s, f) ==
    LET index == IF f.index = NoIndex THEN 0 ELSE f.index
    IN  CallAt(Ensure(s, "function_call", index, f.id, f.name), index, f)

\* The order items are closed in: the message, the reasoning, then the calls
\* by their index in the chunks.
ClosingOrder(s) ==
    LET rank(k) == CASE s.items[k].kind = "message"   -> -2
                     [] s.items[k].kind = "reasoning" -> -1
                     [] OTHER                         -> s.items[k].key
    IN  SortSeq(Positions(s.items), LAMBDA a, b : rank(a) < rank(b))

\* doneDeltaEvents
CloseItems(s) ==
    LET close(t, k) ==
            IF t.items[k].done THEN t
            ELSE [Emit(t, <<PartDone(k - 1), ItemDone(k - 1, s.status)>>) EXCEPT !.items[k].done = TRUE]
    IN  FoldLeft(close, s, ClosingOrder(s))

\* Bug: the items are closed before the finish reason is applied.
FinishLate(s, finish) ==
    [CloseItems(s) EXCEPT !.status = IF finish = "length" THEN "incomplete" ELSE "completed"]

\* applyFinishReason, then doneDeltaEvents
Finish(s, finish) ==
    CloseItems([s EXCEPT !.status = IF finish = "length" THEN "incomplete" ELSE "completed"])

\* The parts of a choice in the order they are handled; an error ends it.
Thought(s, chunk) == IF chunk.reasoning THEN Write(s, "reasoning") ELSE s
Written(s, chunk) == IF chunk.text THEN Write(s, "message") ELSE s

Noted(s, chunk) ==
    CASE chunk.cites = "none" -> s
      [] chunk.cites = "some" -> Annotate(s)
      [] chunk.cites = "bad"  -> [s EXCEPT !.error = TRUE]

Called(s, chunk) == FoldLeft(LAMBDA t, f : IF t.error THEN t ELSE ToolCall(t, f), s, chunk.calls)

Closed(s, chunk) == IF s.error \/ chunk.finish = "none" THEN s ELSE Finish(s, chunk.finish)

Choice(s, chunk) == Closed(Called(Noted(Written(Thought(s, chunk), chunk), chunk), chunk), chunk)

\* An error takes the events of the whole chunk with it.
NothingOnError(s) == IF s.error THEN [s EXCEPT !.out = <<>>] ELSE s

\* Usage is replaced, not merged.
Reported(s, chunk) == [s EXCEPT !.usage = IF chunk.usage = NoUsage THEN @ ELSE chunk.usage]

\* ChatCompletionsStreamChunkToResponsesEvents
Convert(s, chunk) ==
    LET begun == EnsureCreated(Reported(s, chunk))
    IN  NothingOnError(IF chunk.choice THEN Choice(begun, chunk) ELSE begun)

\* finalResponse
Document(s) ==
    [k \in 1 .. Len(s.items) |->
        [kind |-> s.items[k].kind, of |-> s.items[k].of, pieces |-> s.items[k].pieces,
         notes |-> s.items[k].notes, status |-> s.status]]

\* The terminal event: response.completed or response.incomplete.
EndStream(s) == Emit(s, <<Terminal(s.status, Document(s), s.usage)>>)

\* FinalizeChatCompletionsStreamToResponses
Finalize(s) == IF s.finalized THEN s ELSE EndStream([CloseItems(s) EXCEPT !.finalized = TRUE])
=============================================================================
