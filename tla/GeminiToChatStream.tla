------------------------- MODULE GeminiToChatStream ------------------------
(***************************************************************************)
(* A Gemini stream rendered as a Chat Completions stream:                  *)
(* GeminiToChatStreamState.ConvertChunk, Finalize and                      *)
(* StreamResponseGeminiChat2OpenAI (relayconvert/internal/gemini_chat/     *)
(* to_oai_chat_resp.go).                                                   *)
(*                                                                         *)
(* One candidate.  Arguments are pieces: which JSON path a partial value   *)
(* is written to is left out, and so is the wording of rendered parts.     *)
(***************************************************************************)
EXTENDS GeminiEvents

NoPartial == [on |-> FALSE, call |-> NoId, id |-> NoId, name |-> NoId, args |-> <<>>]

\* NewGeminiToChatStreamState
NewState == [partial |-> NoPartial, indexes |-> <<>>, next |-> 0, saw |-> FALSE, finishEmitted |-> FALSE,
             rendered |-> FALSE, cited |-> {}, usage |-> NoUsage, error |-> FALSE, out |-> <<>>]

-----------------------------------------------------------------------------
(* Arguments that come in parts.                                           *)

Clashes(p, part) == \/ NoId \notin {p.id, part.id} /\ p.id # part.id
                    \/ NoId \notin {p.name, part.name} /\ p.name # part.name

Grown(p, part) ==
    [on   |-> TRUE, call |-> part.call, id |-> IF part.id = NoId THEN p.id ELSE part.id,
     name |-> IF part.name = NoId THEN p.name ELSE part.name,
     args |-> IF part.kind = "partial" THEN p.args \o part.args ELSE p.args]

More(part) == part.kind = "partial" /\ part.more

\* appendPartialFunctionCall, for a partial p grown by a part: the call is
\* ready when it does not continue.
Prepared(r, p, part) ==
    CASE More(part) -> [r EXCEPT !.partial = p]
      [] ~More(part) /\ p.name = NoId -> [r EXCEPT !.partial = p, !.error = TRUE]
      [] OTHER -> [r EXCEPT !.partial = NoPartial, !.parts = Append(@, Call(p.call, p.id, p.name, p.args))]

\* One part: only calls that are or go on being partial are held back.
PreparePart(r, part) ==
    CASE r.error -> r
      [] ~r.error /\ (part.kind \in {"text", "thought"} \/ (part.kind = "call" /\ ~r.partial.on)) ->
            [r EXCEPT !.parts = Append(@, part)]
      [] OTHER -> IF Clashes(r.partial, part) THEN [r EXCEPT !.error = TRUE]
                  ELSE Prepared(r, Grown(r.partial, part), part)

\* preparePartialFunctionCalls: [partial, parts, error].
Prepare(s, chunk) ==
    FoldLeft(PreparePart, [partial |-> s.partial, parts |-> <<>>, error |-> FALSE], chunk.parts)

-----------------------------------------------------------------------------
(* The Chat chunk.                                                         *)

\* A call's index: the one its id has, or the next.  A call without id gets
\* an id of its own.
Numbered(t, part) ==
    LET id == IF part.id = NoId THEN <<"made", t.next>> ELSE part.id
        index == IF id \in DOMAIN t.indexes THEN t.indexes[id] ELSE t.next
    IN  [t EXCEPT !.indexes = Put(@, id, index), !.next = IF id \in DOMAIN t.indexes THEN @ ELSE @ + 1,
                  !.calls = @ \o Fragments(index, id, part.name, part.args)]

Has(parts, kind) == \E k \in DOMAIN parts : parts[k].kind = kind

Fresh(s, chunk, text) == IF s.rendered \/ text THEN chunk.supports \ s.cited ELSE {}

\* The finish reason of a chunk: STOP is left to the terminal chunk, calls
\* hide any other reason.
FinishOf(parts, finish) ==
    CASE finish \in {"none", "stop"} -> "none"
      [] finish \notin {"none", "stop"} /\ Has(parts, "call") -> "calls"
      [] OTHER -> finish

\* StreamResponseGeminiChat2OpenAI with the stable indexes: a thought makes
\* all text of its chunk reasoning.
ChatChunk(s, t, parts, chunk) ==
    LET thought == Has(parts, "thought")
    IN  [choice |-> chunk.candidate, calls |-> t.calls, reasoning |-> thought,
         text |-> Has(parts, "text") /\ ~thought,
         cites |-> IF Fresh(s, chunk, Has(parts, "text") /\ ~thought) = {} THEN "none" ELSE "some",
         finish |-> FinishOf(parts, chunk.finish), usage |-> chunk.usage]

TerminalChunk(s) ==
    [EmptyChunk EXCEPT !.finish = IF s.saw THEN "calls" ELSE "stop", !.usage = s.usage]

Terminated(s) == [Emit(s, <<TerminalChunk(s)>>) EXCEPT !.finishEmitted = TRUE]

Sent(s, chunk, stops) ==
    LET t == [Emit(s, <<chunk>>) EXCEPT
                 !.saw = @ \/ chunk.calls # <<>>, !.usage = IF chunk.usage = NoUsage THEN @ ELSE chunk.usage,
                 !.finishEmitted = @ \/ chunk.finish # "none"]
    IN  IF stops /\ ~t.finishEmitted THEN Terminated(t) ELSE t

ConvertParts(s, parts, chunk) ==
    LET t == FoldLeft(LAMBDA u, part : IF part.kind = "call" THEN Numbered(u, part) ELSE u,
                      [indexes |-> s.indexes, next |-> s.next, calls |-> <<>>], parts)
        made == ChatChunk(s, t, parts, chunk)
    IN  Sent([s EXCEPT !.indexes = t.indexes, !.next = t.next, !.rendered = @ \/ made.text,
                       !.cited = @ \cup Fresh(s, chunk, made.text)],
             made, chunk.finish = "stop")

\* ConvertChunk
Convert(s, chunk) ==
    LET r == Prepare(s, chunk)
    IN  IF r.error THEN [s EXCEPT !.partial = r.partial, !.error = TRUE]
        ELSE ConvertParts([s EXCEPT !.partial = r.partial], r.parts, chunk)

\* Finalize: a call that is not complete is an error.
Finalize(s) ==
    CASE s.partial.on -> [s EXCEPT !.error = TRUE]
      [] ~s.partial.on /\ ~s.finishEmitted -> Terminated(s)
      [] OTHER -> s
=============================================================================
