---------------------------- MODULE GeminiEvents ----------------------------
(***************************************************************************)
(* The chunks of a Gemini stream, as an upstream sends them and as a       *)
(* client receives them.  A chunk has parts of one candidate (or none), a  *)
(* finish reason, and usage metadata; function calls are atomic parts,     *)
(* unless the upstream streams their arguments:                            *)
(*   text, thought                                                         *)
(*   call      [call, id, name, args]: a complete call                     *)
(*   partial   [call, id, name, args, more]: some of its arguments         *)
(* "supports" are the sources its grounding metadata cites for the text.   *)
(***************************************************************************)
EXTENDS StreamParts

Text    == [kind |-> "text"]
Thought == [kind |-> "thought"]

Call(c, id, name, args)          == [kind |-> "call", call |-> c, id |-> id, name |-> name, args |-> args]
Partial(c, id, name, args, more) ==
    [kind |-> "partial", call |-> c, id |-> id, name |-> name, args |-> args, more |-> more]

Candidate(parts, finish, usage) ==
    [candidate |-> TRUE, parts |-> parts, finish |-> finish, usage |-> usage, supports |-> {}]

UsageChunk(usage) == [Candidate(<<>>, "none", usage) EXCEPT !.candidate = FALSE]

-----------------------------------------------------------------------------
(* The client.  A call comes once, with its name and all its arguments;    *)
(* nothing but usage follows the finish reason.                            *)

CallsOf(chunk) == SelectSeq(chunk.parts, LAMBDA part : part.kind = "call")

Accepts(w, chunk) ==
    /\ w.phase = "ended" => chunk.parts = <<>> /\ chunk.finish = "none"
    /\ \A k \in DOMAIN chunk.parts : chunk.parts[k].kind \in {"text", "call"}
    /\ \A k \in DOMAIN CallsOf(chunk) : CallsOf(chunk)[k].name # NoId

Take(w, part) ==
    Got([w EXCEPT !.blocks = Put(@, Cardinality(DOMAIN @), [of |-> Range(part.args)])], part.args)

Receive(w, chunk) ==
    IF ~Accepts(w, chunk) THEN Broken(w)
    ELSE LET taken == FoldLeft(Take, [w EXCEPT !.phase = IF @ = "new" THEN "open" ELSE @], CallsOf(chunk))
         IN  Told(IF chunk.finish = "none" THEN taken
                  ELSE [taken EXCEPT !.phase = "ended", !.reason = chunk.finish], chunk.usage)

\* What an upstream sends: no call twice, partial arguments of one call at a
\* time and under its name, nothing but usage after the finish reason.
UpstreamSends(w, chunk) ==
    /\ w.phase = "ended" <=> chunk = UsageChunk(chunk.usage)
    /\ \A k \in DOMAIN chunk.parts :
          LET part == chunk.parts[k] IN
          CASE part.kind = "call"    -> part.call \notin w.document /\ w.blocks = {}
            [] part.kind = "partial" ->
                  /\ part.call \notin w.document
                  /\ IF w.blocks = {} THEN part.name # NoId ELSE w.blocks = {part.call}
            [] OTHER                 -> TRUE
    /\ chunk.finish # "none" => w.blocks = {}

\* The history of an upstream: "document" are the calls it has completed,
\* "blocks" the one it is streaming; "cited" the sources cited for its text.
NewSource == [NewClient EXCEPT !.document = {}, !.blocks = {}] @@ [cited |-> {}, text |-> FALSE]

Follow(w, chunk) ==
    LET part == IF chunk.parts = <<>> THEN Text ELSE chunk.parts[Len(chunk.parts)]
        calls == {chunk.parts[k].call : k \in {i \in DOMAIN chunk.parts : chunk.parts[i].kind = "call"}}
        text  == w.text \/ \E k \in DOMAIN chunk.parts : chunk.parts[k].kind = "text"
    IN  [w EXCEPT !.phase = IF chunk.finish = "none" THEN @ ELSE "ended",
                  !.text = text, !.cited = IF text THEN @ \cup chunk.supports ELSE @,
                  !.blocks = CASE part.kind # "partial" -> @
                               [] part.kind = "partial" /\ ~part.more -> {}
                               [] OTHER -> {part.call},
                  !.document = @ \cup calls
                                 \cup (IF part.kind = "partial" /\ ~part.more THEN {part.call} ELSE {})]
=============================================================================
