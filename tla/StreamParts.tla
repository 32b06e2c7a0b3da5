---------------------------- MODULE StreamParts ----------------------------
(***************************************************************************)
(* What every stream converter of relayconvert shares: chunks of a Chat    *)
(* Completions stream, through which all routes pass, token usage and its  *)
(* merge (dto/usage_merge.go), and the record a client keeps of the events *)
(* it has received, whatever its protocol.                                 *)
(*                                                                         *)
(* A chunk is a record of what the converters tell apart:                  *)
(*   choice     it has a choice at all                                     *)
(*   calls      tool call fragments [call, index, id, name, args]          *)
(*   reasoning, text   it carries such content                             *)
(*   cites      annotations: "none", "some", or "bad" when they do not     *)
(*              decode                                                     *)
(*   finish     the finish reason: "none", "stop" or "length"              *)
(*   usage      NoUsage or [prompt, completion]                            *)
(* A fragment's "call" is the call it really belongs to, which a converter *)
(* has to infer from index and id; args counts pieces of arguments.        *)
(***************************************************************************)
EXTENDS Integers, Sequences, FiniteSets, FiniteSetsExt, Functions, TLC

CONSTANTS
    Calls,                              \* the tool calls of one answer
    NoUsage, NoIndex, NoId, Generated   \* model values: absent fields, a made-up id

\* The fold of a sequence from its first element on: FoldLeft of SequencesExt,
\* which would bring all that is known of bags into every proof about streams.
FoldLeft(op(_, _), base, seq) ==
    MapThenFoldSet(LAMBDA v, t : op(t, v), base, LAMBDA i : seq[i], Max, DOMAIN seq)

Tokens(p, c) == [prompt |-> p, completion |-> c]

EmptyChunk == [choice |-> TRUE, calls |-> <<>>, reasoning |-> FALSE, text |-> FALSE,
               cites |-> "none", finish |-> "none", usage |-> NoUsage]

Fragment(call, index, id, name, args) ==
    [call |-> call, index |-> index, id |-> id, name |-> name, args |-> args]

\* The fragments that bring these pieces of arguments, each from its own call.
Fragments(index, id, name, args) ==
    IF args = <<>> THEN <<Fragment(id, index, id, name, 0)>>
    ELSE [n \in DOMAIN args |-> Fragment(args[n], index, id, IF n = 1 THEN name ELSE NoId, 1)]

HasContent(chunk) ==
    chunk.choice /\ (chunk.calls # <<>> \/ chunk.reasoning \/ chunk.text \/ chunk.cites # "none")

-----------------------------------------------------------------------------
(* Usage.                                                                  *)

\* MergeUsageNonZero: a later non-zero field overrides.
MergeUsageNonZero(old, new) ==
    IF new = NoUsage THEN old
    ELSE IF old = NoUsage THEN new
    ELSE [f \in DOMAIN new |-> IF new[f] > 0 THEN new[f] ELSE old[f]]

HasTokens(u) == u # NoUsage /\ (u.prompt # 0 \/ u.completion # 0)

-----------------------------------------------------------------------------
(* A converter's state keeps the events of the current call in "out".      *)

Emit(s, events) == [s EXCEPT !.out = @ \o events]

\* A sequence, of whatever elements.
IsSeq(seq) == seq \in Seq(Range(seq))

Positions(seq) == [k \in 1 .. Len(seq) |-> k]

\* A map with one more entry, or another value for a key it has.
Put(f, x, y) == [z \in DOMAIN f \cup {x} |-> IF z = x THEN y ELSE f[z]]

-----------------------------------------------------------------------------
(* A client: "new", "open", "ended" (told how the answer ends), "stopped"  *)
(* or "broken" by an event its protocol does not allow; the blocks it      *)
(* holds; the pieces of arguments it got of each call; the last usage and  *)
(* the reason it was told; the final document, if it gets one.             *)

NewClient == [phase |-> "new", blocks |-> <<>>, got |-> [c \in Calls |-> 0],
              usage |-> NoUsage, reason |-> "none", document |-> <<>>]

Broken(w) == [w EXCEPT !.phase = "broken"]

\* w with these pieces of arguments.
Got(w, args) ==
    [w EXCEPT !.got = [c \in Calls |-> @[c] + Len(SelectSeq(args, LAMBDA a : a = c))]]

Told(w, usage) == [w EXCEPT !.usage = IF usage = NoUsage THEN @ ELSE usage]
=============================================================================
