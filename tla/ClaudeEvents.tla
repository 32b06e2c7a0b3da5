---------------------------- MODULE ClaudeEvents ---------------------------
(***************************************************************************)
(* The events of a Claude Messages stream and the order they come in.  The *)
(* order is the one the converters document, "content_block_start ->       *)
(* content_block_delta* -> content_block_stop (per index)", between        *)
(* message_start and message_delta, message_stop.  It serves twice: as the *)
(* client that receives what a converter makes, and as the upstream a      *)
(* converter reads.                                                        *)
(***************************************************************************)
EXTENDS StreamParts

MessageStart(usage)         == [type |-> "message_start", usage |-> usage]
BlockStart(i, kind, id)     == [type |-> "content_block_start", index |-> i, kind |-> kind, id |-> id]
Delta(i, kind, args)        == [type |-> "content_block_delta", index |-> i, kind |-> kind, args |-> args]
BlockStop(i)                == [type |-> "content_block_stop", index |-> i]
MessageDelta(usage, reason) == [type |-> "message_delta", usage |-> usage, reason |-> reason]
MessageStop                 == [type |-> "message_stop"]

\* The deltas each kind of block takes.
DeltasOf(kind) ==
    CASE kind = "text"     -> {"text_delta", "citations_delta"}
      [] kind = "thinking" -> {"thinking_delta", "signature_delta"}
      [] OTHER             -> {"input_json_delta"}

IsOpen(w, i) == i \in DOMAIN w.blocks /\ w.blocks[i].open

Accepts(w, e) ==
    CASE e.type = "message_start"       -> w.phase = "new"
      [] e.type = "content_block_start" -> w.phase = "open" /\ e.index \notin DOMAIN w.blocks
      [] e.type = "content_block_delta" ->
            w.phase = "open" /\ IsOpen(w, e.index) /\ e.kind \in DeltasOf(w.blocks[e.index].kind)
      [] e.type = "content_block_stop"  -> w.phase = "open" /\ IsOpen(w, e.index)
      [] e.type = "message_delta"       ->
            w.phase = "open" /\ \A i \in DOMAIN w.blocks : ~w.blocks[i].open
      [] e.type = "message_stop"        -> w.phase = "ended"

Receive(w, e) ==
    IF ~Accepts(w, e) THEN Broken(w)
    ELSE CASE e.type = "message_start" -> [w EXCEPT !.phase = "open"]
           [] e.type = "content_block_start" ->
                 [w EXCEPT !.blocks = Put(@, e.index, [kind |-> e.kind, id |-> e.id, open |-> TRUE, of |-> {}])]
           [] e.type = "content_block_delta" ->
                 Got([w EXCEPT !.blocks[e.index].of = @ \cup Range(e.args)], e.args)
           [] e.type = "content_block_stop" -> [w EXCEPT !.blocks[e.index].open = FALSE]
           [] e.type = "message_delta" ->
                 Told([w EXCEPT !.phase = "ended", !.reason = e.reason], e.usage)
           [] e.type = "message_stop" -> [w EXCEPT !.phase = "stopped"]

(* As an upstream, Anthropic opens one block after the other, numbered     *)
(* without gaps, and a tool call has one block.                            *)
UpstreamSends(w, e, seen) ==
    /\ Accepts(w, e)
    /\ e.type = "content_block_start" =>
          /\ e.index = Cardinality(DOMAIN w.blocks)
          /\ \A i \in DOMAIN w.blocks : ~w.blocks[i].open
          /\ e.id \notin seen
    /\ e.type = "content_block_delta" =>
          Range(e.args) = IF w.blocks[e.index].kind = "tool_use" THEN {w.blocks[e.index].id} ELSE {}
=============================================================================
