-------------------------- MODULE ResponsesEvents --------------------------
(***************************************************************************)
(* The events of a Responses stream and a client that receives them: items *)
(* are added under consecutive output indexes, take deltas until their     *)
(* part is done, and are done once; the terminal event comes last, with    *)
(* the whole response.  text.done and arguments.done are one event here,   *)
(* PartDone.                                                               *)
(***************************************************************************)
EXTENDS StreamParts

Created                        == [type |-> "created"]
ItemAdded(i, kind)             == [type |-> "item_added", index |-> i, kind |-> kind]
Piece(i, kind, args)           == [type |-> "delta", index |-> i, kind |-> kind, args |-> args]
NoteAdded(i)                   == [type |-> "annotation", index |-> i]
PartDone(i)                    == [type |-> "part_done", index |-> i]
ItemDone(i, status)            == [type |-> "item_done", index |-> i, status |-> status]
Terminal(status, items, usage) ==
    [type |-> "terminal", status |-> status, items |-> items, usage |-> usage]

Stage(w, i) == IF i \in DOMAIN w.blocks THEN w.blocks[i].stage ELSE "unknown"

Accepts(w, e) ==
    CASE e.type = "created"    -> w.phase = "new"
      [] e.type = "item_added" -> w.phase = "open" /\ e.index = Cardinality(DOMAIN w.blocks)
      [] e.type = "delta"      ->
            w.phase = "open" /\ Stage(w, e.index) = "open" /\ w.blocks[e.index].kind = e.kind
      [] e.type = "annotation" ->
            w.phase = "open" /\ Stage(w, e.index) = "open" /\ w.blocks[e.index].kind = "message"
      [] e.type = "part_done"  -> w.phase = "open" /\ Stage(w, e.index) = "open"
      [] e.type = "item_done"  -> w.phase = "open" /\ Stage(w, e.index) = "part_done"
      [] e.type = "terminal"   ->
            w.phase = "open" /\ \A i \in DOMAIN w.blocks : w.blocks[i].stage = "done"

Receive(w, e) ==
    IF ~Accepts(w, e) THEN Broken(w)
    ELSE CASE e.type = "created" -> [w EXCEPT !.phase = "open"]
           [] e.type = "item_added" ->
                 [w EXCEPT !.blocks = Put(@, e.index, [kind |-> e.kind, stage |-> "open", of |-> {},
                                                   pieces |-> 0, notes |-> 0, status |-> "none"])]
           [] e.type = "delta" ->
                 Got([w EXCEPT !.blocks[e.index].of = @ \cup Range(e.args),
                               !.blocks[e.index].pieces = @ + 1], e.args)
           [] e.type = "annotation" -> [w EXCEPT !.blocks[e.index].notes = @ + 1]
           [] e.type = "part_done" -> [w EXCEPT !.blocks[e.index].stage = "part_done"]
           [] e.type = "item_done" ->
                 [w EXCEPT !.blocks[e.index].stage = "done", !.blocks[e.index].status = e.status]
           [] e.type = "terminal" ->
                 Told([w EXCEPT !.phase = "stopped", !.document = e.items,
                                !.reason = IF e.status = "incomplete" THEN "length" ELSE "stop"], e.usage)
=============================================================================
