--------------------------- MODULE ResponsesSource --------------------------
(***************************************************************************)
(* A Responses upstream: the events a converter reads, and which of them   *)
(* an upstream sends after those it has sent.  The converters meet events  *)
(* with an output index, an item id or both, arguments of a call before    *)
(* its item is announced, and answers that are only in the final response. *)
(*                                                                         *)
(* Values (text or arguments) are sequences of pieces: Prose, or the call  *)
(* a piece belongs to.  The final value of an item begins with its deltas. *)
(***************************************************************************)
EXTENDS StreamParts

CONSTANTS Prose     \* a piece of text or reasoning

\* Addresses of an item: its output index, its own id, the id of its call.
AtOutput(n) == <<"output", n>>
AtItem(k)   == <<"item", k>>
AtCall(c)   == <<"call", c>>

Item(kind, id, call, name, value, notes) ==
    [kind |-> kind, id |-> id, call |-> call, name |-> name, value |-> value, notes |-> notes]

Event(type, index, id) == [type |-> type, index |-> index, id |-> id]

ItemEvent(type, index, item)   == Event(type, index, item.id) @@ [item |-> item]
Delta(type, index, id, value)  == Event(type, index, id) @@ [value |-> value]
Ending(status, items, usage) ==
    Event("terminal", NoIndex, NoId) @@ [status |-> status, items |-> items, usage |-> usage]

-----------------------------------------------------------------------------
(* The history of an upstream: "new", "open" or "over", and its items with *)
(* a stage: "silent" (not announced yet), "open" or "done".                *)

NewSource == [phase |-> "new", items |-> <<>>]

DeltaType(kind) ==
    CASE kind = "message"       -> "text"
      [] kind = "reasoning"     -> "reasoning"
      [] kind = "function_call" -> "args"

\* Item k as an event shows it.
Shown(w, k, value, notes) ==
    LET item == w.items[k]
    IN  Item(item.kind, AtItem(k), item.call, item.call, value, notes)

Whole(w, k) == Shown(w, k, w.items[k].value, w.items[k].notes)

\* What item k is done with: all that was sent, or a call's arguments at once.
Completed(w, k) ==
    LET item == w.items[k]
    IN  IF item.value = <<>> /\ item.call # NoId THEN Shown(w, k, <<item.call>>, 0) ELSE Whole(w, k)

\* The items an upstream may open next; "kinds" names them, a call by itself.
Fresh(w, d) ==
    {[kind |-> IF x \in Calls THEN "function_call" ELSE x, call |-> IF x \in Calls THEN x ELSE NoId,
      value |-> <<>>, notes |-> 0, stage |-> "silent"] :
        x \in d.kinds \ {w.items[k].call : k \in DOMAIN w.items}}

\* Two items are open at a time at most.
Opens(w, d) ==
    IF Cardinality({k \in DOMAIN w.items : w.items[k].stage # "done"}) = 2
       \/ Len(w.items) = d.items THEN {}
    ELSE {Append(w.items, item) : item \in Fresh(w, d)}

Place(k, d) == IF d.indexed THEN k - 1 ELSE NoIndex

\* The events about item k.
About(w, k, d) ==
    LET item == w.items[k]
        one  == <<IF item.call = NoId THEN Prose ELSE item.call>>
    IN  (IF item.stage = "silent" THEN {ItemEvent("item_added", Place(k, d), Shown(w, k, <<>>, 0))} ELSE {})
        \cup (IF item.stage = "open" \/ (item.stage = "silent" /\ d.early /\ item.call # NoId)
              THEN IF Len(item.value) = 2 THEN {}
                   ELSE {Delta(DeltaType(item.kind), Place(k, d), AtItem(k), one)} ELSE {})
        \cup (IF item.stage = "open"
              THEN {ItemEvent("item_done", Place(k, d), Completed(w, k))}
                   \cup (IF item.value = <<>> THEN {} ELSE
                            {Delta("part_done", Place(k, d), AtItem(k), item.value)
                                @@ [kind |-> item.kind]})
                   \cup (IF item.kind = "message" /\ item.value # <<>> /\ item.notes = 0
                         THEN {Event("annotation", Place(k, d), AtItem(k))} ELSE {})
              ELSE {})

\* The ends: the whole response, the response without its output, or a
\* failure.  A call is announced before the response that holds it.
Endings(w, d) ==
    {Event("failed", NoIndex, NoId)}
    \cup (IF \E k \in DOMAIN w.items : w.items[k].stage = "silent" THEN {}
          ELSE {Ending("incomplete", [k \in DOMAIN w.items |-> Whole(w, k)], Tokens(2, 1))})
    \cup (IF \E k \in DOMAIN w.items : w.items[k].stage # "done" THEN {}
          ELSE {Ending("completed", items, Tokens(2, 3)) :
                   items \in {<<>>, [k \in DOMAIN w.items |-> Whole(w, k)]}
                             \cup (IF w.items = <<>> THEN d.terse ELSE {})})

Offers(w, d) ==
    CASE w.phase = "new"  -> {Event("created", NoIndex, NoId)}
      [] w.phase = "open" ->
            UNION {About(w, k, d) : k \in DOMAIN w.items}
            \cup UNION {About([w EXCEPT !.items = items], Len(items), d) : items \in Opens(w, d)}
            \cup Endings(w, d)
      [] w.phase = "over" -> {}

-----------------------------------------------------------------------------
(* What the history becomes with one more event.                           *)

\* Item k of the history, or the new one, as an event describes it.
Become(w, k, item) ==
    IF k \in DOMAIN w.items THEN [w EXCEPT !.items[k] = item] ELSE [w EXCEPT !.items = Append(@, item)]

Held(w, k) ==
    IF k \in DOMAIN w.items THEN w.items[k]
    ELSE [kind |-> "function_call", call |-> NoId, value |-> <<>>, notes |-> 0, stage |-> "silent"]

FromItem(item, stage) ==
    [kind |-> item.kind, call |-> item.call, value |-> item.value, notes |-> item.notes, stage |-> stage]

Follow(w, e) ==
    LET k   == IF e.id = NoId THEN 0 ELSE e.id[2]
        old == Held(w, k)
    IN  CASE e.type = "created"    -> [w EXCEPT !.phase = "open"]
          [] e.type = "item_added" -> Become(w, k, [FromItem(e.item, "open") EXCEPT !.value = old.value])
          [] e.type = "item_done"  -> Become(w, k, FromItem(e.item, "done"))
          [] e.type = "annotation" -> [w EXCEPT !.items[k].notes = @ + 1]
          [] e.type = "part_done"  -> w
          [] e.type \in {"text", "reasoning"} -> [w EXCEPT !.items[k].value = @ \o e.value]
          [] e.type = "args" ->
                Become(w, k, [old EXCEPT !.value = @ \o e.value, !.call = e.value[1]])
          [] e.type = "terminal" ->
                [w EXCEPT !.phase = "over",
                          !.items = IF @ # <<>> THEN @
                                    ELSE [i \in DOMAIN e.items |-> FromItem(e.items[i], "done")]]
          [] e.type = "failed" -> [w EXCEPT !.phase = "over"]
=============================================================================
