---------------------------- MODULE RequestParts ----------------------------
(***************************************************************************)
(* The vocabulary of requests and buffered answers, of all four protocols.  *)
(*                                                                          *)
(* A text is a sequence of words, so that joining texts is \o and the empty *)
(* string <<>>.  A word is <<what it is, the turn it is from, its number    *)
(* there>>; separators a join puts between texts are left out.  A part is a *)
(* block of a Claude message, a part of a Gemini content, an element of a   *)
(* content array, or a tool call; its value is a text, the name of an       *)
(* image, or the arguments or output of a call.                             *)
(*                                                                          *)
(* An entry is a Chat message, a Claude message, a Gemini content or an     *)
(* item of the Responses input.                                             *)
(***************************************************************************)
EXTENDS Naturals, SequencesExt

NoId == ""
NoName == ""

Word(who, turn, n) == <<who, turn, n>>

\* The "..." the converters put where a protocol wants a text and there is none.
Filler == <<Word("filler", 0, 0)>>

Part(k, v) == [k |-> k, v |-> v, id |-> NoId, name |-> NoName]
Text(v)     == Part("text", v)
Image(v)    == Part("image", v)
Thinking(v) == Part("thinking", v)
Call(id, name, v)   == [k |-> "call",   v |-> v, id |-> id, name |-> name]
Result(id, name, v) == [k |-> "result", v |-> v, id |-> id, name |-> name]

\* form: how content is written.  "null", "string" (one text part), "array" (as
\* parsed from a client's JSON) or "media" (as built by a converter).
Entry(type, role, form, content) ==
    [type |-> type, role |-> role, form |-> form, content |-> content,
     calls |-> <<>>, id |-> NoId, name |-> NoName, thought |-> <<>>]

Message(role, form, content) == Entry("message", role, form, content)
StringMessage(role, v)       == Message(role, "string", <<Text(v)>>)

\* The input of a request of any protocol; a Chat document has its system texts
\* among the messages.
Document(system, entries) == [system |-> system, entries |-> entries]

-----------------------------------------------------------------------------
OfKind(parts, kinds)  == SelectSeq(parts, LAMBDA p : p.k \in kinds)
Values(parts)         == [i \in DOMAIN parts |-> parts[i].v]
JoinedText(parts)     == FlattenSeq(Values(OfKind(parts, {"text"})))
NonEmpty(parts)       == SelectSeq(parts, LAMBDA p : p.k # "text" \/ p.v # <<>>)

\* Message.IsStringContent, StringContent, SetStringContent, ParseContent.  An
\* array built by a converter has no string content.
IsString(m)      == m.form = "string"
StringContent(m) == IF m.form \in {"string", "array"} THEN JoinedText(m.content) ELSE <<>>
SetString(m, v)  == [m EXCEPT !.form = "string", !.content = <<Text(v)>>]
Content(m)       == IF m.form = "null" THEN <<>> ELSE m.content

LastHasRole(entries, role) == entries # <<>> /\ Last(entries).role = role

\* Appends parts to the last entry.
Extend(entries, parts) ==
    [entries EXCEPT ![Len(entries)].content = @ \o parts, ![Len(entries)].form = "array"]

\* The id of a call that came without one: fresh numbers what was generated before.
Generated(n) == <<"call_1", "call_2", "call_3", "call_4", "call_5", "call_6">>[n]
=============================================================================
