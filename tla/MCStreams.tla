----------------------------- MODULE MCStreams -----------------------------
(***************************************************************************)
(* Chunks of three kinds of Chat Completions upstreams, the events of a    *)
(* Claude upstream with text, thinking, a hosted tool and two calls, three *)
(* dialects of Responses upstreams, and the chunks of a Gemini upstream.   *)
(***************************************************************************)
EXTENDS StreamPipeline

CONSTANTS
    c1, c2, i1, i2,         \* two tool calls and their ids
    web,                    \* a source an answer cites
    MaxChunks, MaxEvents, MaxItemEvents, MaxCandidates
                            \* bounds: Chat chunks, Claude events, Responses events, Gemini chunks per stream

MCCalls == {c1, c2}

Tools(pieces) == [EmptyChunk EXCEPT !.calls = pieces]

Text      == [EmptyChunk EXCEPT !.text = TRUE]
Thinking  == [EmptyChunk EXCEPT !.reasoning = TRUE]
Cited     == [EmptyChunk EXCEPT !.cites = "some"]
CitedBad  == [EmptyChunk EXCEPT !.text = TRUE, !.cites = "bad"]
Ends      == [EmptyChunk EXCEPT !.finish = "stop"]
CutShort  == [Text EXCEPT !.finish = "length"]
EndsUsage == [Ends EXCEPT !.usage = Tokens(1, 2)]
UsageOnly == [EmptyChunk EXCEPT !.choice = FALSE, !.usage = Tokens(1, 2)]
KeepAlive == [EmptyChunk EXCEPT !.choice = FALSE]

Common == {Text, Ends, UsageOnly}

\* Calls told apart by index; name, id and arguments come in any order.
ByIndex ==
    Common \cup {Thinking, Cited, KeepAlive, CutShort,
        Tools(<<Fragment(c1, 0, i1, c1, 0)>>),
        Tools(<<Fragment(c1, 0, NoId, NoId, 1)>>),
        Tools(<<Fragment(c1, 0, NoId, c1, 1)>>),
        Tools(<<Fragment(c1, 0, i1, c1, 1), Fragment(c2, 1, i2, NoId, 1)>>),
        Tools(<<Fragment(c2, 1, NoId, c2, 0)>>),
        Tools(<<Fragment(c2, 1, NoId, NoId, 1)>>)}

\* Calls told apart by id, without an index.
ById ==
    Common \cup {EndsUsage, CitedBad,
        Tools(<<Fragment(c1, NoIndex, i1, c1, 1)>>),
        Tools(<<Fragment(c1, NoIndex, i1, NoId, 1)>>),
        Tools(<<Fragment(c2, NoIndex, i2, c2, 0)>>),
        Tools(<<Fragment(c2, NoIndex, i2, NoId, 1)>>),
        Tools(<<Fragment(c1, NoIndex, i1, c1, 0), Fragment(c2, NoIndex, i2, c2, 1)>>)}

\* An upstream that reports its prompt tokens early and the rest at the end.
FirstUsage == [Text EXCEPT !.usage = Tokens(1, 0)]
Counting == {Text, FirstUsage, Ends, EndsUsage, UsageOnly, KeepAlive}

Indexes == 0 .. 2

Claude ==
    {MessageStart(Tokens(2, 1)), MessageStop}
    \cup {BlockStart(i, kind, NoId) : i \in Indexes, kind \in {"text", "thinking", "server_tool_use"}}
    \cup {BlockStart(i, "tool_use", c) : i \in Indexes, c \in Calls}
    \cup {Delta(i, kind, <<>>) : i \in Indexes,
              kind \in {"text_delta", "citations_delta", "thinking_delta", "input_json_delta"}}
    \cup {Delta(i, "input_json_delta", <<c>>) : i \in Indexes, c \in Calls}
    \cup {BlockStop(i) : i \in Indexes}
    \cup {MessageDelta(Tokens(p, 3), reason) : p \in {0, 2}, reason \in {"stop", "length"}}

\* Responses upstreams: "items" bounds the items of an answer; "terse" are
\* answers that are only in the final response.
Terse ==
    {<<Source!Item("message", Source!AtItem(1), NoId, NoId, <<Prose>>, 1)>>,
     <<Source!Item("reasoning", Source!AtItem(1), NoId, NoId, <<Prose>>, 0),
       Source!Item("function_call", Source!AtItem(2), c1, c1, <<c1, c1>>, 0)>>}

Dialect(indexed, early, kinds, items, terse) ==
    [indexed |-> indexed, early |-> early, kinds |-> kinds, items |-> items, terse |-> terse]

Indexed == Dialect(TRUE, FALSE, {"message", "reasoning", c1}, 2, Terse)
Parallel == Dialect(TRUE, TRUE, {c1, c2}, 2, {})
Unindexed == Dialect(FALSE, TRUE, {"message", c1, c2}, 2, Terse)

\* A Gemini upstream, with complete calls and calls in parts.
G(parts) == Gemini!Candidate(parts, "none", NoUsage)
GeminiChunks ==
    {G(<<Gemini!Text>>), G(<<Gemini!Thought>>),
     [G(<<Gemini!Text>>) EXCEPT !.supports = {web}],
     [G(<<>>) EXCEPT !.supports = {web}, !.usage = Tokens(2, 1)],
     G(<<Gemini!Call(c1, NoId, c1, <<c1>>), Gemini!Call(c2, i2, c2, <<c2>>)>>),
     G(<<Gemini!Call(c1, i1, c1, <<c1>>)>>),
     G(<<Gemini!Call(c2, NoId, c2, <<c2>>)>>),
     G(<<Gemini!Partial(c1, i1, c1, <<c1>>, TRUE)>>),
     G(<<Gemini!Partial(c1, NoId, NoId, <<c1>>, TRUE)>>),
     G(<<Gemini!Partial(c1, NoId, NoId, <<>>, FALSE)>>),
     G(<<Gemini!Partial(c2, i2, c2, <<c2>>, TRUE)>>),
     G(<<Gemini!Partial(c2, NoId, NoId, <<c2>>, FALSE)>>),
     Gemini!Candidate(<<>>, "stop", Tokens(2, 3)),
     [Gemini!Candidate(<<>>, "stop", NoUsage) EXCEPT !.supports = {web}],
     Gemini!Candidate(<<Gemini!Text>>, "length", Tokens(2, 3)),
     Gemini!UsageChunk(Tokens(2, 3))}

Chat(sends)    == [protocol |-> "chat", sends |-> sends]
Talks(dialect) == [protocol |-> "responses", dialect |-> dialect]

MCUpstreams ==
    [byIndex |-> Chat(ByIndex), byId |-> Chat(ById), counting |-> Chat(Counting),
     claude |-> [protocol |-> "claude", sends |-> Claude],
     indexed |-> Talks(Indexed), parallel |-> Talks(Parallel), unindexed |-> Talks(Unindexed),
     gemini |-> [protocol |-> "gemini", sends |-> GeminiChunks]]

MCMaxValues ==
    [u \in DOMAIN MCUpstreams |->
        CASE MCUpstreams[u].protocol = "chat"      -> MaxChunks
          [] MCUpstreams[u].protocol = "claude"    -> MaxEvents
          [] MCUpstreams[u].protocol = "responses" -> MaxItemEvents
          [] MCUpstreams[u].protocol = "gemini"    -> MaxCandidates]
=============================================================================
