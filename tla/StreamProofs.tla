---------------------------- MODULE StreamProofs ----------------------------
(***************************************************************************)
(* Proofs about converted streams, for any upstream, any number of calls   *)
(* and any length of the stream: what a Claude client gets from the        *)
(* converter of Chat Completions chunks, which a Chat upstream feeds       *)
(* itself and a Gemini upstream through the converter before it.           *)
(***************************************************************************)
EXTENDS StreamPipeline, TLAPS

\* The folds of the model: one instance of Counting for each, here and below.
Reading   == INSTANCE Counting WITH FoldStep <- LAMBDA p, w, e : Receive(w, e)

-----------------------------------------------------------------------------
(* Sequences.                                                              *)

LEMMA SeqIs ==
    ASSUME NEW S, NEW s \in Seq(S)
    PROVE  IsSeq(s)
BY DEF IsSeq, Range

LEMMA SeqFacts ==
    ASSUME NEW s, IsSeq(s)
    PROVE  /\ Len(s) \in Nat /\ DOMAIN s = 1 .. Len(s)
           /\ s \in Seq(Range(s))
BY DEF IsSeq

LEMMA SeqNone == IsSeq(<< >>) /\ Len(<< >>) = 0
<1>1. << >> \in Seq({})
  OBVIOUS
<1> QED
  BY <1>1, SeqIs, Zenon

LEMMA SeqOne ==
    ASSUME NEW e
    PROVE  IsSeq(<<e>>) /\ Len(<<e>>) = 1 /\ <<e>>[1] = e
<1>1. <<e>> \in Seq({e})
  OBVIOUS
<1> QED
  BY <1>1, SeqIs, Zenon

LEMMA SeqTwo ==
    ASSUME NEW s, IsSeq(s), NEW t, IsSeq(t)
    PROVE  /\ s \in Seq(Range(s) \cup Range(t)) /\ t \in Seq(Range(s) \cup Range(t))
           /\ IsSeq(s \o t) /\ Len(s \o t) = Len(s) + Len(t)
<1>1. /\ s \in Seq(Range(s) \cup Range(t))
      /\ t \in Seq(Range(s) \cup Range(t))
  BY DEF IsSeq
<1>2. s \o t \in Seq(Range(s) \cup Range(t)) /\ Len(s \o t) = Len(s) + Len(t)
  BY <1>1
<1> QED
  BY <1>1, <1>2, SeqIs, Zenon

LEMMA SeqAppend ==
    ASSUME NEW s, IsSeq(s), NEW e
    PROVE  /\ IsSeq(Append(s, e)) /\ Len(Append(s, e)) = Len(s) + 1
           /\ \A k \in 1 .. Len(s) : Append(s, e)[k] = s[k]
           /\ Append(s, e)[Len(s) + 1] = e
<1>1. s \in Seq(Range(s) \cup {e}) /\ e \in Range(s) \cup {e}
  BY DEF IsSeq
<1>2. /\ Append(s, e) \in Seq(Range(s) \cup {e}) /\ Len(Append(s, e)) = Len(s) + 1
      /\ \A k \in 1 .. Len(s) : Append(s, e)[k] = s[k]
      /\ Append(s, e)[Len(s) + 1] = e
  BY <1>1
<1> QED
  BY <1>2, SeqIs, Zenon

LEMMA SeqUpdate ==
    ASSUME NEW s, IsSeq(s), NEW k \in 1 .. Len(s), NEW e
    PROVE  /\ IsSeq([s EXCEPT ![k] = e]) /\ Len([s EXCEPT ![k] = e]) = Len(s)
           /\ [s EXCEPT ![k] = e][k] = e
           /\ \A j \in 1 .. Len(s) : j # k => [s EXCEPT ![k] = e][j] = s[j]
<1> DEFINE S == Range(s) \cup {e}
<1>1. s \in Seq(S) /\ e \in S /\ Len(s) \in Nat
  BY DEF IsSeq
<1> HIDE DEF S
<1>2. /\ [s EXCEPT ![k] = e] \in Seq(S)
      /\ Len([s EXCEPT ![k] = e]) = Len(s)
      /\ [s EXCEPT ![k] = e][k] = e
      /\ \A j \in 1 .. Len(s) : j # k => [s EXCEPT ![k] = e][j] = s[j]
  BY <1>1
<1> QED
  BY <1>2, SeqIs, Zenon

LEMMA SeqPositions ==
    ASSUME NEW s, Len(s) \in Nat
    PROVE  /\ Positions(s) \in Seq(Nat) /\ Len(Positions(s)) = Len(s)
           /\ \A k \in 1 .. Len(s) : Positions(s)[k] = k
BY DEF Positions

-----------------------------------------------------------------------------
(* What a Claude client makes of several events.                           *)

After(w, es) == FoldLeft(Receive, w, es)

LEMMA AfterFolds ==
    ASSUME NEW w, NEW es
    PROVE  After(w, es) = Reading!Folded(0, w, es)
BY DEF After, FoldLeft, MapThenFoldSet, Max, Reading!Folded, Reading!F!MapThenFoldSet,
       Reading!Highest

LEMMA AfterNone ==
    ASSUME NEW w
    PROVE  After(w, << >>) = w
BY AfterFolds, Reading!FoldedNone

LEMMA AfterOne ==
    ASSUME NEW w, NEW e
    PROVE  After(w, <<e>>) = Receive(w, e)
BY AfterFolds, Reading!FoldedOne

LEMMA AfterMore ==
    ASSUME NEW w, NEW es, IsSeq(es), NEW fs, IsSeq(fs)
    PROVE  After(w, es \o fs) = After(After(w, es), fs)
<1> DEFINE S == Range(es) \cup Range(fs)
<1>1. es \in Seq(S) /\ fs \in Seq(S)
  BY SeqTwo
<1> HIDE DEF S
<1>2. Reading!Folded(0, w, es \o fs) = Reading!Folded(0, Reading!Folded(0, w, es), fs)
  BY <1>1, Reading!FoldedConcat
<1> QED
  BY <1>2, AfterFolds

-----------------------------------------------------------------------------
(* One event at an open message.                                           *)

IsClient(w) ==
    /\ DOMAIN w = {"phase", "blocks", "got", "usage", "reason", "document"}
    /\ \A i \in DOMAIN w.blocks :
          DOMAIN w.blocks[i] = {"kind", "id", "open", "of"} /\ w.blocks[i].open \in BOOLEAN

\* v has the blocks of w, in the state they are in, but for block i.
SameBlocks(v, w, i) ==
    \A j \in DOMAIN w.blocks \ {i} :
        v.blocks[j].open = w.blocks[j].open /\ v.blocks[j].kind = w.blocks[j].kind

LEMMA ReadStart ==
    ASSUME NEW w, IsClient(w), w.phase = "open", NEW i, i \notin DOMAIN w.blocks, NEW kind, NEW id
    PROVE  LET v == Receive(w, BlockStart(i, kind, id)) IN
           /\ IsClient(v) /\ v.phase = "open"
           /\ DOMAIN v.blocks = DOMAIN w.blocks \cup {i}
           /\ v.blocks[i].open /\ v.blocks[i].kind = kind
           /\ SameBlocks(v, w, i)
<1> DEFINE e == BlockStart(i, kind, id)
           b == [kind |-> kind, id |-> id, open |-> TRUE, of |-> {}]
<1>1. e.type = "content_block_start" /\ e.index = i /\ e.kind = kind /\ e.id = id
  BY DEF BlockStart
<1> HIDE DEF e
<1>2. Accepts(w, e)
  BY <1>1 DEF Accepts
<1>3. Receive(w, e) = [w EXCEPT !.blocks = Put(@, i, b)]
  BY <1>1, <1>2 DEF Receive
<1> DEFINE B == Put(w.blocks, i, b)
           v == [w EXCEPT !.blocks = B]
<1>4. DOMAIN B = DOMAIN w.blocks \cup {i} /\ B[i] = b /\ \A j \in DOMAIN w.blocks : B[j] = w.blocks[j]
  BY DEF Put
<1> HIDE DEF B
<1>5. DOMAIN v = DOMAIN w /\ v.blocks = B /\ v.phase = w.phase
  BY DEF IsClient
<1> HIDE DEF v
<1>6. DOMAIN b = {"kind", "id", "open", "of"} /\ b.open = TRUE /\ b.kind = kind
  OBVIOUS
<1> HIDE DEF b
<1>7. IsClient(v)
  BY <1>4, <1>5, <1>6, Zenon DEF IsClient
<1>8. v.blocks[i].open /\ v.blocks[i].kind = kind /\ SameBlocks(v, w, i)
  BY <1>4, <1>5, <1>6 DEF SameBlocks
<1>9. Receive(w, e) = v
  BY <1>3 DEF v, B
<1> QED
  BY <1>4, <1>5, <1>7, <1>8, <1>9 DEF e

LEMMA ReadDelta ==
    ASSUME NEW w, IsClient(w), w.phase = "open", NEW i \in DOMAIN w.blocks, w.blocks[i].open,
           NEW kind \in DeltasOf(w.blocks[i].kind), NEW args
    PROVE  LET v == Receive(w, Delta(i, kind, args)) IN
           /\ IsClient(v) /\ v.phase = "open"
           /\ DOMAIN v.blocks = DOMAIN w.blocks
           /\ v.blocks[i].open /\ v.blocks[i].kind = w.blocks[i].kind
           /\ SameBlocks(v, w, i)
<1> DEFINE e == Delta(i, kind, args)
<1>1. e.type = "content_block_delta" /\ e.index = i /\ e.kind = kind /\ e.args = args
  BY DEF Delta
<1> HIDE DEF e
<1>2. Accepts(w, e)
  BY <1>1 DEF Accepts, IsOpen
<1> DEFINE u == [w EXCEPT !.blocks[i].of = @ \cup Range(args)]
<1>3. Receive(w, e) = Got(u, args)
  BY <1>1, <1>2 DEF Receive
<1>4. /\ DOMAIN u = DOMAIN w /\ u.phase = w.phase
      /\ DOMAIN u.blocks = DOMAIN w.blocks
      /\ \A j \in DOMAIN w.blocks : j # i => u.blocks[j] = w.blocks[j]
      /\ DOMAIN u.blocks[i] = DOMAIN w.blocks[i]
      /\ u.blocks[i].open = w.blocks[i].open /\ u.blocks[i].kind = w.blocks[i].kind
  BY Zenon DEF IsClient
<1> HIDE DEF u
<1> DEFINE v == Got(u, args)
<1>5. DOMAIN v = DOMAIN u /\ v.phase = u.phase /\ v.blocks = u.blocks
  BY <1>4 DEF Got, IsClient
<1> HIDE DEF v
<1>6. IsClient(v) /\ SameBlocks(v, w, i)
  <2>1. ASSUME NEW j \in DOMAIN w.blocks
        PROVE  DOMAIN v.blocks[j] = {"kind", "id", "open", "of"} /\ v.blocks[j].open \in BOOLEAN
    <3>1. DOMAIN w.blocks[j] = {"kind", "id", "open", "of"} /\ w.blocks[j].open \in BOOLEAN
      BY DEF IsClient
    <3>2. CASE j = i
      BY <1>4, <1>5, <3>1, <3>2, Zenon
    <3>3. CASE j # i
      BY <1>4, <1>5, <3>1, <3>3
    <3> QED
      BY <3>2, <3>3
  <2>2. DOMAIN v = {"phase", "blocks", "got", "usage", "reason", "document"}
    BY <1>4, <1>5 DEF IsClient
  <2>3. IsClient(v)
    BY <1>4, <1>5, <2>1, <2>2 DEF IsClient
  <2>4. SameBlocks(v, w, i)
    BY <1>4, <1>5 DEF SameBlocks
  <2> QED
    BY <2>3, <2>4
<1>7. Receive(w, e) = v
  BY <1>3 DEF v
<1> QED
  BY <1>4, <1>5, <1>6, <1>7, Zenon DEF e

LEMMA ReadStop ==
    ASSUME NEW w, IsClient(w), w.phase = "open", NEW i \in DOMAIN w.blocks, w.blocks[i].open
    PROVE  LET v == Receive(w, BlockStop(i)) IN
           /\ IsClient(v) /\ v.phase = "open"
           /\ DOMAIN v.blocks = DOMAIN w.blocks
           /\ ~v.blocks[i].open
           /\ SameBlocks(v, w, i)
<1> DEFINE e == BlockStop(i)
<1>1. e.type = "content_block_stop" /\ e.index = i
  BY DEF BlockStop
<1> HIDE DEF e
<1>2. Accepts(w, e)
  BY <1>1 DEF Accepts, IsOpen
<1> DEFINE v == [w EXCEPT !.blocks[i].open = FALSE]
<1>3. Receive(w, e) = v
  BY <1>1, <1>2 DEF Receive
<1>4. /\ DOMAIN v = DOMAIN w /\ v.phase = w.phase
      /\ DOMAIN v.blocks = DOMAIN w.blocks
      /\ \A j \in DOMAIN w.blocks : j # i => v.blocks[j] = w.blocks[j]
      /\ DOMAIN v.blocks[i] = DOMAIN w.blocks[i]
      /\ v.blocks[i].open = FALSE
  BY DEF IsClient
<1> HIDE DEF v
<1>5. IsClient(v) /\ SameBlocks(v, w, i)
  <2>1. ASSUME NEW j \in DOMAIN w.blocks
        PROVE  DOMAIN v.blocks[j] = {"kind", "id", "open", "of"} /\ v.blocks[j].open \in BOOLEAN
    <3>1. DOMAIN w.blocks[j] = {"kind", "id", "open", "of"} /\ w.blocks[j].open \in BOOLEAN
      BY DEF IsClient
    <3>2. CASE j = i
      BY <1>4, <3>1, <3>2, Zenon
    <3>3. CASE j # i
      BY <1>4, <3>1, <3>3
    <3> QED
      BY <3>2, <3>3
  <2>2. DOMAIN v = {"phase", "blocks", "got", "usage", "reason", "document"}
    BY <1>4 DEF IsClient
  <2>3. IsClient(v)
    BY <1>4, <2>1, <2>2 DEF IsClient
  <2>4. SameBlocks(v, w, i)
    BY <1>4 DEF SameBlocks
  <2> QED
    BY <2>3, <2>4
<1> QED
  BY <1>3, <1>4, <1>5 DEF e

LEMMA ReadMessageStart ==
    ASSUME NEW w, IsClient(w), w.phase = "new", NEW usage
    PROVE  LET v == Receive(w, MessageStart(usage)) IN
           IsClient(v) /\ v.phase = "open" /\ v.blocks = w.blocks
<1> DEFINE e == MessageStart(usage)
<1>1. e.type = "message_start"
  BY DEF MessageStart
<1> HIDE DEF e
<1>2. Accepts(w, e)
  BY <1>1 DEF Accepts
<1>3. Receive(w, e) = [w EXCEPT !.phase = "open"]
  BY <1>1, <1>2 DEF Receive
<1> QED
  BY <1>3 DEF e, IsClient

\* A message whose blocks are closed can be ended.
LEMMA ReadEnd ==
    ASSUME NEW w, IsClient(w), w.phase = "open", \A i \in DOMAIN w.blocks : ~w.blocks[i].open,
           NEW usage, NEW reason
    PROVE  LET v == Receive(Receive(w, MessageDelta(usage, reason)), MessageStop) IN
           IsClient(v) /\ v.phase = "stopped" /\ v.reason = reason
<1> DEFINE e == MessageDelta(usage, reason)
           u == [w EXCEPT !.phase = "ended", !.reason = e.reason]
           v == Told(u, e.usage)
           x == [v EXCEPT !.phase = "stopped"]
<1>1. e.type = "message_delta" /\ MessageStop.type = "message_stop" /\ e.reason = reason
  BY DEF MessageDelta, MessageStop
<1> HIDE DEF e
<1>2. Accepts(w, e)
  BY <1>1 DEF Accepts
<1>3. Receive(w, e) = v
  BY <1>1, <1>2 DEF Receive
<1>4. DOMAIN u = DOMAIN w /\ u.phase = "ended" /\ u.blocks = w.blocks /\ u.reason = reason
  BY <1>1 DEF IsClient
<1> HIDE DEF u
<1>5. DOMAIN v = DOMAIN w /\ v.phase = "ended" /\ v.blocks = w.blocks /\ v.reason = reason
  BY <1>4 DEF Told, IsClient
<1> HIDE DEF v
<1>6. Accepts(v, MessageStop)
  BY <1>1, <1>5 DEF Accepts
<1>7. Receive(v, MessageStop) = x
  BY <1>1, <1>6 DEF Receive
<1>8. IsClient(x) /\ x.phase = "stopped" /\ x.reason = reason
  BY <1>5 DEF IsClient
<1> QED
  BY <1>3, <1>7, <1>8 DEF e

-----------------------------------------------------------------------------
(* The converter's state and the client it writes to.                      *)

IsTools(t) ==
    /\ DOMAIN t = {"calls", "base", "byIndex", "byID"}
    /\ t.base \in Nat
    /\ IsSeq(t.calls)
    /\ \A k \in 1 .. Len(t.calls) :
          /\ DOMAIN t.calls[k] = {"block", "id", "named", "pending", "started"}
          /\ t.calls[k].block = t.base + k - 1 /\ t.calls[k].started \in BOOLEAN
    /\ \A x \in DOMAIN t.byIndex : t.byIndex[x] \in 1 .. Len(t.calls)
    /\ \A x \in DOMAIN t.byID : t.byID[x] \in 1 .. Len(t.calls)

IsState(s) ==
    /\ DOMAIN s = {"last", "index", "usage", "reason", "done", "sent", "tools", "error", "out"}
    /\ s.last \in {"none", "text", "thinking", "tools"}
    /\ s.last # "tools" => s.index \in Nat
    /\ IsTools(s.tools)
    /\ IsSeq(s.out)

\* The blocks a converter has open, and what kind they are.
Opened(s, i) ==
    \/ s.last \in {"text", "thinking"} /\ i = s.index
    \/ s.last = "tools" /\ \E k \in 1 .. Len(s.tools.calls) :
                              s.tools.calls[k].started /\ i = s.tools.calls[k].block

Kind(s) == IF s.last = "tools" THEN "tool_use" ELSE s.last

\* The next block that no event has named yet.
Free(s) ==
    CASE s.last = "none"  -> s.index
      [] s.last = "tools" -> s.tools.base + Len(s.tools.calls)
      [] OTHER            -> s.index + 1

\* The client holds open what the converter believes is open, and nothing
\* from the next free block on; in a group of tools the blocks the client
\* has are those of tools that have started.
InStep(s, w) ==
    /\ IsClient(w) /\ w.phase = "open"
    /\ \A i \in DOMAIN w.blocks : i \in Nat /\ i < Free(s) /\ (w.blocks[i].open <=> Opened(s, i))
    /\ \A i : Opened(s, i) => i \in DOMAIN w.blocks /\ w.blocks[i].kind = Kind(s)
    /\ s.last = "tools" => \A i \in DOMAIN w.blocks : i >= s.tools.base => Opened(s, i)

\* A client that was w0 is in step when it has read what the converter has
\* put out since.
Wired(s, w0) == IsState(s) /\ InStep(s, After(w0, s.out))

SameView(t, s) == t.last = s.last /\ t.index = s.index /\ t.tools = s.tools

SameRest(t, s) ==
    /\ t.done = s.done /\ t.sent = s.sent /\ t.error = s.error
    /\ t.usage = s.usage /\ t.reason = s.reason

LEMMA SameViewInStep ==
    ASSUME NEW s, NEW t, SameView(t, s), NEW w
    PROVE  /\ InStep(t, w) <=> InStep(s, w)
           /\ Free(t) = Free(s) /\ Kind(t) = Kind(s) /\ \A i : Opened(t, i) <=> Opened(s, i)
<1>1. Free(t) = Free(s) /\ Kind(t) = Kind(s) /\ \A i : Opened(t, i) <=> Opened(s, i)
  BY DEF SameView, Free, Kind, Opened
<1> QED
  BY <1>1 DEF InStep, SameView

LEMMA Emitted ==
    ASSUME NEW s, IsState(s), NEW es, IsSeq(es), NEW w0
    PROVE  LET t == ToClaude!Emit(s, es) IN
           /\ IsState(t) /\ SameView(t, s) /\ SameRest(t, s)
           /\ After(w0, t.out) = After(After(w0, s.out), es)
<1> DEFINE t == ToClaude!Emit(s, es)
<1>1. /\ DOMAIN t = DOMAIN s /\ t.out = s.out \o es
      /\ t.last = s.last /\ t.index = s.index /\ t.tools = s.tools
      /\ t.done = s.done /\ t.sent = s.sent /\ t.error = s.error
      /\ t.usage = s.usage /\ t.reason = s.reason
  BY DEF ToClaude!Emit, IsState
<1> HIDE DEF t
<1>2. IsSeq(s.out)
  BY DEF IsState
<1>3. IsSeq(t.out) /\ After(w0, t.out) = After(After(w0, s.out), es)
  <2>1. IsSeq(s.out \o es)
    BY <1>2, SeqTwo, Zenon
  <2>2. After(w0, s.out \o es) = After(After(w0, s.out), es)
    BY <1>2, AfterMore
  <2> QED
    BY <1>1, <2>1, <2>2
<1>4. IsState(t)
  BY <1>1, <1>3 DEF IsState
<1> QED
  BY <1>1, <1>3, <1>4 DEF t, SameView, SameRest

LEMMA EmittedOne ==
    ASSUME NEW s, IsState(s), NEW e, NEW w0
    PROVE  LET t == ToClaude!Emit(s, <<e>>) IN
           /\ IsState(t) /\ SameView(t, s) /\ SameRest(t, s)
           /\ After(w0, t.out) = Receive(After(w0, s.out), e)
BY SeqOne, AfterOne, Emitted

-----------------------------------------------------------------------------
(* Tools start.                                                            *)

\* The same group of tools, further on.
SameGroup(t, s) ==
    /\ t.last = "tools" /\ t.tools.base = s.tools.base /\ t.index = s.index
    /\ Len(t.tools.calls) = Len(s.tools.calls)
    /\ SameRest(t, s)

\* A tool that starts opens its block, with the arguments that were held back.
LEMMA ToolStarts ==
    ASSUME NEW s, NEW w0, Wired(s, w0), s.last = "tools",
           NEW k \in 1 .. Len(s.tools.calls), ~s.tools.calls[k].started
    PROVE  LET t == ToClaude!StartTool(s, k) IN
           Wired(t, w0) /\ SameGroup(t, s)
<1> DEFINE w    == After(w0, s.out)
           tool == s.tools.calls[k]
           b    == tool.block
           e    == BlockStart(b, "tool_use", tool.id)
           d    == Delta(b, "input_json_delta", tool.pending)
           held == IF tool.pending = << >> THEN << >> ELSE <<d>>
           x    == ToClaude!Emit(s, <<e>> \o held)
           t    == [x EXCEPT !.tools.calls[k].started = TRUE, !.tools.calls[k].pending = << >>]
           v    == After(w, <<e>> \o held)
<1>0. IsState(s) /\ InStep(s, w) /\ IsTools(s.tools) /\ IsClient(w) /\ w.phase = "open"
  BY DEF Wired, InStep, IsState
<1>1. /\ b = s.tools.base + k - 1 /\ b \in Nat /\ b >= s.tools.base
      /\ b < s.tools.base + Len(s.tools.calls)
      /\ Len(s.tools.calls) \in Nat /\ s.tools.base \in Nat
  BY <1>0, SeqFacts DEF IsTools
<1>2. ~Opened(s, b)
  BY <1>0, <1>1, SeqFacts DEF Opened, IsTools
<1>3. b \notin DOMAIN w.blocks
  BY <1>0, <1>1, <1>2 DEF InStep
<1>4. IsSeq(held) /\ IsSeq(<<e>>) /\ IsSeq(<<e>> \o held)
  <2>1. IsSeq(held) /\ IsSeq(<<e>>)
    BY SeqNone, SeqOne
  <2> QED
    BY <2>1, SeqTwo, Zenon
<1>5. /\ IsClient(v) /\ v.phase = "open"
      /\ DOMAIN v.blocks = DOMAIN w.blocks \cup {b}
      /\ v.blocks[b].open /\ v.blocks[b].kind = "tool_use"
      /\ SameBlocks(v, w, b)
  <2> DEFINE u == Receive(w, e)
  <2>1. v = After(u, held)
    BY <1>4, AfterMore, AfterOne
  <2>2. /\ IsClient(u) /\ u.phase = "open"
        /\ DOMAIN u.blocks = DOMAIN w.blocks \cup {b}
        /\ u.blocks[b].open /\ u.blocks[b].kind = "tool_use"
        /\ SameBlocks(u, w, b)
    BY <1>0, <1>3, ReadStart, Zenon
  <2> HIDE DEF u, e, v, b, tool
  <2>3. CASE tool.pending = << >>
    <3>1. v = u
      BY <2>1, <2>3, AfterNone
    <3> QED
      BY <2>2, <3>1
  <2>4. CASE tool.pending # << >>
    <3>1. v = Receive(u, d)
      BY <2>1, <2>4, AfterOne
    <3>2. "input_json_delta" \in DeltasOf(u.blocks[b].kind) /\ b \in DOMAIN u.blocks
      BY <2>2 DEF DeltasOf
    <3>3. /\ IsClient(v) /\ v.phase = "open"
          /\ DOMAIN v.blocks = DOMAIN u.blocks
          /\ v.blocks[b].open /\ v.blocks[b].kind = u.blocks[b].kind
          /\ SameBlocks(v, u, b)
      BY <2>2, <3>1, <3>2, ReadDelta
    <3> QED
      BY <2>2, <3>3 DEF SameBlocks
  <2> QED
    BY <2>3, <2>4
<1>6. IsState(x) /\ SameView(x, s) /\ SameRest(x, s) /\ After(w0, x.out) = v
  BY <1>0, <1>4, Emitted
<1>7. ToClaude!StartTool(s, k) = t
  BY DEF ToClaude!StartTool, Delta, ToClaude!Delta, BlockStart, ToClaude!BlockStart
<1> HIDE DEF v, x, held
<1>8. /\ DOMAIN t = DOMAIN x /\ t.out = x.out /\ t.last = x.last /\ t.index = x.index
      /\ DOMAIN t.tools = DOMAIN x.tools /\ t.tools.base = x.tools.base
      /\ t.tools.byIndex = x.tools.byIndex /\ t.tools.byID = x.tools.byID
      /\ SameRest(t, x)
  BY <1>6, Zenon DEF IsState, IsTools, SameRest
<1>9. /\ Len(t.tools.calls) = Len(s.tools.calls) /\ IsSeq(t.tools.calls)
      /\ t.tools.calls[k].started /\ t.tools.calls[k].block = b
      /\ DOMAIN t.tools.calls[k] = {"block", "id", "named", "pending", "started"}
      /\ \A j \in 1 .. Len(s.tools.calls) : j # k => t.tools.calls[j] = s.tools.calls[j]
  <2> DEFINE new == [[tool EXCEPT !.started = TRUE] EXCEPT !.pending = << >>]
  <2>1. /\ new.started = TRUE /\ new.block = b
        /\ DOMAIN new = {"block", "id", "named", "pending", "started"}
    BY <1>0 DEF IsTools
  <2>2. x.tools = s.tools /\ k \in DOMAIN s.tools.calls
    BY <1>0, <1>6, SeqFacts DEF SameView, IsTools
  <2>3. t.tools.calls = [s.tools.calls EXCEPT ![k] = new]
    BY <1>0, <1>6, <2>2, Zenon DEF IsState, IsTools
  <2> HIDE DEF new
  <2> DEFINE calls == s.tools.calls
             more  == [calls EXCEPT ![k] = new]
  <2>4. IsSeq(calls) /\ k \in 1 .. Len(calls)
    BY <1>0 DEF IsTools
  <2>5. /\ IsSeq(more) /\ Len(more) = Len(calls) /\ more[k] = new
        /\ \A j \in 1 .. Len(calls) : j # k => more[j] = calls[j]
    <3> HIDE DEF calls
    <3> QED
      BY <2>4, SeqUpdate
  <2>6. t.tools.calls = more
    BY <2>3
  <2> HIDE DEF more
  <2> QED
    BY <2>1, <2>5, <2>6, Zenon
<1> HIDE DEF t
<1>10. IsState(t)
  <2>1. IsTools(t.tools)
    <3>1. ASSUME NEW j \in 1 .. Len(t.tools.calls)
          PROVE  /\ DOMAIN t.tools.calls[j] = {"block", "id", "named", "pending", "started"}
                 /\ t.tools.calls[j].block = t.tools.base + j - 1 /\ t.tools.calls[j].started \in BOOLEAN
      <4>1. CASE j = k
        BY <1>1, <1>6, <1>8, <1>9, <4>1, Zenon DEF SameView
      <4>2. CASE j # k
        BY <1>0, <1>6, <1>8, <1>9, <4>2 DEF SameView, IsTools
      <4> QED
        BY <4>1, <4>2
    <3>2. t.tools.byIndex = s.tools.byIndex /\ t.tools.byID = s.tools.byID
      BY <1>6, <1>8 DEF SameView
    <3>3. DOMAIN t.tools = {"calls", "base", "byIndex", "byID"} /\ t.tools.base \in Nat
      BY <1>0, <1>1, <1>6, <1>8 DEF SameView, IsTools
    <3> QED
      BY <1>0, <1>9, <3>1, <3>2, <3>3, Zenon DEF IsTools
  <2> QED
    BY <1>6, <1>8, <2>1 DEF IsState, SameView
<1>11. \A i : Opened(t, i) <=> Opened(s, i) \/ i = b
  BY <1>6, <1>8, <1>9 DEF Opened, SameView
<1>12. InStep(t, v)
  <2>1. Free(t) = s.tools.base + Len(s.tools.calls) /\ Free(s) = Free(t) /\ Kind(t) = "tool_use" /\ Kind(s) = Kind(t)
    BY <1>6, <1>8, <1>9 DEF Free, Kind, SameView
  <2>2. ASSUME NEW i \in DOMAIN v.blocks
        PROVE  /\ i \in Nat /\ i < Free(t) /\ (v.blocks[i].open <=> Opened(t, i))
               /\ i >= s.tools.base => Opened(t, i)
    <3>1. CASE i = b
      BY <1>1, <1>5, <1>11, <2>1, <3>1
    <3>2. CASE i # b
      BY <1>0, <1>5, <1>11, <2>1, <3>2 DEF InStep, SameBlocks
    <3> QED
      BY <3>1, <3>2
  <2>3. ASSUME NEW i, Opened(t, i)
        PROVE  i \in DOMAIN v.blocks /\ v.blocks[i].kind = Kind(t)
    <3>1. CASE i = b
      BY <1>5, <2>1, <3>1
    <3>2. CASE i # b
      BY <1>0, <1>5, <1>11, <2>1, <2>3, <3>2 DEF InStep, SameBlocks
    <3> QED
      BY <3>1, <3>2
  <2>4. t.tools.base = s.tools.base
    BY <1>6, <1>8 DEF SameView
  <2> QED
    BY <1>5, <2>2, <2>3, <2>4 DEF InStep
<1>13. Wired(t, w0)
  BY <1>6, <1>8, <1>10, <1>12 DEF Wired
<1>14. SameGroup(t, s)
  BY <1>6, <1>8, <1>9 DEF SameGroup, SameView, SameRest
<1> QED
  BY <1>7, <1>13, <1>14

\* The same for a tool that gets an id first.
LEMMA NamedToolStarts ==
    ASSUME NEW s, NEW w0, Wired(s, w0), s.last = "tools", NEW k \in 1 .. Len(s.tools.calls)
    PROVE  LET t == ToClaude!StartNamed(s, k) IN
           Wired(t, w0) /\ SameGroup(t, s)
<1> DEFINE tool == s.tools.calls[k]
           id   == IF tool.id = NoId THEN Generated ELSE tool.id
           u    == [s EXCEPT !.tools.calls[k].id = id]
<1>1. CASE tool.started \/ ~tool.named
  <2>1. ToClaude!StartNamed(s, k) = s
    BY <1>1 DEF ToClaude!StartNamed
  <2> QED
    BY <2>1 DEF SameGroup, SameRest
<1>2. CASE ~(tool.started \/ ~tool.named)
  <2>0. IsState(s) /\ InStep(s, After(w0, s.out)) /\ IsTools(s.tools)
    BY DEF Wired, IsState
  <2>1. ToClaude!StartNamed(s, k) = ToClaude!StartTool(u, k)
    BY <1>2 DEF ToClaude!StartNamed
  <2>2. /\ DOMAIN u = DOMAIN s /\ u.out = s.out /\ u.last = s.last /\ u.index = s.index
        /\ DOMAIN u.tools = DOMAIN s.tools /\ u.tools.base = s.tools.base
        /\ u.tools.byIndex = s.tools.byIndex /\ u.tools.byID = s.tools.byID
        /\ SameRest(u, s)
    BY <2>0 DEF IsState, IsTools, SameRest
  <2>3. /\ Len(u.tools.calls) = Len(s.tools.calls) /\ IsSeq(u.tools.calls)
        /\ \A j \in 1 .. Len(s.tools.calls) :
              /\ DOMAIN u.tools.calls[j] = {"block", "id", "named", "pending", "started"}
              /\ u.tools.calls[j].block = s.tools.calls[j].block
              /\ u.tools.calls[j].started = s.tools.calls[j].started
    <3> DEFINE calls == s.tools.calls
               new   == [calls[k] EXCEPT !.id = id]
               more  == [calls EXCEPT ![k] = new]
    <3>1. IsSeq(calls) /\ k \in 1 .. Len(calls) /\ k \in DOMAIN calls
      BY <2>0, SeqFacts DEF IsTools
    <3>2. u.tools.calls = more
      BY <2>0, Zenon DEF IsState, IsTools
    <3>3. \A j \in 1 .. Len(calls) : DOMAIN calls[j] = {"block", "id", "named", "pending", "started"}
      BY <2>0 DEF IsTools
    <3>4. /\ DOMAIN new = {"block", "id", "named", "pending", "started"}
          /\ new.block = calls[k].block /\ new.started = calls[k].started
      BY <3>1, <3>3
    <3> HIDE DEF new, calls
    <3>5. /\ IsSeq(more) /\ Len(more) = Len(calls) /\ more[k] = new
          /\ \A j \in 1 .. Len(calls) : j # k => more[j] = calls[j]
      BY <3>1, SeqUpdate
    <3> HIDE DEF more
    <3>6. ASSUME NEW j \in 1 .. Len(calls)
          PROVE  /\ DOMAIN more[j] = {"block", "id", "named", "pending", "started"}
                 /\ more[j].block = calls[j].block
                 /\ more[j].started = calls[j].started
      <4>1. CASE j = k
        BY <3>4, <3>5, <4>1
      <4>2. CASE j # k
        BY <3>3, <3>5, <4>2
      <4> QED
        BY <4>1, <4>2
    <3> QED
      BY <3>2, <3>5, <3>6 DEF calls
  <2> HIDE DEF u
  <2>4. IsState(u)
    BY <2>0, <2>2, <2>3 DEF IsState, IsTools
  <2>5. InStep(u, After(w0, u.out))
    <3>1. Free(u) = Free(s) /\ Kind(u) = Kind(s)
      BY <2>2, <2>3 DEF Free, Kind
    <3>2. \A i : Opened(u, i) <=> Opened(s, i)
      BY <2>2, <2>3 DEF Opened
    <3> QED
      BY <2>0, <2>2, <3>1, <3>2 DEF InStep
  <2>6. k \in 1 .. Len(u.tools.calls) /\ ~u.tools.calls[k].started /\ u.last = "tools" /\ Wired(u, w0)
    BY <1>2, <2>2, <2>3, <2>4, <2>5 DEF Wired
  <2>7. Wired(ToClaude!StartTool(u, k), w0) /\ SameGroup(ToClaude!StartTool(u, k), u)
    BY <2>6, ToolStarts
  <2> QED
    BY <2>1, <2>2, <2>3, <2>7 DEF SameGroup, SameRest
<1> QED
  BY <1>1, <1>2

Starting == INSTANCE Counting WITH FoldStep <- LAMBDA p, s, k : ToClaude!StartNamed(s, k)

LEMMA PendingToolsStart ==
    ASSUME NEW s, NEW w0, Wired(s, w0), s.last = "tools"
    PROVE  LET t == ToClaude!StartPending(s) IN
           Wired(t, w0) /\ SameGroup(t, s)
<1> DEFINE n == Len(s.tools.calls)
           ks == Positions(s.tools.calls)
           t == Starting!Folded(0, s, ks)
           Good(x) == Wired(x, w0) /\ SameGroup(x, s)
<1>1. ToClaude!StartPending(s) = t
  BY DEF ToClaude!StartPending, ToClaude!Positions, Positions, ToClaude!FoldLeft, ToClaude!MapThenFoldSet,
         ToClaude!Max, Starting!Folded, Starting!F!MapThenFoldSet, Starting!Highest
<1>2. n \in Nat
  BY SeqFacts DEF Wired, IsState, IsTools
<1>3. ks \in Seq(Nat) /\ Len(ks) = n /\ \A k \in 1 .. n : ks[k] = k
  BY <1>2, SeqPositions
<1> HIDE DEF ks, n
<1>4. PICK g : Starting!FoldChain(g, n, 0, s, ks) /\ t = g[n]
  BY <1>3, Starting!FoldedChain
<1> HIDE DEF t
<1> DEFINE P == {k \in 0 .. n : Good(g[k])}
<1>5. 0 \in P
  BY <1>2, <1>4 DEF Starting!FoldChain, SameGroup, SameRest
<1>6. ASSUME NEW k \in Nat, k < n, k \in P
      PROVE  k + 1 \in P
  <2>1. k + 1 \in 1 .. n /\ (k + 1) - 1 = k
    BY <1>2, <1>6
  <2>2. g[k + 1] = ToClaude!StartNamed(g[k], k + 1)
    BY <1>3, <1>4, <2>1 DEF Starting!FoldChain
  <2>3. Wired(g[k], w0) /\ SameGroup(g[k], s)
    BY <1>6
  <2>4. g[k].last = "tools" /\ k + 1 \in 1 .. Len(g[k].tools.calls)
    BY <2>1, <2>3 DEF SameGroup, n
  <2>5. Wired(g[k + 1], w0) /\ SameGroup(g[k + 1], g[k])
    BY <2>2, <2>3, <2>4, NamedToolStarts
  <2>6. SameGroup(g[k + 1], s)
    BY <2>3, <2>5 DEF SameGroup, SameRest
  <2> QED
    BY <2>1, <2>5, <2>6
<1>7. 0 .. n \subseteq P
  <2> HIDE DEF P
  <2> QED
    BY <1>2, <1>5, <1>6, Starting!CountingUp
<1> QED
  BY <1>1, <1>2, <1>4, <1>7

-----------------------------------------------------------------------------
(* Blocks are closed.                                                      *)

\* A client of which the converter's blocks are all closed.
Closed(s, w) ==
    /\ IsClient(w) /\ w.phase = "open"
    /\ \A i \in DOMAIN w.blocks : i \in Nat /\ i < Free(s) /\ ~w.blocks[i].open

\* The first k tools of s are closed, in x.
FirstClosed(s, w0, k, x) ==
    LET w == After(w0, s.out)
        v == After(w0, x.out)
    IN  /\ IsState(x) /\ SameView(x, s) /\ SameRest(x, s)
        /\ IsClient(v) /\ v.phase = "open" /\ DOMAIN v.blocks = DOMAIN w.blocks
        /\ \A i \in DOMAIN v.blocks :
              v.blocks[i].open <=> \E j \in k + 1 .. Len(s.tools.calls) :
                                      s.tools.calls[j].started /\ i = s.tools.calls[j].block

LEMMA ToolStops ==
    ASSUME NEW s, NEW w0, Wired(s, w0), s.last = "tools",
           NEW k \in 1 .. Len(s.tools.calls), NEW x, FirstClosed(s, w0, k - 1, x)
    PROVE  FirstClosed(s, w0, k, ToClaude!StopTool(x, k))
<1> DEFINE calls == s.tools.calls
           n == Len(calls)
           b == calls[k].block
           w == After(w0, s.out)
           u == After(w0, x.out)
           t == ToClaude!StopTool(x, k)
           v == After(w0, t.out)
<1>0. IsState(s) /\ InStep(s, w) /\ IsTools(s.tools) /\ k \in 1 .. n
  BY DEF Wired, IsState
<1>1. n \in Nat /\ s.tools.base \in Nat /\ \A j \in 1 .. n : calls[j].block = s.tools.base + j - 1
  BY <1>0, SeqFacts DEF IsTools
<1>2. /\ IsState(x) /\ SameView(x, s) /\ SameRest(x, s) /\ x.tools = s.tools
      /\ IsClient(u) /\ u.phase = "open" /\ DOMAIN u.blocks = DOMAIN w.blocks
      /\ \A i \in DOMAIN u.blocks :
            u.blocks[i].open <=> \E j \in (k - 1) + 1 .. n : calls[j].started /\ i = calls[j].block
  BY DEF FirstClosed, SameView
<1> SUFFICES /\ IsState(t) /\ SameView(t, s) /\ SameRest(t, s)
             /\ IsClient(v) /\ v.phase = "open" /\ DOMAIN v.blocks = DOMAIN w.blocks
             /\ \A i \in DOMAIN v.blocks :
                   v.blocks[i].open <=> \E j \in k + 1 .. n : calls[j].started /\ i = calls[j].block
  BY DEF FirstClosed
<1>3. CASE ~calls[k].started
  <2>1. t = x
    BY <1>2, <1>3 DEF ToClaude!StopTool
  <2>2. \A i : (\E j \in (k - 1) + 1 .. n : calls[j].started /\ i = calls[j].block)
               <=> \E j \in k + 1 .. n : calls[j].started /\ i = calls[j].block
    <3> HIDE DEF n, calls
    <3>1. \A j \in (k - 1) + 1 .. n : j = k \/ j \in k + 1 .. n
      BY <1>0, <1>1
    <3>2. \A j \in k + 1 .. n : j \in (k - 1) + 1 .. n
      BY <1>0, <1>1
    <3> QED
      BY <1>3, <3>1, <3>2
  <2> QED
    BY <1>2, <2>1, <2>2, Zenon
<1>4. CASE calls[k].started
  <2>1. t = ToClaude!Emit(x, <<BlockStop(b)>>)
    BY <1>2, <1>4 DEF ToClaude!StopTool, BlockStop, ToClaude!BlockStop
  <2>2. /\ IsState(t) /\ SameView(t, x) /\ SameRest(t, x)
        /\ v = Receive(u, BlockStop(b))
    BY <1>2, <2>1, EmittedOne
  <2>3. b \in DOMAIN u.blocks /\ u.blocks[b].open
    <3>1. Opened(s, b)
      BY <1>0, <1>4 DEF Opened
    <3>2. b \in DOMAIN u.blocks
      BY <1>0, <1>2, <3>1 DEF InStep
    <3>3. k \in (k - 1) + 1 .. n
      BY <1>0, <1>1
    <3> QED
      BY <1>2, <1>4, <3>2, <3>3
  <2>4. /\ IsClient(v) /\ v.phase = "open"
        /\ DOMAIN v.blocks = DOMAIN u.blocks
        /\ ~v.blocks[b].open
        /\ SameBlocks(v, u, b)
    BY <1>2, <2>2, <2>3, ReadStop
  <2>5. ASSUME NEW i \in DOMAIN v.blocks
        PROVE  v.blocks[i].open <=> \E j \in k + 1 .. n : calls[j].started /\ i = calls[j].block
    <3> HIDE DEF n, u, v, b
    <3>1. CASE i = b
      <4>1. \A j \in k + 1 .. n : calls[j].block # b
        <5> SUFFICES ASSUME NEW j \in k + 1 .. n
                     PROVE  calls[j].block # b
          OBVIOUS
        <5>1. j \in 1 .. n /\ k \in 1 .. n /\ j # k
          BY <1>0, <1>1
        <5> HIDE DEF calls
        <5> QED
          BY <1>1, <5>1 DEF b
      <4> QED
        BY <2>4, <3>1, <4>1
    <3>2. CASE i # b
      <4>1. v.blocks[i].open = u.blocks[i].open
        BY <2>4, <3>2 DEF SameBlocks
      <4>2. \A j \in (k - 1) + 1 .. n : j = k \/ j \in k + 1 .. n
        BY <1>0, <1>1
      <4>3. \A j \in k + 1 .. n : j \in (k - 1) + 1 .. n
        BY <1>0, <1>1
      <4>4. u.blocks[i].open <=> \E j \in (k - 1) + 1 .. n : calls[j].started /\ i = calls[j].block
        BY <1>2, <2>4
      <4> HIDE DEF calls
      <4> QED
        BY <3>2, <4>1, <4>2, <4>3, <4>4 DEF b
    <3> QED
      BY <3>1, <3>2
  <2> QED
    BY <1>2, <2>2, <2>4, <2>5, Zenon DEF SameView, SameRest
<1> QED
  BY <1>3, <1>4

Stopping == INSTANCE Counting WITH FoldStep <- LAMBDA p, s, k : ToClaude!StopTool(s, k)

\* What is open is closed, and nothing else changes.
LEMMA OpenBlocksStop ==
    ASSUME NEW s, NEW w0, Wired(s, w0)
    PROVE  LET t == ToClaude!StopOpen(s) IN
           /\ IsState(t) /\ SameView(t, s) /\ SameRest(t, s)
           /\ Closed(s, After(w0, t.out))
<1> DEFINE w == After(w0, s.out)
           t == ToClaude!StopOpen(s)
           v == After(w0, t.out)
<1>0. IsState(s) /\ InStep(s, w) /\ IsClient(w) /\ w.phase = "open"
  BY DEF Wired, InStep
<1>1. CASE s.last \in {"text", "thinking"}
  <2>1. t = ToClaude!Emit(s, <<BlockStop(s.index)>>)
    BY <1>1 DEF ToClaude!StopOpen, BlockStop, ToClaude!BlockStop
  <2>2. /\ IsState(t) /\ SameView(t, s) /\ SameRest(t, s)
        /\ v = Receive(w, BlockStop(s.index))
    BY <1>0, <2>1, EmittedOne
  <2>3. \A i : Opened(s, i) <=> i = s.index
    BY <1>1 DEF Opened
  <2>4. s.index \in DOMAIN w.blocks /\ w.blocks[s.index].open
    BY <1>0, <2>3 DEF InStep
  <2>5. /\ IsClient(v) /\ v.phase = "open"
        /\ DOMAIN v.blocks = DOMAIN w.blocks
        /\ ~v.blocks[s.index].open
        /\ SameBlocks(v, w, s.index)
    BY <1>0, <2>2, <2>4, ReadStop
  <2>6. ASSUME NEW i \in DOMAIN v.blocks
        PROVE  i \in Nat /\ i < Free(s) /\ ~v.blocks[i].open
    <3> HIDE DEF v, w, t
    <3>1. i \in Nat /\ i < Free(s) /\ (w.blocks[i].open <=> i = s.index)
      BY <1>0, <2>3, <2>5 DEF InStep
    <3> QED
      BY <2>5, <3>1 DEF SameBlocks
  <2> QED
    BY <2>2, <2>5, <2>6 DEF Closed
<1>2. CASE s.last = "tools"
  <2> DEFINE n == Len(s.tools.calls)
             ks == Positions(s.tools.calls)
             r == Stopping!Folded(0, s, ks)
  <2>1. t = r
    BY <1>2 DEF ToClaude!StopOpen, ToClaude!Positions, Positions, ToClaude!FoldLeft, ToClaude!MapThenFoldSet,
           ToClaude!Max, Stopping!Folded, Stopping!F!MapThenFoldSet, Stopping!Highest
  <2>2. n \in Nat
    BY <1>0, SeqFacts DEF IsState, IsTools
  <2>3. ks \in Seq(Nat) /\ Len(ks) = n /\ \A k \in 1 .. n : ks[k] = k
    BY <2>2, SeqPositions
  <2> HIDE DEF ks, n, t
  <2>4. PICK g : Stopping!FoldChain(g, n, 0, s, ks) /\ r = g[n]
    BY <2>3, Stopping!FoldedChain
  <2> HIDE DEF r
  <2> DEFINE P == {k \in 0 .. n : FirstClosed(s, w0, k, g[k])}
  <2>5. 0 \in P
    <3>1. g[0] = s
      BY <2>4 DEF Stopping!FoldChain
    <3>2. ASSUME NEW i \in DOMAIN w.blocks
          PROVE  w.blocks[i].open <=> \E j \in 0 + 1 .. Len(s.tools.calls) :
                                         s.tools.calls[j].started /\ i = s.tools.calls[j].block
      BY <1>0, <1>2 DEF InStep, Opened
    <3>3. FirstClosed(s, w0, 0, s)
      BY <1>0, <3>2 DEF FirstClosed, SameView, SameRest
    <3> QED
      BY <2>2, <3>1, <3>3
  <2>6. ASSUME NEW k \in Nat, k < n, k \in P
        PROVE  k + 1 \in P
    <3>1. k + 1 \in 1 .. n /\ (k + 1) - 1 = k
      BY <2>2, <2>6
    <3>2. g[k + 1] = ToClaude!StopTool(g[k], k + 1)
      BY <2>3, <2>4, <3>1, Zenon DEF Stopping!FoldChain
    <3>3. FirstClosed(s, w0, (k + 1) - 1, g[k]) /\ k + 1 \in 1 .. Len(s.tools.calls)
      BY <2>6, <3>1 DEF n
    <3> HIDE DEF P
    <3>4. FirstClosed(s, w0, k + 1, g[k + 1])
      BY <1>2, <3>2, <3>3, ToolStops
    <3> QED
      BY <3>1, <3>4 DEF P
  <2>7. 0 .. n \subseteq P
    <3> HIDE DEF P
    <3> QED
      BY <2>2, <2>5, <2>6, Stopping!CountingUp
  <2>8. FirstClosed(s, w0, n, t)
    BY <2>1, <2>2, <2>4, <2>7
  <2>9. /\ IsState(t) /\ SameView(t, s) /\ SameRest(t, s)
        /\ IsClient(v) /\ v.phase = "open" /\ DOMAIN v.blocks = DOMAIN w.blocks
        /\ \A i \in DOMAIN v.blocks :
              v.blocks[i].open <=> \E j \in n + 1 .. n : s.tools.calls[j].started /\ i = s.tools.calls[j].block
    BY <2>8 DEF FirstClosed, n
  <2>10. ASSUME NEW i \in DOMAIN v.blocks
         PROVE  i \in Nat /\ i < Free(s) /\ ~v.blocks[i].open
    <3>1. n + 1 .. n = {}
      BY <2>2
    <3>2. i \in Nat /\ i < Free(s)
      BY <1>0, <2>9 DEF InStep
    <3> QED
      BY <2>9, <3>1, <3>2
  <2> QED
    BY <2>9, <2>10 DEF Closed, t
<1>3. CASE s.last = "none"
  <2>1. t = s
    BY <1>3 DEF ToClaude!StopOpen
  <2>2. \A i \in DOMAIN w.blocks : i \in Nat /\ i < Free(s) /\ ~w.blocks[i].open
    BY <1>0, <1>3 DEF InStep, Opened
  <2> QED
    BY <1>0, <2>1, <2>2 DEF Closed, SameView, SameRest
<1> QED
  BY <1>0, <1>1, <1>2, <1>3 DEF IsState

\* Tools that have not started start before they are closed.
LEMMA BlocksClose ==
    ASSUME NEW s, NEW w0, Wired(s, w0)
    PROVE  LET t == ToClaude!CloseBlocks(s) IN
           /\ IsState(t) /\ SameRest(t, s) /\ t.last = s.last /\ t.index = s.index
           /\ Closed(s, After(w0, t.out))
<1> DEFINE u == ToClaude!StartPending(s)
           t == ToClaude!CloseBlocks(s)
<1>1. Wired(u, w0) /\ SameRest(u, s) /\ u.last = s.last /\ u.index = s.index /\ Free(u) = Free(s)
  <2>1. CASE s.last = "tools"
    <3>1. Wired(u, w0) /\ SameGroup(u, s)
      BY <2>1, PendingToolsStart
    <3> HIDE DEF u
    <3> QED
      BY <2>1, <3>1 DEF SameGroup, Free
  <2>2. CASE s.last # "tools"
    BY <2>2 DEF ToClaude!StartPending, SameRest
  <2> QED
    BY <2>1, <2>2
<1>2. t = ToClaude!StopOpen(u)
  BY DEF ToClaude!CloseBlocks
<1> HIDE DEF t, u
<1>3. /\ IsState(t) /\ SameView(t, u) /\ SameRest(t, u)
      /\ Closed(u, After(w0, t.out))
  BY <1>1, <1>2, OpenBlocksStop
<1>4. Closed(s, After(w0, t.out))
  BY <1>1, <1>3 DEF Closed
<1> QED
  BY <1>1, <1>3, <1>4 DEF SameView, SameRest, t

\* The next block is free, and nothing is open.
LEMMA BlocksPassed ==
    ASSUME NEW s, NEW w0, Wired(s, w0)
    PROVE  LET t == ToClaude!CloseAndAdvance(s) IN
           Wired(t, w0) /\ t.last = "none" /\ SameRest(t, s)
<1> DEFINE u == ToClaude!CloseBlocks(s)
           t == ToClaude!CloseAndAdvance(s)
<1>0. IsState(s) /\ IsTools(s.tools)
  BY DEF Wired, IsState
<1>1. CASE s.last = "none"
  BY <1>1 DEF ToClaude!CloseAndAdvance, SameRest
<1>2. CASE s.last # "none"
  <2>1. Free(s) \in Nat /\ Free(s) = IF s.last = "tools" THEN s.tools.base + Len(s.tools.calls) ELSE s.index + 1
    BY <1>0, <1>2, SeqFacts DEF IsState, IsTools, Free
  <2>2. t = [u EXCEPT !.index = Free(s), !.last = "none",
                      !.tools = IF s.last = "tools" THEN ToClaude!NoTools ELSE @]
    BY <1>2, <2>1 DEF ToClaude!CloseAndAdvance
  <2>3. /\ IsState(u) /\ SameRest(u, s) /\ u.last = s.last /\ u.index = s.index
        /\ Closed(s, After(w0, u.out))
    BY BlocksClose
  <2> HIDE DEF u, t
  <2>4. /\ DOMAIN t = DOMAIN u /\ t.index = Free(s) /\ t.last = "none" /\ t.out = u.out
        /\ t.tools \in {ToClaude!NoTools, u.tools}
        /\ SameRest(t, u)
    BY <2>2, <2>3 DEF IsState, SameRest
  <2>5. IsTools(ToClaude!NoTools)
    <3>1. IsSeq(<< >>) /\ Len(<< >>) = 0
      BY SeqNone
    <3>2. ToClaude!NoTools.calls = << >> /\ ToClaude!NoTools.base = 0
          /\ ToClaude!NoTools.byIndex = << >> /\ ToClaude!NoTools.byID = << >>
          /\ DOMAIN ToClaude!NoTools = {"calls", "base", "byIndex", "byID"}
      BY DEF ToClaude!NoTools
    <3>3. DOMAIN << >> = {}
      OBVIOUS
    <3> QED
      BY <3>1, <3>2, <3>3 DEF IsTools
  <2>6. IsState(t)
    BY <2>1, <2>3, <2>4, <2>5 DEF IsState
  <2>7. InStep(t, After(w0, t.out))
    <3>1. Free(t) = Free(s) /\ \A i : ~Opened(t, i)
      BY <2>4 DEF Free, Opened
    <3> QED
      BY <2>3, <2>4, <3>1 DEF InStep, Closed
  <2> QED
    BY <2>3, <2>4, <2>6, <2>7 DEF Wired, SameRest, t
<1> QED
  BY <1>1, <1>2

LEMMA BlockOpens ==
    ASSUME NEW s, NEW w0, Wired(s, w0), NEW kind \in {"text", "thinking"}
    PROVE  LET t == ToClaude!OpenBlock(s, kind) IN
           Wired(t, w0) /\ t.last = kind /\ SameRest(t, s)
<1> DEFINE c == ToClaude!CloseAndAdvance(s)
           t == ToClaude!OpenBlock(s, kind)
<1>1. CASE s.last = kind
  BY <1>1 DEF ToClaude!OpenBlock, SameRest
<1>2. CASE s.last # kind
  <2>1. Wired(c, w0) /\ c.last = "none" /\ SameRest(c, s)
    BY BlocksPassed
  <2> DEFINE e == BlockStart(c.index, kind, NoId)
             x == ToClaude!Emit(c, <<e>>)
  <2>2. t = [x EXCEPT !.last = kind]
    BY <1>2 DEF ToClaude!OpenBlock, ToClaude!StartBlock, BlockStart, ToClaude!BlockStart
  <2> HIDE DEF c, t
  <2> DEFINE w == After(w0, c.out)
             v == Receive(w, e)
  <2>3. IsState(c) /\ InStep(c, w) /\ IsClient(w) /\ w.phase = "open" /\ c.index \in Nat
    BY <2>1 DEF Wired, InStep, IsState
  <2>4. IsState(x) /\ SameView(x, c) /\ SameRest(x, c) /\ After(w0, x.out) = v
    BY <2>3, EmittedOne
  <2> HIDE DEF x, e
  <2>5. Free(c) = c.index /\ \A i : ~Opened(c, i)
    BY <2>1 DEF Free, Opened
  <2>6. c.index \notin DOMAIN w.blocks
    BY <2>3, <2>5 DEF InStep
  <2>7. /\ IsClient(v) /\ v.phase = "open"
        /\ DOMAIN v.blocks = DOMAIN w.blocks \cup {c.index}
        /\ v.blocks[c.index].open /\ v.blocks[c.index].kind = kind
        /\ SameBlocks(v, w, c.index)
    BY <2>3, <2>6, ReadStart DEF e
  <2>8. /\ DOMAIN t = DOMAIN x /\ t.last = kind /\ t.index = c.index /\ t.tools = x.tools /\ t.out = x.out
        /\ SameRest(t, s)
    BY <2>1, <2>2, <2>4 DEF IsState, SameRest, SameView
  <2>9. IsState(t)
    BY <2>3, <2>4, <2>8 DEF IsState
  <2>10. Free(t) = c.index + 1 /\ Kind(t) = kind /\ \A i : Opened(t, i) <=> i = c.index
    BY <2>8 DEF Free, Kind, Opened
  <2> HIDE DEF v, w
  <2>11. ASSUME NEW i \in DOMAIN v.blocks
         PROVE  i \in Nat /\ i < Free(t) /\ (v.blocks[i].open <=> Opened(t, i))
    <3>1. CASE i = c.index
      BY <2>3, <2>7, <2>10, <3>1
    <3>2. CASE i # c.index
      <4>1. i \in Nat /\ i < c.index /\ ~w.blocks[i].open
        BY <2>3, <2>5, <2>7, <3>2 DEF InStep
      <4>2. v.blocks[i].open = w.blocks[i].open
        BY <2>7, <3>2 DEF SameBlocks
      <4> QED
        BY <2>3, <2>10, <3>2, <4>1, <4>2
    <3> QED
      BY <3>1, <3>2
  <2>12. InStep(t, v)
    BY <2>7, <2>8, <2>10, <2>11 DEF InStep
  <2>13. After(w0, t.out) = v
    BY <2>4, <2>8
  <2> QED
    BY <2>8, <2>9, <2>12, <2>13 DEF Wired, t
<1> QED
  BY <1>1, <1>2

\* Text, thinking and citations go to a block that is open.
LEMMA ContentSent ==
    ASSUME NEW s, NEW w0, Wired(s, w0), NEW kind \in {"text", "thinking"}, NEW delta \in DeltasOf(kind)
    PROVE  LET t == ToClaude!Content(s, kind, delta) IN
           Wired(t, w0) /\ SameRest(t, s)
<1> DEFINE c == ToClaude!OpenBlock(s, kind)
           t == ToClaude!Content(s, kind, delta)
           w == After(w0, c.out)
           e == Delta(c.index, delta, << >>)
           v == Receive(w, e)
<1>1. Wired(c, w0) /\ c.last = kind /\ SameRest(c, s)
  BY BlockOpens
<1>2. t = ToClaude!Emit(c, <<e>>)
  BY DEF ToClaude!Content, ToClaude!EmitDelta, Delta, ToClaude!Delta
<1> HIDE DEF c, t
<1>3. IsState(c) /\ InStep(c, w) /\ IsClient(w) /\ w.phase = "open"
  BY <1>1 DEF Wired, InStep
<1>4. IsState(t) /\ SameView(t, c) /\ SameRest(t, c) /\ After(w0, t.out) = v
  BY <1>2, <1>3, EmittedOne
<1>5. Kind(c) = kind /\ \A i : Opened(c, i) <=> i = c.index
  BY <1>1 DEF Kind, Opened
<1>6. c.index \in DOMAIN w.blocks /\ w.blocks[c.index].open /\ w.blocks[c.index].kind = kind
  BY <1>3, <1>5 DEF InStep
<1>7. /\ IsClient(v) /\ v.phase = "open"
      /\ DOMAIN v.blocks = DOMAIN w.blocks
      /\ v.blocks[c.index].open /\ v.blocks[c.index].kind = w.blocks[c.index].kind
      /\ SameBlocks(v, w, c.index)
  BY <1>3, <1>6, ReadDelta
<1> HIDE DEF v, e, w
<1>8. InStep(c, v)
  <2>1. ASSUME NEW i \in DOMAIN w.blocks
        PROVE  (v.blocks[i].open <=> w.blocks[i].open) /\ v.blocks[i].kind = w.blocks[i].kind
    <3>1. CASE i = c.index
      BY <1>6, <1>7, <3>1
    <3>2. CASE i # c.index
      BY <1>7, <3>2 DEF SameBlocks
    <3> QED
      BY <3>1, <3>2
  <2> QED
    BY <1>3, <1>7, <2>1 DEF InStep
<1>9. InStep(t, v)
  BY <1>4, <1>8, SameViewInStep
<1> QED
  BY <1>1, <1>4, <1>9 DEF Wired, SameRest, t

-----------------------------------------------------------------------------
(* Fragments of tool calls.                                                *)

LEMMA ToolFound ==
    ASSUME NEW s, IsState(s), NEW index, NEW id
    PROVE  ToClaude!FindTool(s, index, id) \in 0 .. Len(s.tools.calls)
<1>1. Len(s.tools.calls) \in Nat /\ IsTools(s.tools)
  BY SeqFacts DEF IsState, IsTools
<1>2. /\ \A x \in DOMAIN s.tools.byIndex : s.tools.byIndex[x] \in 1 .. Len(s.tools.calls)
      /\ \A x \in DOMAIN s.tools.byID : s.tools.byID[x] \in 1 .. Len(s.tools.calls)
  BY <1>1 DEF IsTools
<1> QED
  BY <1>1, <1>2 DEF ToClaude!FindTool

\* An open group, further on and perhaps with more tools.
InGroup(t, s) == t.last = "tools" /\ SameRest(t, s)

LEMMA GroupOpens ==
    ASSUME NEW s, NEW w0, Wired(s, w0), s.last = "none"
    PROVE  LET t == ToClaude!OpenGroup(s) IN
           Wired(t, w0) /\ InGroup(t, s)
<1> DEFINE t == ToClaude!OpenGroup(s)
           w == After(w0, s.out)
<1>0. IsState(s) /\ InStep(s, w) /\ s.index \in Nat
  BY DEF Wired, IsState
<1>1. /\ DOMAIN t = DOMAIN s /\ t.last = "tools" /\ t.index = s.index /\ t.out = s.out
      /\ t.tools = [ToClaude!NoTools EXCEPT !.base = s.index]
      /\ SameRest(t, s)
  BY <1>0 DEF ToClaude!OpenGroup, IsState, SameRest
<1> HIDE DEF t
<1>2. /\ DOMAIN t.tools = {"calls", "base", "byIndex", "byID"}
      /\ t.tools.calls = << >> /\ t.tools.base = s.index
      /\ t.tools.byIndex = << >> /\ t.tools.byID = << >>
  BY <1>1 DEF ToClaude!NoTools
<1>3. IsSeq(t.tools.calls) /\ Len(t.tools.calls) = 0
  BY <1>2, SeqNone
<1>4. IsTools(t.tools)
  <2>1. DOMAIN << >> = {}
    OBVIOUS
  <2> QED
    BY <1>0, <1>2, <1>3, <2>1 DEF IsTools
<1>5. IsState(t)
  BY <1>0, <1>1, <1>4 DEF IsState
<1>6. InStep(t, w)
  <2>1. Free(t) = s.index /\ \A i : ~Opened(t, i)
    BY <1>0, <1>1, <1>2, <1>3 DEF Free, Opened
  <2>2. Free(s) = s.index /\ \A i : ~Opened(s, i)
    BY DEF Free, Opened
  <2>3. \A i \in DOMAIN w.blocks : ~(i >= t.tools.base)
    BY <1>0, <1>2, <2>2 DEF InStep
  <2> QED
    BY <1>0, <1>1, <2>1, <2>2, <2>3 DEF InStep
<1> QED
  BY <1>1, <1>5, <1>6 DEF Wired, InGroup, t

LEMMA ToolAdded ==
    ASSUME NEW s, NEW w0, Wired(s, w0), s.last = "tools"
    PROVE  LET t == ToClaude!NewTool(s) IN
           /\ Wired(t, w0) /\ InGroup(t, s)
           /\ Len(t.tools.calls) = Len(s.tools.calls) + 1
<1> DEFINE calls == s.tools.calls
           n     == Len(calls)
           new   == [block |-> s.tools.base + n, id |-> NoId, named |-> FALSE, pending |-> <<>>, started |-> FALSE]
           more  == Append(calls, new)
           t     == ToClaude!NewTool(s)
           w     == After(w0, s.out)
<1>0. IsState(s) /\ InStep(s, w) /\ IsTools(s.tools)
  BY DEF Wired, IsState
<1>1. /\ DOMAIN t = DOMAIN s /\ t.last = "tools" /\ t.index = s.index /\ t.out = s.out
      /\ t.tools = [s.tools EXCEPT !.calls = more]
      /\ SameRest(t, s)
  BY <1>0 DEF ToClaude!NewTool, IsState, SameRest
<1> HIDE DEF t
<1>2. /\ DOMAIN t.tools = {"calls", "base", "byIndex", "byID"}
      /\ t.tools.calls = more /\ t.tools.base = s.tools.base
      /\ t.tools.byIndex = s.tools.byIndex /\ t.tools.byID = s.tools.byID
  BY <1>0, <1>1 DEF IsTools
<1>3. /\ new.block = s.tools.base + n /\ new.started = FALSE
      /\ DOMAIN new = {"block", "id", "named", "pending", "started"}
  OBVIOUS
<1>4. IsSeq(calls) /\ n \in Nat /\ s.tools.base \in Nat
  BY <1>0, SeqFacts DEF IsTools
<1> HIDE DEF new
<1>5. /\ IsSeq(more) /\ Len(more) = n + 1 /\ more[n + 1] = new
      /\ \A k \in 1 .. n : more[k] = calls[k]
  <2> HIDE DEF calls
  <2> QED
    BY <1>4, SeqAppend
<1> HIDE DEF more
<1>6. \A k \in 1 .. n + 1 : k = n + 1 \/ k \in 1 .. n
  BY <1>4
<1>7. ASSUME NEW k \in 1 .. n + 1
      PROVE  /\ DOMAIN more[k] = {"block", "id", "named", "pending", "started"}
             /\ more[k].block = s.tools.base + k - 1 /\ more[k].started \in BOOLEAN
  <2>1. CASE k = n + 1
    <3>1. more[k] = new /\ s.tools.base + n = s.tools.base + k - 1
      BY <1>4, <1>5, <2>1
    <3> HIDE DEF n
    <3> QED
      BY <1>3, <3>1, Zenon
  <2>2. CASE k \in 1 .. n
    BY <1>0, <1>5, <2>2, Zenon DEF IsTools
  <2> QED
    BY <1>6, <2>1, <2>2
<1>8. IsTools(t.tools)
  <2>1. /\ \A x \in DOMAIN s.tools.byIndex : s.tools.byIndex[x] \in 1 .. n + 1
        /\ \A x \in DOMAIN s.tools.byID : s.tools.byID[x] \in 1 .. n + 1
    <3>1. \A k \in 1 .. n : k \in 1 .. n + 1
      BY <1>4
    <3>2. /\ \A x \in DOMAIN s.tools.byIndex : s.tools.byIndex[x] \in 1 .. n
          /\ \A x \in DOMAIN s.tools.byID : s.tools.byID[x] \in 1 .. n
      BY <1>0 DEF IsTools
    <3> HIDE DEF n
    <3> QED
      BY <3>1, <3>2
  <2> HIDE DEF n
  <2> QED
    BY <1>2, <1>4, <1>5, <1>7, <2>1 DEF IsTools
<1>9. IsState(t)
  BY <1>0, <1>1, <1>8 DEF IsState
<1>10. InStep(t, w)
  <2>1. Free(t) = s.tools.base + n + 1 /\ Free(s) = s.tools.base + n /\ Kind(t) = Kind(s)
    BY <1>1, <1>2, <1>4, <1>5 DEF Free, Kind
  <2>2. ASSUME NEW i
        PROVE  Opened(t, i) <=> Opened(s, i)
    <3>1. \A k \in 1 .. n : k \in 1 .. n + 1
      BY <1>4
    <3>2. Opened(s, i) <=> \E k \in 1 .. n : calls[k].started /\ i = calls[k].block
      BY DEF Opened
    <3>3. Opened(t, i) <=> \E k \in 1 .. n + 1 : more[k].started /\ i = more[k].block
      BY <1>1, <1>2, <1>5 DEF Opened
    <3> HIDE DEF n, calls
    <3> QED
      BY <1>3, <1>5, <1>6, <3>1, <3>2, <3>3
  <2>3. \A i \in DOMAIN w.blocks : i \in Nat /\ i < Free(t)
    <3>1. \A i \in DOMAIN w.blocks : i \in Nat /\ i < Free(s)
      BY <1>0 DEF InStep
    <3> HIDE DEF n
    <3> QED
      BY <1>4, <2>1, <3>1
  <2>4. t.last = s.last
    BY <1>1
  <2> HIDE DEF n
  <2> QED
    BY <1>0, <1>2, <2>1, <2>2, <2>3, <2>4 DEF InStep
<1>11. Wired(t, w0) /\ InGroup(t, s)
  BY <1>1, <1>9, <1>10 DEF Wired, InGroup
<1> QED
  BY <1>2, <1>5, <1>11 DEF t

LEMMA ToolLearned ==
    ASSUME NEW s, NEW w0, Wired(s, w0), s.last = "tools", NEW k \in 1 .. Len(s.tools.calls), NEW f, NEW index
    PROVE  LET t == ToClaude!Learn(s, k, f, index) IN
           /\ Wired(t, w0) /\ InGroup(t, s)
           /\ Len(t.tools.calls) = Len(s.tools.calls)
<1> DEFINE calls == s.tools.calls
           n    == Len(calls)
           new  == [calls[k] EXCEPT !.id = IF @ = NoId THEN f.id ELSE @, !.named = @ \/ f.name # NoId,
                                    !.pending = IF calls[k].started THEN @ ELSE @ \o [m \in 1 .. f.args |-> f.call]]
           more == [calls EXCEPT ![k] = new]
           byIndex == Put(s.tools.byIndex, index, k)
           byID == IF calls[k].id = NoId /\ f.id # NoId THEN Put(s.tools.byID, f.id, k) ELSE s.tools.byID
           t    == ToClaude!Learn(s, k, f, index)
           w    == After(w0, s.out)
<1>0. IsState(s) /\ InStep(s, w) /\ IsTools(s.tools)
  BY DEF Wired, IsState
<1>1. IsSeq(calls) /\ n \in Nat /\ s.tools.base \in Nat /\ k \in 1 .. n /\ k \in DOMAIN calls
  BY <1>0, SeqFacts DEF IsTools
<1>2. \A j \in 1 .. n : /\ DOMAIN calls[j] = {"block", "id", "named", "pending", "started"}
                        /\ calls[j].block = s.tools.base + j - 1 /\ calls[j].started \in BOOLEAN
  BY <1>0 DEF IsTools
<1>3. /\ DOMAIN t = DOMAIN s /\ t.last = "tools" /\ t.index = s.index /\ t.out = s.out
      /\ DOMAIN t.tools = DOMAIN s.tools /\ t.tools.base = s.tools.base
      /\ SameRest(t, s)
  BY <1>0, Zenon DEF ToClaude!Learn, ToClaude!Put, IsState, IsTools, SameRest
<1>4. t.tools.byIndex = byIndex /\ t.tools.byID = byID
  <2>1. t.tools.byIndex = ToClaude!Put(s.tools.byIndex, index, k)
    BY <1>0, Zenon DEF ToClaude!Learn, IsState, IsTools
  <2>2. t.tools.byID = IF calls[k].id = NoId /\ f.id # NoId THEN ToClaude!Put(s.tools.byID, f.id, k) ELSE s.tools.byID
    BY <1>0, Zenon DEF ToClaude!Learn, IsState, IsTools
  <2> QED
    BY <2>1, <2>2 DEF Put, ToClaude!Put
<1>5. t.tools.calls = more
  BY <1>0, Zenon DEF ToClaude!Learn, IsState, IsTools
<1>6. /\ DOMAIN new = {"block", "id", "named", "pending", "started"}
      /\ new.block = calls[k].block /\ new.started = calls[k].started
  BY <1>1, <1>2
<1> HIDE DEF t, new, calls
<1>7. /\ IsSeq(more) /\ Len(more) = n /\ more[k] = new
      /\ \A j \in 1 .. n : j # k => more[j] = calls[j]
  BY <1>1, SeqUpdate
<1> HIDE DEF more, n
<1>8. ASSUME NEW j \in 1 .. n
      PROVE  /\ DOMAIN more[j] = {"block", "id", "named", "pending", "started"}
             /\ more[j].block = calls[j].block /\ more[j].started = calls[j].started
  <2>1. CASE j = k
    BY <1>6, <1>7, <2>1
  <2>2. CASE j # k
    BY <1>2, <1>7, <2>2
  <2> QED
    BY <2>1, <2>2
<1>9. /\ \A x \in DOMAIN byIndex : byIndex[x] \in 1 .. n
      /\ \A x \in DOMAIN byID : byID[x] \in 1 .. n
  BY <1>0, <1>1 DEF Put, IsTools, n, calls
<1> HIDE DEF byIndex, byID
<1>10. IsTools(t.tools)
  <2>1. DOMAIN t.tools = {"calls", "base", "byIndex", "byID"}
    BY <1>0, <1>3 DEF IsTools
  <2>2. \A j \in 1 .. n : /\ DOMAIN more[j] = {"block", "id", "named", "pending", "started"}
                          /\ more[j].block = s.tools.base + j - 1 /\ more[j].started \in BOOLEAN
    BY <1>2, <1>8
  <2> QED
    BY <1>1, <1>3, <1>4, <1>5, <1>7, <1>9, <2>1, <2>2 DEF IsTools
<1>11. IsState(t)
  BY <1>0, <1>3, <1>10 DEF IsState
<1>12. InStep(t, w)
  <2>1. Free(t) = Free(s) /\ Kind(t) = Kind(s) /\ t.last = s.last
    BY <1>3, <1>5, <1>7 DEF Free, Kind, n, calls
  <2>2. \A i : Opened(t, i) <=> Opened(s, i)
    BY <1>3, <1>5, <1>7, <1>8 DEF Opened, n, calls
  <2> QED
    BY <1>0, <1>3, <2>1, <2>2 DEF InStep
<1> QED
  BY <1>3, <1>5, <1>7, <1>11, <1>12 DEF Wired, InGroup, t, n, calls

LEMMA ToolSends ==
    ASSUME NEW s, NEW w0, Wired(s, w0), s.last = "tools", NEW k \in 1 .. Len(s.tools.calls), NEW f
    PROVE  LET t == ToClaude!Send(s, k, f) IN
           Wired(t, w0) /\ InGroup(t, s)
<1> DEFINE tool == s.tools.calls[k]
           args == [n \in 1 .. f.args |-> f.call]
           b == tool.block
           w == After(w0, s.out)
           e == Delta(b, "input_json_delta", args)
           v == Receive(w, e)
           t == ToClaude!Send(s, k, f)
<1>0. IsState(s) /\ InStep(s, w) /\ IsClient(w) /\ w.phase = "open"
  BY DEF Wired, InStep
<1>1. CASE ~tool.started /\ tool.id # NoId /\ tool.named
  <2>1. t = ToClaude!StartTool(s, k)
    BY <1>1 DEF ToClaude!Send
  <2>2. Wired(t, w0) /\ SameGroup(t, s)
    BY <1>1, <2>1, ToolStarts
  <2> QED
    BY <2>2 DEF SameGroup, InGroup
<1>2. CASE tool.started /\ f.args > 0
  <2>1. t = ToClaude!Emit(s, <<e>>)
    BY <1>2 DEF ToClaude!Send, Delta, ToClaude!Delta
  <2> HIDE DEF t, e
  <2>2. IsState(t) /\ SameView(t, s) /\ SameRest(t, s) /\ After(w0, t.out) = v
    BY <1>0, <2>1, EmittedOne
  <2>3. Opened(s, b) /\ Kind(s) = "tool_use"
    BY <1>2 DEF Opened, Kind
  <2>4. b \in DOMAIN w.blocks /\ w.blocks[b].open /\ w.blocks[b].kind = "tool_use"
    BY <1>0, <2>3 DEF InStep
  <2>5. "input_json_delta" \in DeltasOf(w.blocks[b].kind)
    BY <2>4 DEF DeltasOf
  <2> HIDE DEF b, args, w
  <2>6. /\ IsClient(v) /\ v.phase = "open"
        /\ DOMAIN v.blocks = DOMAIN w.blocks
        /\ v.blocks[b].open /\ v.blocks[b].kind = w.blocks[b].kind
        /\ SameBlocks(v, w, b)
    BY <1>0, <2>4, <2>5, ReadDelta DEF e
  <2> HIDE DEF v
  <2>7. ASSUME NEW i \in DOMAIN w.blocks
        PROVE  (v.blocks[i].open <=> w.blocks[i].open) /\ v.blocks[i].kind = w.blocks[i].kind
    <3>1. CASE i = b
      BY <2>4, <2>6, <3>1
    <3>2. CASE i # b
      BY <2>6, <3>2 DEF SameBlocks
    <3> QED
      BY <3>1, <3>2
  <2>8. InStep(s, v)
    BY <1>0, <2>6, <2>7 DEF InStep
  <2>9. InStep(t, v)
    BY <2>2, <2>8, SameViewInStep
  <2> QED
    BY <2>2, <2>9 DEF Wired, SameView, InGroup, t
<1>3. CASE ~(~tool.started /\ tool.id # NoId /\ tool.named) /\ ~(tool.started /\ f.args > 0)
  <2>1. t = s
    BY <1>3 DEF ToClaude!Send
  <2> QED
    BY <2>1 DEF InGroup, SameRest
<1> QED
  BY <1>1, <1>2, <1>3

LEMMA FragmentTaken ==
    ASSUME NEW s, NEW w0, Wired(s, w0), s.last = "tools", NEW f, NEW i
    PROVE  LET t == ToClaude!ToolFragment(s, f, i) IN
           Wired(t, w0) /\ InGroup(t, s)
<1> DEFINE index == IF f.index = NoIndex THEN i - 1 ELSE f.index
           k == ToClaude!FindTool(s, index, f.id)
           n == Len(s.tools.calls)
           t == ToClaude!ToolFragment(s, f, i)
<1>1. IsState(s) /\ n \in Nat
  BY SeqFacts DEF Wired, IsState, IsTools
<1>2. ASSUME NEW u, Wired(u, w0), InGroup(u, s), NEW j \in 1 .. Len(u.tools.calls)
      PROVE  LET x == ToClaude!TakeFragment(u, j, f, index) IN Wired(x, w0) /\ InGroup(x, s)
  <2> DEFINE l == ToClaude!Learn(u, j, f, index)
             x == ToClaude!Send(l, j, f)
  <2>1. x = ToClaude!TakeFragment(u, j, f, index)
    BY DEF ToClaude!TakeFragment
  <2>2. u.last = "tools"
    BY <1>2 DEF InGroup
  <2> HIDE DEF index
  <2>3. Wired(l, w0) /\ InGroup(l, u) /\ Len(l.tools.calls) = Len(u.tools.calls)
    BY <1>2, <2>2, ToolLearned
  <2>4. l.last = "tools"
    BY <2>3 DEF InGroup
  <2> HIDE DEF l
  <2>5. Wired(x, w0) /\ InGroup(x, l)
    BY <2>3, <2>4, ToolSends
  <2>6. InGroup(x, s)
    BY <1>2, <2>3, <2>5 DEF InGroup, SameRest
  <2> QED
    BY <2>1, <2>5, <2>6
<1>3. k \in 0 .. n
  BY <1>1, ToolFound
<1>4. CASE k = 0
  <2> DEFINE u == ToClaude!NewTool(s)
  <2>1. t = ToClaude!TakeFragment(u, n + 1, f, index)
    BY <1>4 DEF ToClaude!ToolFragment
  <2>2. Wired(u, w0) /\ InGroup(u, s) /\ Len(u.tools.calls) = n + 1
    BY ToolAdded
  <2> HIDE DEF u, t, index, n
  <2>3. n + 1 \in 1 .. Len(u.tools.calls)
    BY <1>1, <2>2
  <2> QED
    BY <1>2, <2>1, <2>2, <2>3 DEF t
<1>5. CASE k # 0
  <2>1. t = ToClaude!TakeFragment(s, k, f, index)
    BY <1>5 DEF ToClaude!ToolFragment
  <2>2. InGroup(s, s)
    BY DEF InGroup, SameRest
  <2>3. k \in 1 .. Len(s.tools.calls)
    BY <1>1, <1>3, <1>5
  <2> HIDE DEF k, t, index
  <2> QED
    BY <1>2, <2>1, <2>2, <2>3 DEF t
<1> QED
  BY <1>4, <1>5

\* The index of a group of tools is not used before it closes.
LEMMA GroupIndex ==
    ASSUME NEW s, NEW w0, Wired(s, w0), s.last = "tools"
    PROVE  LET t == ToClaude!AtLastTool(s) IN
           Wired(t, w0) /\ InGroup(t, s)
<1> DEFINE t == ToClaude!AtLastTool(s)
           w == After(w0, s.out)
<1>0. IsState(s) /\ InStep(s, w)
  BY DEF Wired
<1>1. /\ DOMAIN t = DOMAIN s /\ t.last = "tools" /\ t.out = s.out /\ t.tools = s.tools
      /\ SameRest(t, s)
  BY <1>0 DEF ToClaude!AtLastTool, IsState, SameRest
<1> HIDE DEF t
<1>2. IsState(t)
  BY <1>0, <1>1 DEF IsState
<1>3. Free(t) = Free(s) /\ Kind(t) = Kind(s) /\ \A i : Opened(t, i) <=> Opened(s, i)
  BY <1>1 DEF Free, Kind, Opened
<1>4. InStep(t, w)
  BY <1>0, <1>1, <1>3 DEF InStep
<1> QED
  BY <1>1, <1>2, <1>4 DEF Wired, InGroup, t

Calling == INSTANCE Counting WITH FoldStep <- LAMBDA fs, s, k : ToClaude!ToolFragment(s, fs[k], k)

LEMMA CallsTaken ==
    ASSUME NEW s, NEW w0, Wired(s, w0), NEW fs, Len(fs) \in Nat
    PROVE  LET t == ToClaude!ToolCalls(s, fs) IN
           Wired(t, w0) /\ SameRest(t, s)
<1> DEFINE o  == IF s.last = "tools" THEN s ELSE ToClaude!OpenGroup(ToClaude!CloseAndAdvance(s))
           n  == Len(fs)
           ks == Positions(fs)
           r  == Calling!Folded(fs, o, ks)
           t  == ToClaude!ToolCalls(s, fs)
<1>1. Wired(o, w0) /\ InGroup(o, s)
  <2>1. CASE s.last = "tools"
    BY <2>1 DEF InGroup, SameRest
  <2>2. CASE s.last # "tools"
    <3> DEFINE c == ToClaude!CloseAndAdvance(s)
    <3>1. Wired(c, w0) /\ c.last = "none" /\ SameRest(c, s)
      BY BlocksPassed
    <3> HIDE DEF c
    <3>2. Wired(ToClaude!OpenGroup(c), w0) /\ InGroup(ToClaude!OpenGroup(c), c)
      BY <3>1, GroupOpens
    <3> QED
      BY <2>2, <3>1, <3>2 DEF InGroup, SameRest, c
  <2> QED
    BY <2>1, <2>2
<1>2. t = ToClaude!AtLastTool(r)
  BY DEF ToClaude!ToolCalls, ToClaude!Positions, Positions, ToClaude!FoldLeft, ToClaude!MapThenFoldSet,
         ToClaude!Max, Calling!Folded, Calling!F!MapThenFoldSet, Calling!Highest
<1>3. n \in Nat /\ ks \in Seq(Nat) /\ Len(ks) = n /\ \A k \in 1 .. n : ks[k] = k
  BY SeqPositions
<1> HIDE DEF ks, n, o
<1>4. PICK g : Calling!FoldChain(g, n, fs, o, ks) /\ r = g[n]
  BY <1>3, Calling!FoldedChain
<1> HIDE DEF r
<1> DEFINE P == {k \in 0 .. n : Wired(g[k], w0) /\ InGroup(g[k], s)}
<1>5. 0 \in P
  BY <1>1, <1>3, <1>4 DEF Calling!FoldChain
<1>6. ASSUME NEW k \in Nat, k < n, k \in P
      PROVE  k + 1 \in P
  <2>1. k + 1 \in 1 .. n /\ (k + 1) - 1 = k
    BY <1>3, <1>6
  <2>2. g[k + 1] = ToClaude!ToolFragment(g[k], fs[k + 1], k + 1)
    BY <1>3, <1>4, <2>1, Zenon DEF Calling!FoldChain
  <2>3. Wired(g[k], w0) /\ InGroup(g[k], s) /\ g[k].last = "tools"
    BY <1>6 DEF InGroup
  <2>4. Wired(g[k + 1], w0) /\ InGroup(g[k + 1], g[k])
    BY <2>2, <2>3, FragmentTaken
  <2>5. InGroup(g[k + 1], s)
    BY <2>3, <2>4 DEF InGroup, SameRest
  <2> QED
    BY <2>1, <2>4, <2>5
<1>7. 0 .. n \subseteq P
  <2> HIDE DEF P
  <2> QED
    BY <1>3, <1>5, <1>6, Calling!CountingUp, Zenon
<1>8. Wired(r, w0) /\ InGroup(r, s) /\ r.last = "tools"
  BY <1>3, <1>4, <1>7 DEF InGroup
<1>9. Wired(t, w0) /\ InGroup(t, r)
  BY <1>2, <1>8, GroupIndex
<1> QED
  BY <1>8, <1>9 DEF InGroup, SameRest, t

-----------------------------------------------------------------------------
(* A chunk, and the end.                                                   *)

IsChunk(chunk) == Len(chunk.calls) \in Nat

LEMMA ChoiceTaken ==
    ASSUME NEW s, NEW w0, Wired(s, w0), NEW chunk, IsChunk(chunk)
    PROVE  LET t == ToClaude!Choice(s, chunk) IN
           Wired(t, w0) /\ SameRest(t, s)
<1> DEFINE b == ToClaude!Body(s, chunk)
           t == ToClaude!Choice(s, chunk)
<1>1. Wired(b, w0) /\ SameRest(b, s)
  <2>1. CASE chunk.calls # << >>
    <3>1. b = ToClaude!ToolCalls(s, chunk.calls)
      BY <2>1 DEF ToClaude!Body
    <3> QED
      BY <3>1, CallsTaken DEF IsChunk
  <2>2. CASE chunk.calls = << >> /\ chunk.reasoning
    <3>1. b = ToClaude!Content(s, "thinking", "thinking_delta")
      BY <2>2 DEF ToClaude!Body
    <3>2. "thinking_delta" \in DeltasOf("thinking")
      BY DEF DeltasOf
    <3> QED
      BY <3>1, <3>2, ContentSent
  <2>3. CASE chunk.calls = << >> /\ ~chunk.reasoning /\ chunk.text
    <3>1. b = ToClaude!Content(s, "text", "text_delta")
      BY <2>3 DEF ToClaude!Body
    <3>2. "text_delta" \in DeltasOf("text")
      BY DEF DeltasOf
    <3> QED
      BY <3>1, <3>2, ContentSent
  <2>4. CASE chunk.calls = << >> /\ ~chunk.reasoning /\ ~chunk.text
    <3>1. b = s
      BY <2>4 DEF ToClaude!Body
    <3> QED
      BY <3>1 DEF SameRest
  <2> QED
    BY <2>1, <2>2, <2>3, <2>4
<1>2. t = ToClaude!Cite(b, chunk)
  BY DEF ToClaude!Choice
<1> HIDE DEF b
<1>3. CASE chunk.cites = "some"
  <2>1. t = ToClaude!Content(b, "text", "citations_delta")
    BY <1>2, <1>3 DEF ToClaude!Cite
  <2>2. "citations_delta" \in DeltasOf("text")
    BY DEF DeltasOf
  <2>3. Wired(t, w0) /\ SameRest(t, b)
    BY <1>1, <2>1, <2>2, ContentSent
  <2> QED
    BY <1>1, <2>3 DEF SameRest
<1>4. CASE chunk.cites # "some"
  <2>1. t = b
    BY <1>2, <1>4 DEF ToClaude!Cite
  <2> QED
    BY <1>1, <2>1
<1> QED
  BY <1>3, <1>4

\* How a message ends: with the upstream's reason, when it has given one.
Ending(s) == IF s.reason = "none" THEN "stop" ELSE s.reason

\* What the end leaves behind: a message that has stopped.
Over(t, w) ==
    IsState(t) /\ t.done = TRUE /\ IsClient(w) /\ w.phase = "stopped" /\ w.reason = Ending(t)

LEMMA MessageTerminates ==
    ASSUME NEW s, NEW w0, Wired(s, w0), NEW usage
    PROVE  LET t == ToClaude!Terminate(s, usage) IN
           /\ Over(t, After(w0, t.out)) /\ t.sent = s.sent /\ t.error = s.error
           /\ t.reason = s.reason /\ t.usage = MergeUsageNonZero(s.usage, usage)
<1> DEFINE c == ToClaude!CloseBlocks(s)
           merged == MergeUsageNonZero(s.usage, usage)
           reason == Ending(s)
           d == MessageDelta(merged, reason)
           x == ToClaude!Emit(c, <<d, MessageStop>>)
           t == ToClaude!Terminate(s, usage)
           w == After(w0, c.out)
           v == After(w0, x.out)
<1>1. t = [x EXCEPT !.usage = merged, !.done = TRUE]
  BY DEF ToClaude!Terminate, MergeUsageNonZero, ToClaude!MergeUsageNonZero, MessageDelta, ToClaude!MessageDelta,
         MessageStop, ToClaude!MessageStop, Ending
<1>2. IsState(c) /\ SameRest(c, s) /\ Closed(s, w)
  BY BlocksClose
<1> HIDE DEF c, d, merged, reason, t
<1>3. /\ IsSeq(<<d>>) /\ IsSeq(<<MessageStop>>)
      /\ <<d, MessageStop>> = <<d>> \o <<MessageStop>>
      /\ IsSeq(<<d, MessageStop>>)
  <2>1. IsSeq(<<d>>) /\ IsSeq(<<MessageStop>>)
    BY SeqOne
  <2>2. <<d, MessageStop>> = <<d>> \o <<MessageStop>>
    OBVIOUS
  <2> QED
    BY <2>1, <2>2, SeqTwo, Zenon
<1>4. IsState(x) /\ SameRest(x, c) /\ v = After(w, <<d, MessageStop>>)
  BY <1>2, <1>3, Emitted
<1>5. v = Receive(Receive(w, d), MessageStop)
  <2> HIDE DEF v, w
  <2>1. v = After(After(w, <<d>>), <<MessageStop>>)
    <3>1. After(w, <<d>> \o <<MessageStop>>) = After(After(w, <<d>>), <<MessageStop>>)
      BY <1>3, AfterMore
    <3>2. After(w, <<d, MessageStop>>) = After(w, <<d>> \o <<MessageStop>>)
      BY <1>3, Zenon
    <3> QED
      BY <1>4, <3>1, <3>2
  <2> QED
    BY <2>1, AfterOne
<1>6. IsClient(v) /\ v.phase = "stopped" /\ v.reason = reason
  <2>1. IsClient(w) /\ w.phase = "open" /\ \A i \in DOMAIN w.blocks : ~w.blocks[i].open
    BY <1>2 DEF Closed
  <2> QED
    BY <1>5, <2>1, ReadEnd DEF d
<1> HIDE DEF x
<1>7. /\ DOMAIN t = DOMAIN x /\ t.out = x.out /\ t.last = x.last /\ t.index = x.index /\ t.tools = x.tools
      /\ t.done = TRUE /\ t.sent = x.sent /\ t.error = x.error /\ t.usage = merged /\ t.reason = x.reason
  BY <1>1, <1>4 DEF IsState
<1>8. IsState(t)
  BY <1>4, <1>7 DEF IsState
<1>9. Over(t, After(w0, t.out)) /\ t.sent = s.sent /\ t.error = s.error /\ t.reason = s.reason
  BY <1>2, <1>4, <1>6, <1>7, <1>8 DEF Over, SameRest, Ending, reason
<1> QED
  BY <1>7, <1>9 DEF t, merged

\* The converter between two calls, and its client.
Idle(s, w) ==
    /\ IsState(s) /\ s.out = << >> /\ s.error = FALSE /\ s.done \in BOOLEAN /\ s.sent \in Nat
    /\ IsClient(w)
    /\ s.sent = 0 => ~s.done /\ s.last = "none" /\ w.phase = "new" /\ DOMAIN w.blocks = {}
    /\ s.sent > 0 /\ ~s.done => InStep(s, w)
    /\ s.done => s.sent > 0 /\ w.phase = "stopped" /\ w.reason = Ending(s)

LEMMA ChunkConverted ==
    ASSUME NEW s, NEW w, Idle(s, w), NEW chunk, IsChunk(chunk)
    PROVE  LET m == Step("ChatToClaude", s, chunk) IN
           /\ m.failed = FALSE /\ IsSeq(m.values)
           /\ m.state.sent > 0 /\ Idle(m.state, After(w, m.values))
           /\ m.state.reason = IF s.done \/ ~chunk.choice \/ chunk.finish = "none" THEN s.reason ELSE chunk.finish
<1> DEFINE n == [s EXCEPT !.sent = @ + 1]
           t == ToClaude!Convert(n, chunk)
           m == Step("ChatToClaude", s, chunk)
<1>1. m = Made(t, chunk.usage)
  BY DEF Step
<1>2. /\ DOMAIN n = DOMAIN s /\ n.sent = s.sent + 1 /\ n.out = << >>
      /\ SameView(n, s) /\ n.done = s.done /\ n.error = FALSE /\ n.reason = s.reason
      /\ n.sent \in Nat /\ n.sent > 0
  BY DEF Idle, IsState, SameView
<1> HIDE DEF n
<1>3. IsState(n)
  BY <1>2 DEF Idle, IsState, SameView
<1> DEFINE last == IF s.done \/ ~chunk.choice \/ chunk.finish = "none" THEN s.reason ELSE chunk.finish
<1>4. /\ IsState(t) /\ t.error = FALSE /\ t.sent = n.sent /\ t.done \in BOOLEAN
      /\ IsClient(After(w, t.out))
      /\ ~t.done => InStep(t, After(w, t.out))
      /\ t.done => After(w, t.out).phase = "stopped" /\ After(w, t.out).reason = Ending(t)
      /\ t.reason = last
  <2>1. CASE n.done
    <3>1. t = n
      BY <2>1 DEF ToClaude!Convert
    <3> QED
      BY <1>2, <1>3, <2>1, <3>1, AfterNone, Zenon DEF Idle, Ending
  <2>2. CASE ~n.done
    <3> DEFINE a == ToClaude!Start(n, chunk)
               e == MessageStart(chunk.usage)
               x == ToClaude!Emit(n, <<e>>)
    <3>1. Wired(a, w) /\ a.done = FALSE /\ a.sent = n.sent /\ a.error = FALSE /\ a.reason = s.reason
      <4>1. CASE s.sent = 0
        <5>1. n.sent = 1
          BY <1>2, <4>1
        <5>2. a = [x EXCEPT !.usage = IF HasTokens(chunk.usage) THEN MergeUsageNonZero(@, chunk.usage) ELSE @]
          BY <5>1 DEF ToClaude!Start, MessageStart, ToClaude!MessageStart, HasTokens, ToClaude!HasTokens,
                      MergeUsageNonZero, ToClaude!MergeUsageNonZero
        <5> HIDE DEF a, e
        <5>3. /\ IsState(x) /\ SameView(x, n) /\ SameRest(x, n)
              /\ After(w, x.out) = Receive(w, e)
          <6>1. After(w, n.out) = w
            BY <1>2, AfterNone
          <6> QED
            BY <1>3, <6>1, EmittedOne
        <5>4. IsClient(w) /\ w.phase = "new" /\ DOMAIN w.blocks = {} /\ n.last = "none"
          BY <1>2, <4>1 DEF Idle, SameView
        <5> DEFINE v == Receive(w, e)
        <5>5. IsClient(v) /\ v.phase = "open" /\ v.blocks = w.blocks
          BY <5>4, ReadMessageStart DEF e
        <5> HIDE DEF v, x
        <5>6. /\ DOMAIN a = DOMAIN x /\ a.out = x.out /\ a.last = "none" /\ a.index = x.index /\ a.tools = x.tools
              /\ a.done = n.done /\ a.sent = n.sent /\ a.error = n.error /\ a.reason = n.reason
          BY <5>2, <5>3, <5>4 DEF IsState, SameView, SameRest
        <5>7. IsState(a)
          BY <5>3, <5>4, <5>6 DEF IsState, SameView
        <5>8. \A i : ~Opened(a, i)
          BY <5>6 DEF Opened
        <5>9. InStep(a, v)
          BY <5>4, <5>5, <5>6, <5>8 DEF InStep
        <5> QED
          BY <1>2, <2>2, <5>3, <5>6, <5>7, <5>9 DEF Wired, v, a
      <4>2. CASE s.sent # 0
        <5>1. n.sent # 1
          BY <1>2, <4>2 DEF Idle
        <5>2. a = n
          BY <5>1 DEF ToClaude!Start
        <5>3. InStep(s, w)
          BY <1>2, <2>2, <4>2 DEF Idle
        <5>4. InStep(n, w)
          BY <1>2, <5>3, SameViewInStep
        <5>5. InStep(n, After(w, n.out))
          BY <1>2, <5>4, AfterNone
        <5> QED
          BY <1>2, <1>3, <2>2, <5>2, <5>5 DEF Wired
      <4> QED
        BY <4>1, <4>2, Zenon
    <3> DEFINE f == ToClaude!Finished(a, chunk)
               b == IF chunk.choice THEN ToClaude!Choice(f, chunk) ELSE a
    <3>2. t = ToClaude!TerminateIfDone(b, chunk)
      BY <2>2 DEF ToClaude!Convert
    <3> HIDE DEF a, t
    <3>3. /\ Wired(f, w) /\ f.done = FALSE /\ f.sent = n.sent /\ f.error = FALSE
          /\ f.reason = IF chunk.finish = "none" THEN s.reason ELSE chunk.finish
      <4>1. IsState(a) /\ InStep(a, After(w, a.out))
        BY <3>1 DEF Wired
      <4>2. /\ DOMAIN f = DOMAIN a /\ SameView(f, a) /\ f.out = a.out
            /\ f.done = a.done /\ f.sent = a.sent /\ f.error = a.error
            /\ f.reason = IF chunk.finish = "none" THEN a.reason ELSE chunk.finish
        BY <4>1 DEF ToClaude!Finished, IsState, SameView
      <4> HIDE DEF f
      <4>3. IsState(f)
        BY <4>1, <4>2 DEF IsState, SameView
      <4>4. InStep(f, After(w, f.out))
        BY <4>1, <4>2, SameViewInStep
      <4> QED
        BY <3>1, <4>2, <4>3, <4>4 DEF Wired
    <3> HIDE DEF f
    <3>4. Wired(b, w) /\ b.done = FALSE /\ b.sent = n.sent /\ b.error = FALSE /\ b.reason = last
      <4>1. Wired(ToClaude!Choice(f, chunk), w) /\ SameRest(ToClaude!Choice(f, chunk), f)
        BY <3>3, ChoiceTaken
      <4>2. ~s.done
        BY <1>2, <2>2
      <4> QED
        BY <3>1, <3>3, <4>1, <4>2 DEF SameRest
    <3> HIDE DEF b, last
    <3>5. CASE t = ToClaude!Terminate(b, chunk.usage)
      <4>1. Over(t, After(w, t.out)) /\ t.sent = b.sent /\ t.error = b.error /\ t.reason = b.reason
        BY <3>4, <3>5, MessageTerminates
      <4> QED
        BY <3>4, <4>1, Zenon DEF Over
    <3>6. CASE t = b
      BY <3>4, <3>6, Zenon DEF Wired, InStep
    <3>7. t = ToClaude!Terminate(b, chunk.usage) \/ t = b
      BY <3>2 DEF ToClaude!TerminateIfDone
    <3> QED
      BY <3>5, <3>6, <3>7, Zenon
  <2> QED
    BY <2>1, <2>2, Zenon
<1> DEFINE z == [t EXCEPT !.out = << >>, !.error = FALSE]
<1>5. m.state = z /\ m.values = t.out /\ m.failed = t.error
  BY <1>1 DEF Made
<1> HIDE DEF t, m
<1>6. /\ DOMAIN z = DOMAIN t /\ z.out = << >> /\ z.error = FALSE /\ SameView(z, t)
      /\ z.done = t.done /\ z.sent = t.sent /\ z.reason = t.reason
  BY <1>4 DEF IsState, SameView
<1> HIDE DEF z
<1>7. IsState(z) /\ IsSeq(t.out)
  BY <1>4, <1>6, SeqNone DEF IsState, SameView
<1>8. InStep(z, After(w, t.out)) <=> InStep(t, After(w, t.out))
  BY <1>6, SameViewInStep
<1>9. Idle(z, After(w, t.out))
  <2> DEFINE v == After(w, t.out)
  <2>1. /\ IsClient(v) /\ (~t.done => InStep(z, v))
        /\ t.done => v.phase = "stopped" /\ v.reason = Ending(z)
    BY <1>4, <1>6, <1>8 DEF Ending
  <2> HIDE DEF v
  <2>2. Idle(z, v)
    BY <1>2, <1>4, <1>6, <1>7, <2>1 DEF Idle
  <2> QED
    BY <2>2 DEF v
<1> QED
  BY <1>2, <1>4, <1>5, <1>6, <1>7, <1>9 DEF m

LEMMA ClaudeEnds ==
    ASSUME NEW s, NEW w, Idle(s, w), NEW usage
    PROVE  LET m == EndStep("ChatToClaude", s, usage) IN
           /\ s.sent > 0 => /\ m.failed = FALSE /\ IsSeq(m.values)
                            /\ Idle(m.state, After(w, m.values)) /\ After(w, m.values).phase = "stopped"
                            /\ m.state.done = TRUE /\ m.state.reason = s.reason
<1> SUFFICES ASSUME s.sent > 0
             PROVE  LET m == EndStep("ChatToClaude", s, usage) IN
                    /\ m.failed = FALSE /\ IsSeq(m.values)
                    /\ Idle(m.state, After(w, m.values)) /\ After(w, m.values).phase = "stopped"
                    /\ m.state.done = TRUE /\ m.state.reason = s.reason
  BY Zenon
<1> DEFINE n == [s EXCEPT !.usage = IF @ = NoUsage THEN usage ELSE @]
           t == ToClaude!Finalize(s, usage)
           m == EndStep("ChatToClaude", s, usage)
<1>1. m = Made(t, t.usage)
  BY DEF EndStep, MadeWithUsage
<1>2. /\ IsState(t) /\ t.error = FALSE /\ t.sent = s.sent /\ t.done = TRUE /\ t.reason = s.reason
      /\ IsClient(After(w, t.out)) /\ After(w, t.out).phase = "stopped" /\ After(w, t.out).reason = Ending(t)
  <2>1. CASE s.done
    <3>1. t = s
      BY <2>1 DEF ToClaude!Finalize
    <3> QED
      BY <2>1, <3>1, AfterNone DEF Idle
  <2>2. CASE ~s.done
    <3>1. t = ToClaude!Terminate(n, NoUsage)
      BY <2>2 DEF ToClaude!Finalize
    <3>2. IsState(s) /\ InStep(s, w) /\ s.out = << >> /\ s.error = FALSE
      BY <2>2 DEF Idle
    <3>3. /\ DOMAIN n = DOMAIN s /\ SameView(n, s) /\ n.out = s.out
          /\ n.sent = s.sent /\ n.error = s.error /\ n.reason = s.reason
      BY <3>2 DEF IsState, SameView
    <3> HIDE DEF n, t
    <3>4. IsState(n)
      BY <3>2, <3>3 DEF IsState, SameView
    <3>5. InStep(n, After(w, n.out))
      BY <3>2, <3>3, AfterNone, SameViewInStep
    <3>6. Over(t, After(w, t.out)) /\ t.sent = n.sent /\ t.error = n.error /\ t.reason = n.reason
      BY <3>1, <3>4, <3>5, MessageTerminates DEF Wired
    <3> QED
      BY <3>2, <3>3, <3>6 DEF Over
  <2> QED
    BY <2>1, <2>2, Zenon
<1> DEFINE z == [t EXCEPT !.out = << >>, !.error = FALSE]
<1>3. m.state = z /\ m.values = t.out /\ m.failed = t.error
  BY <1>1 DEF Made
<1> HIDE DEF t, m
<1>4. /\ DOMAIN z = DOMAIN t /\ z.out = << >> /\ z.error = FALSE /\ SameView(z, t)
      /\ z.done = t.done /\ z.sent = t.sent /\ z.reason = t.reason
  BY <1>2 DEF IsState, SameView
<1> HIDE DEF z
<1>5. IsState(z) /\ IsSeq(t.out)
  BY <1>2, <1>4, SeqNone DEF IsState, SameView
<1>6. Idle(z, After(w, t.out))
  <2>1. z.sent \in Nat /\ z.sent > 0 /\ z.done = TRUE
    BY <1>2, <1>4 DEF Idle
  <2> DEFINE v == After(w, t.out)
  <2>2. IsClient(v) /\ v.phase = "stopped" /\ v.reason = Ending(z)
    BY <1>2, <1>4 DEF Ending
  <2> HIDE DEF v
  <2>3. Idle(z, v)
    <3>1. z.done \in BOOLEAN /\ z.done
      BY <2>1, Zenon
    <3>2. ~(z.sent = 0)
      BY <2>1
    <3>3. z.out = << >> /\ z.error = FALSE /\ z.sent \in Nat /\ z.sent > 0 /\ IsState(z)
      BY <1>4, <1>5, <2>1
    <3> QED
      BY <2>2, <3>1, <3>2, <3>3, Zenon DEF Idle
  <2> QED
    BY <2>3 DEF v
<1> QED
  BY <1>2, <1>3, <1>4, <1>5, <1>6 DEF m

-----------------------------------------------------------------------------
(* Values through the steps of a route.                                    *)

IsRun(r) ==
    /\ DOMAIN r = {"states", "values", "billed", "failed"}
    /\ IsSeq(r.values) /\ DOMAIN r.states = DOMAIN route /\ r.failed \in BOOLEAN

AreChunks(values) == \A k \in 1 .. Len(values) : IsChunk(values[k])

\* The states of all converters but the i-th are the same.
OthersSame(t, r, i) == \A j \in DOMAIN route \ {i} : t.states[j] = r.states[j]

LEMMA Joined ==
    ASSUME NEW r, IsRun(r), NEW i \in DOMAIN route, NEW m, IsSeq(m.values), m.failed \in BOOLEAN
    PROVE  LET t == Join(r, i, m) IN
           /\ IsRun(t) /\ OthersSame(t, r, i) /\ t.states[i] = m.state
           /\ t.values = r.values \o m.values /\ t.failed = m.failed
<1> DEFINE t == Join(r, i, m)
<1>1. /\ DOMAIN t = {"states", "values", "billed", "failed"}
      /\ t.states = [r.states EXCEPT ![i] = m.state]
      /\ t.values = r.values \o m.values /\ t.failed = m.failed
  BY Zenon DEF Join
<1> HIDE DEF t
<1>2. DOMAIN t.states = DOMAIN route /\ t.states[i] = m.state /\ OthersSame(t, r, i)
  BY <1>1 DEF IsRun, OthersSame
<1>3. IsSeq(r.values \o m.values)
  BY SeqTwo, Zenon DEF IsRun
<1> QED
  BY <1>1, <1>2, <1>3 DEF IsRun, t

Stepping == INSTANCE Counting
                WITH FoldStep <- LAMBDA i, t, v : IF t.failed THEN t ELSE Join(t, i, Step(route[i], t.states[i], v))

\* Step i of a route to Claude takes any number of chunks.
LEMMA ValuesConverted ==
    ASSUME NEW r, IsRun(r), r.failed = FALSE, AreChunks(r.values),
           NEW i \in DOMAIN route, route[i] = "ChatToClaude",
           NEW w, Idle(r.states[i], w)
    PROVE  LET t == StepAll(r, i) IN
           /\ IsRun(t) /\ t.failed = FALSE /\ OthersSame(t, r, i)
           /\ Idle(t.states[i], After(w, t.values))
           /\ r.states[i].sent > 0 \/ Len(r.values) > 0 => t.states[i].sent > 0
<1> DEFINE n == Len(r.values)
           o == [r EXCEPT !.values = << >>]
           t == Stepping!Folded(i, o, r.values)
           Good(k, x) ==
              /\ IsRun(x) /\ x.failed = FALSE /\ OthersSame(x, r, i)
              /\ Idle(x.states[i], After(w, x.values))
              /\ r.states[i].sent > 0 \/ k > 0 => x.states[i].sent > 0
<1>1. StepAll(r, i) = t
  BY DEF StepAll, FoldLeft, MapThenFoldSet, Max, Stepping!Folded, Stepping!F!MapThenFoldSet,
         Stepping!Highest
<1>2. n \in Nat /\ IsSeq(r.values)
  BY SeqFacts DEF IsRun
<1>3. Good(0, o)
  <2>1. /\ DOMAIN o = {"states", "values", "billed", "failed"} /\ o.values = << >>
        /\ o.states = r.states /\ o.failed = FALSE
    BY DEF IsRun
  <2> HIDE DEF o
  <2>2. IsRun(o) /\ OthersSame(o, r, i)
    BY <2>1, SeqNone, Zenon DEF IsRun, OthersSame
  <2>3. After(w, o.values) = w
    BY <2>1, AfterNone
  <2> QED
    BY <2>1, <2>2, <2>3
<1> HIDE DEF o, n
<1>4. PICK g : Stepping!FoldChain(g, n, i, o, r.values) /\ t = g[n]
  BY <1>2, Stepping!FoldedChain DEF IsSeq, n
<1> HIDE DEF t
<1> DEFINE P == {k \in 0 .. n : Good(k, g[k])}
<1>5. 0 \in P
  BY <1>2, <1>3, <1>4 DEF Stepping!FoldChain
<1>6. ASSUME NEW k \in Nat, k < n, k \in P
      PROVE  k + 1 \in P
  <2> DEFINE x == g[k]
             c == r.values[k + 1]
             m == Step("ChatToClaude", x.states[i], c)
             y == Join(x, i, m)
  <2>1. k + 1 \in 1 .. n /\ (k + 1) - 1 = k
    BY <1>2, <1>6
  <2>2. Good(k, x)
    BY <1>6
  <2>3. g[k + 1] = y
    <3>1. g[k + 1] = IF x.failed THEN x ELSE Join(x, i, Step(route[i], x.states[i], c))
      BY <1>4, <2>1, Zenon DEF Stepping!FoldChain
    <3> QED
      BY <2>2, <3>1
  <2>4. IsChunk(c)
    BY <2>1 DEF AreChunks, n
  <2> HIDE DEF c
  <2>5. /\ m.failed = FALSE /\ IsSeq(m.values)
        /\ m.state.sent > 0 /\ Idle(m.state, After(After(w, x.values), m.values))
    BY <2>2, <2>4, ChunkConverted, Zenon
  <2> HIDE DEF m, x
  <2>6. /\ IsRun(y) /\ OthersSame(y, x, i) /\ y.states[i] = m.state
        /\ y.values = x.values \o m.values /\ y.failed = FALSE
    <3>1. IsRun(x) /\ IsSeq(m.values) /\ m.failed \in BOOLEAN /\ m.failed = FALSE
      BY <2>2, <2>5, Zenon
    <3>2. /\ IsRun(y) /\ OthersSame(y, x, i) /\ y.states[i] = m.state
          /\ y.values = x.values \o m.values /\ y.failed = m.failed
      BY <3>1, Joined, Zenon
    <3> HIDE DEF y
    <3> QED
      BY <3>1, <3>2
  <2> HIDE DEF y
  <2>7. After(w, y.values) = After(After(w, x.values), m.values)
    BY <2>2, <2>5, <2>6, AfterMore DEF IsRun
  <2>8. OthersSame(y, r, i)
    BY <2>2, <2>6 DEF OthersSame
  <2>9. Good(k + 1, y)
    BY <2>5, <2>6, <2>7, <2>8
  <2> QED
    BY <2>1, <2>3, <2>9
<1>7. 0 .. n \subseteq P
  <2> HIDE DEF P
  <2> QED
    BY <1>2, <1>5, <1>6, Stepping!CountingUp
<1>8. Good(n, t)
  BY <1>2, <1>4, <1>7
<1> QED
  BY <1>1, <1>8 DEF n

-----------------------------------------------------------------------------
(* The converter of Gemini chunks.                                         *)

ArePartsListed(parts) ==
    /\ IsSeq(parts)
    /\ \A k \in 1 .. Len(parts) : parts[k].kind \in {"call", "partial"} => IsSeq(parts[k].args)

IsPartial(p) ==
    \/ p = FromGemini!NoPartial
    \/ p.on = TRUE /\ IsSeq(p.args)

\* A conversion that fails has a call in hand that is not complete.
IsPrepared(r) ==
    /\ DOMAIN r = {"partial", "parts", "error"}
    /\ IsPartial(r.partial) /\ ArePartsListed(r.parts)
    /\ r.error \in BOOLEAN /\ (r.error => r.partial.on = TRUE)

LEMMA PartAppended ==
    ASSUME NEW parts, ArePartsListed(parts), NEW part,
           part.kind \in {"call", "partial"} => IsSeq(part.args)
    PROVE  ArePartsListed(Append(parts, part))
<1> DEFINE more == Append(parts, part)
           n == Len(parts)
<1>1. IsSeq(more) /\ Len(more) = n + 1 /\ n \in Nat
      /\ more[n + 1] = part /\ \A k \in 1 .. n : more[k] = parts[k]
  BY SeqAppend, SeqFacts DEF ArePartsListed
<1>2. \A k \in 1 .. n + 1 : k = n + 1 \/ k \in 1 .. n
  BY <1>1
<1>3. \A k \in 1 .. n : parts[k].kind \in {"call", "partial"} => IsSeq(parts[k].args)
  BY DEF ArePartsListed
<1> HIDE DEF more, n
<1>4. \A k \in 1 .. n + 1 : more[k].kind \in {"call", "partial"} => IsSeq(more[k].args)
  BY <1>1, <1>2, <1>3
<1> QED
  BY <1>1, <1>4 DEF ArePartsListed, more

LEMMA PartPrepared ==
    ASSUME NEW r, IsPrepared(r), NEW part, part.kind \in {"call", "partial"} => IsSeq(part.args)
    PROVE  IsPrepared(FromGemini!PreparePart(r, part))
<1> DEFINE t == FromGemini!PreparePart(r, part)
           p == FromGemini!Grown(r.partial, part)
           held == ~(part.kind \in {"text", "thought"} \/ (part.kind = "call" /\ ~r.partial.on))
<1>0. /\ DOMAIN r = {"partial", "parts", "error"}
      /\ IsPartial(r.partial) /\ ArePartsListed(r.parts) /\ r.error \in BOOLEAN
  BY DEF IsPrepared
<1>1. CASE r.error
  <2>1. t = r
    BY <1>1 DEF FromGemini!PreparePart
  <2> QED
    BY <2>1
<1>2. CASE ~r.error /\ ~held
  <2>1. t = [r EXCEPT !.parts = Append(@, part)]
    BY <1>2 DEF FromGemini!PreparePart
  <2> HIDE DEF t
  <2>2. /\ DOMAIN t = DOMAIN r /\ t.parts = Append(r.parts, part)
        /\ t.partial = r.partial /\ t.error = r.error
    BY <1>0, <2>1
  <2>3. ArePartsListed(t.parts)
    BY <1>0, <2>2, PartAppended
  <2> QED
    BY <1>0, <1>2, <2>2, <2>3 DEF IsPrepared, t
<1>3. CASE ~r.error /\ held /\ FromGemini!Clashes(r.partial, part)
  <2>1. t = [r EXCEPT !.error = TRUE]
    BY <1>3 DEF FromGemini!PreparePart
  <2>2. r.partial # FromGemini!NoPartial
    BY <1>3 DEF FromGemini!Clashes, FromGemini!NoPartial
  <2>3. r.partial.on = TRUE
    BY <1>0, <2>2 DEF IsPartial
  <2> HIDE DEF t
  <2>4. /\ DOMAIN t = DOMAIN r /\ t.parts = r.parts
        /\ t.partial = r.partial /\ t.error = TRUE
    BY <1>0, <2>1
  <2> QED
    BY <1>0, <2>3, <2>4, Zenon DEF IsPrepared, t
<1>4. CASE ~r.error /\ held /\ ~FromGemini!Clashes(r.partial, part)
  <2>1. t = FromGemini!Prepared(r, p, part)
    BY <1>4 DEF FromGemini!PreparePart
  <2>2. p.on = TRUE /\ IsSeq(p.args)
    <3>1. IsSeq(r.partial.args)
      <4>1. FromGemini!NoPartial.args = << >>
        BY DEF FromGemini!NoPartial
      <4> QED
        BY <1>0, <4>1, SeqNone DEF IsPartial
    <3>2. p.on = TRUE /\ p.args = IF part.kind = "partial" THEN r.partial.args \o part.args ELSE r.partial.args
      BY DEF FromGemini!Grown
    <3> HIDE DEF p
    <3>3. CASE part.kind = "partial"
      BY <3>1, <3>2, <3>3, SeqTwo, Zenon
    <3>4. CASE part.kind # "partial"
      BY <3>1, <3>2, <3>4
    <3> QED
      BY <3>3, <3>4, Zenon
  <2> HIDE DEF p, held
  <2>3. CASE FromGemini!More(part) \/ (~FromGemini!More(part) /\ p.name = NoId)
    <3>1. t \in {[r EXCEPT !.partial = p], [r EXCEPT !.partial = p, !.error = TRUE]}
      BY <2>1, <2>3 DEF FromGemini!Prepared
    <3> HIDE DEF t
    <3>2. /\ DOMAIN t = DOMAIN r /\ t.parts = r.parts
          /\ t.partial = p /\ t.error \in BOOLEAN
      BY <1>0, <3>1, Zenon
    <3> QED
      BY <1>0, <2>2, <3>2 DEF IsPrepared, IsPartial, t
  <2>4. CASE ~FromGemini!More(part) /\ p.name # NoId
    <3> DEFINE c == FromGemini!Call(p.call, p.id, p.name, p.args)
    <3>1. t = [r EXCEPT !.partial = FromGemini!NoPartial, !.parts = Append(@, c)]
      BY <2>1, <2>4 DEF FromGemini!Prepared
    <3> HIDE DEF t
    <3>2. IsSeq(c.args)
      BY <2>2 DEF FromGemini!Call
    <3> HIDE DEF c
    <3>3. /\ DOMAIN t = DOMAIN r /\ t.parts = Append(r.parts, c)
          /\ t.partial = FromGemini!NoPartial /\ t.error = r.error
      BY <1>0, <3>1
    <3>4. ArePartsListed(t.parts)
      BY <1>0, <3>2, <3>3, PartAppended
    <3> QED
      BY <1>0, <1>4, <3>3, <3>4 DEF IsPrepared, IsPartial, t
  <2> QED
    BY <2>3, <2>4
<1> QED
  BY <1>0, <1>1, <1>2, <1>3, <1>4

Preparing == INSTANCE Counting WITH FoldStep <- LAMBDA p, r, part : FromGemini!PreparePart(r, part)

\* A chunk of an upstream, or one whose partial calls have been prepared.
LEMMA PartsPrepared ==
    ASSUME NEW s, IsPartial(s.partial), NEW chunk, ArePartsListed(chunk.parts)
    PROVE  IsPrepared(FromGemini!Prepare(s, chunk))
<1> DEFINE o == [partial |-> s.partial, parts |-> << >>, error |-> FALSE]
           n == Len(chunk.parts)
           r == Preparing!Folded(0, o, chunk.parts)
<1>1. FromGemini!Prepare(s, chunk) = r
  BY DEF FromGemini!Prepare, FromGemini!FoldLeft, FromGemini!MapThenFoldSet, FromGemini!Max,
         Preparing!Folded, Preparing!F!MapThenFoldSet, Preparing!Highest
<1>2. IsSeq(chunk.parts) /\ n \in Nat
  BY SeqFacts DEF ArePartsListed
<1>3. IsPrepared(o)
  <2>1. ArePartsListed(<< >>)
    BY SeqNone DEF ArePartsListed
  <2>2. /\ DOMAIN o = {"partial", "parts", "error"} /\ o.partial = s.partial
        /\ o.parts = << >> /\ o.error = FALSE
    OBVIOUS
  <2> QED
    BY <2>1, <2>2 DEF IsPrepared
<1> HIDE DEF o, n
<1>4. PICK g : Preparing!FoldChain(g, n, 0, o, chunk.parts) /\ r = g[n]
  BY <1>2, Preparing!FoldedChain, Zenon DEF IsSeq, n
<1> HIDE DEF r
<1> DEFINE P == {k \in 0 .. n : IsPrepared(g[k])}
<1>5. 0 \in P
  BY <1>2, <1>3, <1>4 DEF Preparing!FoldChain
<1>6. ASSUME NEW k \in Nat, k < n, k \in P
      PROVE  k + 1 \in P
  <2>1. k + 1 \in 1 .. n /\ (k + 1) - 1 = k
    BY <1>2, <1>6
  <2>2. g[k + 1] = FromGemini!PreparePart(g[k], chunk.parts[k + 1])
    BY <1>4, <2>1, Zenon DEF Preparing!FoldChain
  <2>3. chunk.parts[k + 1].kind \in {"call", "partial"} => IsSeq(chunk.parts[k + 1].args)
    BY <2>1 DEF ArePartsListed, n
  <2>4. IsPrepared(g[k])
    BY <1>6
  <2>5. IsPrepared(g[k + 1])
    BY <2>2, <2>3, <2>4, PartPrepared
  <2> QED
    BY <2>1, <2>5
<1>7. 0 .. n \subseteq P
  <2> HIDE DEF P
  <2> QED
    BY <1>2, <1>5, <1>6, Preparing!CountingUp
<1> QED
  BY <1>1, <1>2, <1>4, <1>7

LEMMA CallNumbered ==
    ASSUME NEW t, DOMAIN t = {"indexes", "next", "calls"}, IsSeq(t.calls), NEW part, IsSeq(part.args)
    PROVE  LET u == FromGemini!Numbered(t, part) IN
           DOMAIN u = {"indexes", "next", "calls"} /\ IsSeq(u.calls)
<1> DEFINE id == IF part.id = NoId THEN <<"made", t.next>> ELSE part.id
           index == IF id \in DOMAIN t.indexes THEN t.indexes[id] ELSE t.next
           fs == FromGemini!Fragments(index, id, part.name, part.args)
           u == FromGemini!Numbered(t, part)
<1>1. DOMAIN u = DOMAIN t /\ u.calls = t.calls \o fs
  BY DEF FromGemini!Numbered
<1>2. IsSeq(fs)
  <2>1. CASE part.args = << >>
    <3>1. fs = <<FromGemini!Fragment(id, index, id, part.name, 0)>>
      BY <2>1 DEF FromGemini!Fragments
    <3> QED
      BY <3>1, SeqOne
  <2>2. CASE part.args # << >>
    <3> DEFINE args == part.args
               F(n) == FromGemini!Fragment(args[n], index, id, IF n = 1 THEN part.name ELSE NoId, 1)
               gs == [n \in 1 .. Len(args) |-> F(n)]
    <3>1. fs = gs
      BY <2>2, SeqFacts DEF FromGemini!Fragments
    <3> HIDE DEF fs
    <3>2. Len(args) \in Nat
      BY SeqFacts
    <3> HIDE DEF F, args
    <3>3. gs \in Seq({F(n) : n \in 1 .. Len(args)})
      BY <3>2
    <3> HIDE DEF gs
    <3> QED
      BY <3>1, <3>3, SeqIs
  <2> QED
    BY <2>1, <2>2
<1> HIDE DEF fs, u
<1> QED
  BY <1>1, <1>2, SeqTwo, Zenon DEF u

Numbering == INSTANCE Counting
                WITH FoldStep <- LAMBDA p, t, part : IF part.kind = "call" THEN FromGemini!Numbered(t, part) ELSE t

LEMMA CallsNumbered ==
    ASSUME NEW indexes, NEW next, NEW parts, ArePartsListed(parts)
    PROVE  LET o == [indexes |-> indexes, next |-> next, calls |-> << >>]
               t == Numbering!Folded(0, o, parts)
           IN  IsSeq(t.calls)
<1> DEFINE o == [indexes |-> indexes, next |-> next, calls |-> << >>]
           n == Len(parts)
           t == Numbering!Folded(0, o, parts)
           Good(x) == DOMAIN x = {"indexes", "next", "calls"} /\ IsSeq(x.calls)
<1>1. IsSeq(parts) /\ n \in Nat
  BY SeqFacts DEF ArePartsListed
<1>2. Good(o)
  <2>1. DOMAIN o = {"indexes", "next", "calls"} /\ o.calls = << >>
    OBVIOUS
  <2> QED
    BY <2>1, SeqNone
<1> HIDE DEF o, n
<1>3. PICK g : Numbering!FoldChain(g, n, 0, o, parts) /\ t = g[n]
  BY <1>1, Numbering!FoldedChain DEF IsSeq, n
<1> HIDE DEF t
<1> DEFINE P == {k \in 0 .. n : Good(g[k])}
<1>4. 0 \in P
  BY <1>1, <1>2, <1>3 DEF Numbering!FoldChain
<1>5. ASSUME NEW k \in Nat, k < n, k \in P
      PROVE  k + 1 \in P
  <2> DEFINE part == parts[k + 1]
  <2>1. k + 1 \in 1 .. n /\ (k + 1) - 1 = k
    BY <1>1, <1>5
  <2>2. g[k + 1] = IF part.kind = "call" THEN FromGemini!Numbered(g[k], part) ELSE g[k]
    BY <1>3, <2>1, Zenon DEF Numbering!FoldChain
  <2>3. part.kind = "call" => IsSeq(part.args)
    BY <2>1 DEF ArePartsListed, n
  <2> HIDE DEF part
  <2>4. Good(g[k])
    BY <1>5
  <2>5. Good(g[k + 1])
    BY <2>2, <2>3, <2>4, CallNumbered
  <2> QED
    BY <2>1, <2>5
<1>6. 0 .. n \subseteq P
  <2> HIDE DEF P
  <2> QED
    BY <1>1, <1>4, <1>5, Numbering!CountingUp
<1>7. Good(t)
  BY <1>1, <1>3, <1>6
<1> QED
  BY <1>7 DEF t, o

\* The converter between two calls.
GeminiIdle(s) ==
    /\ DOMAIN s = {"partial", "indexes", "next", "saw", "finishEmitted", "rendered", "cited", "usage", "error", "out"}
    /\ IsPartial(s.partial) /\ s.out = << >> /\ s.error = FALSE

LEMMA TerminalIsChunk ==
    ASSUME NEW s
    PROVE  IsChunk(FromGemini!TerminalChunk(s))
<1>1. FromGemini!TerminalChunk(s).calls = << >>
  BY DEF FromGemini!TerminalChunk, FromGemini!EmptyChunk
<1> QED
  BY <1>1, SeqNone DEF IsChunk

LEMMA NoChunks == IsSeq(<< >>) /\ AreChunks(<< >>)
<1>1. IsSeq(<< >>) /\ Len(<< >>) = 0 /\ 1 .. 0 = {}
  BY SeqNone
<1> QED
  BY <1>1 DEF AreChunks

LEMMA OneChunk ==
    ASSUME NEW c, IsChunk(c)
    PROVE  /\ IsSeq(<<c>>) /\ Len(<<c>>) = 1 /\ AreChunks(<<c>>)
           /\ << >> \o <<c>> = <<c>>
<1>1. IsSeq(<<c>>) /\ Len(<<c>>) = 1 /\ <<c>>[1] = c
  BY SeqOne
<1>2. AreChunks(<<c>>)
  <2>1. \A k \in 1 .. 1 : k = 1
    OBVIOUS
  <2> QED
    BY <1>1, <2>1 DEF AreChunks
<1>3. << >> \o <<c>> = <<c>>
  <2>1. <<c>> \in Seq({c})
    OBVIOUS
  <2> QED
    BY <2>1
<1> QED
  BY <1>1, <1>2, <1>3

LEMMA TwoChunks ==
    ASSUME NEW c, IsChunk(c), NEW e, IsChunk(e)
    PROVE  IsSeq(<<c>> \o <<e>>) /\ Len(<<c>> \o <<e>>) = 2 /\ AreChunks(<<c>> \o <<e>>)
<1> DEFINE es == <<c>> \o <<e>>
<1>1. /\ <<c>> \in Seq({c, e}) /\ Len(<<c>>) = 1 /\ <<c>>[1] = c
      /\ <<e>> \in Seq({c, e}) /\ Len(<<e>>) = 1 /\ <<e>>[1] = e
  OBVIOUS
<1>2. es \in Seq({c, e}) /\ Len(es) = 2
  BY <1>1
<1>3. es[1] = <<c>>[1] /\ es[2] = <<e>>[1]
  BY <1>1
<1>4. \A k \in 1 .. 2 : k = 1 \/ k = 2
  OBVIOUS
<1>5. IsSeq(es) /\ Len(es) = 2 /\ es[1] = c /\ es[2] = e
  BY <1>1, <1>2, <1>3, SeqIs, Zenon
<1> HIDE DEF es
<1>6. AreChunks(es)
  BY <1>4, <1>5 DEF AreChunks
<1> QED
  BY <1>5, <1>6 DEF es

\* What a call of the converter makes: nothing when it fails.
IsGeminiCall(m) ==
    /\ GeminiIdle(m.state) /\ IsSeq(m.values) /\ AreChunks(m.values)
    /\ \/ m.failed = FALSE
       \/ m.failed = TRUE /\ m.values = << >> /\ m.state.partial.on = TRUE

LEMMA GeminiConverted ==
    ASSUME NEW s, GeminiIdle(s), NEW chunk, ArePartsListed(chunk.parts)
    PROVE  LET m == Step("GeminiToChat", s, chunk) IN
           /\ IsGeminiCall(m)
           /\ m.failed = FALSE => Len(m.values) > 0
<1> DEFINE r == FromGemini!Prepare(s, chunk)
           t == FromGemini!Convert(s, chunk)
           m == Step("GeminiToChat", s, chunk)
<1>1. m = Made(t, chunk.usage)
  BY DEF Step
<1>2. /\ DOMAIN s = {"partial", "indexes", "next", "saw", "finishEmitted", "rendered", "cited", "usage", "error", "out"}
      /\ IsPartial(s.partial) /\ s.out = << >> /\ s.error = FALSE
  BY DEF GeminiIdle
<1>3. IsPrepared(r)
  BY <1>2, PartsPrepared
<1> DEFINE Good(x) ==
              /\ DOMAIN x = DOMAIN s /\ IsPartial(x.partial) /\ IsSeq(x.out) /\ AreChunks(x.out)
              /\ \/ x.error = FALSE /\ Len(x.out) > 0
                 \/ x.error = TRUE /\ x.out = << >> /\ x.partial.on = TRUE
<1>4. Good(t)
  <2>1. CASE r.error
    <3>1. t = [s EXCEPT !.partial = r.partial, !.error = TRUE]
      BY <2>1 DEF FromGemini!Convert
    <3> HIDE DEF t, r
    <3>2. DOMAIN t = DOMAIN s /\ t.partial = r.partial /\ t.error = TRUE /\ t.out = << >>
      BY <1>2, <3>1
    <3>3. IsPartial(r.partial) /\ r.partial.on = TRUE
      BY <1>3, <2>1 DEF IsPrepared
    <3> QED
      BY <3>2, <3>3, NoChunks
  <2>2. CASE ~r.error
    <3> DEFINE a == [s EXCEPT !.partial = r.partial]
               o == [indexes |-> a.indexes, next |-> a.next, calls |-> << >>]
               n == Numbering!Folded(0, o, r.parts)
               c == FromGemini!ChatChunk(a, n, r.parts, chunk)
               b == [a EXCEPT !.indexes = n.indexes, !.next = n.next, !.rendered = @ \/ c.text,
                              !.cited = @ \cup FromGemini!Fresh(a, chunk, c.text)]
               x == [FromGemini!Emit(b, <<c>>) EXCEPT
                       !.saw = @ \/ c.calls # << >>, !.usage = IF c.usage = NoUsage THEN @ ELSE c.usage,
                       !.finishEmitted = @ \/ c.finish # "none"]
               y == FromGemini!Terminated(x)
    <3>1. t = FromGemini!Sent(b, c, chunk.finish = "stop")
      <4>1. t = FromGemini!ConvertParts(a, r.parts, chunk)
        BY <2>2 DEF FromGemini!Convert
      <4> HIDE DEF t, r
      <4> QED
        BY <4>1, Zenon DEF FromGemini!ConvertParts, FromGemini!FoldLeft, FromGemini!MapThenFoldSet, FromGemini!Max,
               Numbering!Folded, Numbering!F!MapThenFoldSet, Numbering!Highest
    <3> HIDE DEF t, r
    <3>2. t = x \/ t = y
      <4> HIDE DEF c, b
      <4> QED
        BY <3>1 DEF FromGemini!Sent
    <3>3. IsPartial(r.partial) /\ ArePartsListed(r.parts)
      BY <1>3 DEF IsPrepared
    <3>4. DOMAIN a = DOMAIN s /\ a.partial = r.partial /\ a.out = << >> /\ a.error = FALSE
      BY <1>2
    <3> HIDE DEF a
    <3>5. IsChunk(c)
      <4>1. IsSeq(n.calls)
        BY <3>3, CallsNumbered
      <4> HIDE DEF n
      <4>2. c.calls = n.calls
        BY DEF FromGemini!ChatChunk
      <4> QED
        BY <4>1, <4>2, SeqFacts DEF IsChunk
    <3> HIDE DEF c, n
    <3>6. DOMAIN b = DOMAIN s /\ b.partial = r.partial /\ b.out = << >> /\ b.error = FALSE
      BY <1>2, <3>4
    <3> HIDE DEF b
    <3>7. DOMAIN x = DOMAIN s /\ x.partial = r.partial /\ x.out = << >> \o <<c>> /\ x.error = FALSE
      BY <1>2, <3>6 DEF FromGemini!Emit
    <3>8. IsSeq(<<c>>) /\ Len(<<c>>) = 1 /\ AreChunks(<<c>>) /\ << >> \o <<c>> = <<c>>
      BY <3>5, OneChunk
    <3> HIDE DEF x
    <3>9. CASE t = x
      <4>1. x.out = <<c>>
        BY <3>7, <3>8
      <4> QED
        BY <3>3, <3>7, <3>8, <3>9, <4>1
    <3>10. CASE t = y
      <4> DEFINE e == FromGemini!TerminalChunk(x)
                 es == <<c>> \o <<e>>
      <4>1. DOMAIN y = DOMAIN s /\ y.partial = r.partial /\ y.out = es /\ y.error = FALSE
        BY <1>2, <3>7, <3>8 DEF FromGemini!Terminated, FromGemini!Emit
      <4>2. IsChunk(e)
        BY TerminalIsChunk
      <4> HIDE DEF e
      <4>3. IsSeq(es) /\ Len(es) = 2 /\ AreChunks(es)
        BY <3>5, <4>2, TwoChunks
      <4> HIDE DEF y, es
      <4> QED
        BY <3>3, <3>10, <4>1, <4>3
    <3> QED
      BY <3>2, <3>9, <3>10, Zenon
  <2>3. r.error \in BOOLEAN
    BY <1>3 DEF IsPrepared
  <2> QED
    BY <2>1, <2>2, <2>3, Zenon
<1> DEFINE z == [t EXCEPT !.out = << >>, !.error = FALSE]
<1>5. m.state = z /\ m.values = t.out /\ m.failed = t.error
  BY <1>1 DEF Made
<1> HIDE DEF t, m, r
<1>6. DOMAIN z = DOMAIN t /\ z.out = << >> /\ z.error = FALSE /\ z.partial = t.partial
  BY <1>2, <1>4
<1> HIDE DEF z
<1>7. GeminiIdle(z)
  BY <1>2, <1>4, <1>6 DEF GeminiIdle
<1> QED
  BY <1>4, <1>5, <1>6, <1>7 DEF IsGeminiCall, m

LEMMA GeminiEnds ==
    ASSUME NEW s, GeminiIdle(s), NEW usage
    PROVE  LET m == EndStep("GeminiToChat", s, usage) IN
           /\ IsGeminiCall(m)
           /\ s.partial.on = TRUE => m.failed = TRUE
<1> DEFINE t == FromGemini!Finalize(s)
           m == EndStep("GeminiToChat", s, usage)
           e == FromGemini!TerminalChunk(s)
<1>1. m = Made(t, t.usage)
  BY DEF EndStep, MadeWithUsage
<1>2. /\ DOMAIN s = {"partial", "indexes", "next", "saw", "finishEmitted", "rendered", "cited", "usage", "error", "out"}
      /\ IsPartial(s.partial) /\ s.out = << >> /\ s.error = FALSE
  BY DEF GeminiIdle
<1>3. /\ DOMAIN t = DOMAIN s /\ t.partial = s.partial
      /\ IsSeq(t.out) /\ AreChunks(t.out)
      /\ \/ t.error = FALSE /\ ~(s.partial.on = TRUE)
         \/ t.error = TRUE /\ t.out = << >> /\ t.partial.on = TRUE
  <2>1. CASE s.partial.on
    <3>1. t = [s EXCEPT !.error = TRUE]
      BY <2>1 DEF FromGemini!Finalize
    <3>2. s.partial.on = TRUE
      BY <1>2, <2>1 DEF IsPartial, FromGemini!NoPartial
    <3> HIDE DEF t
    <3>3. DOMAIN t = DOMAIN s /\ t.partial = s.partial /\ t.error = TRUE /\ t.out = << >>
      BY <1>2, <3>1
    <3> QED
      BY <3>2, <3>3, NoChunks
  <2>2. CASE ~s.partial.on /\ ~s.finishEmitted
    <3>1. t = FromGemini!Terminated(s)
      BY <2>2 DEF FromGemini!Finalize
    <3> HIDE DEF t
    <3>2. DOMAIN t = DOMAIN s /\ t.partial = s.partial /\ t.error = FALSE /\ t.out = << >> \o <<e>>
      BY <1>2, <3>1 DEF FromGemini!Terminated, FromGemini!Emit
    <3>3. IsChunk(e)
      BY TerminalIsChunk
    <3> HIDE DEF e
    <3>4. IsSeq(<<e>>) /\ AreChunks(<<e>>) /\ << >> \o <<e>> = <<e>>
      BY <3>3, OneChunk
    <3>5. ~(s.partial.on = TRUE)
      BY <2>2
    <3> QED
      BY <2>2, <3>2, <3>4, <3>5
  <2>3. CASE ~s.partial.on /\ s.finishEmitted
    <3>1. t = s
      BY <2>3 DEF FromGemini!Finalize
    <3>2. ~(s.partial.on = TRUE)
      BY <2>3
    <3> QED
      BY <1>2, <3>1, <3>2, NoChunks
  <2> QED
    BY <2>1, <2>2, <2>3, Zenon
<1> DEFINE z == [t EXCEPT !.out = << >>, !.error = FALSE]
<1>4. m.state = z /\ m.values = t.out /\ m.failed = t.error
  BY <1>1 DEF Made
<1> HIDE DEF t, m
<1>5. DOMAIN z = DOMAIN t /\ z.out = << >> /\ z.error = FALSE /\ z.partial = t.partial
  BY <1>2, <1>3
<1> HIDE DEF z
<1>6. GeminiIdle(z)
  BY <1>2, <1>3, <1>5 DEF GeminiIdle
<1> QED
  BY <1>3, <1>4, <1>5, <1>6 DEF IsGeminiCall, m

-----------------------------------------------------------------------------
(* A route: values pass through its steps, then its ends.                  *)

\* One value through one step.
Stepped(r, i, v) == Join([r EXCEPT !.values = << >>], i, Step(route[i], r.states[i], v))

LEMMA OneValueStepped ==
    ASSUME NEW r, DOMAIN r = {"states", "values", "billed", "failed"}, r.failed = FALSE,
           NEW i, NEW v, r.values = <<v>>
    PROVE  StepAll(r, i) = Stepped(r, i, v)
<1> DEFINE o == [r EXCEPT !.values = << >>]
<1>1. StepAll(r, i) = Stepping!Folded(i, o, r.values)
  BY DEF StepAll, FoldLeft, MapThenFoldSet, Max, Stepping!Folded, Stepping!F!MapThenFoldSet,
         Stepping!Highest
<1>2. o.failed = FALSE /\ o.states = r.states
  OBVIOUS
<1> HIDE DEF o
<1>3. StepAll(r, i) = IF o.failed THEN o ELSE Join(o, i, Step(route[i], o.states[i], v))
  BY <1>1, Stepping!FoldedOne
<1> QED
  BY <1>2, <1>3 DEF o, Stepped

Running == INSTANCE Counting WITH FoldStep <- LAMBDA p, t, i : IF t.failed THEN t ELSE StepAll(t, i)

\* The steps of a run one by one.
LEMMA StepsChain ==
    ASSUME NEW r, NEW first, NEW n \in Nat, n = Len(route) - first + 1
    PROVE  \E g : /\ g[0] = r
                  /\ \A k \in 1 .. n :
                        g[k] = IF g[k - 1].failed THEN g[k - 1] ELSE StepAll(g[k - 1], first + k - 1)
                  /\ RunSteps(r, first) = NothingOnFailure(g[n])
<1> DEFINE F(k) == first + k - 1
           ks == [k \in 1 .. n |-> F(k)]
           t == Running!Folded(0, r, ks)
<1>1. RunSteps(r, first) = NothingOnFailure(t)
  BY DEF RunSteps, FoldLeft, MapThenFoldSet, Max, Running!Folded, Running!F!MapThenFoldSet,
         Running!Highest
<1>2. \A k \in 1 .. n : ks[k] = F(k)
  OBVIOUS
<1>3. ks \in Seq({F(k) : k \in 1 .. n}) /\ Len(ks) = n
  <2> HIDE DEF F
  <2> QED
    OBVIOUS
<1> DEFINE S == {F(k) : k \in 1 .. n}
<1> HIDE DEF ks, S
<1>4. PICK g : Running!FoldChain(g, Len(ks), 0, r, ks) /\ t = g[Len(ks)]
  <2>1. ks \in Seq(S)
    BY <1>3 DEF S
  <2> QED
    BY <2>1, Running!FoldedChain
<1> HIDE DEF t
<1>5. g[0] = r /\ t = g[n]
  BY <1>3, <1>4 DEF Running!FoldChain
<1>6. ASSUME NEW k \in 1 .. n
      PROVE  g[k] = IF g[k - 1].failed THEN g[k - 1] ELSE StepAll(g[k - 1], first + k - 1)
  <2>1. g[k] = IF g[k - 1].failed THEN g[k - 1] ELSE StepAll(g[k - 1], ks[k])
    BY <1>3, <1>4, Zenon DEF Running!FoldChain
  <2> QED
    BY <1>2, <2>1
<1> QED
  BY <1>1, <1>5, <1>6

LEMMA NoSteps ==
    ASSUME NEW r, Len(route) \in Nat
    PROVE  RunSteps(r, Len(route) + 1) = NothingOnFailure(r)
<1>1. 0 = Len(route) - (Len(route) + 1) + 1
  OBVIOUS
<1> QED
  BY <1>1, StepsChain

LEMMA OneStep ==
    ASSUME NEW r, Len(route) \in Nat
    PROVE  RunSteps(r, Len(route)) = NothingOnFailure(IF r.failed THEN r ELSE StepAll(r, Len(route)))
<1>1. 1 = Len(route) - Len(route) + 1
  OBVIOUS
<1>2. PICK g : /\ g[0] = r
               /\ \A k \in 1 .. 1 :
                     g[k] = IF g[k - 1].failed THEN g[k - 1] ELSE StepAll(g[k - 1], Len(route) + k - 1)
               /\ RunSteps(r, Len(route)) = NothingOnFailure(g[1])
  BY <1>1, StepsChain
<1>3. g[1] = IF g[1 - 1].failed THEN g[1 - 1] ELSE StepAll(g[1 - 1], Len(route) + 1 - 1)
  BY <1>2
<1> QED
  BY <1>2, <1>3

LEMMA TwoSteps ==
    ASSUME NEW r, Len(route) = 2
    PROVE  LET a == IF r.failed THEN r ELSE StepAll(r, 1)
               b == IF a.failed THEN a ELSE StepAll(a, 2)
           IN  RunSteps(r, 1) = NothingOnFailure(b)
<1>1. 2 = Len(route) - 1 + 1
  OBVIOUS
<1>2. PICK g : /\ g[0] = r
               /\ \A k \in 1 .. 2 :
                     g[k] = IF g[k - 1].failed THEN g[k - 1] ELSE StepAll(g[k - 1], 1 + k - 1)
               /\ RunSteps(r, 1) = NothingOnFailure(g[2])
  BY <1>1, StepsChain
<1>3. g[1] = IF g[1 - 1].failed THEN g[1 - 1] ELSE StepAll(g[1 - 1], 1 + 1 - 1)
  BY <1>2
<1>4. g[2] = IF g[2 - 1].failed THEN g[2 - 1] ELSE StepAll(g[2 - 1], 1 + 2 - 1)
  BY <1>2
<1>5. 1 - 1 = 0 /\ 1 + 1 - 1 = 1 /\ 2 - 1 = 1 /\ 1 + 2 - 1 = 2
  OBVIOUS
<1> QED
  BY <1>2, <1>3, <1>4, <1>5

Closing == INSTANCE Counting
                WITH FoldStep <- LAMBDA b, t, i : IF t.failed THEN t ELSE Behind(t.values, EndOf(t, i, b))

\* The ends of a run one by one.
LEMMA EndsChain ==
    ASSUME NEW r, Len(route) \in Nat
    PROVE  \E g : /\ g[0] = r
                  /\ \A k \in 1 .. Len(route) :
                        g[k] = IF g[k - 1].failed THEN g[k - 1]
                               ELSE Behind(g[k - 1].values, EndOf(g[k - 1], k, r.billed))
                  /\ RunEnds(r) = g[Len(route)]
<1> DEFINE n == Len(route)
           ks == Positions(route)
           t == Closing!Folded(r.billed, r, ks)
<1>1. RunEnds(r) = t
  BY DEF RunEnds, FoldLeft, MapThenFoldSet, Max, Closing!Folded, Closing!F!MapThenFoldSet,
         Closing!Highest
<1>2. ks \in Seq(Nat) /\ Len(ks) = n /\ \A k \in 1 .. n : ks[k] = k
  BY SeqPositions
<1> HIDE DEF ks
<1>3. PICK g : Closing!FoldChain(g, Len(ks), r.billed, r, ks) /\ t = g[Len(ks)]
  BY <1>2, Closing!FoldedChain
<1> HIDE DEF t
<1>4. g[0] = r /\ t = g[n]
  BY <1>2, <1>3 DEF Closing!FoldChain
<1>5. ASSUME NEW k \in 1 .. n
      PROVE  g[k] = IF g[k - 1].failed THEN g[k - 1]
                    ELSE Behind(g[k - 1].values, EndOf(g[k - 1], k, r.billed))
  <2>1. g[k] = IF g[k - 1].failed THEN g[k - 1]
               ELSE Behind(g[k - 1].values, EndOf(g[k - 1], ks[k], r.billed))
    BY <1>2, <1>3, Zenon DEF Closing!FoldChain
  <2> QED
    BY <1>2, <2>1
<1> QED
  BY <1>1, <1>4, <1>5

LEMMA OneEnd ==
    ASSUME NEW r, Len(route) = 1
    PROVE  RunEnds(r) = IF r.failed THEN r ELSE Behind(r.values, EndOf(r, 1, r.billed))
<1>1. Len(route) \in Nat
  OBVIOUS
<1>2. PICK g : /\ g[0] = r
               /\ \A k \in 1 .. Len(route) :
                     g[k] = IF g[k - 1].failed THEN g[k - 1]
                            ELSE Behind(g[k - 1].values, EndOf(g[k - 1], k, r.billed))
               /\ RunEnds(r) = g[Len(route)]
  BY <1>1, EndsChain
<1>3. g[1] = IF g[1 - 1].failed THEN g[1 - 1] ELSE Behind(g[1 - 1].values, EndOf(g[1 - 1], 1, r.billed))
  BY <1>2
<1> QED
  BY <1>2, <1>3

LEMMA TwoEnds ==
    ASSUME NEW r, Len(route) = 2
    PROVE  LET a == IF r.failed THEN r ELSE Behind(r.values, EndOf(r, 1, r.billed))
               b == IF a.failed THEN a ELSE Behind(a.values, EndOf(a, 2, r.billed))
           IN  RunEnds(r) = b
<1>1. Len(route) \in Nat
  OBVIOUS
<1>2. PICK g : /\ g[0] = r
               /\ \A k \in 1 .. Len(route) :
                     g[k] = IF g[k - 1].failed THEN g[k - 1]
                            ELSE Behind(g[k - 1].values, EndOf(g[k - 1], k, r.billed))
               /\ RunEnds(r) = g[Len(route)]
  BY <1>1, EndsChain
<1>3. g[1] = IF g[1 - 1].failed THEN g[1 - 1] ELSE Behind(g[1 - 1].values, EndOf(g[1 - 1], 1, r.billed))
  BY <1>2
<1>4. g[2] = IF g[2 - 1].failed THEN g[2 - 1] ELSE Behind(g[2 - 1].values, EndOf(g[2 - 1], 2, r.billed))
  BY <1>2
<1>5. 1 - 1 = 0 /\ 2 - 1 = 1
  OBVIOUS
<1> QED
  BY <1>2, <1>3, <1>4, <1>5

\* The routes to a Claude client through the converter of chunks.
LEMMA ClaudeRoutes ==
    ASSUME upstream \in DOMAIN Upstreams, route \in RoutesFrom(Protocol), route[Len(route)] = "ChatToClaude"
    PROVE  \/ Protocol = "chat" /\ route = <<"ChatToClaude">> /\ Len(route) = 1 /\ DOMAIN route = {1}
           \/ /\ Protocol = "gemini" /\ route = <<"GeminiToChat", "ChatToClaude">>
              /\ Len(route) = 2 /\ DOMAIN route = {1, 2}
<1>1. Protocol \in {"chat", "claude", "responses", "gemini"}
  BY UpstreamsAssumption DEF Protocol
<1>2. \A a : Len(<<a>>) = 1 /\ <<a>>[1] = a /\ DOMAIN <<a>> = {1}
  OBVIOUS
<1>3. \A a, b : Len(<<a, b>>) = 2 /\ <<a, b>>[2] = b
  OBVIOUS
<1>4. DOMAIN <<"GeminiToChat", "ChatToClaude">> = {1, 2}
  <2>1. 1 .. 2 = {1, 2}
    OBVIOUS
  <2>2. DOMAIN <<"GeminiToChat", "ChatToClaude">> = 1 .. 2
    OBVIOUS
  <2> QED
    BY <2>1, <2>2
<1>5. ASSUME NEW a, a # "ChatToClaude"
      PROVE  route # <<a>>
  BY <1>2, <1>5
<1>6. ASSUME NEW a, NEW b, b # "ChatToClaude"
      PROVE  route # <<a, b>>
  BY <1>3, <1>6, Zenon
<1>7. CASE Protocol = "chat"
  <2>1. route \in {<<"ChatToClaude">>, <<"ChatToResponses">>, <<"ChatToGemini">>}
    BY <1>7 DEF RoutesFrom
  <2>2. route # <<"ChatToResponses">> /\ route # <<"ChatToGemini">>
    BY <1>5
  <2> QED
    BY <1>2, <1>7, <2>1, <2>2
<1>8. CASE Protocol = "claude"
  <2>1. route \in {<<"ClaudeToChat">>, <<"ClaudeToChat", "ChatToResponses">>, <<"ClaudeToChat", "ChatToGemini">>}
    BY <1>8 DEF RoutesFrom
  <2>2. route # <<"ClaudeToChat">>
    BY <1>5
  <2>3. route # <<"ClaudeToChat", "ChatToResponses">> /\ route # <<"ClaudeToChat", "ChatToGemini">>
    BY <1>6
  <2> QED
    BY <2>1, <2>2, <2>3
<1>9. CASE Protocol = "responses"
  <2>1. route \in {<<"ResponsesToChat">>, <<"ResponsesToClaude">>, <<"ResponsesToChat", "ChatToGemini">>}
    BY <1>9 DEF RoutesFrom
  <2>2. route # <<"ResponsesToChat">> /\ route # <<"ResponsesToClaude">>
    BY <1>5
  <2>3. route # <<"ResponsesToChat", "ChatToGemini">>
    BY <1>6
  <2> QED
    BY <2>1, <2>2, <2>3
<1>10. CASE Protocol = "gemini"
  <2>1. route \in {<<"GeminiToChat">>, <<"GeminiToChat", "ChatToClaude">>, <<"GeminiToChat", "ChatToResponses">>}
    BY <1>10 DEF RoutesFrom
  <2>2. route # <<"GeminiToChat">>
    BY <1>5
  <2>3. route # <<"GeminiToChat", "ChatToResponses">>
    BY <1>6
  <2>4. Len(route) = 2 /\ DOMAIN route = {1, 2}
    BY <1>3, <1>4, <2>1, <2>2, <2>3
  <2> QED
    BY <1>10, <2>1, <2>2, <2>3, <2>4
<1> QED
  BY <1>1, <1>7, <1>8, <1>9, <1>10

\* The last of n converters writes to a Claude client.
EndsAtClaude(n) == n \in Nat /\ n = Len(route) /\ n \in DOMAIN route /\ route[n] = "ChatToClaude"

\* Chunks through the last step of a route to Claude.
LEMMA LastStepRuns ==
    ASSUME NEW i, EndsAtClaude(i), NEW r, IsRun(r), r.failed = FALSE, AreChunks(r.values),
           NEW w, Idle(r.states[i], w)
    PROVE  LET t == RunSteps(r, i) IN
           /\ IsRun(t) /\ t.failed = FALSE /\ OthersSame(t, r, i)
           /\ Idle(t.states[i], After(w, t.values))
           /\ r.states[i].sent > 0 \/ Len(r.values) > 0 => t.states[i].sent > 0
           /\ t = StepAll(r, i)
<1> DEFINE t == StepAll(r, i)
<1>1. /\ IsRun(t) /\ t.failed = FALSE /\ OthersSame(t, r, i)
      /\ Idle(t.states[i], After(w, t.values))
      /\ r.states[i].sent > 0 \/ Len(r.values) > 0 => t.states[i].sent > 0
  BY ValuesConverted, Zenon DEF EndsAtClaude
<1>2. RunSteps(r, i) = NothingOnFailure(t)
  BY OneStep DEF EndsAtClaude
<1> HIDE DEF t
<1>3. NothingOnFailure(t) = t
  BY <1>1 DEF NothingOnFailure
<1> QED
  BY <1>1, <1>2, <1>3 DEF t

\* A run after which the message has stopped, for a client that was w.
HasEnded(t, r, i, w) ==
    /\ IsRun(t) /\ t.failed = FALSE /\ OthersSame(t, r, i)
    /\ Idle(t.states[i], After(w, t.values)) /\ After(w, t.values).phase = "stopped"
    /\ t.states[i].done = TRUE /\ t.states[i].reason = r.states[i].reason

\* The end of the last step.
LEMMA LastStepEnds ==
    ASSUME NEW i, EndsAtClaude(i), NEW r, IsRun(r), r.failed = FALSE,
           NEW w, Idle(r.states[i], w), r.states[i].sent > 0, NEW usage
    PROVE  HasEnded(EndOf(r, i, usage), r, i, w)
<1> DEFINE o == [r EXCEPT !.values = << >>]
           m == EndStep("ChatToClaude", r.states[i], usage)
           j == Join(o, i, m)
           t == EndOf(r, i, usage)
<1>1. /\ m.failed = FALSE /\ IsSeq(m.values)
      /\ Idle(m.state, After(w, m.values)) /\ After(w, m.values).phase = "stopped"
      /\ m.state.done = TRUE /\ m.state.reason = r.states[i].reason
  BY ClaudeEnds, Zenon
<1>2. t = RunSteps(j, i + 1)
  BY DEF EndOf, EndsAtClaude
<1>3. t = NothingOnFailure(j)
  BY <1>2, NoSteps DEF EndsAtClaude
<1>4. IsRun(o) /\ OthersSame(o, r, i) /\ o.values = << >>
  BY SeqNone DEF IsRun, OthersSame
<1> HIDE DEF o, t
<1>5. m.failed \in BOOLEAN /\ i \in DOMAIN route
  BY <1>1, Zenon DEF EndsAtClaude
<1> HIDE DEF m
<1>6. /\ IsRun(j) /\ OthersSame(j, o, i) /\ j.states[i] = m.state
      /\ j.values = o.values \o m.values /\ j.failed = m.failed
  <2>1. IsRun(o) /\ i \in DOMAIN route /\ IsSeq(m.values) /\ m.failed \in BOOLEAN
    BY <1>1, <1>4, <1>5, Zenon
  <2> QED
    BY <2>1, Joined, Zenon
<1>7. << >> \o m.values = m.values
  <2> DEFINE S == Range(m.values)
  <2>1. m.values \in Seq(S)
    BY <1>1 DEF IsSeq
  <2> HIDE DEF S
  <2> QED
    BY <2>1
<1> HIDE DEF j
<1>8. t = j
  BY <1>1, <1>3, <1>6 DEF NothingOnFailure
<1>9. OthersSame(t, r, i)
  BY <1>4, <1>6, <1>8 DEF OthersSame
<1>10. t.values = m.values /\ t.states[i] = m.state /\ IsRun(t) /\ t.failed = FALSE
  BY <1>1, <1>4, <1>6, <1>7, <1>8
<1> QED
  BY <1>1, <1>9, <1>10 DEF t, HasEnded

\* Values behind the values so far.
IsBehind(t, values, r, w) ==
    /\ IsRun(t) /\ t.failed = FALSE /\ t.states = r.states
    /\ t.values = values \o r.values
    /\ After(w, t.values) = After(After(w, values), r.values)

LEMMA RunBehind ==
    ASSUME NEW values, IsSeq(values), NEW r, IsRun(r), r.failed = FALSE, NEW w
    PROVE  IsBehind(Behind(values, r), values, r, w)
<1> DEFINE t == Behind(values, r)
<1>1. t = [r EXCEPT !.values = values \o @]
  BY DEF Behind
<1> HIDE DEF t
<1>2. /\ DOMAIN t = DOMAIN r /\ t.failed = FALSE /\ t.states = r.states
      /\ t.values = values \o r.values
  BY <1>1 DEF IsRun
<1>3. IsSeq(values \o r.values)
  BY SeqTwo, Zenon DEF IsRun
<1>4. After(w, values \o r.values) = After(After(w, values), r.values)
  BY AfterMore DEF IsRun
<1> QED
  BY <1>2, <1>3, <1>4, Zenon DEF IsRun, IsBehind, t

\* What the run of one value, or of the ends, starts with.
Begun(values) == [states |-> states, values |-> values, billed |-> billed, failed |-> FALSE]

LEMMA RunBegins ==
    ASSUME DOMAIN states = DOMAIN route, NEW values, IsSeq(values)
    PROVE  LET r == Begun(values) IN
           IsRun(r) /\ r.failed = FALSE /\ r.states = states /\ r.values = values
BY DEF Begun, IsRun

-----------------------------------------------------------------------------
(* The chat route.                                                         *)

LEMMA ChatRead ==
    ASSUME EndsAtClaude(1), DOMAIN states = DOMAIN route,
           Idle(states[1], wire), NEW v, IsChunk(v)
    PROVE  LET r == RunSteps(Begun(<<v>>), 1) IN
           /\ IsRun(r) /\ r.failed = FALSE
           /\ Idle(r.states[1], After(wire, r.values)) /\ r.states[1].sent > 0
           /\ r.states[1].reason = IF states[1].done \/ ~v.choice \/ v.finish = "none"
                                   THEN states[1].reason ELSE v.finish
<1> DEFINE b == Begun(<<v>>)
           r == RunSteps(b, 1)
           m == Step("ChatToClaude", states[1], v)
<1>1. IsSeq(<<v>>) /\ Len(<<v>>) = 1 /\ AreChunks(<<v>>)
  BY OneChunk
<1>2. IsRun(b) /\ b.failed = FALSE /\ b.states = states /\ b.values = <<v>>
  BY <1>1, RunBegins, Zenon
<1> HIDE DEF b
<1>3. /\ IsRun(r) /\ r.failed = FALSE
      /\ Idle(r.states[1], After(wire, r.values)) /\ r.states[1].sent > 0
      /\ r = StepAll(b, 1)
  <2>1. AreChunks(b.values) /\ Len(b.values) > 0 /\ Idle(b.states[1], wire)
    BY <1>1, <1>2
  <2> QED
    BY <1>2, <2>1, LastStepRuns, Zenon
<1> HIDE DEF r
<1>4. r = Join([b EXCEPT !.values = << >>], 1, Step(route[1], b.states[1], v))
  <2>1. DOMAIN b = {"states", "values", "billed", "failed"} /\ b.failed = FALSE /\ b.values = <<v>>
    BY <1>2 DEF IsRun
  <2>2. StepAll(b, 1) = Stepped(b, 1, v)
    BY <2>1, OneValueStepped
  <2> QED
    BY <1>3, <2>2 DEF Stepped
<1>5. route[1] = "ChatToClaude" /\ 1 \in DOMAIN states
  BY DEF EndsAtClaude
<1>6. r.states[1] = m.state
  <2> HIDE DEF m
  <2> QED
    BY <1>2, <1>4, <1>5 DEF Join, IsRun, m
<1>7. m.state.reason = IF states[1].done \/ ~v.choice \/ v.finish = "none" THEN states[1].reason ELSE v.finish
  BY ChunkConverted, Zenon
<1> QED
  BY <1>3, <1>6, <1>7 DEF r, b

LEMMA ChatEnd ==
    ASSUME EndsAtClaude(1), DOMAIN states = DOMAIN route,
           Idle(states[1], wire), states[1].sent > 0
    PROVE  LET r == RunEnds(Begun(<< >>)) IN
           /\ IsRun(r) /\ r.failed = FALSE
           /\ Idle(r.states[1], After(wire, r.values)) /\ After(wire, r.values).phase = "stopped"
           /\ r.states[1].done = TRUE /\ r.states[1].reason = states[1].reason
<1> DEFINE b == Begun(<< >>)
           r == RunEnds(b)
           e == EndOf(b, 1, b.billed)
<1>1. IsRun(b) /\ b.failed = FALSE /\ b.states = states /\ b.values = << >>
  BY SeqNone, RunBegins, Zenon
<1> HIDE DEF b
<1>2. r = Behind(<< >>, e)
  <2>1. r = IF b.failed THEN b ELSE Behind(b.values, e)
    BY OneEnd DEF EndsAtClaude
  <2> QED
    BY <1>1, <2>1
<1>3. /\ IsRun(e) /\ e.failed = FALSE
      /\ Idle(e.states[1], After(wire, e.values)) /\ After(wire, e.values).phase = "stopped"
      /\ e.states[1].done = TRUE /\ e.states[1].reason = states[1].reason
  <2>1. Idle(b.states[1], wire) /\ b.states[1].sent > 0
    BY <1>1
  <2>2. HasEnded(e, b, 1, wire)
    BY <1>1, <2>1, LastStepEnds, Zenon
  <2> HIDE DEF e
  <2> QED
    BY <1>1, <2>2 DEF HasEnded
<1> HIDE DEF e, r
<1>4. /\ IsRun(r) /\ r.failed = FALSE /\ r.states = e.states
      /\ After(wire, r.values) = After(After(wire, << >>), e.values)
  <2>1. IsRun(e) /\ e.failed = FALSE /\ IsSeq(<< >>)
    BY <1>3, SeqNone
  <2>2. IsBehind(r, << >>, e, wire)
    BY <1>2, <2>1, RunBehind, Zenon
  <2> QED
    BY <2>2 DEF IsBehind
<1>5. After(wire, << >>) = wire
  BY AfterNone
<1> QED
  BY <1>3, <1>4, <1>5 DEF r, b

-----------------------------------------------------------------------------
(* The Gemini route.                                                       *)

GeminiRoute ==
    EndsAtClaude(2) /\ 1 \in DOMAIN route /\ route[1] = "GeminiToChat" /\ DOMAIN states = DOMAIN route

\* A failed call of the first step stops the run.
LEMMA RunStops ==
    ASSUME NEW r, IsRun(r), r.failed = TRUE
    PROVE  LET t == NothingOnFailure(r) IN
           IsRun(t) /\ t.failed = TRUE /\ t.values = << >> /\ t.states = r.states
<1> DEFINE t == NothingOnFailure(r)
<1>1. t = [r EXCEPT !.values = << >>]
  BY DEF NothingOnFailure
<1> HIDE DEF t
<1>2. /\ DOMAIN t = DOMAIN r /\ t.failed = TRUE /\ t.values = << >> /\ t.states = r.states
  BY <1>1 DEF IsRun
<1> QED
  BY <1>2, SeqNone, Zenon DEF IsRun, t

LEMMA FirstJoined ==
    ASSUME GeminiRoute, NEW r, IsRun(r), NEW m, IsGeminiCall(m)
    PROVE  LET o == [r EXCEPT !.values = << >>]
               j == Join(o, 1, m)
           IN  /\ IsRun(j) /\ j.states[1] = m.state /\ j.states[2] = r.states[2]
               /\ j.values = m.values /\ j.failed = m.failed
<1> DEFINE o == [r EXCEPT !.values = << >>]
           j == Join(o, 1, m)
<1>1. IsRun(o) /\ o.values = << >> /\ o.states = r.states
  BY SeqNone DEF IsRun
<1> HIDE DEF o
<1>2. IsSeq(m.values) /\ m.failed \in BOOLEAN /\ 1 \in DOMAIN route /\ 2 \in DOMAIN route
  BY Zenon DEF IsGeminiCall, GeminiRoute, EndsAtClaude
<1>3. /\ IsRun(j) /\ OthersSame(j, o, 1) /\ j.states[1] = m.state
      /\ j.values = o.values \o m.values /\ j.failed = m.failed
  BY <1>1, <1>2, Joined, Zenon
<1>4. << >> \o m.values = m.values
  <2> DEFINE S == Range(m.values)
  <2>1. m.values \in Seq(S)
    BY <1>2 DEF IsSeq
  <2> HIDE DEF S
  <2> QED
    BY <2>1
<1>5. 2 \in DOMAIN route \ {1}
  BY <1>2
<1> HIDE DEF j
<1>6. j.states[2] = r.states[2]
  BY <1>1, <1>3, <1>5 DEF OthersSame
<1> QED
  BY <1>1, <1>3, <1>4, <1>6, Zenon DEF j, o

\* A call of the first step that succeeded passes its chunks on.
LEMMA ChunksPassed ==
    ASSUME GeminiRoute, NEW j, IsRun(j), j.failed = FALSE, AreChunks(j.values),
           NEW w, Idle(j.states[2], w)
    PROVE  LET t == RunSteps(j, 2) IN
           /\ IsRun(t) /\ t.failed = FALSE /\ t.states[1] = j.states[1]
           /\ Idle(t.states[2], After(w, t.values))
           /\ j.states[2].sent > 0 \/ Len(j.values) > 0 => t.states[2].sent > 0
           /\ t = StepAll(j, 2)
<1> DEFINE t == RunSteps(j, 2)
<1>1. EndsAtClaude(2) /\ 1 \in DOMAIN route \ {2}
  BY DEF GeminiRoute
<1>2. /\ IsRun(t) /\ t.failed = FALSE /\ OthersSame(t, j, 2)
      /\ Idle(t.states[2], After(w, t.values))
      /\ j.states[2].sent > 0 \/ Len(j.values) > 0 => t.states[2].sent > 0
      /\ t = StepAll(j, 2)
  BY <1>1, LastStepRuns, Zenon
<1> HIDE DEF t
<1>3. t.states[1] = j.states[1]
  BY <1>1, <1>2 DEF OthersSame
<1> QED
  BY <1>2, <1>3 DEF t

LEMMA GeminiRead ==
    ASSUME GeminiRoute, GeminiIdle(states[1]), Idle(states[2], wire), NEW v, ArePartsListed(v.parts)
    PROVE  LET r == RunSteps(Begun(<<v>>), 1) IN
           /\ IsRun(r) /\ GeminiIdle(r.states[1]) /\ Idle(r.states[2], After(wire, r.values))
           /\ \/ r.failed = FALSE /\ r.states[2].sent > 0
              \/ r.failed = TRUE /\ r.states[1].partial.on = TRUE
<1> DEFINE b == Begun(<<v>>)
           m == Step("GeminiToChat", states[1], v)
           o == [b EXCEPT !.values = << >>]
           j == Join(o, 1, m)
           r == RunSteps(b, 1)
<1>1. IsGeminiCall(m) /\ (m.failed = FALSE => Len(m.values) > 0)
  BY GeminiConverted, Zenon
<1>2. IsRun(b) /\ b.failed = FALSE /\ b.states = states /\ b.values = <<v>>
  BY SeqOne, RunBegins, Zenon DEF GeminiRoute
<1> HIDE DEF b, m
<1>3. StepAll(b, 1) = j
  <2>1. DOMAIN b = {"states", "values", "billed", "failed"} /\ b.failed = FALSE /\ b.values = <<v>>
    BY <1>2 DEF IsRun
  <2>2. StepAll(b, 1) = Stepped(b, 1, v)
    BY <2>1, OneValueStepped
  <2> QED
    BY <1>2, <2>2 DEF GeminiRoute, Stepped, m
<1>4. /\ IsRun(j) /\ j.states[1] = m.state /\ j.states[2] = states[2]
      /\ j.values = m.values /\ j.failed = m.failed
  BY <1>1, <1>2, FirstJoined
<1> HIDE DEF j, o
<1>5. r = NothingOnFailure(IF j.failed THEN j ELSE StepAll(j, 2))
  <2>1. LET x == IF b.failed THEN b ELSE StepAll(b, 1)
            y == IF x.failed THEN x ELSE StepAll(x, 2)
        IN  r = NothingOnFailure(y)
    BY TwoSteps DEF GeminiRoute, EndsAtClaude
  <2> QED
    BY <1>2, <1>3, <2>1
<1> HIDE DEF r
<1>6. CASE m.failed = TRUE
  <2>1. r = NothingOnFailure(j) /\ j.failed = TRUE
    BY <1>4, <1>5, <1>6
  <2>2. IsRun(r) /\ r.failed = TRUE /\ r.values = << >> /\ r.states = j.states
    BY <1>4, <2>1, RunStops, Zenon
  <2>3. After(wire, << >>) = wire
    BY AfterNone
  <2>4. GeminiIdle(m.state) /\ m.state.partial.on = TRUE
    BY <1>1, <1>6 DEF IsGeminiCall
  <2> QED
    BY <1>4, <2>2, <2>3, <2>4 DEF r, b
<1>7. CASE m.failed = FALSE
  <2> DEFINE t == RunSteps(j, 2)
  <2>1. AreChunks(j.values) /\ j.failed = FALSE /\ Len(j.values) > 0 /\ Idle(j.states[2], wire)
    BY <1>1, <1>4, <1>7 DEF IsGeminiCall
  <2>2. /\ IsRun(t) /\ t.failed = FALSE /\ t.states[1] = j.states[1]
        /\ Idle(t.states[2], After(wire, t.values)) /\ t.states[2].sent > 0
        /\ t = StepAll(j, 2)
    BY <1>4, <2>1, ChunksPassed, Zenon
  <2> HIDE DEF t
  <2>3. r = t
    BY <1>5, <2>1, <2>2 DEF NothingOnFailure
  <2>4. GeminiIdle(m.state)
    BY <1>1 DEF IsGeminiCall
  <2> QED
    BY <1>4, <2>2, <2>3, <2>4 DEF r, b
<1>8. m.failed = TRUE \/ m.failed = FALSE
  BY <1>1 DEF IsGeminiCall
<1> QED
  BY <1>6, <1>7, <1>8, Zenon

LEMMA GeminiEnd ==
    ASSUME GeminiRoute, GeminiIdle(states[1]), Idle(states[2], wire),
           states[2].sent > 0 \/ states[1].partial.on = TRUE
    PROVE  LET r == RunEnds(Begun(<< >>)) IN
           /\ IsRun(r)
           /\ \/ r.failed = FALSE /\ After(wire, r.values).phase = "stopped"
              \/ r.failed = TRUE /\ r.values = << >>
<1> DEFINE b == Begun(<< >>)
           usage == b.billed
           m == EndStep("GeminiToChat", states[1], usage)
           o == [b EXCEPT !.values = << >>]
           j == Join(o, 1, m)
           e == RunSteps(j, 2)
           a == Behind(<< >>, e)
           c == EndOf(a, 2, usage)
           r == RunEnds(b)
<1>0. EndsAtClaude(2) /\ Len(route) = 2
  BY DEF GeminiRoute, EndsAtClaude
<1>1. IsGeminiCall(m) /\ (states[1].partial.on = TRUE => m.failed = TRUE)
  BY GeminiEnds, Zenon
<1>2. IsRun(b) /\ b.failed = FALSE /\ b.states = states /\ b.values = << >>
  BY SeqNone, RunBegins, Zenon DEF GeminiRoute
<1>3. EndOf(b, 1, usage) = e
  <2>1. EndOf(b, 1, usage) = RunSteps(Join(o, 1, EndStep(route[1], b.states[1], usage)), 1 + 1)
    BY DEF EndOf
  <2> QED
    BY <1>2, <2>1 DEF GeminiRoute
<1> HIDE DEF b, m
<1>4. r = IF a.failed THEN a ELSE Behind(a.values, c)
  <2>1. LET x == IF b.failed THEN b ELSE Behind(b.values, EndOf(b, 1, b.billed))
            y == IF x.failed THEN x ELSE Behind(x.values, EndOf(x, 2, b.billed))
        IN  r = y
    BY <1>0, TwoEnds
  <2> QED
    BY <1>2, <1>3, <2>1
<1> HIDE DEF usage
<1>5. /\ IsRun(j) /\ j.states[1] = m.state /\ j.states[2] = states[2]
      /\ j.values = m.values /\ j.failed = m.failed
  BY <1>1, <1>2, FirstJoined
<1> HIDE DEF j, o, r
<1>6. CASE m.failed = TRUE
  <2>1. e = NothingOnFailure(j)
    <3>1. e = NothingOnFailure(IF j.failed THEN j ELSE StepAll(j, 2))
      BY <1>0, OneStep
    <3> QED
      BY <1>5, <1>6, <3>1
  <2>2. IsRun(e) /\ e.failed = TRUE
    BY <1>5, <1>6, <2>1, RunStops, Zenon
  <2> HIDE DEF e
  <2>3. a = [e EXCEPT !.values = << >>]
    BY <2>2 DEF Behind
  <2> HIDE DEF a
  <2>4. IsRun(a) /\ a.failed = TRUE /\ a.values = << >>
    BY <2>2, <2>3, SeqNone DEF IsRun
  <2>5. r = a
    BY <1>4, <2>4
  <2> QED
    BY <2>4, <2>5 DEF r, b
<1>7. CASE m.failed = FALSE
  <2>1. AreChunks(j.values) /\ j.failed = FALSE /\ Idle(j.states[2], wire) /\ j.states[2].sent > 0
    BY <1>1, <1>5, <1>7 DEF IsGeminiCall
  <2>2. /\ IsRun(e) /\ e.failed = FALSE
        /\ Idle(e.states[2], After(wire, e.values)) /\ e.states[2].sent > 0
    BY <1>5, <2>1, ChunksPassed, Zenon
  <2> HIDE DEF e
  <2>3. /\ IsRun(a) /\ a.failed = FALSE /\ a.states = e.states
        /\ After(wire, a.values) = After(After(wire, << >>), e.values)
    <3>1. IsRun(e) /\ e.failed = FALSE /\ IsSeq(<< >>) /\ a = Behind(<< >>, e)
      BY <2>2, SeqNone
    <3> HIDE DEF a
    <3>2. IsBehind(a, << >>, e, wire)
      BY <3>1, RunBehind, Zenon
    <3> QED
      BY <3>2 DEF IsBehind
  <2> HIDE DEF a
  <2> DEFINE w == After(wire, a.values)
  <2>4. w = After(wire, e.values)
    BY <2>3, AfterNone
  <2>5. Idle(a.states[2], w) /\ a.states[2].sent > 0
    BY <2>2, <2>3, <2>4
  <2> HIDE DEF w
  <2>6. HasEnded(c, a, 2, w)
    BY <1>0, <2>3, <2>5, LastStepEnds, Zenon
  <2> HIDE DEF c
  <2>7. IsRun(c) /\ c.failed = FALSE /\ After(w, c.values).phase = "stopped"
    BY <2>6 DEF HasEnded
  <2> DEFINE z == Behind(a.values, c)
  <2>8. /\ IsRun(z) /\ z.failed = FALSE
        /\ After(wire, z.values) = After(After(wire, a.values), c.values)
    <3>1. IsSeq(a.values) /\ IsRun(c) /\ c.failed = FALSE /\ z = Behind(a.values, c)
      BY <2>3, <2>7 DEF IsRun
    <3> HIDE DEF z
    <3>2. IsBehind(z, a.values, c, wire)
      BY <3>1, RunBehind, Zenon
    <3> QED
      BY <3>2 DEF IsBehind
  <2> HIDE DEF z
  <2>9. r = z
    BY <1>4, <2>3 DEF z
  <2> QED
    BY <2>7, <2>8, <2>9 DEF w, r, b
<1>8. m.failed = TRUE \/ m.failed = FALSE
  BY <1>1 DEF IsGeminiCall
<1> QED
  BY <1>6, <1>7, <1>8, Zenon

-----------------------------------------------------------------------------
(* The invariant.                                                          *)

\* A chat upstream, a Claude client: the converter and the client are in step,
\* no conversion fails, and the reason the converter remembers is the one the
\* upstream gave.  (The end of a stream without a value is left open: it ends
\* a message that has not begun.)
ChatInv ==
    ~(finished /\ count = 0) =>
        /\ DOMAIN states = DOMAIN route
        /\ ~failed
        /\ Idle(states[1], wire)
        /\ count > 0 => states[1].sent > 0
        /\ finished => states[1].done = TRUE
        /\ "reason" \in DOMAIN truth /\ truth.reason = states[1].reason

\* A Gemini upstream, a Claude client: the second converter and the client are
\* in step until the end, and a conversion that has failed has left a partial
\* call behind, so that the end fails as well.
GeminiInv ==
    ~(finished /\ count = 0) =>
        /\ ~finished =>
              /\ DOMAIN states = DOMAIN route
              /\ GeminiIdle(states[1]) /\ Idle(states[2], wire)
              /\ failed => states[1].partial.on = TRUE
              /\ ~failed /\ count > 0 => states[2].sent > 0
        /\ finished => wire.phase # "broken" /\ (~failed => wire.phase = "stopped")

StreamInv ==
    /\ upstream \in DOMAIN Upstreams /\ route \in RoutesFrom(Protocol)
    /\ count \in Nat
    /\ route = <<"ChatToClaude">> => ChatInv
    /\ route = <<"GeminiToChat", "ChatToClaude">> => GeminiInv

LEMMA RouteIsKnown ==
    ASSUME upstream \in DOMAIN Upstreams, route \in RoutesFrom(Protocol)
    PROVE  /\ route = <<"ChatToClaude">> => Protocol = "chat"
           /\ route = <<"GeminiToChat", "ChatToClaude">> => Protocol = "gemini"
           /\ route[Len(route)] = "ChatToClaude" =>
                 route = <<"ChatToClaude">> \/ route = <<"GeminiToChat", "ChatToClaude">>
<1>1. Protocol \in {"chat", "claude", "responses", "gemini"}
  BY UpstreamsAssumption DEF Protocol
<1> HIDE DEF Protocol
<1>2. CASE Protocol = "chat"
  BY <1>2 DEF RoutesFrom
<1>3. CASE Protocol = "claude"
  BY <1>3 DEF RoutesFrom
<1>4. CASE Protocol = "responses"
  BY <1>4 DEF RoutesFrom
<1>5. CASE Protocol = "gemini"
  BY <1>5 DEF RoutesFrom
<1> QED
  BY <1>1, <1>2, <1>3, <1>4, <1>5

\* The routes as the lemmas about runs have them.
LEMMA RouteOfTwo ==
    /\ route = <<"ChatToClaude">> => EndsAtClaude(1)
    /\ route = <<"GeminiToChat", "ChatToClaude">> /\ DOMAIN states = DOMAIN route => GeminiRoute
<1>1. route = <<"ChatToClaude">> => EndsAtClaude(1)
  BY DEF EndsAtClaude
<1>2. route = <<"GeminiToChat", "ChatToClaude">> =>
         EndsAtClaude(2) /\ 1 \in DOMAIN route /\ route[1] = "GeminiToChat"
  BY DEF EndsAtClaude
<1> QED
  BY <1>1, <1>2 DEF GeminiRoute

\* What the two actions do, on a route to Claude.
LEMMA ReadRuns ==
    ASSUME NEW v, Read(v), route[Len(route)] = "ChatToClaude"
    PROVE  LET r == RunSteps(Begun(<<v>>), 1) IN
           /\ ~finished /\ ~failed /\ count' = count + 1
           /\ states' = r.states /\ (failed' <=> failed \/ r.failed)
           /\ wire' = After(wire, r.values)
           /\ route' = route /\ upstream' = upstream /\ finished' = finished
<1> DEFINE r == RunSteps(Begun(<<v>>), 1)
           m == IF Stopped THEN Prosaic(0, 0, 0) ELSE ProseOf(v)
<1>1. /\ ~finished /\ ~failed /\ count' = count + 1
      /\ route' = route /\ upstream' = upstream /\ finished' = finished
  BY DEF Read
<1>2. \E x \in {r} : Deliver(x, m)
  BY DEF Read, Begun
<1> HIDE DEF r, m
<1>3. states' = r.states /\ failed' = (failed \/ r.failed) /\ wire' = ClientGets(wire, r.values)
  BY <1>2 DEF Deliver
<1>4. Target = "claude"
  BY DEF Target
<1>5. ClientGets(wire, r.values) = After(wire, r.values)
  BY <1>4 DEF ClientGets, After
<1>6. failed' <=> failed \/ r.failed
  BY <1>3, Zenon
<1> QED
  BY <1>1, <1>3, <1>5, <1>6 DEF r

LEMMA EndRuns ==
    ASSUME End, route[Len(route)] = "ChatToClaude"
    PROVE  LET r == RunEnds(Begun(<< >>)) IN
           /\ ~finished /\ finished' /\ count' = count
           /\ states' = r.states /\ (failed' <=> failed \/ r.failed)
           /\ wire' = After(wire, r.values)
           /\ route' = route /\ upstream' = upstream /\ truth' = truth
<1> DEFINE r == RunEnds(Begun(<< >>))
           m == Prosaic(0, 0, 0)
<1>1. /\ ~finished /\ finished' /\ count' = count
      /\ route' = route /\ upstream' = upstream /\ truth' = truth
  BY DEF End
<1>2. \E x \in {r} : Deliver(x, m)
  BY DEF End, Begun
<1> HIDE DEF r, m
<1>3. states' = r.states /\ failed' = (failed \/ r.failed) /\ wire' = ClientGets(wire, r.values)
  BY <1>2 DEF Deliver
<1>4. Target = "claude"
  BY DEF Target
<1>5. ClientGets(wire, r.values) = After(wire, r.values)
  BY <1>4 DEF ClientGets, After
<1>6. failed' <=> failed \/ r.failed
  BY <1>3, Zenon
<1> QED
  BY <1>1, <1>3, <1>5, <1>6 DEF r

\* What the upstream meant by a chunk is what the converter remembers.
LEMMA ReasonKept ==
    ASSUME NEW v, Read(v), route = <<"ChatToClaude">>, Protocol = "chat",
           "reason" \in DOMAIN truth
    PROVE  /\ "reason" \in DOMAIN truth'
           /\ truth'.reason = IF states[1].done \/ ~v.choice \/ v.finish = "none"
                              THEN truth.reason ELSE v.finish
<1> DEFINE usage == MergeUsageNonZero(truth.usage, IF "usage" \in DOMAIN v THEN v.usage ELSE NoUsage)
<1>1. \E chunk \in {Meant(v)} : truth' = Learned(chunk, usage)
  BY DEF Read, Remember
<1> HIDE DEF usage
<1>2. Meant(v) = v
  BY DEF Meant
<1>3. truth' = Learned(v, usage)
  BY <1>1, <1>2
<1>4. Stopped <=> states[1].done
  BY DEF Stopped
<1>5. CASE ~v.choice \/ states[1].done
  <2>1. truth' = [truth EXCEPT !.usage = usage]
    BY <1>3, <1>4, <1>5, Zenon DEF Learned
  <2> QED
    BY <1>5, <2>1
<1>6. CASE v.choice /\ ~states[1].done
  <2>1. /\ "reason" \in DOMAIN truth'
        /\ truth'.reason = IF v.finish = "none" THEN truth.reason ELSE v.finish
    BY <1>3, <1>4, <1>6, Zenon DEF Learned
  <2> QED
    BY <1>6, <2>1
<1> QED
  BY <1>5, <1>6

\* The stream begins idle.
LEMMA StreamBegins == Init => StreamInv
<1> SUFFICES ASSUME Init PROVE StreamInv
  OBVIOUS
<1>1. /\ upstream \in DOMAIN Upstreams /\ route \in RoutesFrom(Protocol)
      /\ count = 0 /\ ~failed /\ ~finished /\ wire = NewClient
      /\ states = [k \in 1 .. Len(route) |-> StartOf(route[k])]
      /\ "reason" \in DOMAIN truth /\ truth.reason = "none"
  BY DEF Init
<1>2. Idle(ToClaude!NewState, NewClient)
  <2>1. IsState(ToClaude!NewState)
    BY SeqNone DEF ToClaude!NewState, ToClaude!NoTools, IsState, IsTools
  <2>2. IsClient(NewClient) /\ NewClient.phase = "new" /\ DOMAIN NewClient.blocks = {}
    BY DEF NewClient, IsClient
  <2>3. /\ ToClaude!NewState.out = << >> /\ ToClaude!NewState.error = FALSE
        /\ ToClaude!NewState.done = FALSE /\ ToClaude!NewState.sent = 0
        /\ ToClaude!NewState.last = "none" /\ ToClaude!NewState.reason = "none"
    BY DEF ToClaude!NewState
  <2> DEFINE s == ToClaude!NewState
             w == NewClient
  <2>4. /\ IsState(s) /\ IsClient(w) /\ w.phase = "new" /\ DOMAIN w.blocks = {}
        /\ s.out = << >> /\ s.error = FALSE /\ s.done = FALSE /\ s.sent = 0 /\ s.last = "none"
    BY <2>1, <2>2, <2>3
  <2> HIDE DEF s, w
  <2>5. s.sent \in Nat /\ ~(s.sent > 0)
    BY <2>4
  <2>6. s.done \in BOOLEAN /\ ~s.done
    BY <2>4, Zenon
  <2>7. Idle(s, w)
    BY <2>4, <2>5, <2>6, Zenon DEF Idle
  <2> QED
    BY <2>7 DEF s, w
<1>3. GeminiIdle(FromGemini!NewState)
  BY DEF FromGemini!NewState, GeminiIdle, IsPartial
<1>4. ASSUME route = <<"ChatToClaude">> PROVE ChatInv
  <2>1. DOMAIN states = DOMAIN route /\ states[1] = ToClaude!NewState
    BY <1>1, <1>4 DEF StartOf
  <2>2. ToClaude!NewState.reason = "none"
    BY DEF ToClaude!NewState
  <2> QED
    BY <1>1, <1>2, <2>1, <2>2 DEF ChatInv
<1>5. ASSUME route = <<"GeminiToChat", "ChatToClaude">> PROVE GeminiInv
  <2>1. /\ DOMAIN states = DOMAIN route
        /\ states[1] = FromGemini!NewState /\ states[2] = ToClaude!NewState
    BY <1>1, <1>5 DEF StartOf
  <2> QED
    BY <1>1, <1>2, <1>3, <2>1 DEF GeminiInv
<1> QED
  BY <1>1, <1>4, <1>5 DEF StreamInv

LEMMA ChatReads ==
    ASSUME StreamInv, route = <<"ChatToClaude">>, NEW v \in Offers, Read(v)
    PROVE  ChatInv'
<1> DEFINE r == RunSteps(Begun(<<v>>), 1)
<1>1. Protocol = "chat" /\ route[Len(route)] = "ChatToClaude" /\ EndsAtClaude(1)
  BY RouteIsKnown, RouteOfTwo DEF StreamInv
<1>2. IsChunk(v)
  <2>1. v \in Upstreams[upstream].sends
    BY <1>1 DEF Offers
  <2>2. upstream \in DOMAIN Upstreams /\ Upstreams[upstream].protocol = "chat"
    BY <1>1 DEF StreamInv, Protocol
  <2>3. IsSeq(v.calls)
    BY <2>1, <2>2, UpstreamsAssumption
  <2> QED
    BY <2>3 DEF IsSeq, IsChunk
<1>3. /\ ~finished /\ ~failed /\ count' = count + 1
      /\ states' = r.states /\ (failed' <=> failed \/ r.failed)
      /\ wire' = After(wire, r.values)
      /\ route' = route /\ upstream' = upstream /\ finished' = finished
  BY <1>1, ReadRuns
<1>4. /\ DOMAIN states = DOMAIN route /\ Idle(states[1], wire)
      /\ "reason" \in DOMAIN truth /\ truth.reason = states[1].reason
  BY <1>3 DEF StreamInv, ChatInv
<1>5. /\ IsRun(r) /\ r.failed = FALSE
      /\ Idle(r.states[1], After(wire, r.values)) /\ r.states[1].sent > 0
      /\ r.states[1].reason = IF states[1].done \/ ~v.choice \/ v.finish = "none"
                              THEN states[1].reason ELSE v.finish
  BY <1>1, <1>2, <1>4, ChatRead, Zenon
<1>6. /\ "reason" \in DOMAIN truth'
      /\ truth'.reason = IF states[1].done \/ ~v.choice \/ v.finish = "none"
                         THEN truth.reason ELSE v.finish
  BY <1>1, <1>4, ReasonKept
<1> HIDE DEF r
<1>7. Idle(states[1], wire)' /\ states'[1].sent > 0
  BY <1>3, <1>5
<1>8. DOMAIN states' = DOMAIN route'
  BY <1>3, <1>5 DEF IsRun
<1>9. ~failed' /\ ~finished'
  BY <1>3, <1>5
<1>10. truth'.reason = states'[1].reason
  BY <1>3, <1>4, <1>5, <1>6
<1> QED
  BY <1>6, <1>7, <1>8, <1>9, <1>10 DEF ChatInv

LEMMA ChatStops ==
    ASSUME StreamInv, route = <<"ChatToClaude">>, End
    PROVE  ChatInv'
<1> DEFINE r == RunEnds(Begun(<< >>))
<1>1. route[Len(route)] = "ChatToClaude" /\ EndsAtClaude(1)
  BY RouteOfTwo
<1>2. /\ ~finished /\ finished' /\ count' = count
      /\ states' = r.states /\ (failed' <=> failed \/ r.failed)
      /\ wire' = After(wire, r.values)
      /\ route' = route /\ upstream' = upstream /\ truth' = truth
  BY <1>1, EndRuns
<1>3. CASE count = 0
  BY <1>2, <1>3 DEF ChatInv
<1>4. CASE count # 0
  <2>1. /\ DOMAIN states = DOMAIN route /\ ~failed /\ Idle(states[1], wire) /\ states[1].sent > 0
        /\ "reason" \in DOMAIN truth /\ truth.reason = states[1].reason
    BY <1>2, <1>4 DEF StreamInv, ChatInv
  <2>2. /\ IsRun(r) /\ r.failed = FALSE
        /\ Idle(r.states[1], After(wire, r.values)) /\ After(wire, r.values).phase = "stopped"
        /\ r.states[1].done = TRUE /\ r.states[1].reason = states[1].reason
    BY <1>1, <2>1, ChatEnd, Zenon
  <2> HIDE DEF r
  <2>3. Idle(states[1], wire)' /\ states'[1].done = TRUE
    BY <1>2, <2>2
  <2>4. states'[1].sent > 0
    BY <2>3 DEF Idle
  <2>5. DOMAIN states' = DOMAIN route'
    BY <1>2, <2>2 DEF IsRun
  <2>6. ~failed'
    BY <1>2, <2>1, <2>2
  <2>7. "reason" \in DOMAIN truth' /\ truth'.reason = states'[1].reason
    BY <1>2, <2>1, <2>2
  <2> QED
    BY <2>3, <2>4, <2>5, <2>6, <2>7 DEF ChatInv
<1> QED
  BY <1>3, <1>4

LEMMA GeminiReads ==
    ASSUME StreamInv, route = <<"GeminiToChat", "ChatToClaude">>, NEW v \in Offers, Read(v)
    PROVE  GeminiInv'
<1> DEFINE r == RunSteps(Begun(<<v>>), 1)
<1>1. Protocol = "gemini" /\ route[Len(route)] = "ChatToClaude"
  BY RouteIsKnown DEF StreamInv
<1>2. ArePartsListed(v.parts)
  <2>1. v \in Upstreams[upstream].sends
    BY <1>1 DEF Offers
  <2>2. upstream \in DOMAIN Upstreams /\ Upstreams[upstream].protocol = "gemini"
    BY <1>1 DEF StreamInv, Protocol
  <2>3. /\ IsSeq(v.parts)
        /\ \A k \in DOMAIN v.parts : v.parts[k].kind \in {"call", "partial"} => IsSeq(v.parts[k].args)
    BY <2>1, <2>2, UpstreamsAssumption
  <2> QED
    BY <2>3 DEF IsSeq, ArePartsListed
<1>3. /\ ~finished /\ ~failed /\ count' = count + 1
      /\ states' = r.states /\ (failed' <=> failed \/ r.failed)
      /\ wire' = After(wire, r.values)
      /\ route' = route /\ upstream' = upstream /\ finished' = finished
  BY <1>1, ReadRuns
<1>4. DOMAIN states = DOMAIN route /\ GeminiIdle(states[1]) /\ Idle(states[2], wire)
  BY <1>3 DEF StreamInv, GeminiInv
<1>5. GeminiRoute
  BY <1>4, RouteOfTwo
<1>6. /\ IsRun(r) /\ GeminiIdle(r.states[1]) /\ Idle(r.states[2], After(wire, r.values))
      /\ \/ r.failed = FALSE /\ r.states[2].sent > 0
         \/ r.failed = TRUE /\ r.states[1].partial.on = TRUE
  BY <1>2, <1>4, <1>5, GeminiRead, Zenon
<1> HIDE DEF r
<1>7. GeminiIdle(states'[1]) /\ Idle(states[2], wire)'
  BY <1>3, <1>6
<1>8. DOMAIN states' = DOMAIN route'
  BY <1>3, <1>6 DEF IsRun
<1>9. ~finished'
  BY <1>3
<1>10. (failed' => states'[1].partial.on = TRUE) /\ (~failed' => states'[2].sent > 0)
  BY <1>3, <1>6
<1> QED
  BY <1>7, <1>8, <1>9, <1>10 DEF GeminiInv

LEMMA GeminiStops ==
    ASSUME StreamInv, route = <<"GeminiToChat", "ChatToClaude">>, End
    PROVE  GeminiInv'
<1> DEFINE r == RunEnds(Begun(<< >>))
<1>1. route[Len(route)] = "ChatToClaude"
  OBVIOUS
<1>2. /\ ~finished /\ finished' /\ count' = count
      /\ states' = r.states /\ (failed' <=> failed \/ r.failed)
      /\ wire' = After(wire, r.values)
      /\ route' = route /\ upstream' = upstream /\ truth' = truth
  BY <1>1, EndRuns
<1>3. CASE count = 0
  BY <1>2, <1>3 DEF GeminiInv
<1>4. CASE count # 0
  <2>1. /\ DOMAIN states = DOMAIN route /\ GeminiIdle(states[1]) /\ Idle(states[2], wire)
        /\ states[2].sent > 0 \/ states[1].partial.on = TRUE
    BY <1>2, <1>4 DEF StreamInv, GeminiInv
  <2>2. GeminiRoute
    BY <2>1, RouteOfTwo
  <2>3. /\ IsRun(r)
        /\ \/ r.failed = FALSE /\ After(wire, r.values).phase = "stopped"
           \/ r.failed = TRUE /\ r.values = << >>
    BY <2>1, <2>2, GeminiEnd, Zenon
  <2> HIDE DEF r
  <2>4. CASE r.failed = FALSE /\ After(wire, r.values).phase = "stopped"
    BY <1>2, <2>4 DEF GeminiInv
  <2>5. CASE r.failed = TRUE /\ r.values = << >>
    <3>1. wire' = wire
      BY <1>2, <2>5, AfterNone
    <3>2. wire.phase # "broken"
      BY <2>1 DEF Idle, InStep
    <3>3. failed'
      BY <1>2, <2>5
    <3> QED
      BY <1>2, <3>1, <3>2, <3>3 DEF GeminiInv
  <2> QED
    BY <2>3, <2>4, <2>5, Zenon
<1> QED
  BY <1>3, <1>4

\* Every step keeps the invariant.
LEMMA StreamGoesOn == StreamInv /\ [Next]_vars => StreamInv'
<1> SUFFICES ASSUME StreamInv, [Next]_vars PROVE StreamInv'
  OBVIOUS
<1>1. CASE UNCHANGED vars
  BY <1>1 DEF vars, StreamInv, ChatInv, GeminiInv, Protocol, Idle, InStep, GeminiIdle
<1>2. CASE End
  <2>1. route' = route /\ upstream' = upstream /\ count' = count
    BY <1>2 DEF End
  <2>2. route = <<"ChatToClaude">> => ChatInv'
    BY <1>2, ChatStops
  <2>3. route = <<"GeminiToChat", "ChatToClaude">> => GeminiInv'
    BY <1>2, GeminiStops
  <2> QED
    BY <2>1, <2>2, <2>3 DEF StreamInv, Protocol
<1>3. ASSUME NEW v \in Offers, Read(v) PROVE StreamInv'
  <2>1. route' = route /\ upstream' = upstream /\ count' = count + 1
    BY <1>3 DEF Read
  <2>2. route = <<"ChatToClaude">> => ChatInv'
    BY <1>3, ChatReads
  <2>3. route = <<"GeminiToChat", "ChatToClaude">> => GeminiInv'
    BY <1>3, GeminiReads
  <2> QED
    BY <2>1, <2>2, <2>3 DEF StreamInv, Protocol
<1> QED
  BY <1>1, <1>2, <1>3 DEF Next

(* Whatever chunks a Chat Completions or Gemini upstream sends, in any order and *)
(* any number, a Claude client is in step with the converter that makes its      *)
(* events until the stream ends.                                                 *)
THEOREM StreamsInStep == Spec => []StreamInv
<1>1. Init => StreamInv
  BY StreamBegins
<1>2. StreamInv /\ [Next]_vars => StreamInv'
  BY StreamGoesOn
<1> QED
  BY <1>1, <1>2, PTL DEF Spec

LEMMA InStepMeansWell ==
    ASSUME StreamInv, route[Len(route)] = "ChatToClaude"
    PROVE  WellFormed /\ MessageEnds
<1>1. route = <<"ChatToClaude">> \/ route = <<"GeminiToChat", "ChatToClaude">>
  BY RouteIsKnown DEF StreamInv
<1>2. CASE route = <<"ChatToClaude">>
  <2>1. ChatInv /\ count \in Nat
    BY <1>2 DEF StreamInv
  <2>2. count > 0 => wire.phase # "broken" /\ (finished => wire.phase = "stopped")
    BY <2>1 DEF ChatInv, Idle, InStep
  <2> QED
    BY <2>2 DEF WellFormed, MessageEnds
<1>3. CASE route = <<"GeminiToChat", "ChatToClaude">>
  <2>1. GeminiInv /\ count \in Nat
    BY <1>3 DEF StreamInv
  <2>2. count > 0 => wire.phase # "broken" /\ (finished /\ ~failed => wire.phase = "stopped")
    BY <2>1 DEF GeminiInv, Idle, InStep
  <2> QED
    BY <2>2 DEF WellFormed, MessageEnds
<1> QED
  BY <1>1, <1>2, <1>3

(* A Claude client that is answered by a Chat Completions or Gemini upstream     *)
(* meets no event the protocol does not allow where it stands.                   *)
THEOREM ClaudeStreamsWellFormed ==
    Spec => [](route[Len(route)] = "ChatToClaude" => WellFormed)
<1>1. StreamInv => (route[Len(route)] = "ChatToClaude" => WellFormed)
  BY InStepMeansWell
<1> QED
  BY <1>1, StreamsInStep, PTL

(* Such a client sees the end of every message that no conversion failure cut    *)
(* off, exactly once, however the upstream ends.                                 *)
THEOREM ClaudeMessagesEnd ==
    Spec => [](route[Len(route)] = "ChatToClaude" => MessageEnds)
<1>1. StreamInv => (route[Len(route)] = "ChatToClaude" => MessageEnds)
  BY InStepMeansWell
<1> QED
  BY <1>1, StreamsInStep, PTL

(* A Claude client is told the reason the Chat Completions upstream gave last,   *)
(* so that an answer cut short is not passed off as complete.                    *)
THEOREM ChatCutShortIsTold ==
    Spec => [](route = <<"ChatToClaude">> => CutShortIsTold)
<1>1. StreamInv => (route = <<"ChatToClaude">> => CutShortIsTold)
  <2> SUFFICES ASSUME StreamInv, route = <<"ChatToClaude">>,
                      finished, count > 0, truth.reason # "none"
               PROVE  wire.reason = truth.reason /\ Target = "claude"
    BY DEF CutShortIsTold
  <2>1. ChatInv /\ count \in Nat
    BY DEF StreamInv
  <2>2. Idle(states[1], wire) /\ states[1].done = TRUE /\ truth.reason = states[1].reason
    BY <2>1 DEF ChatInv
  <2>3. wire.reason = Ending(states[1])
    BY <2>2 DEF Idle
  <2> QED
    BY <2>2, <2>3 DEF Ending, Target
<1> QED
  BY <1>1, StreamsInStep, PTL
=============================================================================
