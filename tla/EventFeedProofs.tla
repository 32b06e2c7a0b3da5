-------------------------- MODULE EventFeedProofs ---------------------------
(***************************************************************************)
(* Proofs about EventFeed for every size of the log and of the page's      *)
(* list, any number of polls in flight and any bounds.  What the log       *)
(* itself does is taken from EventLogProofs, instantiated for the feed.    *)
(***************************************************************************)
EXTENDS EventFeed, TLAPS

\* (No fold is reasoned about there: FoldStep is any step.)
Lib == INSTANCE EventLogProofs WITH Payload <- 0 .. MaxRestarts, FoldStep <- LAMBDA p, t, v : t

-----------------------------------------------------------------------------
(* The log inside the feed.                                                *)

\* The running server's log: well formed, and everything in it is its own.
Log ==
    /\ Lib!Inv
    /\ seq <= MaxEvents
    /\ \A i \in 1 .. Len(recorded) : recorded[i] = epoch

\* The entries of a sequence.
LEMMA Entries ==
    ASSUME NEW S, NEW s \in Seq(S)
    PROVE  /\ ToSet(s) = {s[i] : i \in 1 .. Len(s)}
           /\ ToSet(s) \subseteq S
BY DEF ToSet

\* The two copies of the log's definitions are the same.
LEMMA SameLog ==
    /\ \A p : log!AppendEvent(p) <=> Lib!AppendEvent(p)
    /\ \A s : log!Since(s) = Lib!After(items, s)
BY DEF log!AppendEvent, Lib!AppendEvent, log!Push, Lib!Push, log!ShiftIn, Lib!ShiftIn,
       log!Since, log!After, Lib!After

\* The log holds the newest conversions of this server, numbered in a row.
LEMMA LogFacts ==
    ASSUME Log, epoch \in 0 .. MaxRestarts
    PROVE  /\ seq \in 0 .. MaxEvents
           /\ items \in Seq(FeedEvent)
           /\ Len(items) \in 0 .. seq
           /\ \A i \in 1 .. Len(items) :
                 items[i] = [seq |-> seq - Len(items) + i, payload |-> epoch]
<1>1. /\ seq \in Nat /\ seq <= MaxEvents
      /\ items \in Seq(Lib!Event)
      /\ seq = Len(recorded)
      /\ Len(items) = IF seq < Cap THEN seq ELSE Cap
      /\ \A i \in 1 .. Len(items) :
            items[i] = [seq     |-> seq - Len(items) + i,
                        payload |-> recorded[seq - Len(items) + i]]
  BY DEF Log, Lib!Inv, Lib!TypeOK, Lib!Retained
<1>2. Len(items) \in 0 .. seq
  BY <1>1, LogAssumption
<1>3. ASSUME NEW i \in 1 .. Len(items)
      PROVE  items[i] = [seq |-> seq - Len(items) + i, payload |-> epoch]
  <2>1. seq - Len(items) + i \in 1 .. Len(recorded)
    BY <1>1, <1>2
  <2>2. recorded[seq - Len(items) + i] = epoch
    BY <2>1 DEF Log
  <2> QED
    BY <1>1, <2>2
<1>4. ASSUME NEW i \in 1 .. Len(items)
      PROVE  items[i] \in FeedEvent
  <2>1. seq - Len(items) + i \in 1 .. MaxEvents
    BY <1>1, <1>2, LogAssumption
  <2>2. [seq |-> seq - Len(items) + i, payload |-> epoch] \in FeedEvent
    BY <2>1 DEF FeedEvent
  <2> QED
    BY ONLY <1>3, <2>2
<1>5. items \in Seq(FeedEvent)
  <2>1. items \in [1 .. Len(items) -> Lib!Event] /\ Len(items) \in Nat
    BY <1>1
  <2> QED
    BY <1>4, <2>1
<1>6. seq \in 0 .. MaxEvents
  BY <1>1, LogAssumption
<1> QED
  BY <1>2, <1>3, <1>5, <1>6

\* The answer to a poll: in order, later than the cursor, from this server,
\* and nothing later than the cursor is missing.
LEMMA SinceFacts ==
    ASSUME Log, epoch \in 0 .. MaxRestarts, NEW s \in Nat
    PROVE  /\ log!Since(s) \in Seq(FeedEvent)
           /\ \A j \in 1 .. Len(log!Since(s)) :
                 /\ log!Since(s)[j].payload = epoch
                 /\ log!Since(s)[j].seq > s
                 /\ log!Since(s)[j].seq <= seq
           /\ \A i, j \in 1 .. Len(log!Since(s)) :
                 i < j => log!Since(s)[i].seq < log!Since(s)[j].seq
           /\ \A x \in ToSet(items) : x.seq > s => x \in ToSet(log!Since(s))
<1> DEFINE lost == seq - Len(items)
           skip == IF s > lost THEN s - lost ELSE 0
           out == log!Since(s)
<1>1. /\ seq \in 0 .. MaxEvents
      /\ items \in Seq(FeedEvent)
      /\ Len(items) \in 0 .. seq
      /\ \A i \in 1 .. Len(items) : items[i] = [seq |-> lost + i, payload |-> epoch]
  BY LogFacts
<1>2. lost \in Nat /\ skip \in Nat /\ seq \in Nat /\ Len(items) \in Nat /\ lost + Len(items) = seq
  BY <1>1, LogAssumption
<1>3. \A i \in 1 .. Len(items) : items[i].seq = lost + i /\ items[i].payload = epoch
  <2> SUFFICES ASSUME NEW i \in 1 .. Len(items)
               PROVE  items[i].seq = lost + i /\ items[i].payload = epoch
    OBVIOUS
  <2>1. items[i] = [seq |-> lost + i, payload |-> epoch]
    BY <1>1
  <2> QED
    BY ONLY <2>1
<1>4. out = SubSeq(items, skip + 1, Len(items))
  <2>1. skip = IF s > lost THEN s - lost ELSE 0
    OBVIOUS
  <2>2. \A i \in 1 .. Len(items) : items[i].seq = lost + i
    BY <1>3
  <2>3. items \in Seq(FeedEvent) /\ lost \in Nat /\ s \in Nat
    BY <1>1, <1>2
  <2>4. Lib!After(items, s) = SubSeq(items, skip + 1, Len(items))
    <3> HIDE DEF lost, skip
    <3> QED
      BY ONLY <2>1, <2>2, <2>3, LogAssumption, Lib!AfterIsTail, Zenon
  <2> QED
    BY <2>4, SameLog
<1>5. skip = (IF s > lost THEN s - lost ELSE 0)
  OBVIOUS
<1> HIDE DEF lost, skip, out
<1>6. /\ out \in Seq(FeedEvent)
      /\ Len(out) = IF skip + 1 <= Len(items) THEN Len(items) - skip ELSE 0
      /\ \A j \in 1 .. Len(items) - skip : out[j] = items[skip + j]
  BY <1>1, <1>2, <1>4
<1>7. ASSUME NEW j \in 1 .. Len(out)
      PROVE  out[j].payload = epoch /\ out[j].seq = lost + skip + j
  <2>1. /\ j \in 1 .. Len(items) - skip
        /\ skip + j \in 1 .. Len(items)
        /\ lost + (skip + j) = lost + skip + j
    BY <1>2, <1>6
  <2> QED
    BY <1>3, <1>6, <2>1
<1>8. ASSUME NEW j \in 1 .. Len(out)
      PROVE  out[j].seq > s /\ out[j].seq <= seq
  <2>1. lost + skip + j > s /\ lost + skip + j <= seq
    BY <1>2, <1>5, <1>6
  <2> QED
    BY <1>7, <2>1
<1>9. ASSUME NEW i \in 1 .. Len(out), NEW j \in 1 .. Len(out), i < j
      PROVE  out[i].seq < out[j].seq
  <2>1. lost + skip + i < lost + skip + j
    BY <1>2, <1>6, <1>9
  <2> QED
    BY <1>7, <2>1
<1>10. ASSUME NEW x \in ToSet(items), x.seq > s
       PROVE  x \in ToSet(out)
  <2>1. PICK i \in 1 .. Len(items) : x = items[i]
    BY <1>1, Entries
  <2>2. lost + i > s
    BY <1>3, <1>10, <2>1
  <2>3. skip < i
    BY <1>2, <1>5, <2>2
  <2>4. i - skip \in 1 .. Len(items) - skip /\ skip + (i - skip) = i
    BY ONLY <1>2, <2>3, i \in 1 .. Len(items)
  <2>5. skip + 1 <= Len(items)
    BY ONLY <1>2, <2>3, i \in 1 .. Len(items)
  <2>6. i - skip \in 1 .. Len(out)
    BY <1>6, <2>4, <2>5
  <2>7. out[i - skip] = x
    BY <1>6, <2>1, <2>4
  <2> QED
    BY <1>6, <2>6, <2>7, Entries
<1> QED
  BY <1>6, <1>7, <1>8, <1>9, <1>10 DEF out

-----------------------------------------------------------------------------
(* The types.                                                              *)

PollState ==
    [at     : {"idle", "sent", "half", "answered"},
     since  : 0 .. MaxEvents,
     events : Seq(FeedEvent),
     latest : 0 .. MaxEvents]

Types ==
    /\ Log
    /\ epoch \in 0 .. MaxRestarts
    /\ poll \in [Polls -> PollState]
    /\ lastSeq \in 0 .. MaxEvents
    /\ shown \in Seq(FeedEvent)
    /\ Len(shown) <= PageCap
    /\ failures \in 0 .. MaxFailures

\* A fetch that has not begun.
LEMMA IdleFacts ==
    /\ Idle \in PollState
    /\ Idle.at = "idle" /\ Idle.since = 0 /\ Idle.events = <<>> /\ Idle.latest = 0
<1>1. 0 \in 0 .. MaxEvents /\ <<>> \in Seq(FeedEvent)
  BY LogAssumption
<1> QED
  BY <1>1 DEF Idle, PollState

\* One fetch goes into a new state, the others stay.
LEMMA OnePoll ==
    ASSUME poll \in [Polls -> PollState], NEW p \in Polls, NEW r \in PollState,
           poll' = [poll EXCEPT ![p] = r]
    PROVE  /\ poll' \in [Polls -> PollState]
           /\ poll'[p] = r
           /\ \A q \in Polls \ {p} : poll'[q] = poll[q]
OBVIOUS

\* What each step does to the fetches.
LEMMA SendFacts ==
    ASSUME Types, NEW p \in Polls, PollSend(p)
    PROVE  /\ poll' \in [Polls -> PollState]
           /\ poll'[p].at = "sent" /\ poll'[p].since = lastSeq
           /\ poll'[p].events = <<>> /\ poll'[p].latest = 0
           /\ \A q \in Polls \ {p} : poll'[q] = poll[q]
<1> DEFINE r == [Idle EXCEPT !.at = "sent", !.since = lastSeq]
<1>1. r.at = "sent" /\ r.since = lastSeq /\ r.events = <<>> /\ r.latest = 0
  BY DEF Idle
<1>2. r \in PollState
  <2>1. lastSeq \in 0 .. MaxEvents /\ Idle \in PollState
    BY IdleFacts DEF Types
  <2> QED
    BY <2>1 DEF PollState
<1>3. poll' = [poll EXCEPT ![p] = r] /\ poll \in [Polls -> PollState]
  BY DEF PollSend, Types
<1> HIDE DEF r
<1>4. /\ poll' \in [Polls -> PollState]
      /\ poll'[p] = r
      /\ \A q \in Polls \ {p} : poll'[q] = poll[q]
  BY <1>2, <1>3, OnePoll
<1> QED
  BY <1>1, <1>4

LEMMA SinceStepFacts ==
    ASSUME Types, NEW p \in Polls, ServeSince(p)
    PROVE  /\ poll' \in [Polls -> PollState]
           /\ poll'[p].at = "half" /\ poll'[p].since = poll[p].since
           /\ poll'[p].events = log!Since(poll[p].since)
           /\ poll'[p].latest = poll[p].latest
           /\ \A q \in Polls \ {p} : poll'[q] = poll[q]
<1> DEFINE out == log!Since(poll[p].since)
<1>1. /\ poll \in [Polls -> PollState]
      /\ poll' = [poll EXCEPT ![p].at = "half", ![p].events = out]
  BY DEF ServeSince, Types
<1>2. out \in Seq(FeedEvent)
  <2>1. poll[p].since \in Nat /\ Log /\ epoch \in 0 .. MaxRestarts
    BY <1>1, LogAssumption DEF Types, PollState
  <2> QED
    BY <2>1, SinceFacts
<1> HIDE DEF out
<1>3. poll' \in [Polls -> PollState]
  BY <1>1, <1>2 DEF PollState
<1>4. /\ poll'[p].at = "half" /\ poll'[p].since = poll[p].since
      /\ poll'[p].events = out /\ poll'[p].latest = poll[p].latest
  BY <1>1 DEF PollState
<1>5. \A q \in Polls \ {p} : poll'[q] = poll[q]
  BY <1>1
<1> QED
  BY <1>3, <1>4, <1>5 DEF out

LEMMA LatestStepFacts ==
    ASSUME Types, NEW p \in Polls, ServeLatest(p)
    PROVE  /\ poll' \in [Polls -> PollState]
           /\ poll'[p].at = "answered" /\ poll'[p].since = poll[p].since
           /\ poll'[p].events = poll[p].events /\ poll'[p].latest = seq
           /\ \A q \in Polls \ {p} : poll'[q] = poll[q]
<1>1. /\ poll \in [Polls -> PollState]
      /\ poll' = [poll EXCEPT ![p].at = "answered", ![p].latest = seq]
  BY DEF ServeLatest, Types, log!LatestSeq
<1>2. seq \in 0 .. MaxEvents
  BY LogFacts DEF Types
<1>3. poll' \in [Polls -> PollState]
  BY <1>1, <1>2 DEF PollState
<1>4. /\ poll'[p].at = "answered" /\ poll'[p].since = poll[p].since
      /\ poll'[p].events = poll[p].events /\ poll'[p].latest = seq
  BY <1>1 DEF PollState
<1>5. \A q \in Polls \ {p} : poll'[q] = poll[q]
  BY <1>1
<1> QED
  BY <1>3, <1>4, <1>5

LEMMA RestFacts ==
    ASSUME Types, NEW p \in Polls, PollReceive(p) \/ PollFail(p)
    PROVE  /\ poll' \in [Polls -> PollState]
           /\ poll'[p] = Idle
           /\ \A q \in Polls \ {p} : poll'[q] = poll[q]
<1>1. /\ poll \in [Polls -> PollState]
      /\ poll' = [poll EXCEPT ![p] = Idle]
  BY DEF PollReceive, ApplyAnswer, PollFail, Types
<1> QED
  BY <1>1, IdleFacts, OnePoll

LEMMA RestartFacts ==
    ASSUME Types, Restart
    PROVE  /\ poll' \in [Polls -> PollState]
           /\ \A q \in Polls : poll'[q] = Idle \/ (poll[q].at = "answered" /\ poll'[q] = poll[q])
<1>1. /\ poll \in [Polls -> PollState]
      /\ poll' = [p \in Polls |-> IF poll[p].at = "answered" THEN poll[p] ELSE Idle]
  BY DEF Restart, Types
<1> QED
  BY <1>1, IdleFacts

\* Cutting the list keeps its end.
LEMMA TruncateFacts ==
    ASSUME NEW s \in Seq(FeedEvent)
    PROVE  /\ Truncate(s) \in Seq(FeedEvent)
           /\ Len(Truncate(s)) <= PageCap
           /\ \E d \in Nat : /\ Len(Truncate(s)) = Len(s) - d
                             /\ \A i \in 1 .. Len(s) - d : Truncate(s)[i] = s[i + d]
<1> USE PageAssumption
<1>1. CASE Len(s) > PageCap
  <2> DEFINE d == Len(s) - PageCap
             t == SubSeq(s, d + 1, Len(s))
  <2>1. Truncate(s) = t /\ d \in Nat
    BY <1>1 DEF Truncate
  <2>2. /\ t \in Seq(FeedEvent)
        /\ Len(t) = PageCap
        /\ \A i \in 1 .. Len(s) - d : t[i] = s[i + d]
    BY <1>1
  <2>3. Len(t) = Len(s) - d /\ PageCap <= PageCap
    BY <1>1, <2>2
  <2> HIDE DEF d, t
  <2> QED
    BY <2>1, <2>2, <2>3
<1>2. CASE ~(Len(s) > PageCap)
  <2>1. Truncate(s) = s /\ Len(s) <= PageCap
    BY <1>2 DEF Truncate
  <2>2. Len(s) = Len(s) - 0 /\ \A i \in 1 .. Len(s) - 0 : s[i] = s[i + 0]
    OBVIOUS
  <2>3. \E d \in Nat : Len(s) = Len(s) - d /\ \A i \in 1 .. Len(s) - d : s[i] = s[i + d]
    <3> WITNESS 0 \in Nat
    <3> QED
      BY <2>2
  <2> QED
    BY <2>1, <2>3
<1> QED
  BY <1>1, <1>2

\* What the page has after an answer.
LEMMA ReceiveFacts ==
    ASSUME Types, NEW p \in Polls, PollReceive(p)
    PROVE  /\ shown' \in Seq(FeedEvent)
           /\ Len(shown') <= PageCap
           /\ lastSeq' \in 0 .. MaxEvents
           /\ lastSeq' = (IF poll[p].latest = 0 THEN lastSeq ELSE poll[p].latest)
           /\ \E d \in Nat :
                 /\ Len(shown') = Len(shown \o poll[p].events) - d
                 /\ \A i \in 1 .. Len(shown') : shown'[i] = (shown \o poll[p].events)[i + d]
<1>1. poll[p] \in PollState /\ lastSeq \in 0 .. MaxEvents
  BY DEF Types
<1>2. shown \o poll[p].events \in Seq(FeedEvent)
  BY <1>1 DEF Types, PollState
<1>3. /\ shown' = Truncate(shown \o poll[p].events)
      /\ lastSeq' = (IF poll[p].latest = 0 THEN lastSeq ELSE poll[p].latest)
  BY DEF PollReceive, ApplyAnswer, Advance
<1>4. lastSeq' \in 0 .. MaxEvents
  BY <1>1, <1>3 DEF PollState
<1> HIDE <1>1
<1> QED
  BY ZenonT(30), <1>2, <1>3, <1>4, TruncateFacts

\* The log's own steps.
LEMMA LogEventKeepsLog ==
    ASSUME Types, LogEvent
    PROVE  /\ Log'
           /\ seq' = seq + 1
           /\ UNCHANGED epoch
<1>1. log!AppendEvent(epoch) /\ UNCHANGED epoch
  BY DEF LogEvent
<1>2. Lib!AppendEvent(epoch) /\ Lib!Inv /\ epoch \in 0 .. MaxRestarts
  BY <1>1, SameLog DEF Types, Log
<1>3. Lib!Inv'
  BY <1>2, LogAssumption, Lib!AppendKeepsInv
<1>4. seq < MaxEvents /\ seq' = seq + 1 /\ recorded' = Append(recorded, epoch)
  BY <1>1 DEF log!AppendEvent
<1>5. seq \in Nat /\ recorded \in Seq(0 .. MaxRestarts)
  BY DEF Types, Log, Lib!Inv, Lib!TypeOK
<1>6. seq' <= MaxEvents
  BY <1>4, <1>5, LogAssumption
<1>7. \A i \in 1 .. Len(recorded') : recorded'[i] = epoch
  <2>1. \A i \in 1 .. Len(recorded) : recorded[i] = epoch
    BY DEF Types, Log
  <2> QED
    BY <1>2, <1>4, <1>5, <2>1
<1> QED
  BY <1>1, <1>3, <1>4, <1>6, <1>7 DEF Log

LEMMA EmptyLog ==
    ASSUME seq = 0, items = <<>>, recorded = <<>>
    PROVE  Log
<1>1. Lib!TypeOK
  BY LogAssumption DEF Lib!TypeOK
<1>2. Lib!Retained
  BY LogAssumption DEF Lib!Retained
<1> QED
  BY <1>1, <1>2, LogAssumption DEF Log, Lib!Inv

LEMMA InitTypes == Init => Types
<1> SUFFICES ASSUME Init
             PROVE  Types
  OBVIOUS
<1>1. Log
  BY EmptyLog DEF Init, log!Init
<1>2. 0 \in 0 .. MaxRestarts /\ 0 \in 0 .. MaxEvents /\ 0 \in 0 .. MaxFailures
  BY LogAssumption, BoundsAssumption
<1>3. poll \in [Polls -> PollState]
  BY IdleFacts DEF Init
<1>4. shown \in Seq(FeedEvent) /\ Len(shown) <= PageCap
  BY PageAssumption DEF Init
<1> QED
  BY <1>1, <1>2, <1>3, <1>4 DEF Init, Types

\* A step that leaves the log and the incarnation alone keeps Log.
LEMMA SameLogKept ==
    ASSUME Log, UNCHANGED <<logVars, epoch>>
    PROVE  Log'
BY DEF Log, logVars, Lib!Inv, Lib!TypeOK, Lib!Retained

LEMMA StepTypes == Types /\ [Next]_vars => Types'
<1> SUFFICES ASSUME Types, [Next]_vars
             PROVE  Types'
  OBVIOUS
<1>1. CASE LogEvent
  BY <1>1, LogEventKeepsLog DEF LogEvent, pageVars, Types
<1>2. CASE Restart
  <2>1. Log'
    <3>1. seq' = 0 /\ items' = <<>> /\ recorded' = <<>>
      BY <1>2 DEF Restart
    <3>2. (seq = 0 /\ items = <<>> /\ recorded = <<>> => Log)'
      BY EmptyLog, PTL
    <3> QED
      BY <3>1, <3>2
  <2>2. epoch' \in 0 .. MaxRestarts
    BY <1>2, BoundsAssumption DEF Restart, Types
  <2>3. poll' \in [Polls -> PollState]
    BY <1>2, RestartFacts
  <2> QED
    BY <1>2, <2>1, <2>2, <2>3 DEF Restart, pageVars, Types
<1>3. ASSUME NEW p \in Polls, PollSend(p)
      PROVE  Types'
  <2>1. Log'
    BY <1>3, SameLogKept DEF PollSend, Types
  <2>2. poll' \in [Polls -> PollState]
    BY <1>3, SendFacts
  <2> QED
    BY <1>3, <2>1, <2>2 DEF PollSend, pageVars, Types
<1>4. ASSUME NEW p \in Polls, ServeSince(p)
      PROVE  Types'
  <2>1. Log'
    BY <1>4, SameLogKept DEF ServeSince, Types
  <2>2. poll' \in [Polls -> PollState]
    BY <1>4, SinceStepFacts
  <2> QED
    BY <1>4, <2>1, <2>2 DEF ServeSince, pageVars, Types
<1>5. ASSUME NEW p \in Polls, ServeLatest(p)
      PROVE  Types'
  <2>1. Log'
    BY <1>5, SameLogKept DEF ServeLatest, Types
  <2>2. poll' \in [Polls -> PollState]
    BY <1>5, LatestStepFacts
  <2> QED
    BY <1>5, <2>1, <2>2 DEF ServeLatest, pageVars, Types
<1>6. ASSUME NEW p \in Polls, PollReceive(p)
      PROVE  Types'
  <2>1. UNCHANGED <<logVars, epoch, failures>>
    BY <1>6 DEF PollReceive, ApplyAnswer
  <2>2. Log'
    BY <2>1, SameLogKept DEF Types
  <2>3. poll' \in [Polls -> PollState]
    BY <1>6, RestFacts
  <2>4. shown' \in Seq(FeedEvent) /\ Len(shown') <= PageCap /\ lastSeq' \in 0 .. MaxEvents
    BY <1>6, ReceiveFacts
  <2> QED
    BY <2>1, <2>2, <2>3, <2>4 DEF Types
<1>7. ASSUME NEW p \in Polls, PollFail(p)
      PROVE  Types'
  <2>1. Log'
    BY <1>7, SameLogKept DEF PollFail, Types
  <2>2. poll' \in [Polls -> PollState]
    BY <1>7, RestFacts
  <2>3. failures' \in 0 .. MaxFailures
    BY <1>7, BoundsAssumption DEF PollFail, Types
  <2> QED
    BY <1>7, <2>1, <2>2, <2>3 DEF PollFail, pageVars, Types
<1>8. CASE UNCHANGED vars
  <2>1. Log'
    BY <1>8, SameLogKept DEF vars, Types
  <2> QED
    BY <1>8, <2>1 DEF vars, pageVars, Types
<1> QED
  BY <1>1, <1>2, <1>3, <1>4, <1>5, <1>6, <1>7, <1>8 DEF Next

-----------------------------------------------------------------------------
(* Nothing is lost but for the gap.                                        *)

Seen(x) == x \in delivered \cup excused

\* What the server still holds up to any cursor has been seen; what an
\* answer under way will move the cursor over, it carries; and the cursors
\* of a server that never restarted are its own.
Kept ==
    /\ \A x \in ToSet(items) :
          /\ x.seq <= lastSeq => Seen(x)
          /\ \A p \in Polls :
                /\ x.seq <= poll[p].since => Seen(x)
                /\ poll[p].at = "half" => Seen(x) \/ x \in ToSet(poll[p].events)
                /\ x.seq <= poll[p].latest =>
                      Seen(x) \/ (poll[p].at = "answered" /\ x \in ToSet(poll[p].events))
    /\ epoch = 0 => \A c \in Cursors : c <= seq

\* The entries of the log are the running server's conversions.
LEMMA LogEntries ==
    ASSUME Log, epoch \in 0 .. MaxRestarts
    PROVE  \A x \in ToSet(items) : x \in FeedEvent /\ x.seq \in 1 .. seq
<1> SUFFICES ASSUME NEW x \in ToSet(items)
             PROVE  x \in FeedEvent /\ x.seq \in 1 .. seq
  OBVIOUS
<1>1. /\ seq \in 0 .. MaxEvents
      /\ items \in Seq(FeedEvent)
      /\ Len(items) \in 0 .. seq
      /\ \A i \in 1 .. Len(items) :
            items[i] = [seq |-> seq - Len(items) + i, payload |-> epoch]
  BY LogFacts
<1>2. PICK i \in 1 .. Len(items) : x = items[i]
  BY <1>1, Entries
<1>3. x.seq = seq - Len(items) + i
  <2>1. x = [seq |-> seq - Len(items) + i, payload |-> epoch]
    BY <1>1, <1>2
  <2> QED
    BY ONLY <2>1
<1>4. seq - Len(items) + i \in 1 .. seq
  BY <1>1, LogAssumption
<1> QED
  BY <1>1, <1>2, <1>3, <1>4, Entries

\* A conversion adds one entry.
LEMMA NewEntries ==
    ASSUME Types, LogEvent
    PROVE  \A x \in ToSet(items') :
              x \in ToSet(items) \/ x = [seq |-> seq + 1, payload |-> epoch]
<1> SUFFICES ASSUME NEW x \in ToSet(items')
             PROVE  x \in ToSet(items) \/ x = [seq |-> seq + 1, payload |-> epoch]
  OBVIOUS
<1>1. /\ Log'
      /\ seq' = seq + 1
      /\ epoch' = epoch
      /\ epoch \in 0 .. MaxRestarts
  BY LogEventKeepsLog DEF Types
<1>2. /\ seq \in 0 .. MaxEvents
      /\ items \in Seq(FeedEvent)
      /\ Len(items) \in 0 .. seq
      /\ \A i \in 1 .. Len(items) :
            items[i] = [seq |-> seq - Len(items) + i, payload |-> epoch]
  BY LogFacts DEF Types
<1>3. /\ items' \in Seq(FeedEvent)
      /\ Len(items') \in 0 .. seq'
      /\ \A i \in 1 .. Len(items') :
            items'[i] = [seq |-> seq' - Len(items') + i, payload |-> epoch']
  <2>1. (Log /\ epoch \in 0 .. MaxRestarts =>
            /\ items \in Seq(FeedEvent)
            /\ Len(items) \in 0 .. seq
            /\ \A i \in 1 .. Len(items) :
                  items[i] = [seq |-> seq - Len(items) + i, payload |-> epoch])'
    BY LogFacts, PTL
  <2> QED
    BY <1>1, <2>1
<1>4. /\ Len(items) = IF seq < Cap THEN seq ELSE Cap
      /\ Len(items') = IF seq' < Cap THEN seq' ELSE Cap
  BY <1>1 DEF Types, Log, Lib!Inv, Lib!Retained
<1>5. PICK i \in 1 .. Len(items') : x = items'[i]
  BY <1>3, Entries
<1> DEFINE n == seq + 1 - Len(items') + i
<1>6. x = [seq |-> n, payload |-> epoch]
  <2>1. x = [seq |-> seq' - Len(items') + i, payload |-> epoch']
    BY <1>3, <1>5
  <2>2. seq' - Len(items') + i = n /\ epoch' = epoch
    <3>1. Len(items') \in Nat /\ seq \in Nat /\ i \in Nat
      BY <1>2, <1>3, LogAssumption
    <3> QED
      BY <1>1, <3>1
  <2> QED
    BY ONLY <2>1, <2>2
<1>7. /\ n = seq + 1 \/ n - (seq - Len(items)) \in 1 .. Len(items)
      /\ n = seq - Len(items) + (n - (seq - Len(items)))
  BY <1>1, <1>2, <1>3, <1>4, LogAssumption
<1> HIDE DEF n
<1>8. CASE n = seq + 1
  BY <1>6, <1>8
<1>9. CASE n - (seq - Len(items)) \in 1 .. Len(items)
  <2>1. x = items[n - (seq - Len(items))]
    BY <1>2, <1>6, <1>7, <1>9
  <2> QED
    BY <1>2, <1>9, <2>1, Entries
<1> QED
  BY <1>7, <1>8, <1>9

LEMMA InitKept == Init => Kept
<1> SUFFICES ASSUME Init
             PROVE  Kept
  OBVIOUS
<1>1. items = <<>> /\ seq = 0 /\ lastSeq = 0 /\ poll = [p \in Polls |-> Idle]
  BY DEF Init, log!Init
<1>2. ToSet(items) = {}
  BY <1>1 DEF ToSet
<1>3. \A c \in Cursors : c <= seq
  BY <1>1, IdleFacts DEF Cursors
<1> QED
  BY <1>2, <1>3 DEF Kept

\* A logged conversion is later than every cursor, or it is excused.
LEMMA LogEventKept ==
    ASSUME Types, Kept, LogEvent
    PROVE  Kept'
<1>0. PICK e : e = [seq |-> seq + 1, payload |-> epoch]
  OBVIOUS
<1>1. /\ seq \in 0 .. MaxEvents /\ seq' = seq + 1
      /\ poll \in [Polls -> PollState] /\ lastSeq \in 0 .. MaxEvents
  BY LogFacts, LogEventKeepsLog DEF Types
<1>2. /\ UNCHANGED <<epoch, poll, lastSeq, delivered>>
      /\ excused' = excused \cup Excuse(e)
  BY <1>0 DEF LogEvent, pageVars
<1>3. \A x \in ToSet(items') : x \in ToSet(items) \/ x = e
  BY <1>0, NewEntries
<1>4. e.seq = seq + 1
  BY ONLY <1>0
<1>5. \A x : Seen(x) => Seen(x)'
  BY <1>2 DEF Seen
<1>6. (\E p \in Polls : poll[p].at = "half") => Seen(e)'
  <2> SUFFICES ASSUME NEW p \in Polls, poll[p].at = "half"
               PROVE  Seen(e)'
    OBVIOUS
  <2>1. e \in Excuse(e)
    BY DEF Excuse
  <2> QED
    BY <1>2, <2>1 DEF Seen
<1>7. (\E c \in Cursors : c > seq) => Seen(e)'
  <2> SUFFICES ASSUME NEW c \in Cursors, c > seq
               PROVE  Seen(e)'
    OBVIOUS
  <2>1. c \in Nat
    BY <1>1, LogAssumption DEF Cursors, PollState
  <2>2. epoch # 0
    BY <1>1, <2>1, LogAssumption DEF Kept
  <2>3. epoch > 0
    BY <2>2, BoundsAssumption DEF Types
  <2>4. e \in Excuse(e)
    BY <2>3 DEF Excuse
  <2> QED
    BY <1>2, <2>4 DEF Seen
<1>8. Cursors' = Cursors
  BY <1>2 DEF Cursors
<1>9. \A c \in Cursors : seq + 1 <= c => Seen(e)'
  <2> SUFFICES ASSUME NEW c \in Cursors, seq + 1 <= c
               PROVE  Seen(e)'
    OBVIOUS
  <2>1. c \in Nat
    BY <1>1, LogAssumption DEF Cursors, PollState
  <2>2. c > seq
    BY <1>1, <2>1, LogAssumption
  <2> QED
    BY <1>7, <2>2
<1>10. /\ lastSeq \in Cursors
       /\ \A p \in Polls : poll[p].since \in Cursors /\ poll[p].latest \in Cursors
  BY DEF Cursors
<1>11. epoch' = 0 => \A c \in Cursors' : c <= seq'
  <2> SUFFICES ASSUME epoch' = 0, NEW c \in Cursors'
               PROVE  c <= seq'
    OBVIOUS
  <2>1. c \in Cursors /\ epoch = 0
    BY <1>2, <1>8
  <2>2. c \in Nat
    BY <1>1, <2>1, LogAssumption DEF Cursors, PollState
  <2>3. c <= seq
    BY <2>1 DEF Kept
  <2> QED
    BY <1>1, <2>2, <2>3, LogAssumption
<1>12. ASSUME NEW x \in ToSet(items)
       PROVE  /\ x.seq <= lastSeq' => Seen(x)'
              /\ \A p \in Polls :
                    /\ x.seq <= poll'[p].since => Seen(x)'
                    /\ poll'[p].at = "half" => Seen(x)' \/ x \in ToSet(poll'[p].events)
                    /\ x.seq <= poll'[p].latest =>
                          Seen(x)' \/ (poll'[p].at = "answered" /\ x \in ToSet(poll'[p].events))
  <2> QED
    BY <1>2, <1>5 DEF Kept
<1>13. /\ e.seq <= lastSeq' => Seen(e)'
       /\ \A p \in Polls :
             /\ e.seq <= poll'[p].since => Seen(e)'
             /\ poll'[p].at = "half" => Seen(e)'
             /\ e.seq <= poll'[p].latest => Seen(e)'
  <2> QED
    BY <1>2, <1>4, <1>6, <1>9, <1>10
<1> QED
  BY <1>3, <1>11, <1>12, <1>13 DEF Kept

\* A restarted server has logged nothing.
LEMMA RestartKept ==
    ASSUME Types, Kept, Restart
    PROVE  Kept'
<1>1. ToSet(items') = {}
  BY DEF Restart, ToSet
<1>2. epoch' # 0
  BY BoundsAssumption DEF Restart, Types
<1> QED
  BY <1>1, <1>2 DEF Kept

\* A poll asks from the cursor of the page.
LEMMA SendKept ==
    ASSUME Types, Kept, NEW p \in Polls, PollSend(p)
    PROVE  Kept'
<1>1. /\ UNCHANGED <<seq, items, epoch, lastSeq, delivered, excused>>
      /\ poll'[p].at = "sent" /\ poll'[p].since = lastSeq
      /\ poll'[p].latest = 0
      /\ \A q \in Polls \ {p} : poll'[q] = poll[q]
  BY SendFacts DEF PollSend, logVars, pageVars
<1>2. \A x : Seen(x)' <=> Seen(x)
  BY <1>1 DEF Seen
<1>3. \A x \in ToSet(items) : ~(x.seq <= 0)
  BY LogEntries, LogFacts, LogAssumption DEF Types
<1>4. \A c \in Cursors' : c \in Cursors \/ c = 0
  BY <1>1 DEF Cursors
<1>5. epoch' = 0 => \A c \in Cursors' : c <= seq'
  BY <1>1, <1>4, LogFacts, LogAssumption DEF Kept, Types
<1> QED
  BY <1>1, <1>2, <1>3, <1>5 DEF Kept

\* The first half of an answer takes everything after the cursor.
LEMMA SinceKept ==
    ASSUME Types, Kept, NEW p \in Polls, ServeSince(p)
    PROVE  Kept'
<1>1. /\ UNCHANGED <<seq, items, epoch, lastSeq, delivered, excused>>
      /\ poll'[p].at = "half" /\ poll'[p].since = poll[p].since
      /\ poll'[p].events = log!Since(poll[p].since)
      /\ poll'[p].latest = poll[p].latest
      /\ \A q \in Polls \ {p} : poll'[q] = poll[q]
      /\ poll[p].at = "sent"
  BY SinceStepFacts DEF ServeSince, logVars, pageVars, ghosts
<1>2. \A x : Seen(x)' <=> Seen(x)
  BY <1>1 DEF Seen
<1>3. Cursors' = Cursors
  BY <1>1 DEF Cursors
<1>4. poll[p].since \in Nat
  BY LogAssumption DEF Types, PollState
<1>5. \A x \in ToSet(items) : x.seq > poll[p].since => x \in ToSet(poll'[p].events)
  BY <1>1, <1>4, SinceFacts DEF Types
<1>6. \A x \in ToSet(items) : Seen(x) \/ x \in ToSet(poll'[p].events)
  <2> SUFFICES ASSUME NEW x \in ToSet(items), ~(x.seq > poll[p].since)
               PROVE  Seen(x)
    BY <1>5
  <2>1. x.seq \in Nat
    BY LogEntries, LogFacts, LogAssumption DEF Types
  <2>2. x.seq <= poll[p].since
    BY <1>4, <2>1
  <2> QED
    BY <2>2 DEF Kept
<1> QED
  BY <1>1, <1>2, <1>3, <1>6 DEF Kept

\* The second half moves the cursor over what the first half took.
LEMMA LatestKept ==
    ASSUME Types, Kept, NEW p \in Polls, ServeLatest(p)
    PROVE  Kept'
<1>1. /\ UNCHANGED <<seq, items, epoch, lastSeq, delivered, excused>>
      /\ poll'[p].at = "answered" /\ poll'[p].since = poll[p].since
      /\ poll'[p].events = poll[p].events /\ poll'[p].latest = seq
      /\ \A q \in Polls \ {p} : poll'[q] = poll[q]
      /\ poll[p].at = "half"
  BY LatestStepFacts DEF ServeLatest, logVars, pageVars, ghosts
<1>2. \A x : Seen(x)' <=> Seen(x)
  BY <1>1 DEF Seen
<1>3. \A c \in Cursors' : c \in Cursors \/ c = seq
  BY <1>1 DEF Cursors
<1>4. epoch' = 0 => \A c \in Cursors' : c <= seq'
  BY <1>1, <1>3, LogFacts, LogAssumption DEF Kept, Types
<1> QED
  BY <1>1, <1>2, <1>4 DEF Kept

\* The page takes the events with the cursor.
LEMMA ReceiveKept ==
    ASSUME Types, Kept, NEW p \in Polls, PollReceive(p)
    PROVE  Kept'
<1>1. /\ UNCHANGED <<seq, items, epoch, excused>>
      /\ delivered' = delivered \cup ToSet(poll[p].events)
      /\ poll'[p] = Idle
      /\ \A q \in Polls \ {p} : poll'[q] = poll[q]
      /\ lastSeq' = (IF poll[p].latest = 0 THEN lastSeq ELSE poll[p].latest)
  BY RestFacts, ReceiveFacts DEF PollReceive, ApplyAnswer, logVars
<1>2. \A x : Seen(x) \/ x \in ToSet(poll[p].events) => Seen(x)'
  BY <1>1 DEF Seen
<1>3. \A x \in ToSet(items) : ~(x.seq <= 0)
  BY LogEntries, LogFacts, LogAssumption DEF Types
<1>4. \A x \in ToSet(items) : x.seq <= lastSeq' => Seen(x)'
  BY <1>1, <1>2 DEF Kept
<1>5. \A c \in Cursors' : c \in Cursors \/ c = 0
  BY <1>1, IdleFacts DEF Cursors
<1>6. epoch' = 0 => \A c \in Cursors' : c <= seq'
  BY <1>1, <1>5, LogFacts, LogAssumption DEF Kept, Types
<1> QED
  BY <1>1, <1>2, <1>3, <1>4, <1>6, IdleFacts DEF Kept

\* A failed fetch takes nothing along.
LEMMA FailKept ==
    ASSUME Types, Kept, NEW p \in Polls, PollFail(p)
    PROVE  Kept'
<1>1. /\ UNCHANGED <<seq, items, epoch, lastSeq, delivered, excused>>
      /\ poll'[p] = Idle
      /\ \A q \in Polls \ {p} : poll'[q] = poll[q]
  BY RestFacts DEF PollFail, logVars, pageVars, ghosts
<1>2. \A x : Seen(x)' <=> Seen(x)
  BY <1>1 DEF Seen
<1>3. \A x \in ToSet(items) : ~(x.seq <= 0)
  BY LogEntries, LogFacts, LogAssumption DEF Types
<1>4. \A c \in Cursors' : c \in Cursors \/ c = 0
  BY <1>1, IdleFacts DEF Cursors
<1>5. epoch' = 0 => \A c \in Cursors' : c <= seq'
  BY <1>1, <1>4, LogFacts, LogAssumption DEF Kept, Types
<1> QED
  BY <1>1, <1>2, <1>3, <1>5, IdleFacts DEF Kept

LEMMA StepKept == Types /\ Kept /\ [Next]_vars => Kept'
<1> SUFFICES ASSUME Types, Kept, [Next]_vars
             PROVE  Kept'
  OBVIOUS
<1>1. CASE UNCHANGED vars
  BY <1>1 DEF vars, logVars, pageVars, ghosts, Kept, Seen, Cursors
<1> QED
  BY <1>1, LogEventKept, RestartKept, SendKept, SinceKept, LatestKept, ReceiveKept, FailKept
  DEF Next

-----------------------------------------------------------------------------
(* The page's list stays in order.                                         *)

Ordered(s) ==
    \A i, j \in 1 .. Len(s) : (i < j /\ s[i].payload = s[j].payload) => s[i].seq < s[j].seq

\* Whatever t adds of an incarnation s knows is newer.
Follows(s, t) ==
    \A i \in 1 .. Len(s), j \in 1 .. Len(t) :
        s[i].payload = t[j].payload => s[i].seq < t[j].seq

\* Of the incarnation e, s has nothing after c; of later ones nothing.
UpTo(s, e, c) ==
    \A i \in 1 .. Len(s) : s[i].payload <= e /\ (s[i].payload = e => s[i].seq <= c)

\* One poll at a time: it asks from the page's cursor, what it brings
\* follows what the page shows, and the cursor it brings covers both.
InOrder ==
    /\ Ordered(shown)
    /\ UpTo(shown, epoch, lastSeq) /\ UpTo(shown, epoch, seq)
    /\ \A p \in Polls :
          /\ poll[p].at # "idle" => \A q \in Polls \ {p} : poll[q].at = "idle"
          /\ poll[p].at = "sent" => poll[p].since = lastSeq
          /\ poll[p].at \in {"half", "answered"} =>
                /\ Ordered(poll[p].events)
                /\ Follows(shown, poll[p].events)
                /\ UpTo(poll[p].events, epoch, seq)
          /\ poll[p].at = "answered" =>
                /\ UpTo(poll[p].events, epoch, poll[p].latest)
                /\ UpTo(shown, epoch, poll[p].latest)

Calm == ~overlapped => InOrder

\* Joining a list and an answer that follows it, and cutting the front, is
\* in order.
LEMMA JoinOrdered ==
    ASSUME NEW s \in Seq(FeedEvent), NEW t \in Seq(FeedEvent),
           Ordered(s), Ordered(t), Follows(s, t),
           NEW u \in Seq(FeedEvent), NEW d \in Nat, Len(u) = Len(s \o t) - d,
           \A i \in 1 .. Len(u) : u[i] = (s \o t)[i + d]
    PROVE  Ordered(u)
<1> SUFFICES ASSUME NEW i \in 1 .. Len(u), NEW j \in 1 .. Len(u), i < j,
                    u[i].payload = u[j].payload
             PROVE  u[i].seq < u[j].seq
  BY DEF Ordered
<1> DEFINE a == i + d
           b == j + d
<1>1. a \in 1 .. Len(s) + Len(t) /\ b \in 1 .. Len(s) + Len(t) /\ a < b
  OBVIOUS
<1>2. u[i] = (s \o t)[a] /\ u[j] = (s \o t)[b]
  OBVIOUS
<1> HIDE DEF a, b
<1>3. CASE b <= Len(s)
  <2>1. u[i] = s[a] /\ u[j] = s[b] /\ a \in 1 .. Len(s) /\ b \in 1 .. Len(s)
    BY <1>1, <1>2, <1>3
  <2> QED
    BY <1>1, <2>1 DEF Ordered
<1>4. CASE a <= Len(s) /\ ~(b <= Len(s))
  <2>1. u[i] = s[a] /\ u[j] = t[b - Len(s)] /\ a \in 1 .. Len(s) /\ b - Len(s) \in 1 .. Len(t)
    BY <1>1, <1>2, <1>4
  <2> QED
    BY <2>1 DEF Follows
<1>5. CASE ~(a <= Len(s)) /\ ~(b <= Len(s))
  <2>1. /\ a - Len(s) \in 1 .. Len(t) /\ b - Len(s) \in 1 .. Len(t)
        /\ a - Len(s) < b - Len(s)
    BY <1>1, <1>5
  <2>2. u[i] = t[a - Len(s)]
    BY <1>1, <1>2, <1>5
  <2>3. u[j] = t[b - Len(s)]
    BY <1>1, <1>2, <1>5
  <2>4. t[a - Len(s)].payload = t[b - Len(s)].payload
    BY <2>2, <2>3
  <2>5. t[a - Len(s)].seq < t[b - Len(s)].seq
    BY ONLY Ordered(t), <2>1, <2>4 DEF Ordered
  <2> QED
    BY <2>2, <2>3, <2>5
<1>6. a <= Len(s) \/ ~(b <= Len(s))
  BY <1>1
<1> QED
  BY <1>3, <1>4, <1>5, <1>6

\* An entry of such a list is an entry of one of the two.
LEMMA JoinUpTo ==
    ASSUME NEW s \in Seq(FeedEvent), NEW t \in Seq(FeedEvent), NEW e, NEW c,
           UpTo(s, e, c), UpTo(t, e, c),
           NEW u \in Seq(FeedEvent), NEW d \in Nat, Len(u) = Len(s \o t) - d,
           \A i \in 1 .. Len(u) : u[i] = (s \o t)[i + d]
    PROVE  UpTo(u, e, c)
<1> SUFFICES ASSUME NEW i \in 1 .. Len(u)
             PROVE  u[i].payload <= e /\ (u[i].payload = e => u[i].seq <= c)
  BY DEF UpTo
<1>1. i + d \in 1 .. Len(s) + Len(t)
  OBVIOUS
<1>2. CASE i + d <= Len(s)
  <2>1. u[i] = s[i + d] /\ i + d \in 1 .. Len(s)
    BY <1>1, <1>2
  <2> QED
    BY <2>1 DEF UpTo
<1>3. CASE ~(i + d <= Len(s))
  <2>1. u[i] = t[i + d - Len(s)] /\ i + d - Len(s) \in 1 .. Len(t)
    BY <1>1, <1>3
  <2> QED
    BY <2>1 DEF UpTo
<1> QED
  BY <1>2, <1>3

\* An event's number and incarnation are numbers.
LEMMA Numbers == \A x \in FeedEvent : x.seq \in Nat /\ x.payload \in Nat
<1>1. 1 .. MaxEvents \subseteq Nat /\ 0 .. MaxRestarts \subseteq Nat
  BY LogAssumption, BoundsAssumption
<1> QED
  BY <1>1 DEF FeedEvent

\* A later bound bounds too, and a later incarnation has nothing yet.
LEMMA UpToGrows ==
    ASSUME NEW s \in Seq(FeedEvent), NEW e \in Nat, NEW c \in Nat, UpTo(s, e, c)
    PROVE  /\ \A d \in Nat : c <= d => UpTo(s, e, d)
           /\ \A d : UpTo(s, e + 1, d)
<1>1. \A i \in 1 .. Len(s) : s[i].seq \in Nat /\ s[i].payload \in Nat
  BY Numbers
<1> QED
  BY <1>1 DEF UpTo

LEMMA InitCalm == Init => Calm
<1> SUFFICES ASSUME Init
             PROVE  InOrder
  BY DEF Calm
<1>1. shown = <<>> /\ \A p \in Polls : poll[p].at = "idle"
  BY IdleFacts DEF Init
<1> QED
  BY <1>1 DEF InOrder, Ordered, UpTo

\* Conversions end: every number is later than what is on its way.
LEMMA LogEventCalm ==
    ASSUME Types, Calm, LogEvent
    PROVE  Calm'
<1> SUFFICES ASSUME ~overlapped'
             PROVE  InOrder'
  BY DEF Calm
<1>1. /\ UNCHANGED <<epoch, poll, lastSeq, shown, overlapped>>
      /\ seq' = seq + 1
  BY LogEventKeepsLog DEF LogEvent, pageVars
<1>2. InOrder
  BY <1>1 DEF Calm
<1>3. /\ seq \in Nat /\ seq + 1 \in Nat /\ seq <= seq + 1 /\ epoch \in Nat
      /\ shown \in Seq(FeedEvent)
      /\ \A p \in Polls : poll[p].events \in Seq(FeedEvent)
  BY LogFacts, LogAssumption, BoundsAssumption DEF Types, PollState
<1>4. UpTo(shown, epoch, seq + 1)
  BY <1>2, <1>3, UpToGrows DEF InOrder
<1>5. ASSUME NEW p \in Polls, UpTo(poll[p].events, epoch, seq)
      PROVE  UpTo(poll[p].events, epoch, seq + 1)
  BY <1>3, <1>5, UpToGrows
<1> QED
  BY <1>1, <1>2, <1>4, <1>5 DEF InOrder

\* The restarted server's conversions are not those the page shows.
LEMMA RestartCalm ==
    ASSUME Types, Calm, Restart
    PROVE  Calm'
<1> SUFFICES ASSUME ~overlapped'
             PROVE  InOrder'
  BY DEF Calm
<1>1. UNCHANGED <<lastSeq, shown, overlapped>> /\ epoch' = epoch + 1 /\ seq' = 0
  BY DEF Restart, pageVars
<1>2. \A p \in Polls : poll'[p] = Idle \/ (poll[p].at = "answered" /\ poll'[p] = poll[p])
  BY RestartFacts
<1>3. InOrder
  BY <1>1 DEF Calm
<1>4. /\ seq \in Nat /\ epoch \in Nat
      /\ shown \in Seq(FeedEvent)
      /\ \A p \in Polls : poll[p].events \in Seq(FeedEvent)
  BY LogFacts, LogAssumption, BoundsAssumption DEF Types, PollState
<1>5. \A d : UpTo(shown, epoch + 1, d)
  BY <1>3, <1>4, UpToGrows DEF InOrder
<1>6. ASSUME NEW p \in Polls, poll[p].at = "answered"
      PROVE  \A d : UpTo(poll[p].events, epoch + 1, d)
  <2>1. UpTo(poll[p].events, epoch, seq)
    BY <1>3, <1>6 DEF InOrder
  <2> QED
    BY <1>4, <2>1, UpToGrows
<1>7. ASSUME NEW p \in Polls, poll'[p].at # "idle"
      PROVE  /\ poll[p].at = "answered" /\ poll'[p] = poll[p]
             /\ \A q \in Polls \ {p} : poll'[q].at = "idle"
  <2>1. poll[p].at = "answered" /\ poll'[p] = poll[p]
    BY <1>2, <1>7, IdleFacts
  <2>2. \A q \in Polls \ {p} : poll[q].at = "idle"
    BY <1>3, <2>1 DEF InOrder
  <2> QED
    BY <1>2, <2>1, <2>2, IdleFacts
<1> QED
  BY <1>1, <1>3, <1>5, <1>6, <1>7 DEF InOrder

\* A poll is sent while no other is under way, or polls overlap.
LEMMA SendCalm ==
    ASSUME Types, Calm, NEW p \in Polls, PollSend(p)
    PROVE  Calm'
<1> SUFFICES ASSUME ~overlapped'
             PROVE  InOrder'
  BY DEF Calm
<1>1. /\ UNCHANGED <<seq, epoch, lastSeq, shown>>
      /\ poll'[p].at = "sent" /\ poll'[p].since = lastSeq
      /\ \A q \in Polls \ {p} : poll'[q] = poll[q]
  BY SendFacts DEF PollSend, logVars, pageVars
<1>2. ~overlapped /\ \A q \in Polls : poll[q].at = "idle"
  BY DEF PollSend
<1>3. InOrder
  BY <1>2 DEF Calm
<1> QED
  BY <1>1, <1>2, <1>3 DEF InOrder

\* What the first half takes is later than the cursor, so later than what
\* the page shows of this server.
LEMMA SinceCalm ==
    ASSUME Types, Calm, NEW p \in Polls, ServeSince(p)
    PROVE  Calm'
<1> SUFFICES ASSUME ~overlapped'
             PROVE  InOrder'
  BY DEF Calm
<1>1. /\ UNCHANGED <<seq, epoch, lastSeq, shown, overlapped>>
      /\ poll'[p].at = "half"
      /\ poll'[p].events = log!Since(poll[p].since)
      /\ \A q \in Polls \ {p} : poll'[q] = poll[q]
      /\ poll[p].at = "sent"
  BY SinceStepFacts DEF ServeSince, logVars, pageVars, ghosts
<1>2. InOrder
  BY <1>1 DEF Calm
<1>3. poll[p].since = lastSeq /\ \A q \in Polls \ {p} : poll[q].at = "idle"
  BY <1>1, <1>2 DEF InOrder
<1>4. lastSeq \in Nat /\ seq \in Nat /\ epoch \in Nat /\ shown \in Seq(FeedEvent)
  BY LogFacts, LogAssumption, BoundsAssumption DEF Types
<1>5. PICK out : out = log!Since(lastSeq)
  OBVIOUS
<1>6. /\ out \in Seq(FeedEvent)
      /\ \A j \in 1 .. Len(out) :
            out[j].payload = epoch /\ out[j].seq > lastSeq /\ out[j].seq <= seq
      /\ \A i, j \in 1 .. Len(out) : i < j => out[i].seq < out[j].seq
  BY <1>4, <1>5, SinceFacts DEF Types
<1>7. Ordered(out) /\ UpTo(out, epoch, seq)
  BY <1>4, <1>6 DEF Ordered, UpTo
<1>8. Follows(shown, out)
  <2> SUFFICES ASSUME NEW i \in 1 .. Len(shown), NEW j \in 1 .. Len(out),
                      shown[i].payload = out[j].payload
               PROVE  shown[i].seq < out[j].seq
    BY DEF Follows
  <2>1. shown[i].seq \in Nat /\ out[j].seq \in Nat
    BY <1>4, <1>6, Numbers
  <2>2. shown[i].seq <= lastSeq
    BY <1>2, <1>6 DEF InOrder, UpTo
  <2> QED
    BY <1>4, <1>6, <2>1, <2>2
<1> QED
  BY <1>1, <1>2, <1>3, <1>5, <1>7, <1>8 DEF InOrder

\* The newest number covers what the first half took and what is shown.
LEMMA LatestCalm ==
    ASSUME Types, Calm, NEW p \in Polls, ServeLatest(p)
    PROVE  Calm'
<1> SUFFICES ASSUME ~overlapped'
             PROVE  InOrder'
  BY DEF Calm
<1>1. /\ UNCHANGED <<seq, epoch, lastSeq, shown, overlapped>>
      /\ poll'[p].at = "answered"
      /\ poll'[p].events = poll[p].events /\ poll'[p].latest = seq
      /\ \A q \in Polls \ {p} : poll'[q] = poll[q]
      /\ poll[p].at = "half"
  BY LatestStepFacts DEF ServeLatest, logVars, pageVars, ghosts
<1>2. InOrder
  BY <1>1 DEF Calm
<1> QED
  BY <1>1, <1>2 DEF InOrder

\* The page appends what follows its list and takes the cursor of both.
LEMMA ReceiveCalm ==
    ASSUME Types, Calm, NEW p \in Polls, PollReceive(p)
    PROVE  Calm'
<1> SUFFICES ASSUME ~overlapped'
             PROVE  InOrder'
  BY DEF Calm
<1>1. /\ UNCHANGED <<seq, epoch, overlapped>>
      /\ poll'[p] = Idle
      /\ \A q \in Polls \ {p} : poll'[q] = poll[q]
      /\ poll[p].at = "answered"
  BY RestFacts DEF PollReceive, ApplyAnswer, logVars
<1>2. InOrder
  BY <1>1 DEF Calm
<1>3. PICK s, t, c : s = shown /\ t = poll[p].events /\ c = poll[p].latest
  OBVIOUS
<1>4. /\ s \in Seq(FeedEvent) /\ t \in Seq(FeedEvent) /\ c \in Nat
      /\ lastSeq \in Nat /\ seq \in Nat /\ epoch \in Nat
  BY <1>3, LogFacts, LogAssumption, BoundsAssumption DEF Types, PollState
<1>5. /\ Ordered(s) /\ Ordered(t) /\ Follows(s, t)
      /\ UpTo(s, epoch, seq) /\ UpTo(t, epoch, seq)
      /\ UpTo(s, epoch, c) /\ UpTo(t, epoch, c)
      /\ \A q \in Polls \ {p} : poll[q].at = "idle"
  BY <1>1, <1>2, <1>3 DEF InOrder
<1>6. /\ shown' \in Seq(FeedEvent)
      /\ lastSeq' = (IF c = 0 THEN lastSeq ELSE c)
      /\ \E d \in Nat : /\ Len(shown') = Len(s \o t) - d
                        /\ \A i \in 1 .. Len(shown') : shown'[i] = (s \o t)[i + d]
  BY <1>3, ReceiveFacts
<1>7. PICK d \in Nat : /\ Len(shown') = Len(s \o t) - d
                       /\ \A i \in 1 .. Len(shown') : shown'[i] = (s \o t)[i + d]
  BY <1>6
<1>8. PICK u : u = shown'
  OBVIOUS
<1>9. /\ u \in Seq(FeedEvent) /\ Len(u) = Len(s \o t) - d
      /\ \A i \in 1 .. Len(u) : u[i] = (s \o t)[i + d]
  BY <1>6, <1>7, <1>8
<1>10. Ordered(u) /\ UpTo(u, epoch, seq) /\ UpTo(u, epoch, c)
  BY <1>4, <1>5, <1>9, JoinOrdered, JoinUpTo
<1>11. UpTo(u, epoch, lastSeq')
  <2>1. CASE c = 0
    BY <1>4, <1>6, <1>9, <1>10, <2>1, UpToGrows
  <2>2. CASE c # 0
    BY <1>6, <1>10, <2>2
  <2> QED
    BY <2>1, <2>2
<1>12. \A q \in Polls : poll'[q].at = "idle"
  BY <1>1, <1>5, IdleFacts
<1> QED
  BY <1>1, <1>8, <1>10, <1>11, <1>12 DEF InOrder

\* A failed fetch leaves the page as it was.
LEMMA FailCalm ==
    ASSUME Types, Calm, NEW p \in Polls, PollFail(p)
    PROVE  Calm'
<1> SUFFICES ASSUME ~overlapped'
             PROVE  InOrder'
  BY DEF Calm
<1>1. /\ UNCHANGED <<seq, epoch, lastSeq, shown, overlapped>>
      /\ poll'[p] = Idle
      /\ \A q \in Polls \ {p} : poll'[q] = poll[q]
      /\ poll[p].at # "idle"
  BY RestFacts DEF PollFail, logVars, pageVars, ghosts
<1>2. InOrder
  BY <1>1 DEF Calm
<1>3. \A q \in Polls : poll'[q].at = "idle"
  BY <1>1, <1>2, IdleFacts DEF InOrder
<1> QED
  BY <1>1, <1>2, <1>3 DEF InOrder

LEMMA StepCalm == Types /\ Calm /\ [Next]_vars => Calm'
<1> SUFFICES ASSUME Types, Calm, [Next]_vars
             PROVE  Calm'
  OBVIOUS
<1>1. CASE UNCHANGED vars
  BY <1>1 DEF vars, logVars, pageVars, ghosts, Calm, InOrder
<1> QED
  BY <1>1, LogEventCalm, RestartCalm, SendCalm, SinceCalm, LatestCalm, ReceiveCalm, FailCalm
  DEF Next

-----------------------------------------------------------------------------
(* The theorems.                                                           *)

\* The types imply the model's type invariant.
LEMMA TypesMeanTypeOK == Types => TypeOK
<1> SUFFICES ASSUME Types
             PROVE  TypeOK
  OBVIOUS
<1>1. log!TypeOK
  BY DEF Types, Log, Lib!Inv, Lib!TypeOK, log!TypeOK, Lib!Event, log!Event
<1>2. \A p \in Polls : ToSet(poll[p].events) \subseteq FeedEvent
  BY Entries DEF Types, PollState
<1>3. ToSet(shown) \subseteq FeedEvent
  BY Entries DEF Types
<1>4. 0 .. MaxEvents \subseteq Nat
  BY LogAssumption
<1> QED
  BY <1>1, <1>2, <1>3, <1>4 DEF Types, TypeOK, PollState

(* The log, the fetches and the page keep their types: the page never      *)
(* holds more than PageCap events, and every event it holds or is sent is  *)
(* one the server logged.                                                  *)
THEOREM TypeCorrect == Spec => []TypeOK
<1>1. Init /\ [][Next]_vars => []Types
  BY InitTypes, StepTypes, PTL
<1> QED
  BY <1>1, TypesMeanTypeOK, PTL DEF Spec

(* Whatever polls overlap, fail or are cut off by a restart: an event the  *)
(* server retains at or below the page's cursor has reached the page, or   *)
(* it fell into the gap between the two halves of an answer, or it is one  *)
(* of a restarted server that counts up to an old cursor.                  *)
THEOREM OnlyTheGapLosesHolds == Spec => []OnlyTheGapLoses
<1>1. Types /\ Kept => OnlyTheGapLoses
  <2> SUFFICES ASSUME Types, Kept, NEW i \in 1 .. Len(items), items[i].seq <= lastSeq
               PROVE  items[i] \in delivered \cup excused
    BY DEF OnlyTheGapLoses
  <2>1. items[i] \in ToSet(items)
    BY LogFacts, Entries DEF Types
  <2> QED
    BY <2>1 DEF Kept, Seen
<1>2. Init /\ [][Next]_vars => [](Types /\ Kept)
  BY InitTypes, InitKept, StepTypes, StepKept, PTL
<1> QED
  BY <1>1, <1>2, PTL DEF Spec

(* While the page has one poll under way at a time it lists the events of  *)
(* every incarnation of the server once and in the order the conversions   *)
(* ended, whatever is cut from the list, fails or is restarted.            *)
THEOREM ShownInOrderHolds == Spec => []ShownInOrder
<1>1. Calm => ShownInOrder
  BY DEF Calm, InOrder, Ordered, ShownInOrder
<1>2. Init /\ [][Next]_vars => [](Types /\ Calm)
  BY InitTypes, InitCalm, StepTypes, StepCalm, PTL
<1> QED
  BY <1>1, <1>2, PTL DEF Spec
=============================================================================
