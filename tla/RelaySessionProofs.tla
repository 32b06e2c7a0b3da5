-------------------------- MODULE RelaySessionProofs --------------------------
(***************************************************************************)
(* What holds of relay requests however many there are at once, whatever    *)
(* the upstreams send, and wherever a client leaves.                        *)
(***************************************************************************)
EXTENDS RelaySession, Counting, FiniteSetTheorems, SequenceTheorems, TLAPS

\* Where the handler has the upstream's body.
Holding == {"relay_error", "buffered", "open", "read", "finalize", "sentinel", "close"}

\* Where the client has a status, and the event the same one.
Telling == {"read", "finalize", "sentinel", "close", "log", "end"}

Labels == {"new", "refused", "prepare", "do"} \union Holding \union Telling

\* What a stream, and an event, may have gone wrong with.
StreamReasons == {"", "convert", "read", "finalize"}

Reasons ==
    StreamReasons \union
        {"convert request", "build request", "upstream request failed", "upstream returned 429",
         "decode or convert response", "encode response", "read upstream response", "no converter",
         "client disconnected"}

\* The statuses an event can have.
Statuses == {0, 200, 400, 429, 500, 502}

Event == [status : Statuses, error : Reasons]

Shapes ==
    /\ pc \in [Sessions -> Labels]
    /\ body \in [Sessions -> {"none", "open", "closed"}]
    /\ event \in [Sessions -> Event]
    /\ streamErr \in [Sessions -> StreamReasons]
    /\ DOMAIN wire = Sessions
    /\ \A s \in Sessions : DOMAIN wire[s] = {"status", "frames"}
    /\ log \in Seq([session : Sessions, event : Event])

Held(s)  == body[s] = "open" <=> pc[s] \in Holding
Told(s)  == pc[s] \in Telling => event[s].status = wire[s].status
Absent(s) == Entries(s) = {}
Once(s)  == \E i \in 1..Len(log) : Entries(s) = {i} /\ log[i].event.status = wire[s].status
Logged(s) == IF pc[s] = "end" THEN Once(s) ELSE Absent(s)

Inv == Shapes /\ \A s \in Sessions : Held(s) /\ Told(s) /\ Logged(s)

-----------------------------------------------------------------------------
\* The requests are told apart: a step of one leaves the others as they were.
Others(s) ==
    \A t \in Sessions \ {s} :
        pc'[t] = pc[t] /\ body'[t] = body[t] /\ wire'[t] = wire[t] /\ event'[t] = event[t]

\* A step of one request before its end, which logs nothing.
LEMMA StepKeepsInv ==
    ASSUME Inv, NEW s \in Sessions, Shapes', Others(s), log' = log,
           pc[s] # "end", pc'[s] # "end", Held(s)', Told(s)'
    PROVE  Inv'
<1>1. \A t : Entries(t)' = Entries(t)
  BY DEF Entries
<1>2. ASSUME NEW t \in Sessions
      PROVE  Held(t)' /\ Told(t)' /\ Logged(t)'
  <2>1. CASE t = s
    <3>1. Absent(s)
      BY DEF Inv, Logged
    <3> QED
      BY <1>1, <2>1, <3>1 DEF Logged, Absent
  <2>2. CASE t # s
    <3>1. pc'[t] = pc[t] /\ body'[t] = body[t] /\ wire'[t] = wire[t] /\ event'[t] = event[t]
      BY <2>2 DEF Others
    <3>2. Held(t) /\ Told(t) /\ Logged(t)
      BY DEF Inv
    <3>3. Once(t) => Once(t)'
      BY <1>1, <3>1 DEF Once
    <3>4. Absent(t) => Absent(t)'
      BY <1>1 DEF Absent
    <3> QED
      BY <3>1, <3>2, <3>3, <3>4 DEF Held, Told, Logged
  <2> QED
    BY <2>1, <2>2
<1> QED
  BY <1>2 DEF Inv

\* The statuses and reasons the handler gives are among them.
LEMMA ReasonFacts ==
    /\ 200 \in Statuses /\ 400 \in Statuses /\ 429 \in Statuses /\ 500 \in Statuses /\ 502 \in Statuses
    /\ StreamReasons \subseteq Reasons /\ "convert request" \in Reasons /\ "build request" \in Reasons
    /\ "upstream request failed" \in Reasons /\ "upstream returned 429" \in Reasons
    /\ "decode or convert response" \in Reasons /\ "encode response" \in Reasons
    /\ "read upstream response" \in Reasons /\ "no converter" \in Reasons
    /\ "client disconnected" \in Reasons /\ "" \in Reasons
BY DEF Reasons, StreamReasons, Statuses

\* The event of one request gets that status.
Records(s, status) ==
    /\ event' \in [Sessions -> Event] /\ event'[s].status = status
    /\ \A t \in Sessions \ {s} : event'[t] = event[t]

\* With a reason, or keeping the one there is.
LEMMA RecordFacts ==
    ASSUME Shapes, NEW s \in Sessions, NEW status \in Statuses, NEW reason \in Reasons,
           \/ event' = [event EXCEPT ![s] = [status |-> status, error |-> reason]]
           \/ event' = [event EXCEPT ![s].status = status]
    PROVE  Records(s, status)
<1>1. CASE event' = [event EXCEPT ![s] = [status |-> status, error |-> reason]]
  BY <1>1 DEF Shapes, Event, Records
<1>2. CASE event' = [event EXCEPT ![s].status = status]
  BY <1>2 DEF Shapes, Event, Records
<1> QED
  BY <1>1, <1>2

\* Where the client and the event get the same status.
LEMMA ToldTheSame ==
    ASSUME Shapes, NEW s \in Sessions, NEW status \in Statuses, NEW frames,
           WriteHeader(s, status, frames), Records(s, status)
    PROVE  /\ event' \in [Sessions -> Event] /\ DOMAIN wire' = Sessions
           /\ \A t \in Sessions : DOMAIN wire'[t] = {"status", "frames"}
           /\ event'[s].status = wire'[s].status
           /\ \A t \in Sessions \ {s} : wire'[t] = wire[t] /\ event'[t] = event[t]
BY DEF Shapes, WriteHeader, Records

\* A step that goes on to another label.
LEMMA GotoFacts ==
    ASSUME Shapes, NEW s \in Sessions, NEW label \in Labels, Goto(s, label)
    PROVE  /\ pc' \in [Sessions -> Labels] /\ pc'[s] = label
           /\ \A t \in Sessions \ {s} : pc'[t] = pc[t]
BY DEF Shapes, Goto

\* A handler that leaves closes the body first when it has one.
LEMMA LeaveFacts ==
    ASSUME Shapes, NEW s \in Sessions, UNCHANGED body, Goto(s, Leave(s))
    PROVE  /\ pc' \in [Sessions -> Labels] /\ pc'[s] # "end" /\ Held(s)'
           /\ \A t \in Sessions \ {s} : pc'[t] = pc[t]
<1>1. Leave(s) \in Labels /\ Leave(s) # "end" /\ (body[s] = "open" <=> Leave(s) \in Holding)
  BY DEF Leave, Labels, Holding, Telling
<1> HIDE DEF Leave
<1>2. pc' \in [Sessions -> Labels] /\ pc'[s] = Leave(s) /\ \A t \in Sessions \ {s} : pc'[t] = pc[t]
  BY <1>1, GotoFacts
<1> QED
  BY <1>1, <1>2 DEF Held

\* A handler that writes a status, records it and leaves.
LEMMA ConcludeKeepsInv ==
    ASSUME Inv, NEW s \in Sessions, pc[s] # "end",
           NEW status \in Statuses, NEW frames, WriteHeader(s, status, frames), Records(s, status),
           Goto(s, Leave(s)), UNCHANGED <<body, streamErr, log>>
    PROVE  Inv'
<1>1. /\ event' \in [Sessions -> Event] /\ DOMAIN wire' = Sessions
      /\ \A t \in Sessions : DOMAIN wire'[t] = {"status", "frames"}
      /\ event'[s].status = wire'[s].status
      /\ \A t \in Sessions \ {s} : wire'[t] = wire[t] /\ event'[t] = event[t]
  BY ToldTheSame DEF Inv
<1>2. /\ pc' \in [Sessions -> Labels] /\ pc'[s] # "end" /\ Held(s)'
      /\ \A t \in Sessions \ {s} : pc'[t] = pc[t]
  BY LeaveFacts DEF Inv
<1>3. Shapes'
  BY <1>1, <1>2 DEF Inv, Shapes
<1>4. Others(s)
  BY <1>1, <1>2 DEF Others
<1>5. Told(s)'
  BY <1>1 DEF Told
<1> QED
  BY <1>2, <1>3, <1>4, <1>5, StepKeepsInv

\* session.fail keeps it, wherever it is called.
LEMMA FailKeepsInv ==
    ASSUME Inv, NEW s \in Sessions, pc[s] # "end", NEW status \in Statuses, NEW reason \in Reasons,
           Fail(s, status, reason), UNCHANGED <<body, streamErr, log>>
    PROVE  Inv'
<1>1. /\ WriteHeader(s, status, <<"error">>) /\ Goto(s, Leave(s))
      /\ event' = [event EXCEPT ![s] = [status |-> status, error |-> reason]]
  BY DEF Fail
<1>2. Records(s, status)
  BY <1>1, RecordFacts DEF Inv
<1> QED
  BY <1>1, <1>2, ConcludeKeepsInv

\* A step that neither writes a status nor records one, to a label of the same kind.
LEMMA AdvanceKeepsInv ==
    ASSUME Inv, NEW s \in Sessions, pc[s] # "end",
           NEW label \in Labels \ {"end"}, Goto(s, label) \/ (label = pc[s] /\ UNCHANGED pc),
           label \in Holding <=> pc[s] \in Holding, label \in Telling => pc[s] \in Telling,
           event' \in [Sessions -> Event], streamErr' \in [Sessions -> StreamReasons],
           DOMAIN wire' = Sessions, \A t \in Sessions : DOMAIN wire'[t] = {"status", "frames"},
           event'[s].status = event[s].status, wire'[s].status = wire[s].status,
           \A t \in Sessions \ {s} : wire'[t] = wire[t] /\ event'[t] = event[t],
           UNCHANGED <<body, log>>
    PROVE  Inv'
<1>1. /\ pc' \in [Sessions -> Labels] /\ pc'[s] = label
      /\ \A t \in Sessions \ {s} : pc'[t] = pc[t]
  <2>1. CASE Goto(s, label)
    BY <2>1, GotoFacts DEF Inv
  <2>2. CASE label = pc[s] /\ UNCHANGED pc
    BY <2>2 DEF Inv, Shapes
  <2> QED
    BY <2>1, <2>2
<1>2. Shapes'
  BY <1>1 DEF Inv, Shapes
<1>3. Others(s)
  BY <1>1 DEF Others
<1>4. Held(s)' /\ Told(s)'
  BY <1>1 DEF Inv, Held, Told
<1> QED
  BY <1>1, <1>2, <1>3, <1>4, StepKeepsInv

\* Writing a frame leaves the status.
LEMMA FrameFacts ==
    ASSUME Shapes, NEW s \in Sessions, NEW frame, WriteFrame(s, frame)
    PROVE  /\ DOMAIN wire' = Sessions /\ wire'[s].status = wire[s].status
           /\ \A t \in Sessions : DOMAIN wire'[t] = {"status", "frames"}
           /\ \A t \in Sessions \ {s} : wire'[t] = wire[t]
BY DEF Shapes, WriteFrame

\* Recording an error leaves the status.
LEMMA ErrorFacts ==
    ASSUME Shapes, NEW s \in Sessions, NEW reason \in Reasons, event' = [event EXCEPT ![s].error = reason]
    PROVE  /\ event' \in [Sessions -> Event] /\ event'[s].status = event[s].status
           /\ \A t \in Sessions \ {s} : event'[t] = event[t]
BY DEF Shapes, Event

-----------------------------------------------------------------------------
(* One lemma for each action. *)

LEMMA ArriveKeepsInv ==
    ASSUME Inv, NEW s \in Sessions, NEW client, NEW upstream, NEW streaming, NEW flaws,
           Arrive(s, client, upstream, streaming, flaws)
    PROVE  Inv'
<1>1. pc[s] = "new" /\ UNCHANGED <<body, event, streamErr, log>>
  BY DEF Arrive
<1>2. CASE flaws = {}
  <2>1. Goto(s, "prepare") /\ UNCHANGED wire
    BY <1>2 DEF Arrive
  <2>2. "prepare" \in Labels \ {"end"} /\ "prepare" \notin Holding \union Telling /\ "new" \notin Holding
    BY DEF Labels, Holding, Telling
  <2> QED
    BY <1>1, <2>1, <2>2, AdvanceKeepsInv DEF Inv, Shapes
<1>3. CASE flaws # {}
  <2> DEFINE status == GateStatus(flaws)
  <2>1. Goto(s, "refused") /\ WriteHeader(s, status, <<"error">>)
    BY <1>3 DEF Arrive
  <2>2. "refused" \in Labels \ {"end"} /\ "refused" \notin Holding \union Telling /\ "new" \notin Holding
    BY DEF Labels, Holding, Telling
  <2> HIDE DEF status
  <2>3. DOMAIN wire' = Sessions /\ (\A t \in Sessions : DOMAIN wire'[t] = {"status", "frames"})
        /\ \A t \in Sessions \ {s} : wire'[t] = wire[t]
    BY <2>1 DEF WriteHeader, Inv, Shapes
  <2>4. pc' \in [Sessions -> Labels] /\ pc'[s] = "refused" /\ \A t \in Sessions \ {s} : pc'[t] = pc[t]
    BY <2>1, <2>2, GotoFacts DEF Inv
  <2>5. Shapes' /\ Others(s)
    BY <1>1, <2>3, <2>4 DEF Inv, Shapes, Others
  <2>6. Held(s)' /\ Told(s)'
    BY <1>1, <2>2, <2>4 DEF Inv, Held, Told
  <2> QED
    BY <1>1, <2>4, <2>5, <2>6, StepKeepsInv
<1> QED
  BY <1>2, <1>3

LEMMA PrepareKeepsInv ==
    ASSUME Inv, NEW s \in Sessions, Prepare(s)
    PROVE  Inv'
<1>1. pc[s] = "prepare" /\ UNCHANGED <<body, streamErr, log>>
  BY DEF Prepare
<1>2. CASE Goto(s, "do") /\ UNCHANGED <<event, wire>>
  <2>1. "do" \in Labels \ {"end"} /\ "do" \notin Holding \union Telling /\ "prepare" \notin Holding
    BY DEF Labels, Holding, Telling
  <2> QED
    BY <1>1, <1>2, <2>1, AdvanceKeepsInv DEF Inv, Shapes
<1>3. CASE Fail(s, 400, "convert request")
  BY <1>1, <1>3, FailKeepsInv, ReasonFacts
<1>4. CASE Fail(s, 400, "build request")
  BY <1>1, <1>4, FailKeepsInv, ReasonFacts
<1> QED
  BY <1>2, <1>3, <1>4 DEF Prepare

LEMMA DoKeepsInv ==
    ASSUME Inv, NEW s \in Sessions, Do(s)
    PROVE  Inv'
<1>1. pc[s] = "do" /\ UNCHANGED <<streamErr, log>>
  BY DEF Do
<1>2. CASE Fail(s, 502, "upstream request failed") /\ UNCHANGED body
  BY ZenonT(30), <1>1, <1>2, FailKeepsInv, ReasonFacts
<1>3. CASE /\ body' = [body EXCEPT ![s] = "open"] /\ UNCHANGED <<event, wire>>
           /\ \E label \in {"relay_error", "open", "buffered"} : Goto(s, label)
  <2>1. PICK label \in {"relay_error", "open", "buffered"} : Goto(s, label)
    BY <1>3
  <2>2. label \in Labels \ {"end"} /\ label \in Holding /\ label \notin Telling
    BY DEF Labels, Holding, Telling
  <2>3. pc' \in [Sessions -> Labels] /\ pc'[s] = label /\ \A t \in Sessions \ {s} : pc'[t] = pc[t]
    BY <2>1, <2>2, GotoFacts DEF Inv
  <2>4. Shapes' /\ Others(s) /\ body'[s] = "open"
    BY <1>1, <1>3, <2>3 DEF Inv, Shapes, Others
  <2>5. Held(s)' /\ Told(s)'
    BY <2>2, <2>3, <2>4 DEF Held, Told
  <2> QED
    BY <1>1, <2>2, <2>3, <2>4, <2>5, StepKeepsInv
<1> QED
  BY <1>2, <1>3 DEF Do

LEMMA RelayUpstreamErrorKeepsInv ==
    ASSUME Inv, NEW s \in Sessions, RelayUpstreamError(s)
    PROVE  Inv'
<1>1. /\ pc[s] = "relay_error" /\ WriteHeader(s, 429, <<"body">>) /\ Goto(s, Leave(s))
      /\ event' = [event EXCEPT ![s] = [status |-> 429, error |-> "upstream returned 429"]]
      /\ UNCHANGED <<body, streamErr, log>>
  BY DEF RelayUpstreamError, RecordUpstreamError
<1>2. Records(s, 429)
  <2>1. Shapes
    BY DEF Inv
  <2>2. 429 \in Statuses /\ "upstream returned 429" \in Reasons
    BY ReasonFacts
  <2>3. event' = [event EXCEPT ![s] = [status |-> 429, error |-> "upstream returned 429"]]
    BY <1>1
  <2> QED
    BY ONLY ZenonT(30), <2>1, <2>2, <2>3, s \in Sessions, RecordFacts
<1> QED
  BY ZenonT(30), <1>1, <1>2, ConcludeKeepsInv, ReasonFacts

LEMMA BufferedKeepsInv ==
    ASSUME Inv, NEW s \in Sessions, Buffered(s)
    PROVE  Inv'
<1>1. pc[s] = "buffered" /\ UNCHANGED <<body, streamErr, log>>
  BY DEF Buffered
<1>2. CASE WriteHeader(s, 200, <<"body">>) /\ event' = [event EXCEPT ![s].status = 200] /\ Goto(s, Leave(s))
  <2>1. Records(s, 200)
    BY <1>2, RecordFacts, ReasonFacts DEF Inv
  <2> QED
    BY <1>1, <1>2, <2>1, ConcludeKeepsInv, ReasonFacts
<1>3. CASE Fail(s, 502, "decode or convert response")
  BY <1>1, <1>3, FailKeepsInv, ReasonFacts
<1>4. CASE Fail(s, 500, "encode response")
  BY <1>1, <1>4, FailKeepsInv, ReasonFacts
<1>5. CASE Fail(s, 502, "read upstream response")
  BY <1>1, <1>5, FailKeepsInv, ReasonFacts
<1> QED
  BY <1>2, <1>3, <1>4, <1>5 DEF Buffered

LEMMA StreamOpenKeepsInv ==
    ASSUME Inv, NEW s \in Sessions, StreamOpen(s)
    PROVE  Inv'
<1>1. pc[s] = "open" /\ UNCHANGED <<body, streamErr, log>>
  BY DEF StreamOpen
<1>2. CASE WriteHeader(s, 200, <<>>) /\ event' = [event EXCEPT ![s].status = 200] /\ Goto(s, "read")
  <2>1. Records(s, 200)
    BY <1>2, RecordFacts, ReasonFacts DEF Inv
  <2>2. /\ event' \in [Sessions -> Event] /\ DOMAIN wire' = Sessions
        /\ \A t \in Sessions : DOMAIN wire'[t] = {"status", "frames"}
        /\ event'[s].status = wire'[s].status
        /\ \A t \in Sessions \ {s} : wire'[t] = wire[t] /\ event'[t] = event[t]
    BY <1>2, <2>1, ToldTheSame, ReasonFacts DEF Inv
  <2>3. "read" \in Labels /\ "read" \in Holding /\ "open" \in Holding
    BY DEF Labels, Holding
  <2>4. pc' \in [Sessions -> Labels] /\ pc'[s] = "read" /\ \A t \in Sessions \ {s} : pc'[t] = pc[t]
    BY <1>2, <2>3, GotoFacts DEF Inv
  <2>5. Shapes' /\ Others(s)
    BY <1>1, <2>2, <2>4 DEF Inv, Shapes, Others
  <2>6. Held(s)' /\ Told(s)'
    BY <1>1, <2>2, <2>3, <2>4 DEF Inv, Held, Told
  <2> QED
    BY <1>1, <2>4, <2>5, <2>6, StepKeepsInv
<1>3. CASE Fail(s, 400, "no converter")
  BY <1>1, <1>3, FailKeepsInv, ReasonFacts
<1> QED
  BY <1>2, <1>3 DEF StreamOpen

\* A client that is gone is noted, and the stream is left.
LEMMA DisconnectedKeepsInv ==
    ASSUME Inv, NEW s \in Sessions, pc[s] \in {"read", "finalize"}, Disconnected(s),
           UNCHANGED <<body, log>>
    PROVE  Inv'
<1>1. /\ event' = [event EXCEPT ![s].error = "client disconnected"]
      /\ Goto(s, "close") /\ UNCHANGED <<wire, streamErr>>
  BY DEF Disconnected
<1>2. /\ event' \in [Sessions -> Event] /\ event'[s].status = event[s].status
      /\ \A t \in Sessions \ {s} : event'[t] = event[t]
  BY <1>1, ErrorFacts, ReasonFacts DEF Inv
<1>3. "close" \in Labels \ {"end"} /\ "close" \in Holding /\ pc[s] \in Holding /\ pc[s] \in Telling /\ pc[s] # "end"
  BY DEF Labels, Holding, Telling
<1> QED
  BY <1>1, <1>2, <1>3, AdvanceKeepsInv DEF Inv, Shapes

\* What becomes of a frame: nothing, the end of the loop, a frame for the client, or
\* a client that is gone.
LEMMA HandleFacts ==
    ASSUME NEW s, NEW frame, Handle(s, frame)
    PROVE  \/ UNCHANGED <<pc, wire, event, streamErr>>
           \/ Goto(s, "finalize") /\ UNCHANGED <<wire, event, streamErr>>
           \/ /\ Goto(s, "finalize") /\ UNCHANGED <<wire, event>>
              /\ streamErr' = [streamErr EXCEPT ![s] = "convert"]
           \/ WriteFrame(s, frame) /\ UNCHANGED <<pc, event, streamErr>>
           \/ Disconnected(s)
BY DEF Handle, DecodeFailed, ConversionFailed

LEMMA ReadKeepsInv ==
    ASSUME Inv, NEW s \in Sessions, Read(s)
    PROVE  Inv'
<1>1. pc[s] = "read" /\ UNCHANGED <<body, log>>
  BY DEF Read
<1>2. /\ "read" \in Labels \ {"end"} /\ "finalize" \in Labels \ {"end"}
      /\ {"read", "finalize"} \subseteq Holding \intersect Telling
      /\ "convert" \in StreamReasons /\ "read" \in StreamReasons
  BY DEF Labels, Holding, Telling, StreamReasons
<1>3. /\ DOMAIN wire = Sessions /\ \A t \in Sessions : DOMAIN wire[t] = {"status", "frames"}
      /\ event \in [Sessions -> Event] /\ streamErr \in [Sessions -> StreamReasons]
  BY DEF Inv, Shapes
<1>4. CASE UNCHANGED <<pc, wire, event, streamErr>>
  BY <1>1, <1>2, <1>3, <1>4, AdvanceKeepsInv
<1>5. CASE /\ Goto(s, "finalize") /\ UNCHANGED <<wire, event>>
           /\ \/ UNCHANGED streamErr
              \/ streamErr' = [streamErr EXCEPT ![s] = "convert"]
              \/ streamErr' = [streamErr EXCEPT ![s] = "read"]
  <2>1. streamErr' \in [Sessions -> StreamReasons]
    BY <1>2, <1>3, <1>5
  <2> QED
    BY <1>1, <1>2, <1>3, <1>5, <2>1, AdvanceKeepsInv
<1>6. CASE \E frame : WriteFrame(s, frame) /\ UNCHANGED <<pc, event, streamErr>>
  <2>1. PICK frame : WriteFrame(s, frame) /\ UNCHANGED <<pc, event, streamErr>>
    BY <1>6
  <2>2. /\ DOMAIN wire' = Sessions /\ wire'[s].status = wire[s].status
        /\ \A t \in Sessions : DOMAIN wire'[t] = {"status", "frames"}
        /\ \A t \in Sessions \ {s} : wire'[t] = wire[t]
    BY <2>1, FrameFacts DEF Inv
  <2> QED
    BY <1>1, <1>2, <1>3, <2>1, <2>2, AdvanceKeepsInv
<1>7. CASE Disconnected(s)
  BY <1>1, <1>7, DisconnectedKeepsInv
<1>8. \/ Handle(s, Head(inbox[s]))
      \/ /\ Goto(s, "finalize") /\ UNCHANGED <<wire, event>>
         /\ UNCHANGED streamErr \/ streamErr' = [streamErr EXCEPT ![s] = "read"]
  BY DEF Read, ReadError
<1> QED
  BY <1>4, <1>5, <1>6, <1>7, <1>8, HandleFacts

LEMMA FinalizeKeepsInv ==
    ASSUME Inv, NEW s \in Sessions, Finalize(s)
    PROVE  Inv'
<1>1. pc[s] = "finalize" /\ UNCHANGED <<body, log>>
  BY DEF Finalize
<1>2. /\ "sentinel" \in Labels \ {"end"} /\ {"finalize", "sentinel"} \subseteq Holding \intersect Telling
      /\ "finalize" \in StreamReasons
  BY DEF Labels, Holding, Telling, StreamReasons
<1>3. /\ DOMAIN wire = Sessions /\ \A t \in Sessions : DOMAIN wire[t] = {"status", "frames"}
      /\ event \in [Sessions -> Event] /\ streamErr \in [Sessions -> StreamReasons]
  BY DEF Inv, Shapes
<1>4. CASE /\ Goto(s, "sentinel") /\ UNCHANGED <<wire, event>>
           /\ UNCHANGED streamErr \/ streamErr' = [streamErr EXCEPT ![s] = "finalize"]
  <2>1. streamErr' \in [Sessions -> StreamReasons]
    BY <1>2, <1>3, <1>4
  <2> QED
    BY <1>1, <1>2, <1>3, <1>4, <2>1, AdvanceKeepsInv
<1>5. CASE WriteFrame(s, "final") /\ Goto(s, "sentinel") /\ UNCHANGED <<event, streamErr>>
  <2>1. /\ DOMAIN wire' = Sessions /\ wire'[s].status = wire[s].status
        /\ \A t \in Sessions : DOMAIN wire'[t] = {"status", "frames"}
        /\ \A t \in Sessions \ {s} : wire'[t] = wire[t]
    BY <1>5, FrameFacts DEF Inv
  <2> QED
    BY <1>1, <1>2, <1>3, <1>5, <2>1, AdvanceKeepsInv
<1>6. CASE Disconnected(s)
  BY <1>1, <1>6, DisconnectedKeepsInv
<1> QED
  BY <1>4, <1>5, <1>6 DEF Finalize

LEMMA SentinelKeepsInv ==
    ASSUME Inv, NEW s \in Sessions, Sentinel(s)
    PROVE  Inv'
<1>1. pc[s] = "sentinel" /\ Goto(s, "close") /\ UNCHANGED <<body, streamErr, log>>
  BY DEF Sentinel
<1>2. "close" \in Labels \ {"end"} /\ {"sentinel", "close"} \subseteq Holding \intersect Telling
  BY DEF Labels, Holding, Telling
<1>3. /\ DOMAIN wire = Sessions /\ \A t \in Sessions : DOMAIN wire[t] = {"status", "frames"}
      /\ event \in [Sessions -> Event] /\ streamErr \in [Sessions -> StreamReasons]
  BY DEF Inv, Shapes
<1>4. /\ DOMAIN wire' = Sessions /\ wire'[s].status = wire[s].status
      /\ \A t \in Sessions : DOMAIN wire'[t] = {"status", "frames"}
      /\ \A t \in Sessions \ {s} : wire'[t] = wire[t]
  <2>1. CASE UNCHANGED wire
    BY <1>3, <2>1
  <2>2. CASE WriteFrame(s, "[DONE]")
    BY <2>2, FrameFacts DEF Inv
  <2> QED
    BY <2>1, <2>2 DEF Sentinel
<1>5. /\ event' \in [Sessions -> Event] /\ event'[s].status = event[s].status
      /\ \A t \in Sessions \ {s} : event'[t] = event[t]
  <2> DEFINE reason == IF streamErr[s] # "" THEN streamErr[s] ELSE event[s].error
  <2>1. event' = [event EXCEPT ![s].error = reason]
    BY DEF Sentinel, FinishStream
  <2>2. reason \in Reasons
    BY <1>3, ReasonFacts DEF Event
  <2> HIDE DEF reason
  <2> QED
    BY <2>1, <2>2, ErrorFacts DEF Inv
<1> QED
  BY <1>1, <1>2, <1>3, <1>4, <1>5, AdvanceKeepsInv

LEMMA CloseBodyKeepsInv ==
    ASSUME Inv, NEW s \in Sessions, CloseBody(s)
    PROVE  Inv'
<1>1. /\ pc[s] = "close" /\ Goto(s, "log") /\ body' = [body EXCEPT ![s] = "closed"]
      /\ UNCHANGED <<wire, event, streamErr, log>>
  BY DEF CloseBody, Release
<1>2. "log" \in Labels /\ "log" \notin Holding /\ "close" \in Telling
  BY DEF Labels, Holding, Telling
<1>3. pc' \in [Sessions -> Labels] /\ pc'[s] = "log" /\ \A t \in Sessions \ {s} : pc'[t] = pc[t]
  BY <1>1, <1>2, GotoFacts DEF Inv
<1>4. Shapes' /\ Others(s) /\ body'[s] = "closed"
  BY <1>1, <1>3 DEF Inv, Shapes, Others
<1>5. Held(s)' /\ Told(s)'
  BY <1>1, <1>2, <1>3, <1>4 DEF Inv, Held, Told
<1> QED
  BY <1>1, <1>3, <1>4, <1>5, StepKeepsInv

\* The event is appended for its own request, and every earlier one stays.
LEMMA AppendFacts ==
    ASSUME Shapes, NEW s \in Sessions, LogEvent(s)
    PROVE  /\ log' \in Seq([session : Sessions, event : Event])
           /\ Len(log') = Len(log) + 1 /\ Len(log) \in Nat
           /\ Entries(s)' = Entries(s) \union {Len(log) + 1}
           /\ log'[Len(log) + 1].event = event[s]
           /\ \A t \in Sessions \ {s} : Entries(t)' = Entries(t)
           /\ \A i \in 1..Len(log) : log'[i] = log[i]
<1> DEFINE last  == Len(log) + 1
           entry == [session |-> s, event |-> event[s]]
           S     == [session : Sessions, event : Event]
<1>1. entry \in S /\ entry.session = s /\ entry.event = event[s]
  BY DEF Shapes
<1>2. log \in Seq(S) /\ log' = Append(log, entry)
  BY DEF Shapes, LogEvent
<1> HIDE DEF entry, S
<1>3. /\ log' \in Seq(S) /\ Len(log') = last /\ Len(log) \in Nat
      /\ log'[last] = entry /\ \A i \in 1..Len(log) : log'[i] = log[i]
  BY <1>1, <1>2
<1>4. 1..last = (1..Len(log)) \union {last}
  BY <1>3
<1> HIDE DEF last
<1>5. \A t : Entries(t)' = {i \in 1..last : log'[i].session = t}
  BY <1>3 DEF Entries
<1>6. Entries(s)' = Entries(s) \union {last}
  BY <1>1, <1>3, <1>4, <1>5 DEF Entries
<1>7. \A t \in Sessions \ {s} : Entries(t)' = Entries(t)
  BY <1>1, <1>3, <1>4, <1>5 DEF Entries
<1> QED
  BY <1>1, <1>3, <1>6, <1>7 DEF last, S

LEMMA RecordKeepsInv ==
    ASSUME Inv, NEW s \in Sessions, Record(s)
    PROVE  Inv'
<1>1. /\ pc[s] = "log" /\ LogEvent(s) /\ Goto(s, "end") /\ UNCHANGED <<body, wire, event, streamErr>>
  BY DEF Record
<1>2. "end" \in Labels /\ "end" \notin Holding /\ "log" \notin Holding /\ "log" \in Telling
  BY DEF Labels, Holding, Telling
<1>3. pc' \in [Sessions -> Labels] /\ pc'[s] = "end" /\ \A t \in Sessions \ {s} : pc'[t] = pc[t]
  BY <1>1, <1>2, GotoFacts DEF Inv
<1>4. /\ log' \in Seq([session : Sessions, event : Event])
      /\ Len(log') = Len(log) + 1 /\ Len(log) \in Nat
      /\ Entries(s)' = Entries(s) \union {Len(log) + 1}
      /\ log'[Len(log) + 1].event = event[s]
      /\ \A t \in Sessions \ {s} : Entries(t)' = Entries(t)
      /\ \A i \in 1..Len(log) : log'[i] = log[i]
  BY <1>1, AppendFacts DEF Inv
<1>5. Shapes'
  BY <1>1, <1>3, <1>4 DEF Inv, Shapes
<1>6. Held(s)' /\ Told(s)' /\ Logged(s)'
  <2>1. Held(s)' /\ Told(s)'
    BY <1>1, <1>2, <1>3 DEF Inv, Held, Told
  <2>2. Entries(s) = {} /\ event[s].status = wire[s].status
    BY <1>1, <1>2 DEF Inv, Logged, Absent, Told
  <2>3. /\ Len(log) + 1 \in 1..Len(log') /\ Entries(s)' = {Len(log) + 1}
        /\ log'[Len(log) + 1].event.status = wire'[s].status
    BY <1>1, <1>4, <2>2
  <2>4. Once(s)'
    BY <2>3 DEF Once
  <2> QED
    BY <1>3, <2>1, <2>4 DEF Logged
<1>7. ASSUME NEW t \in Sessions \ {s}
      PROVE  Held(t)' /\ Told(t)' /\ Logged(t)'
  <2>1. Held(t) /\ Told(t) /\ Logged(t)
    BY DEF Inv
  <2>2. pc'[t] = pc[t] /\ Entries(t)' = Entries(t)
    BY <1>3, <1>4
  <2>3. Held(t)' /\ Told(t)'
    BY <1>1, <2>1, <2>2 DEF Held, Told
  <2>4. Absent(t) => Absent(t)'
    BY <2>2 DEF Absent
  <2>5. ASSUME Once(t)
        PROVE  Once(t)'
    <3>1. PICK i \in 1..Len(log) : Entries(t) = {i} /\ log[i].event.status = wire[t].status
      BY <2>5 DEF Once
    <3>2. i \in 1..Len(log') /\ log'[i] = log[i]
      BY <1>4
    <3> QED
      BY <1>1, <2>2, <3>1, <3>2 DEF Once
  <2> QED
    BY <2>1, <2>2, <2>3, <2>4, <2>5 DEF Logged
<1> QED
  BY <1>5, <1>6, <1>7 DEF Inv

\* The client and the upstream change nothing the handler has.
LEMMA QuietKeepsInv ==
    ASSUME Inv, UNCHANGED <<pc, body, wire, event, streamErr, log>>
    PROVE  Inv'
BY DEF Inv, Shapes, Held, Told, Logged, Absent, Once, Entries

-----------------------------------------------------------------------------
(* The invariant holds at the start, and every step keeps it. *)

LEMMA InitInv == Init => Inv
<1> SUFFICES ASSUME Init PROVE Inv
  OBVIOUS
<1>1. Shapes
  <2>1. pc \in [Sessions -> Labels] /\ body \in [Sessions -> {"none", "open", "closed"}]
        /\ streamErr \in [Sessions -> StreamReasons]
    BY DEF Init, Labels, StreamReasons
  <2>2. event \in [Sessions -> Event]
    <3>1. [status |-> 0, error |-> ""] \in Event
      BY DEF Event, Statuses, Reasons, StreamReasons
    <3> QED
      BY <3>1 DEF Init
  <2>3. DOMAIN wire = Sessions /\ \A s \in Sessions : DOMAIN wire[s] = {"status", "frames"}
    BY DEF Init
  <2>4. log \in Seq([session : Sessions, event : Event])
    <3> DEFINE S == [session : Sessions, event : Event]
    <3>1. log = <<>>
      BY DEF Init
    <3> HIDE DEF S
    <3>2. <<>> \in Seq(S)
      OBVIOUS
    <3> QED
      BY <3>1, <3>2 DEF S
  <2> QED
    BY <2>1, <2>2, <2>3, <2>4 DEF Shapes
<1>2. Len(log) = 0
  BY DEF Init
<1>3. ASSUME NEW s \in Sessions
      PROVE  Held(s) /\ Told(s) /\ Logged(s)
  <2>1. Entries(s) = {}
    BY <1>2 DEF Entries
  <2>2. pc[s] = "new" /\ body[s] = "none" /\ "new" \notin Holding \union Telling
    BY DEF Init, Holding, Telling
  <2> QED
    BY <2>1, <2>2 DEF Held, Told, Logged, Absent
<1> QED
  BY <1>1, <1>3 DEF Inv

LEMMA NextInv == Inv /\ [Next]_vars => Inv'
<1> SUFFICES ASSUME Inv, [Next]_vars PROVE Inv'
  OBVIOUS
<1>1. CASE UNCHANGED vars
  BY <1>1, QuietKeepsInv DEF vars
<1>2. ASSUME NEW s \in Sessions, NEW client \in Formats, NEW upstream \in Formats, NEW streaming \in BOOLEAN,
             NEW flaws \in Flaws, Arrive(s, client, upstream, streaming, flaws)
      PROVE  Inv'
  BY <1>2, ArriveKeepsInv
<1>3. ASSUME NEW s \in Sessions, Serve(s)
      PROVE  Inv'
  BY <1>3, PrepareKeepsInv, DoKeepsInv, RelayUpstreamErrorKeepsInv, BufferedKeepsInv, StreamOpenKeepsInv,
     ReadKeepsInv, FinalizeKeepsInv, SentinelKeepsInv, CloseBodyKeepsInv, RecordKeepsInv DEF Serve
<1>4. ASSUME NEW s \in Sessions, ClientLeaves(s)
      PROVE  Inv'
  BY <1>4, QuietKeepsInv DEF ClientLeaves
<1>5. ASSUME NEW s \in Sessions, NEW kind \in Kinds, UpstreamSends(s, kind)
      PROVE  Inv'
  BY <1>5, QuietKeepsInv DEF UpstreamSends
<1>6. ASSUME NEW s \in Sessions, NEW how \in {"closed", "broken"}, UpstreamEnds(s, how)
      PROVE  Inv'
  BY <1>6, QuietKeepsInv DEF UpstreamEnds
<1> QED
  BY <1>1, <1>2, <1>3, <1>4, <1>5, <1>6 DEF Next

LEMMA AlwaysInv == Spec => []Inv
<1> QED
  BY InitInv, NextInv, PTL DEF Spec

\* However many requests are served at once: each admitted one leaves exactly one
\* event, with the status its client was sent (the deferred events.append of
\* ServeHTTP, session.fail).
THEOREM OneTrueEventHolds == Spec => []OneTrueEvent
<1>1. ASSUME Inv
      PROVE  OneTrueEvent
  <2>1. ASSUME NEW s \in Sessions
        PROVE  /\ Cardinality(Entries(s)) = IF pc[s] = "end" THEN 1 ELSE 0
               /\ \A i \in Entries(s) : log[i].event.status = wire[s].status
    <3>1. CASE pc[s] = "end"
      <4>1. PICK i \in 1..Len(log) : Entries(s) = {i} /\ log[i].event.status = wire[s].status
        BY <1>1, <3>1 DEF Inv, Logged, Once
      <4>2. Cardinality(Entries(s)) = 1
        BY <4>1, FS_Singleton
      <4> QED
        BY <3>1, <4>1, <4>2
    <3>2. CASE pc[s] # "end"
      <4>1. Entries(s) = {}
        BY <1>1, <3>2 DEF Inv, Logged, Absent
      <4>2. Cardinality(Entries(s)) = 0
        BY <4>1, FS_EmptySet
      <4> QED
        BY <3>2, <4>1, <4>2
    <3> QED
      BY <3>1, <3>2
  <2> QED
    BY <2>1 DEF OneTrueEvent
<1> QED
  BY <1>1, AlwaysInv, PTL

\* However many requests are served at once: the upstream's body is closed before the
\* request is recorded, on every path out of the handler (defer response.Body.Close).
THEOREM BodyReleasedHolds == Spec => []BodyReleased
<1>1. Inv => BodyReleased
  BY DEF Inv, Held, Holding, BodyReleased
<1> QED
  BY <1>1, AlwaysInv, PTL

-----------------------------------------------------------------------------
(* What a stream has forwarded.                                            *)

Frame == [kind : Kinds, n : Nat]

\* g counts up what frames forwards.
Steps(g, frames, cross) ==
    /\ g \in [0 .. Len(frames) -> Seq(Frame)]
    /\ g[0] = <<>>
    /\ \A i \in 1 .. Len(frames) :
          g[i] = IF Passes(frames[i], cross) THEN Append(g[i - 1], frames[i]) ELSE g[i - 1]

\* Forwarded is the function that takes its steps.
LEMMA ForwardedIs ==
    ASSUME NEW frames \in Seq(Frame), NEW cross, NEW g, Steps(g, frames, cross)
    PROVE  Forwarded(frames, cross) = g[Len(frames)]
<1> DEFINE n == Len(frames)
           step(f, i) == IF i = 0 THEN <<>>
                         ELSE IF Passes(frames[i], cross) THEN Append(f[i - 1], frames[i])
                         ELSE f[i - 1]
           out == CHOOSE f : f = [i \in 0 .. n |-> step(f, i)]
<1>0. n \in Nat
  OBVIOUS
<1>1. ASSUME NEW i \in 0 .. n
      PROVE  g[i] = step(g, i)
  BY i = 0 \/ i \in 1 .. n DEF Steps
<1>2. g = [i \in 0 .. n |-> step(g, i)]
  <2> HIDE DEF step
  <2> QED
    BY <1>1 DEF Steps
<1>3. out = [i \in 0 .. n |-> step(out, i)]
  <2> HIDE DEF step
  <2> QED
    BY <1>2
<1>4. Forwarded(frames, cross) = out[n]
  BY DEF Forwarded, out
<1> HIDE DEF out
<1> DEFINE P == {i \in 0 .. n : out[i] = g[i]}
<1>5. ASSUME NEW i \in 0 .. n
      PROVE  out[i] = step(out, i)
  <2> HIDE DEF step
  <2> QED
    BY <1>3
<1>6. 0 \in P
  <2>1. 0 \in 0 .. n
    BY <1>0
  <2> QED
    BY <1>5, <2>1 DEF Steps
<1>7. ASSUME NEW i \in Nat, i < n, i \in P
      PROVE  i + 1 \in P
  <2>1. i + 1 \in 0 .. n /\ (i + 1) - 1 = i /\ i + 1 # 0 /\ out[i] = g[i]
    BY <1>0, <1>7
  <2>2. step(out, i + 1) = step(g, i + 1)
    BY <2>1
  <2> HIDE DEF step
  <2>3. out[i + 1] = g[i + 1]
    BY <1>1, <1>5, <2>1, <2>2
  <2> QED
    BY <2>1, <2>3
<1>8. 0 .. n \subseteq P
  <2> HIDE DEF P, n
  <2> QED
    BY <1>0, <1>6, <1>7, CountingUp
<1>9. n \in 0 .. n
  BY <1>0
<1> QED
  BY <1>4, <1>8, <1>9

\* There is such a function for every list of frames.
LEMMA ForwardedSteps ==
    ASSUME NEW frames \in Seq(Frame), NEW cross
    PROVE  \E g : Steps(g, frames, cross)
<1> DEFINE n == Len(frames)
           X == Seq(Frame)
           go(i, x) == IF Passes(frames[i], cross) THEN Append(x, frames[i]) ELSE x
           next == [i \in 1 .. n |-> [x \in X |-> go(i, x)]]
<1>1. n \in Nat /\ <<>> \in X
  OBVIOUS
<1>2. ASSUME NEW i \in 1 .. n, NEW x \in X
      PROVE  go(i, x) \in X
  BY frames[i] \in Frame
<1>3. next \in [1 .. n -> [X -> X]] /\ \A i \in 1 .. n, x \in X : next[i][x] = go(i, x)
  <2> HIDE DEF X, n, go
  <2> QED
    BY <1>2
<1>4. \E g : Counts(g, n, X, <<>>, next)
  <2> HIDE DEF n, X, next, go
  <2> QED
    BY <1>1, <1>3, Iterating
<1>5. PICK g \in [0 .. n -> X] : g[0] = <<>> /\ \A i \in 1 .. n : g[i] = next[i][g[i - 1]]
  BY <1>4 DEF Counts
<1> HIDE DEF next, X
<1>6. \A i \in 1 .. n : g[i] = IF Passes(frames[i], cross) THEN Append(g[i - 1], frames[i])
                               ELSE g[i - 1]
  <2> SUFFICES ASSUME NEW i \in 1 .. n
               PROVE  g[i] = IF Passes(frames[i], cross) THEN Append(g[i - 1], frames[i])
                             ELSE g[i - 1]
    OBVIOUS
  <2>1. i - 1 \in 0 .. n
    BY <1>1
  <2>2. g[i - 1] \in X
    BY <2>1
  <2>3. g[i] = go(i, g[i - 1])
    <3> HIDE DEF n, go
    <3> QED
      BY <1>3, <1>5, <2>2
  <2> QED
    BY <2>3
<1>7. Steps(g, frames, cross)
  BY <1>5, <1>6 DEF X, Steps
<1> QED
  BY <1>7

\* Nothing forwards nothing, and one more frame forwards at most that frame.
LEMMA ForwardedNothing ==
    ASSUME NEW cross
    PROVE  Forwarded(<<>>, cross) = <<>>
<1>1. <<>> \in Seq(Frame) /\ Len(<<>>) = 0
  OBVIOUS
<1>2. PICK g : Steps(g, <<>>, cross)
  BY <1>1, ForwardedSteps
<1> QED
  BY <1>1, <1>2, ForwardedIs DEF Steps

LEMMA ForwardedType ==
    ASSUME NEW frames \in Seq(Frame), NEW cross
    PROVE  Forwarded(frames, cross) \in Seq(Frame)
<1>1. PICK g : Steps(g, frames, cross)
  BY ForwardedSteps
<1>2. Len(frames) \in 0 .. Len(frames)
  OBVIOUS
<1> QED
  BY <1>1, <1>2, ForwardedIs DEF Steps

LEMMA ForwardedGrows ==
    ASSUME NEW frames \in Seq(Frame), NEW f \in Frame, NEW cross
    PROVE  Forwarded(Append(frames, f), cross) =
              IF Passes(f, cross) THEN Append(Forwarded(frames, cross), f)
              ELSE Forwarded(frames, cross)
<1> DEFINE n == Len(frames)
           l == Append(frames, f)
<1>1. /\ n \in Nat /\ l \in Seq(Frame) /\ Len(l) = n + 1 /\ l[n + 1] = f
      /\ \A i \in 1 .. n : l[i] = frames[i]
  OBVIOUS
<1>2. PICK g : Steps(g, l, cross)
  <2> HIDE DEF l
  <2> QED
    BY <1>1, ForwardedSteps
<1>3. Forwarded(l, cross) = g[n + 1]
  <2> HIDE DEF l
  <2> QED
    BY <1>1, <1>2, ForwardedIs
<1> DEFINE h == [i \in 0 .. n |-> g[i]]
<1>4. /\ g \in [0 .. n + 1 -> Seq(Frame)] /\ g[0] = <<>>
      /\ \A i \in 1 .. n + 1 : g[i] = IF Passes(l[i], cross) THEN Append(g[i - 1], l[i])
                                      ELSE g[i - 1]
  <2> HIDE DEF l, n
  <2> QED
    BY <1>1, <1>2 DEF Steps
<1>5. h \in [0 .. n -> Seq(Frame)] /\ \A i \in 0 .. n : h[i] = g[i]
  <2> HIDE DEF l
  <2> QED
    BY <1>1, <1>4
<1> HIDE DEF h, l
<1>6. Steps(h, frames, cross)
  <2>1. h[0] = <<>>
    BY <1>1, <1>4, <1>5
  <2>2. ASSUME NEW i \in 1 .. n
        PROVE  h[i] = IF Passes(frames[i], cross) THEN Append(h[i - 1], frames[i]) ELSE h[i - 1]
    <3>1. i \in 1 .. n + 1 /\ i \in 0 .. n /\ i - 1 \in 0 .. n /\ l[i] = frames[i]
      BY <1>1
    <3>2. h[i] = g[i] /\ h[i - 1] = g[i - 1]
      BY <1>5, <3>1
    <3> QED
      BY <1>4, <3>1, <3>2
  <2> QED
    BY <1>5, <2>1, <2>2 DEF Steps
<1>7. Forwarded(frames, cross) = h[n]
  BY <1>6, ForwardedIs
<1>8. h[n] = g[n] /\ n + 1 \in 1 .. n + 1 /\ (n + 1) - 1 = n
  BY <1>1, <1>5
<1>9. g[n + 1] = IF Passes(f, cross) THEN Append(g[n], f) ELSE g[n]
  BY <1>1, <1>4, <1>8
<1> QED
  BY <1>3, <1>7, <1>8, <1>9 DEF l

-----------------------------------------------------------------------------
(* A stream that went well is complete.                                    *)

\* Before anything is written, and after everything is.
Early == {"new", "prepare", "do", "relay_error", "buffered", "open"}
Over  == {"close", "log", "end"}

Fine(s) ==
    /\ pc[s] \in Early \union {"read"} => streamErr[s] = ""
    /\ pc[s] \in Early \union {"read", "finalize", "sentinel"} => event[s].error = ""
    /\ pc[s] \in {"open", "read", "finalize", "sentinel"} => req[s].streaming
    /\ pc[s] = "buffered" => ~req[s].streaming
    /\ pc[s] \in {"read", "finalize", "sentinel"} => event[s].status = 200
    /\ pc[s] \in Over /\ event[s].error = "" => event[s].status = 200

\* The frames read so far end the stream: the upstream closed it after
\* them, or the last one, and none before it, says so.
NoneDone(got) == \A i \in 1 .. Len(got) : got[i].kind # "done"
LastDone(got) ==
    \E n \in 1 .. Len(got) :
        n = Len(got) /\ got[n].kind = "done" /\ \A i \in 1 .. n - 1 : got[i].kind # "done"
Ended(s, got) == (upst[s] = "closed" /\ inbox[s] = <<>> /\ NoneDone(got)) \/ LastDone(got)

Final(s)     == IF Cross(s) THEN <<"final">> ELSE <<>>
SaidDone(s)  == IF WantsDone(s) THEN <<"[DONE]">> ELSE <<>>

\* Nothing went wrong with the stream so far.
Clean(s) == IF pc[s] \in Over THEN event[s].error = "" /\ req[s].streaming
            ELSE streamErr[s] = ""

\* got has been read; the client has what it forwards.
Relayed(s, got) ==
    /\ sent[s] = got \o inbox[s]
    /\ pc[s] \in Early => got = <<>>
    /\ pc[s] = "read" => NoneDone(got) /\ wire[s].frames = Forwarded(got, Cross(s))
    /\ Clean(s) /\ pc[s] \in {"finalize", "sentinel"} \union Over => Ended(s, got)
    /\ Clean(s) /\ pc[s] = "finalize" => wire[s].frames = Forwarded(got, Cross(s))
    /\ Clean(s) /\ pc[s] = "sentinel" => wire[s].frames = Forwarded(got, Cross(s)) \o Final(s)
    /\ Clean(s) /\ pc[s] \in Over =>
           wire[s].frames = Forwarded(got, Cross(s)) \o Final(s) \o SaidDone(s)

Stream(s) == Fine(s) /\ \E got \in Seq(Frame) : Relayed(s, got)

Queues ==
    /\ DOMAIN req = Sessions /\ DOMAIN upst = Sessions
    /\ inbox \in [Sessions -> Seq(Frame)] /\ sent \in [Sessions -> Seq(Frame)]

\* What is logged is final.
LogFinal == \A i \in 1 .. Len(log) : log[i].event = event[log[i].session] /\ pc[log[i].session] = "end"

Streams == Queues /\ LogFinal /\ \A s \in Sessions : Stream(s)

\* Nothing of a request changes.
Same(t) ==
    /\ req'[t] = req[t] /\ pc'[t] = pc[t] /\ upst'[t] = upst[t] /\ inbox'[t] = inbox[t]
    /\ sent'[t] = sent[t] /\ wire'[t] = wire[t] /\ event'[t] = event[t]
    /\ streamErr'[t] = streamErr[t]

LEMMA SameStream ==
    ASSUME NEW t, Same(t), Stream(t)
    PROVE  Stream(t)'
<1>1. Fine(t)'
  BY ZenonT(30) DEF Same, Stream, Fine
<1>2. ASSUME NEW got \in Seq(Frame), Relayed(t, got)
      PROVE  Relayed(t, got)'
  BY <1>2 DEF Same, Relayed, Clean, Ended, Final, SaidDone, Cross, WantsDone
<1> QED
  BY <1>1, <1>2 DEF Stream

\* A request that is given up has an error, which promises nothing.
LEMMA GivenUp ==
    ASSUME NEW s, Stream(s), sent'[s] = sent[s], inbox'[s] = inbox[s],
           pc'[s] \in Over, event'[s].error # ""
    PROVE  Stream(s)'
<1>1. pc'[s] \notin Early /\ pc'[s] \notin {"read", "finalize", "sentinel", "open", "buffered"}
  BY DEF Over, Early
<1>2. Fine(s)'
  BY <1>1 DEF Fine
<1>3. ASSUME NEW got \in Seq(Frame), Relayed(s, got)
      PROVE  Relayed(s, got)'
  BY <1>1, <1>3 DEF Relayed, Clean
<1> QED
  BY <1>2, <1>3 DEF Stream

LEMMA FailGivesUp ==
    ASSUME Shapes, NEW s \in Sessions, Stream(s), NEW status, NEW reason, reason # "",
           Fail(s, status, reason), sent'[s] = sent[s], inbox'[s] = inbox[s]
    PROVE  Stream(s)'
<1>1. event'[s].error = reason
  BY DEF Fail, Shapes
<1>2. pc'[s] \in {"close", "log"}
  BY DEF Fail, Goto, Leave, Shapes
<1> QED
  BY <1>1, <1>2, GivenUp DEF Over

LEMMA DisconnectedGivesUp ==
    ASSUME Shapes, NEW s \in Sessions, Stream(s), Disconnected(s),
           \E got \in Seq(Frame) : sent'[s] = got \o inbox'[s]
    PROVE  Stream(s)'
<1>1. event'[s].error = "client disconnected" /\ pc'[s] = "close"
  BY DEF Disconnected, Goto, Shapes, Event
<1>2. Fine(s)'
  BY <1>1 DEF Fine, Early, Over
<1>3. ASSUME NEW got \in Seq(Frame), sent'[s] = got \o inbox'[s]
      PROVE  Relayed(s, got)'
  BY <1>1, <1>3 DEF Relayed, Clean, Early, Over
<1> QED
  BY <1>2, <1>3 DEF Stream

\* What each step does to the stream of its request.
LEMMA ArriveStream ==
    ASSUME Shapes, Queues, NEW s \in Sessions, NEW client, NEW upstream, NEW streaming, NEW flaws,
           Arrive(s, client, upstream, streaming, flaws), Stream(s)
    PROVE  Stream(s)'
<1>1. /\ pc[s] = "new" /\ pc'[s] \in {"prepare", "refused"}
      /\ UNCHANGED <<inbox, sent, event, streamErr>>
  BY DEF Arrive, Goto, Shapes, upVars
<1>2. Fine(s)'
  BY <1>1 DEF Stream, Fine, Early, Over
<1>3. ASSUME NEW got \in Seq(Frame), Relayed(s, got)
      PROVE  Relayed(s, got)'
  BY <1>1, <1>3 DEF Relayed, Early, Over
<1> QED
  BY <1>2, <1>3 DEF Stream

LEMMA PrepareStream ==
    ASSUME Shapes, Queues, NEW s \in Sessions, Prepare(s), Stream(s)
    PROVE  Stream(s)'
<1>1. pc[s] = "prepare" /\ UNCHANGED <<inbox, sent, streamErr, upst, req>>
  BY DEF Prepare, upVars, reqVars
<1>2. CASE Fail(s, 400, "convert request") \/ Fail(s, 400, "build request")
  BY <1>1, <1>2, FailGivesUp
<1>3. CASE Goto(s, "do") /\ UNCHANGED <<event, wire>>
  <2>1. pc'[s] = "do"
    BY <1>3 DEF Goto, Shapes
  <2>2. Fine(s)'
    BY <1>1, <1>3, <2>1 DEF Stream, Fine, Early, Over
  <2>3. ASSUME NEW got \in Seq(Frame), Relayed(s, got)
        PROVE  Relayed(s, got)'
    BY <1>1, <2>1, <2>3 DEF Relayed, Early, Over
  <2> QED
    BY <2>2, <2>3 DEF Stream
<1> QED
  BY <1>2, <1>3 DEF Prepare

LEMMA DoStream ==
    ASSUME Shapes, Queues, NEW s \in Sessions, Do(s), Stream(s)
    PROVE  Stream(s)'
<1>1. pc[s] = "do" /\ UNCHANGED <<inbox, sent, streamErr, req>>
  BY DEF Do, reqVars
<1>2. CASE Fail(s, 502, "upstream request failed")
  BY <1>1, <1>2, FailGivesUp
<1>3. CASE /\ UNCHANGED <<event, wire>>
           /\ \E label \in {"relay_error", IF req[s].streaming THEN "open" ELSE "buffered"} :
                 Goto(s, label)
  <2>1. \/ pc'[s] = "relay_error"
        \/ pc'[s] = "open" /\ req[s].streaming
        \/ pc'[s] = "buffered" /\ ~req[s].streaming
    BY <1>3 DEF Goto, Shapes
  <2>2. Fine(s)'
    BY <1>1, <1>3, <2>1 DEF Stream, Fine, Early, Over
  <2>3. ASSUME NEW got \in Seq(Frame), Relayed(s, got)
        PROVE  Relayed(s, got)'
    BY <1>1, <2>1, <2>3 DEF Relayed, Early, Over
  <2> QED
    BY <2>2, <2>3 DEF Stream
<1> QED
  BY <1>2, <1>3 DEF Do

LEMMA RelayUpstreamErrorStream ==
    ASSUME Shapes, Queues, NEW s \in Sessions, RelayUpstreamError(s), Stream(s)
    PROVE  Stream(s)'
<1>1. event'[s].error = "upstream returned 429"
  BY DEF RelayUpstreamError, RecordUpstreamError, Shapes
<1>2. pc'[s] \in {"close", "log"}
  BY DEF RelayUpstreamError, Goto, Leave, Shapes
<1>3. sent'[s] = sent[s] /\ inbox'[s] = inbox[s]
  BY DEF RelayUpstreamError, upVars
<1> QED
  BY <1>1, <1>2, <1>3, GivenUp DEF Over

LEMMA BufferedStream ==
    ASSUME Shapes, Queues, NEW s \in Sessions, Buffered(s), Stream(s)
    PROVE  Stream(s)'
<1>1. pc[s] = "buffered" /\ UNCHANGED <<inbox, sent, streamErr, upst, req>>
  BY DEF Buffered, upVars, reqVars
<1>2. CASE \/ Fail(s, 502, "decode or convert response") \/ Fail(s, 500, "encode response")
           \/ Fail(s, 502, "read upstream response")
  BY ZenonT(30), <1>1, <1>2, FailGivesUp
<1>3. CASE event' = [event EXCEPT ![s].status = 200] /\ Goto(s, Leave(s))
  <2>1. pc'[s] \in {"close", "log"}
    BY <1>3 DEF Goto, Leave, Shapes
  <2>2. event'[s].status = 200 /\ ~req'[s].streaming
    <3>1. event'[s].status = 200
      BY <1>3 DEF Shapes, Event
    <3>2. ~req[s].streaming
      BY <1>1 DEF Stream, Fine
    <3> QED
      BY <1>1, <3>1, <3>2
  <2>3. Fine(s)'
    BY <2>1, <2>2 DEF Fine, Early, Over
  <2>4. ASSUME NEW got \in Seq(Frame), Relayed(s, got)
        PROVE  Relayed(s, got)'
    BY <1>1, <2>1, <2>2, <2>4 DEF Relayed, Clean, Early, Over
  <2> QED
    BY <2>3, <2>4 DEF Stream
<1> QED
  BY ZenonT(30), <1>2, <1>3 DEF Buffered

LEMMA StreamOpenStream ==
    ASSUME Shapes, Queues, NEW s \in Sessions, StreamOpen(s), Stream(s)
    PROVE  Stream(s)'
<1>1. pc[s] = "open" /\ UNCHANGED <<inbox, sent, streamErr, upst, req>>
  BY DEF StreamOpen, upVars, reqVars
<1>2. CASE Fail(s, 400, "no converter")
  BY <1>1, <1>2, FailGivesUp
<1>3. CASE /\ WriteHeader(s, 200, <<>>)
           /\ event' = [event EXCEPT ![s].status = 200]
           /\ Goto(s, "read")
  <2>1. pc'[s] = "read" /\ wire'[s].frames = <<>>
    BY <1>3 DEF Goto, WriteHeader, Shapes
  <2>2. event'[s].status = 200 /\ event'[s].error = event[s].error
    BY <1>3 DEF Shapes, Event
  <2>3. Fine(s)'
    BY <1>1, <2>1, <2>2 DEF Stream, Fine, Early, Over
  <2>4. ASSUME NEW got \in Seq(Frame), Relayed(s, got)
        PROVE  Relayed(s, got)'
    <3>1. got = <<>> /\ sent'[s] = got \o inbox'[s]
      BY <1>1, <2>4 DEF Relayed, Early
    <3>2. NoneDone(got)
      BY <3>1 DEF NoneDone
    <3>3. wire'[s].frames = Forwarded(got, Cross(s)')
      BY <2>1, <3>1, ForwardedNothing
    <3> QED
      BY <2>1, <3>1, <3>2, <3>3 DEF Relayed, Early, Over
  <2> QED
    BY <2>3, <2>4 DEF Stream
<1> QED
  BY <1>2, <1>3 DEF StreamOpen

\* One frame moves from the queue to what has been read.
LEMMA NextFrame ==
    ASSUME NEW got \in Seq(Frame), NEW q \in Seq(Frame), q # <<>>
    PROVE  /\ Head(q) \in Frame
           /\ Append(got, Head(q)) \in Seq(Frame)
           /\ Append(got, Head(q)) \o Tail(q) = got \o q
           /\ Len(Append(got, Head(q))) = Len(got) + 1 /\ Len(got) \in Nat
           /\ Append(got, Head(q))[Len(got) + 1] = Head(q)
           /\ \A i \in 1 .. Len(got) : Append(got, Head(q))[i] = got[i]
<1> DEFINE S == Frame
<1> HIDE DEF S
<1> SUFFICES ASSUME got \in Seq(S), q \in Seq(S)
             PROVE  /\ Head(q) \in S
                    /\ Append(got, Head(q)) \in Seq(S)
                    /\ Append(got, Head(q)) \o Tail(q) = got \o q
                    /\ Len(Append(got, Head(q))) = Len(got) + 1 /\ Len(got) \in Nat
                    /\ Append(got, Head(q))[Len(got) + 1] = Head(q)
                    /\ \A i \in 1 .. Len(got) : Append(got, Head(q))[i] = got[i]
  BY DEF S
<1>1. Head(q) \in S /\ Tail(q) \in Seq(S)
  BY HeadTailProperties
<1>2. Append(got, Head(q)) = got \o <<Head(q)>>
  BY <1>1
<1>3. q = <<Head(q)>> \o Tail(q)
  <2>1. Len(q) \in Nat \ {0} /\ Len(Tail(q)) = Len(q) - 1 /\ Head(q) = q[1]
        /\ \A i \in 1 .. Len(Tail(q)) : Tail(q)[i] = q[i + 1]
    BY HeadTailProperties
  <2> DEFINE r == <<Head(q)>> \o Tail(q)
  <2>2. /\ r \in Seq(S) /\ Len(r) = Len(q)
        /\ \A i \in 1 .. Len(q) : r[i] = IF i <= 1 THEN <<Head(q)>>[i] ELSE Tail(q)[i - 1]
    <3>1. <<Head(q)>> \in Seq(S) /\ Len(<<Head(q)>>) = 1
      BY <1>1
    <3> QED
      BY <1>1, <2>1, <3>1, ConcatProperties
  <2>3. ASSUME NEW i \in 1 .. Len(q)
        PROVE  q[i] = r[i]
    <3>1. CASE i = 1
      BY <2>1, <2>2, <3>1
    <3>2. CASE i # 1
      <4>1. i - 1 \in 1 .. Len(Tail(q)) /\ (i - 1) + 1 = i /\ ~(i <= 1)
        BY <2>1, <3>2
      <4> QED
        BY <2>1, <2>2, <4>1
    <3> QED
      BY <3>1, <3>2
  <2> HIDE DEF r
  <2>4. q = r
    BY <2>2, <2>3, SeqEqual
  <2> QED
    BY <2>4 DEF r
<1>4. Append(got, Head(q)) \o Tail(q) = got \o q
  <2>1. <<Head(q)>> \in Seq(S)
    BY <1>1
  <2>2. (got \o <<Head(q)>>) \o Tail(q) = got \o (<<Head(q)>> \o Tail(q))
    BY <1>1, <2>1, ConcatAssociative
  <2> QED
    BY <1>2, <1>3, <2>2
<1> QED
  BY <1>1, <1>4

\* A stream that is stopped by an error of the conversion or of the upstream.
LEMMA StoppedStream ==
    ASSUME NEW s, NEW got \in Seq(Frame), Fine(s), sent'[s] = got \o inbox'[s],
           pc[s] \in {"read", "finalize"}, pc'[s] \in {"finalize", "sentinel"},
           streamErr'[s] # "", event'[s] = event[s], req'[s] = req[s]
    PROVE  Stream(s)'
<1>1. Fine(s)'
  BY DEF Fine, Early, Over
<1>2. Relayed(s, got)'
  BY DEF Relayed, Clean, Early, Over
<1> QED
  BY <1>1, <1>2 DEF Stream

LEMMA ReadStream ==
    ASSUME Shapes, Queues, NEW s \in Sessions, Read(s), Stream(s)
    PROVE  Stream(s)'
<1>1. pc[s] = "read" /\ UNCHANGED <<sent, upst, req>>
  BY DEF Read, reqVars
<1>2. PICK got \in Seq(Frame) : Relayed(s, got)
  BY DEF Stream
<1>3. /\ sent[s] = got \o inbox[s] /\ NoneDone(got)
      /\ wire[s].frames = Forwarded(got, Cross(s))
  BY <1>1, <1>2 DEF Relayed
<1>4. /\ Fine(s) /\ streamErr[s] = "" /\ event[s].error = "" /\ event[s].status = 200
      /\ req[s].streaming
  BY <1>1 DEF Stream, Fine
<1>5. Cross(s)' = Cross(s)
  BY <1>1 DEF Cross
<1>6. CASE inbox[s] # <<>> /\ inbox' = [inbox EXCEPT ![s] = Tail(@)] /\ Handle(s, Head(inbox[s]))
  <2>0. PICK q \in Seq(Frame) : q = inbox[s]
    BY DEF Queues
  <2>1. PICK f \in Frame : f = Head(q)
    BY <1>6, <2>0, NextFrame
  <2>2. PICK more \in Seq(Frame) : more = Append(got, f)
    BY <1>6, <2>0, <2>1, NextFrame
  <2>3. inbox'[s] = Tail(q)
    BY <1>6, <2>0 DEF Queues
  <2>4. /\ sent'[s] = more \o inbox'[s]
        /\ Len(got) \in Nat /\ Len(more) = Len(got) + 1 /\ more[Len(got) + 1] = f
        /\ \A i \in 1 .. Len(got) : more[i] = got[i]
    <3>1. q # <<>> /\ sent'[s] = got \o q
      BY <1>1, <1>3, <1>6, <2>0
    <3> QED
      BY ONLY SMTT(30), got \in Seq(Frame), q \in Seq(Frame), <2>1, <2>2, <2>3, <3>1, NextFrame
  <2>5. f.kind \in Kinds
    BY <2>1 DEF Frame
  <2>6. Forwarded(more, Cross(s)) = IF Passes(f, Cross(s)) THEN Append(Forwarded(got, Cross(s)), f)
                                    ELSE Forwarded(got, Cross(s))
    BY <2>2, ForwardedGrows
  <2>7. f.kind # "done" => NoneDone(more)
    <3>1. \A i \in 1 .. Len(more) : i \in 1 .. Len(got) \/ i = Len(got) + 1
      BY <2>4
    <3>2. \A i \in 1 .. Len(got) : more[i].kind # "done"
      BY <1>3, <2>4 DEF NoneDone
    <3> QED
      BY <2>4, <3>1, <3>2 DEF NoneDone
  <2>8. f.kind = "done" => LastDone(more)
    <3> SUFFICES ASSUME f.kind = "done"
                 PROVE  LastDone(more)
      OBVIOUS
    <3>2. Len(more) \in 1 .. Len(more) /\ more[Len(more)].kind = "done"
      BY <2>4
    <3>3. \A i \in 1 .. Len(more) - 1 : more[i].kind # "done"
      BY <1>3, <2>4 DEF NoneDone
    <3> QED
      BY <3>2, <3>3 DEF LastDone
  <2>9. ASSUME pc'[s] = "read", UNCHANGED <<event, streamErr>>,
               f.kind # "done", wire'[s].frames = Forwarded(more, Cross(s))
        PROVE  Stream(s)'
    <3>1. Fine(s)'
      BY <1>1, <1>4, <2>9 DEF Fine, Early, Over
    <3>2. Relayed(s, more)'
      BY <1>5, <2>4, <2>7, <2>9 DEF Relayed, Early, Over
    <3> QED
      BY <3>1, <3>2 DEF Stream
  <2>10. CASE f.kind \in {"junk", "quiet"}
    <3>1. UNCHANGED <<pc, wire, event, streamErr>>
      BY <1>6, <2>0, <2>1, <2>10 DEF Handle, DecodeFailed
    <3>2. ~Passes(f, Cross(s))
      BY <2>10 DEF Passes
    <3> QED
      BY <1>1, <1>3, <2>6, <2>9, <2>10, <3>1, <3>2
  <2>11. CASE f.kind = "done"
    <3>1. Goto(s, "finalize") /\ UNCHANGED <<wire, event, streamErr>>
      BY <1>6, <2>0, <2>1, <2>11 DEF Handle
    <3>2. pc'[s] = "finalize"
      BY <3>1 DEF Goto, Shapes
    <3>3. wire'[s].frames = Forwarded(more, Cross(s))
      BY <1>3, <2>6, <2>11, <3>1 DEF Passes
    <3>4. Fine(s)'
      BY <1>1, <1>4, <3>1, <3>2 DEF Fine, Early, Over
    <3>5. Ended(s, more)'
      BY <2>8, <2>11 DEF Ended
    <3>6. Relayed(s, more)'
      BY <1>5, <2>4, <3>2, <3>3, <3>5 DEF Relayed, Early, Over
    <3> QED
      BY <3>4, <3>6 DEF Stream
  <2>12. CASE f.kind = "poison" /\ Cross(s)
    <3>1. ConversionFailed(s)
      BY <1>6, <2>0, <2>1, <2>12 DEF Handle
    <3>2. pc'[s] = "finalize" /\ streamErr'[s] # "" /\ event' = event
      BY <3>1 DEF ConversionFailed, Goto, Shapes
    <3> QED
      BY <1>1, <1>4, <2>4, <3>2, StoppedStream
  <2>13. CASE f.kind \notin {"junk", "quiet", "done"} /\ ~(f.kind = "poison" /\ Cross(s))
    <3>1. \/ WriteFrame(s, f) /\ UNCHANGED <<pc, event, streamErr>>
          \/ Disconnected(s)
      BY <1>6, <2>0, <2>1, <2>13 DEF Handle
    <3>2. CASE Disconnected(s)
      BY <2>4, <3>2, DisconnectedGivesUp
    <3>3. CASE WriteFrame(s, f) /\ UNCHANGED <<pc, event, streamErr>>
      <4>1. Passes(f, Cross(s))
        BY <2>5, <2>13, KindsAssumption DEF Passes
      <4>2. wire'[s].frames = Append(wire[s].frames, f)
        BY <3>3 DEF WriteFrame, Shapes
      <4> QED
        BY <1>1, <1>3, <2>6, <2>9, <2>13, <3>3, <4>1, <4>2
    <3> QED
      BY <3>1, <3>2, <3>3
  <2> QED
    BY <2>10, <2>11, <2>12, <2>13
<1>7. CASE /\ inbox[s] = <<>> /\ upst[s] = "closed" /\ Goto(s, "finalize")
           /\ UNCHANGED <<inbox, wire, event, streamErr>>
  <2>1. pc'[s] = "finalize"
    BY <1>7 DEF Goto, Shapes
  <2>2. Fine(s)'
    BY <1>1, <1>4, <1>7, <2>1 DEF Fine, Early, Over
  <2>3. Ended(s, got)'
    BY <1>1, <1>3, <1>7 DEF Ended
  <2>4. Relayed(s, got)'
    BY <1>1, <1>3, <1>5, <1>7, <2>1, <2>3 DEF Relayed, Early, Over
  <2> QED
    BY <2>2, <2>4 DEF Stream
<1>8. CASE ReadError(s) /\ Goto(s, "finalize") /\ UNCHANGED <<inbox, wire, event>>
  <2>1. pc'[s] = "finalize" /\ streamErr'[s] # ""
    BY <1>8 DEF ReadError, Goto, Shapes
  <2> QED
    BY <1>1, <1>3, <1>4, <1>8, <2>1, StoppedStream
<1> QED
  BY <1>6, <1>7, <1>8 DEF Read

LEMMA FinalizeStream ==
    ASSUME Shapes, Queues, NEW s \in Sessions, Finalize(s), Stream(s)
    PROVE  Stream(s)'
<1>1. pc[s] = "finalize" /\ UNCHANGED <<sent, inbox, upst, req>>
  BY DEF Finalize, reqVars, upVars
<1>2. PICK got \in Seq(Frame) : Relayed(s, got)
  BY DEF Stream
<1>3. /\ sent[s] = got \o inbox[s]
      /\ streamErr[s] = "" => /\ Ended(s, got)
                              /\ wire[s].frames = Forwarded(got, Cross(s))
  BY <1>1, <1>2 DEF Relayed, Clean, Over
<1>4. Fine(s) /\ event[s].error = "" /\ event[s].status = 200 /\ req[s].streaming
  BY <1>1 DEF Stream, Fine
<1>5. Cross(s)' = Cross(s) /\ Final(s)' = Final(s)
  BY <1>1 DEF Cross, Final
<1>6. Ended(s, got) => Ended(s, got)'
  BY <1>1 DEF Ended
<1>7. CASE Disconnected(s)
  BY <1>1, <1>3, <1>7, DisconnectedGivesUp
<1>8. ASSUME Goto(s, "sentinel"), UNCHANGED event, streamErr[s] = "", UNCHANGED streamErr,
             wire'[s].frames = wire[s].frames \o Final(s)
      PROVE  Stream(s)'
  <2>1. pc'[s] = "sentinel"
    BY <1>8 DEF Goto, Shapes
  <2>2. Fine(s)'
    BY <1>1, <1>4, <1>8, <2>1 DEF Fine, Early, Over
  <2>3. Relayed(s, got)'
    BY <1>1, <1>3, <1>5, <1>6, <1>8, <2>1 DEF Relayed, Early, Over
  <2> QED
    BY <2>2, <2>3 DEF Stream
<1>9. ASSUME Goto(s, "sentinel"), UNCHANGED event, streamErr'[s] # ""
      PROVE  Stream(s)'
  <2>1. pc'[s] = "sentinel"
    BY <1>9 DEF Goto, Shapes
  <2> QED
    BY <1>1, <1>3, <1>4, <1>9, <2>1, StoppedStream
<1>10. CASE ~Cross(s) /\ Goto(s, "sentinel") /\ UNCHANGED <<wire, event, streamErr>>
  <2>1. CASE streamErr[s] = ""
    <3>1. PICK w \in Seq(Frame) : w = wire[s].frames
      BY <1>3, <2>1, ForwardedType
    <3>2. w \o <<>> = w
      BY ConcatEmptySeq
    <3> QED
      BY <1>8, <1>10, <2>1, <3>1, <3>2 DEF Final
  <2>2. CASE streamErr[s] # ""
    BY <1>9, <1>10, <2>2
  <2> QED
    BY <2>1, <2>2
<1>11. CASE Cross(s) /\ WriteFrame(s, "final") /\ Goto(s, "sentinel") /\ UNCHANGED <<event, streamErr>>
  <2>1. CASE streamErr[s] = ""
    <3>1. PICK w \in Seq(Frame) : w = wire[s].frames
      BY <1>3, <2>1, ForwardedType
    <3>2. wire'[s].frames = Append(wire[s].frames, "final")
      BY <1>11 DEF WriteFrame, Shapes
    <3>3. Append(w, "final") = w \o <<"final">>
      OBVIOUS
    <3> QED
      BY <1>8, <1>11, <2>1, <3>1, <3>2, <3>3 DEF Final
  <2>2. CASE streamErr[s] # ""
    BY <1>9, <1>11, <2>2
  <2> QED
    BY <2>1, <2>2
<1>12. CASE /\ streamErr' = [streamErr EXCEPT ![s] = "finalize"] /\ Goto(s, "sentinel")
            /\ UNCHANGED <<wire, event>>
  <2>1. streamErr'[s] # ""
    BY <1>12 DEF Shapes
  <2> QED
    BY <1>9, <1>12, <2>1
<1> QED
  BY <1>7, <1>10, <1>11, <1>12 DEF Finalize

\* What the client may be sent: frames of the upstream, and the relay's own.
Item == Frame \union {"final", "[DONE]"}

LEMMA SentinelStream ==
    ASSUME Shapes, Queues, NEW s \in Sessions, Sentinel(s), Stream(s)
    PROVE  Stream(s)'
<1>1. pc[s] = "sentinel" /\ UNCHANGED <<sent, inbox, upst, req, streamErr>>
  BY DEF Sentinel, reqVars, upVars
<1>2. pc'[s] = "close"
  BY DEF Sentinel, Goto, Shapes
<1>3. /\ event'[s].error = IF streamErr[s] # "" THEN streamErr[s] ELSE event[s].error
      /\ event'[s].status = event[s].status
  BY DEF Sentinel, FinishStream, Shapes, Event
<1>4. CASE streamErr[s] # ""
  BY <1>1, <1>2, <1>3, <1>4, GivenUp DEF Over
<1>5. CASE streamErr[s] = ""
  <2>1. PICK got \in Seq(Frame) : Relayed(s, got)
    BY DEF Stream
  <2>2. /\ sent[s] = got \o inbox[s] /\ Ended(s, got)
        /\ wire[s].frames = Forwarded(got, Cross(s)) \o Final(s)
    BY <1>1, <1>5, <2>1 DEF Relayed, Clean, Over
  <2>3. Cross(s)' = Cross(s) /\ Final(s)' = Final(s) /\ SaidDone(s)' = SaidDone(s)
    BY <1>1 DEF Cross, Final, SaidDone, WantsDone
  <2>4. PICK w \in Seq(Item) : w = wire[s].frames
    <3>1. Forwarded(got, Cross(s)) \in Seq(Item)
      <4>1. PICK l \in Seq(Frame) : l = Forwarded(got, Cross(s))
        BY ForwardedType
      <4>2. l \in Seq(Item)
        BY SeqMonotonic DEF Item
      <4> QED
        BY <4>1, <4>2
    <3>2. Final(s) \in Seq(Item)
      <4>1. "final" \in Item
        BY DEF Item
      <4> HIDE DEF Item
      <4> QED
        BY <4>1 DEF Final
    <3> QED
      BY <2>2, <3>1, <3>2, ConcatProperties
  <2>5. wire'[s].frames = wire[s].frames \o SaidDone(s)
    <3>1. CASE WantsDone(s)
      <4>1. wire'[s].frames = Append(wire[s].frames, "[DONE]")
        BY <3>1 DEF Sentinel, WriteFrame, Shapes
      <4>2. Append(w, "[DONE]") = w \o <<"[DONE]">>
        OBVIOUS
      <4> QED
        BY <2>4, <3>1, <4>1, <4>2 DEF SaidDone
    <3>2. CASE ~WantsDone(s)
      <4>1. wire' = wire
        BY <3>2 DEF Sentinel
      <4>2. w \o <<>> = w
        BY ConcatEmptySeq
      <4> QED
        BY <2>4, <3>2, <4>1, <4>2 DEF SaidDone
    <3> QED
      BY <3>1, <3>2
  <2>6. Fine(s) /\ event[s].status = 200
    BY <1>1 DEF Stream, Fine
  <2>7. Fine(s)'
    BY <1>1, <1>2, <1>3, <2>6 DEF Fine, Early, Over
  <2>8. Ended(s, got)'
    BY <1>1, <2>2 DEF Ended
  <2>9. Relayed(s, got)'
    BY <1>1, <1>2, <2>2, <2>3, <2>5, <2>8 DEF Relayed, Clean, Early, Over
  <2> QED
    BY <2>7, <2>9 DEF Stream
<1> QED
  BY <1>4, <1>5

\* The deferred calls change nothing of the stream.
LEMMA OverStream ==
    ASSUME NEW s, Stream(s), pc[s] \in Over, pc'[s] \in Over,
           UNCHANGED <<req, upst, inbox, sent, wire, event, streamErr>>
    PROVE  Stream(s)'
<1>1. Fine(s)'
  BY DEF Stream, Fine, Early, Over
<1>2. ASSUME NEW got \in Seq(Frame), Relayed(s, got)
      PROVE  Relayed(s, got)'
  <2>1. Clean(s)' = Clean(s) /\ Cross(s)' = Cross(s) /\ Final(s)' = Final(s)
        /\ SaidDone(s)' = SaidDone(s) /\ Ended(s, got)' = Ended(s, got)
    BY DEF Clean, Cross, Final, SaidDone, WantsDone, Ended, Over
  <2>2. pc'[s] \notin Early \union {"read", "finalize", "sentinel"}
    BY DEF Early, Over
  <2> QED
    BY <1>2, <2>1, <2>2 DEF Relayed
<1> QED
  BY <1>1, <1>2 DEF Stream

\* The upstream only adds to what is on its way, and only while it is open.
LEMMA UpstreamSendsStream ==
    ASSUME Shapes, Queues, NEW s \in Sessions, NEW kind \in Kinds, UpstreamSends(s, kind), Stream(s)
    PROVE  Stream(s)'
<1>1. upst[s] = "open" /\ UNCHANGED <<req, upst, pc, wire, event, streamErr>>
  BY DEF UpstreamSends, reqVars
<1>2. PICK got \in Seq(Frame) : Relayed(s, got)
  BY DEF Stream
<1>3. PICK q \in Seq(Frame) : q = inbox[s]
  BY DEF Queues
<1>4. PICK f \in Frame : inbox' = [inbox EXCEPT ![s] = Append(@, f)]
                         /\ sent' = [sent EXCEPT ![s] = Append(@, f)]
  <2>1. [kind |-> kind, n |-> Len(sent[s]) + 1] \in Frame
    <3>1. Len(sent[s]) + 1 \in Nat
      BY LenProperties DEF Queues
    <3> QED
      BY <3>1 DEF Frame
  <2> QED
    BY <2>1 DEF UpstreamSends
<1>5. sent'[s] = Append(got \o q, f) /\ inbox'[s] = Append(q, f)
  BY <1>2, <1>3, <1>4 DEF Relayed, Queues
<1>6. Append(got \o q, f) = got \o Append(q, f)
  <2> DEFINE S == Frame
  <2>1. f \in S /\ got \in Seq(S) /\ q \in Seq(S)
    OBVIOUS
  <2> HIDE DEF S
  <2>2. <<f>> \in Seq(S) /\ got \o q \in Seq(S)
    BY <2>1, ConcatProperties
  <2>3. Append(got \o q, f) = (got \o q) \o <<f>> /\ Append(q, f) = q \o <<f>>
    BY <2>1, <2>2
  <2>4. (got \o q) \o <<f>> = got \o (q \o <<f>>)
    BY <2>1, <2>2, ConcatAssociative
  <2> QED
    BY <2>3, <2>4
<1>7. Fine(s)'
  BY <1>1 DEF Stream, Fine
<1>8. Ended(s, got) => Ended(s, got)'
  BY <1>1 DEF Ended
<1>9. Clean(s)' = Clean(s) /\ Cross(s)' = Cross(s) /\ Final(s)' = Final(s) /\ SaidDone(s)' = SaidDone(s)
  BY <1>1 DEF Clean, Cross, Final, SaidDone, WantsDone
<1>10. Relayed(s, got)'
  BY <1>1, <1>2, <1>5, <1>6, <1>8, <1>9 DEF Relayed
<1> QED
  BY <1>7, <1>10 DEF Stream

LEMMA UpstreamEndsStream ==
    ASSUME NEW s \in Sessions, NEW how, UpstreamEnds(s, how), Stream(s)
    PROVE  Stream(s)'
<1>1. upst[s] = "open" /\ UNCHANGED <<req, inbox, sent, pc, wire, event, streamErr>>
  BY DEF UpstreamEnds, reqVars
<1>2. PICK got \in Seq(Frame) : Relayed(s, got)
  BY DEF Stream
<1>3. Fine(s)'
  BY <1>1 DEF Stream, Fine
<1>4. Ended(s, got) => Ended(s, got)'
  BY <1>1 DEF Ended
<1>5. Clean(s)' = Clean(s) /\ Cross(s)' = Cross(s) /\ Final(s)' = Final(s) /\ SaidDone(s)' = SaidDone(s)
  BY <1>1 DEF Clean, Cross, Final, SaidDone, WantsDone
<1>6. Relayed(s, got)'
  BY <1>1, <1>2, <1>4, <1>5 DEF Relayed
<1> QED
  BY <1>3, <1>6 DEF Stream

\* What a step writes for one request, it writes for no other.
OthersKept(t) == pc'[t] = pc[t] /\ wire'[t] = wire[t] /\ event'[t] = event[t]

LEMMA FailKeepsOthers ==
    ASSUME Shapes, NEW s \in Sessions, NEW status, NEW reason, Fail(s, status, reason),
           NEW t \in Sessions \ {s}
    PROVE  OthersKept(t)
<1>1. event'[t] = event[t]
  BY DEF Fail, Shapes
<1>2. wire'[t] = wire[t]
  BY DEF Fail, WriteHeader, Shapes
<1>3. pc'[t] = pc[t]
  BY DEF Fail, Goto, Shapes
<1> QED
  BY <1>1, <1>2, <1>3 DEF OthersKept

\* A step of one request leaves the streams of the others alone.
LEMMA OthersSame ==
    ASSUME Shapes, Queues, NEW s \in Sessions, Serve(s), NEW t \in Sessions \ {s}
    PROVE  Same(t)
<1>0. \A label : Goto(s, label) => pc'[t] = pc[t]
  BY DEF Goto, Shapes
<1>1. CASE Prepare(s)
  <2>1. OthersKept(t)
    BY <1>0, <1>1, FailKeepsOthers DEF Prepare, OthersKept
  <2> QED
    BY <1>1, <2>1 DEF Prepare, reqVars, upVars, OthersKept, Same
<1>2. CASE Do(s)
  <2>1. OthersKept(t)
    BY <1>0, <1>2, FailKeepsOthers DEF Do, OthersKept
  <2>2. upst'[t] = upst[t]
    BY <1>2 DEF Do, Queues
  <2> QED
    BY <1>2, <2>1, <2>2 DEF Do, reqVars, OthersKept, Same
<1>3. CASE RelayUpstreamError(s)
  <2>1. event'[t] = event[t]
    BY <1>3 DEF RelayUpstreamError, RecordUpstreamError, Shapes
  <2>2. wire'[t] = wire[t]
    BY <1>3 DEF RelayUpstreamError, WriteHeader, Shapes
  <2>3. pc'[t] = pc[t]
    BY <1>0, <1>3 DEF RelayUpstreamError
  <2> QED
    BY <1>3, <2>1, <2>2, <2>3 DEF RelayUpstreamError, reqVars, upVars, Same
<1>4. CASE Buffered(s)
  <2>1. CASE /\ WriteHeader(s, 200, <<"body">>)
             /\ event' = [event EXCEPT ![s].status = 200]
             /\ Goto(s, Leave(s))
    <3>1. event'[t] = event[t]
      BY <2>1 DEF Shapes
    <3>2. wire'[t] = wire[t]
      BY <2>1 DEF WriteHeader, Shapes
    <3> QED
      BY <1>0, <1>4, <2>1, <3>1, <3>2 DEF Buffered, reqVars, upVars, Same
  <2>2. CASE \E status, reason : Fail(s, status, reason)
    <3>1. OthersKept(t)
      BY <2>2, FailKeepsOthers
    <3> QED
      BY <1>4, <3>1 DEF Buffered, reqVars, upVars, OthersKept, Same
  <2>3. \/ /\ WriteHeader(s, 200, <<"body">>)
           /\ event' = [event EXCEPT ![s].status = 200]
           /\ Goto(s, Leave(s))
        \/ \E status, reason : Fail(s, status, reason)
    BY ZenonT(30), <1>4 DEF Buffered
  <2> QED
    BY <2>1, <2>2, <2>3
<1>5. CASE StreamOpen(s)
  <2>1. CASE /\ WriteHeader(s, 200, <<>>)
             /\ event' = [event EXCEPT ![s].status = 200]
             /\ Goto(s, "read")
    <3>1. event'[t] = event[t]
      BY <2>1 DEF Shapes
    <3>2. wire'[t] = wire[t]
      BY <2>1 DEF WriteHeader, Shapes
    <3> QED
      BY <1>0, <1>5, <2>1, <3>1, <3>2 DEF StreamOpen, reqVars, upVars, Same
  <2>2. CASE OthersKept(t)
    BY <1>5, <2>2 DEF StreamOpen, reqVars, upVars, OthersKept, Same
  <2> QED
    BY <1>5, <2>1, <2>2, FailKeepsOthers DEF StreamOpen
<1>6. CASE Read(s)
  <2>1. req'[t] = req[t] /\ upst'[t] = upst[t] /\ sent'[t] = sent[t]
    BY <1>6 DEF Read, reqVars
  <2>2. CASE inbox' = [inbox EXCEPT ![s] = Tail(@)] /\ Handle(s, Head(inbox[s]))
    <3>1. inbox'[t] = inbox[t]
      BY <2>2 DEF Queues
    <3>2. \/ UNCHANGED <<pc, wire, event, streamErr>>
          \/ Goto(s, "finalize") /\ UNCHANGED <<wire, event, streamErr>>
          \/ ConversionFailed(s)
          \/ WriteFrame(s, Head(inbox[s])) /\ UNCHANGED <<pc, event, streamErr>>
          \/ Disconnected(s)
      BY <2>2 DEF Handle, DecodeFailed
    <3> QED
      BY <2>1, <3>1, <3>2
      DEF ConversionFailed, WriteFrame, Disconnected, Goto, Shapes, Same
  <2>3. CASE Goto(s, "finalize") /\ UNCHANGED <<inbox, wire, event, streamErr>>
    BY <2>1, <2>3 DEF Goto, Shapes, Same
  <2>4. CASE ReadError(s) /\ Goto(s, "finalize") /\ UNCHANGED <<inbox, wire, event>>
    BY <2>1, <2>4 DEF ReadError, Goto, Shapes, Same
  <2> QED
    BY <1>6, <2>2, <2>3, <2>4 DEF Read
<1>7. CASE Finalize(s)
  <2>1. req'[t] = req[t] /\ upst'[t] = upst[t] /\ inbox'[t] = inbox[t] /\ sent'[t] = sent[t]
    BY <1>7 DEF Finalize, reqVars, upVars
  <2>2. CASE /\ UNCHANGED event
             /\ Goto(s, "sentinel")
             /\ wire' = wire \/ WriteFrame(s, "final")
             /\ streamErr' = streamErr \/ streamErr' = [streamErr EXCEPT ![s] = "finalize"]
    <3>1. pc'[t] = pc[t] /\ streamErr'[t] = streamErr[t]
      BY <2>2 DEF Goto, Shapes
    <3>2. wire'[t] = wire[t]
      BY <2>2 DEF WriteFrame, Shapes
    <3> QED
      BY <2>1, <2>2, <3>1, <3>2 DEF Same
  <2>3. CASE Disconnected(s)
    BY <2>1, <2>3 DEF Disconnected, Goto, Shapes, Same
  <2> QED
    BY <1>7, <2>2, <2>3 DEF Finalize
<1>8. CASE Sentinel(s)
  <2>1. req'[t] = req[t] /\ upst'[t] = upst[t] /\ inbox'[t] = inbox[t] /\ sent'[t] = sent[t]
        /\ streamErr'[t] = streamErr[t]
    BY <1>8 DEF Sentinel, reqVars, upVars
  <2>2. pc'[t] = pc[t] /\ event'[t] = event[t]
    BY <1>8 DEF Sentinel, FinishStream, Goto, Shapes
  <2>3. wire' = wire \/ WriteFrame(s, "[DONE]")
    BY <1>8 DEF Sentinel
  <2>4. wire'[t] = wire[t]
    BY <2>3 DEF WriteFrame, Shapes
  <2> QED
    BY <2>1, <2>2, <2>4 DEF Same
<1>9. CASE CloseBody(s)
  <2>1. pc'[t] = pc[t]
    BY <1>9 DEF CloseBody, Goto, Shapes
  <2> QED
    BY <1>9, <2>1 DEF CloseBody, reqVars, upVars, Same
<1>10. CASE Record(s)
  <2>1. pc'[t] = pc[t]
    BY <1>10 DEF Record, Goto, Shapes
  <2> QED
    BY <1>10, <2>1 DEF Record, reqVars, upVars, Same
<1> QED
  BY <1>1, <1>2, <1>3, <1>4, <1>5, <1>6, <1>7, <1>8, <1>9, <1>10 DEF Serve

\* The handler takes frames off its queue and sends none.
LEMMA ServeQueues ==
    ASSUME Queues, NEW s \in Sessions, Serve(s)
    PROVE  Queues'
<1>1. CASE Read(s)
  <2>1. UNCHANGED <<req, upst, sent>>
    BY <1>1 DEF Read, reqVars
  <2>2. inbox' = inbox \/ (inbox[s] # <<>> /\ inbox' = [inbox EXCEPT ![s] = Tail(@)])
    BY <1>1 DEF Read
  <2>3. inbox[s] # <<>> => Tail(inbox[s]) \in Seq(Frame)
    <3> DEFINE S == Frame
    <3>1. inbox[s] \in Seq(S)
      BY DEF Queues
    <3> HIDE DEF S
    <3>2. inbox[s] # <<>> => Tail(inbox[s]) \in Seq(S)
      BY <3>1
    <3> QED
      BY <3>2 DEF S
  <2>4. inbox' \in [Sessions -> Seq(Frame)]
    BY <2>2, <2>3 DEF Queues
  <2> QED
    BY <2>1, <2>4 DEF Queues
<1>2. CASE Do(s)
  BY <1>2 DEF Do, reqVars, Queues
<1>3. CASE UNCHANGED <<req, upVars>>
  BY <1>3 DEF upVars, Queues
<1> QED
  BY <1>1, <1>2, <1>3
  DEF Serve, Prepare, RelayUpstreamError, Buffered, StreamOpen, Finalize, Sentinel, CloseBody, Record,
      reqVars

\* A step of one request keeps the streams, if it keeps its own and what is logged.
LEMMA StepStreams ==
    ASSUME Shapes, Streams, NEW s \in Sessions, Queues', Stream(s)',
           \A t \in Sessions \ {s} : Same(t),
           \/ log' = log /\ (pc[s] = "end" => event'[s] = event[s] /\ pc'[s] = "end")
           \/ /\ log' = Append(log, [session |-> s, event |-> event[s]])
              /\ event'[s] = event[s] /\ pc'[s] = "end"
    PROVE  Streams'
<1>1. ASSUME NEW t \in Sessions
      PROVE  Stream(t)'
  <2>1. CASE t = s
    BY <2>1
  <2>2. CASE t # s
    BY <2>2, SameStream DEF Streams
  <2> QED
    BY <2>1, <2>2
<1>2. ASSUME NEW i \in 1 .. Len(log), pc[s] = "end" => event'[s] = event[s] /\ pc'[s] = "end"
      PROVE  log[i].event = event'[log[i].session] /\ pc'[log[i].session] = "end"
  <2>1. PICK t \in Sessions : t = log[i].session
    <3> DEFINE S == [session : Sessions, event : Event]
    <3>1. log \in Seq(S)
      BY DEF Shapes
    <3> HIDE DEF S
    <3>2. log[i] \in S
      BY <3>1, ElementOfSeq
    <3> QED
      BY <3>2 DEF S
  <2>2. log[i].event = event[t] /\ pc[t] = "end"
    BY <2>1 DEF Streams, LogFinal
  <2>3. CASE t = s
    BY <1>2, <2>1, <2>2, <2>3
  <2>4. CASE t # s
    BY <2>1, <2>2, <2>4 DEF Same
  <2> QED
    BY <2>3, <2>4
<1>3. CASE log' = log /\ (pc[s] = "end" => event'[s] = event[s] /\ pc'[s] = "end")
  <2>1. LogFinal'
    BY <1>2, <1>3 DEF LogFinal
  <2> QED
    BY <1>1, <2>1 DEF Streams
<1>4. CASE /\ log' = Append(log, [session |-> s, event |-> event[s]])
           /\ event'[s] = event[s] /\ pc'[s] = "end"
  <2> DEFINE entry == [session |-> s, event |-> event[s]]
  <2>1. /\ Len(log) \in Nat /\ Len(log') = Len(log) + 1 /\ log'[Len(log) + 1] = entry
        /\ \A i \in 1 .. Len(log) : log'[i] = log[i]
    <3> DEFINE S == [session : Sessions, event : Event]
    <3>1. log \in Seq(S) /\ entry \in S
      BY DEF Shapes
    <3> HIDE DEF S, entry
    <3>2. log' = Append(log, entry)
      BY <1>4 DEF entry
    <3> QED
      BY <3>1, <3>2
  <2>2. entry.session = s /\ entry.event = event[s]
    OBVIOUS
  <2> HIDE DEF entry
  <2>3. ASSUME NEW i \in 1 .. Len(log')
        PROVE  log'[i].event = event'[log'[i].session] /\ pc'[log'[i].session] = "end"
    <3>1. CASE i = Len(log) + 1
      BY <1>4, <2>1, <2>2, <3>1
    <3>2. CASE i # Len(log) + 1
      <4>1. i \in 1 .. Len(log) /\ log'[i] = log[i]
        BY <2>1, <3>2
      <4> QED
        BY <1>2, <1>4, <4>1
    <3> QED
      BY <3>1, <3>2
  <2>4. LogFinal'
    BY <2>3 DEF LogFinal
  <2> QED
    BY <1>1, <2>4 DEF Streams
<1> QED
  BY <1>3, <1>4

LEMMA InitStreams == Init => Streams
<1> SUFFICES ASSUME Init PROVE Streams
  OBVIOUS
<1>1. <<>> \in Seq(Frame) /\ <<>> \o <<>> = <<>>
  OBVIOUS
<1>2. Queues /\ LogFinal
  <2>1. inbox \in [Sessions -> Seq(Frame)] /\ sent \in [Sessions -> Seq(Frame)]
    BY <1>1 DEF Init
  <2>2. DOMAIN req = Sessions /\ DOMAIN upst = Sessions
    BY DEF Init
  <2>3. 1 .. Len(log) = {}
    <3>1. Len(log) = 0
      BY DEF Init
    <3> QED
      BY <3>1
  <2> QED
    BY <2>1, <2>2, <2>3 DEF Queues, LogFinal
<1>3. ASSUME NEW s \in Sessions
      PROVE  Stream(s)
  <2>1. /\ pc[s] = "new" /\ streamErr[s] = "" /\ event[s].error = ""
        /\ sent[s] = <<>> /\ inbox[s] = <<>>
    BY DEF Init
  <2>2. Fine(s)
    BY <2>1 DEF Fine, Early, Over
  <2>3. Relayed(s, <<>>)
    BY <1>1, <2>1 DEF Relayed, Early, Over
  <2> QED
    BY <1>1, <2>2, <2>3 DEF Stream
<1> QED
  BY <1>2, <1>3 DEF Streams

LEMMA ServeStreams ==
    ASSUME Shapes, Streams, NEW s \in Sessions, Serve(s)
    PROVE  Streams'
<1>1. Queues /\ Stream(s)
  BY DEF Streams
<1>2. Queues' /\ \A t \in Sessions \ {s} : Same(t)
  BY <1>1, ServeQueues, OthersSame
<1>3. CASE CloseBody(s)
  <2>1. Stream(s)'
    <3>1. pc[s] \in Over /\ pc'[s] \in Over
      BY <1>3 DEF CloseBody, Goto, Shapes, Over
    <3> QED
      BY <1>1, <1>3, <3>1, OverStream DEF CloseBody, reqVars, upVars
  <2> QED
    BY <1>2, <1>3, <2>1, StepStreams DEF CloseBody
<1>4. CASE Record(s)
  <2>1. pc[s] = "log" /\ pc'[s] = "end" /\ event' = event
    BY <1>4 DEF Record, Goto, Shapes
  <2>2. Stream(s)'
    BY <1>1, <1>4, <2>1, OverStream DEF Record, reqVars, upVars, Over
  <2> QED
    BY <1>2, <1>4, <2>1, <2>2, StepStreams DEF Record, LogEvent
<1>5. CASE ~CloseBody(s) /\ ~Record(s)
  <2>1. log' = log /\ pc[s] # "end"
    BY <1>5 DEF Serve, Prepare, Do, RelayUpstreamError, Buffered, StreamOpen, Read, Finalize, Sentinel
  <2>2. Stream(s)'
    BY <1>1, <1>5, PrepareStream, DoStream, RelayUpstreamErrorStream, BufferedStream,
       StreamOpenStream, ReadStream, FinalizeStream, SentinelStream DEF Serve
  <2> QED
    BY <1>2, <2>1, <2>2, StepStreams
<1> QED
  BY <1>3, <1>4, <1>5

LEMMA NextStreams == Shapes /\ Streams /\ [Next]_vars => Streams'
<1> SUFFICES ASSUME Shapes, Streams, [Next]_vars PROVE Streams'
  OBVIOUS
<1>0. Queues /\ \A s \in Sessions : Stream(s)
  BY DEF Streams
<1>1. CASE UNCHANGED vars
  <2>1. \A t : Same(t)
    BY <1>1 DEF vars, reqVars, upVars, Same
  <2>2. \A t \in Sessions : Stream(t)'
    BY <1>0, <2>1, SameStream
  <2>3. Queues' /\ LogFinal'
    BY <1>1 DEF Streams, Queues, LogFinal, vars, reqVars, upVars
  <2> QED
    BY <2>2, <2>3 DEF Streams
<1>2. ASSUME NEW s \in Sessions, NEW client \in Formats, NEW upstream \in Formats, NEW streaming \in BOOLEAN,
             NEW flaws \in Flaws, Arrive(s, client, upstream, streaming, flaws)
      PROVE  Streams'
  <2>1. Stream(s)'
    BY <1>0, <1>2, ArriveStream
  <2>2. Queues'
    BY <1>0, <1>2 DEF Arrive, Queues, upVars
  <2>3. \A t \in Sessions \ {s} : Same(t)
    BY <1>0, <1>2 DEF Arrive, Goto, WriteHeader, upVars, Shapes, Queues, Same
  <2>4. log' = log /\ pc[s] # "end"
    BY <1>2 DEF Arrive
  <2> QED
    BY <2>1, <2>2, <2>3, <2>4, StepStreams
<1>3. ASSUME NEW s \in Sessions, Serve(s)
      PROVE  Streams'
  BY <1>3, ServeStreams
<1>4. ASSUME NEW s \in Sessions, ClientLeaves(s)
      PROVE  Streams'
  <2>1. \A t : Same(t)
    BY <1>4 DEF ClientLeaves, upVars, Same
  <2>2. Stream(s)'
    BY <1>0, <2>1, SameStream
  <2>3. Queues' /\ log' = log /\ pc' = pc /\ event' = event
    BY <1>0, <1>4 DEF ClientLeaves, upVars, Queues
  <2> QED
    BY <2>1, <2>2, <2>3, StepStreams
<1>5. ASSUME NEW s \in Sessions, NEW kind \in Kinds, UpstreamSends(s, kind)
      PROVE  Streams'
  <2>1. Stream(s)'
    BY <1>0, <1>5, UpstreamSendsStream
  <2>2. Queues'
    <3> DEFINE frame == [kind |-> kind, n |-> Len(sent[s]) + 1]
               S == Frame
    <3>1. Len(sent[s]) + 1 \in Nat
      BY <1>0, LenProperties DEF Queues
    <3>2. frame \in S
      BY <3>1 DEF Frame
    <3>3. inbox \in [Sessions -> Seq(S)] /\ sent \in [Sessions -> Seq(S)]
      BY <1>0 DEF Queues
    <3>4. inbox' = [inbox EXCEPT ![s] = Append(@, frame)] /\ sent' = [sent EXCEPT ![s] = Append(@, frame)]
      BY <1>5 DEF UpstreamSends
    <3> HIDE DEF frame, S
    <3>5. Append(inbox[s], frame) \in Seq(S) /\ Append(sent[s], frame) \in Seq(S)
      BY <3>2, <3>3
    <3>6. inbox' \in [Sessions -> Seq(S)] /\ sent' \in [Sessions -> Seq(S)]
      BY <3>3, <3>4, <3>5
    <3>7. req' = req /\ upst' = upst
      BY <1>5 DEF UpstreamSends, reqVars
    <3> QED
      BY <1>0, <3>6, <3>7 DEF S, Queues
  <2>3. \A t \in Sessions \ {s} : Same(t)
    BY <1>0, <1>5 DEF UpstreamSends, reqVars, Queues, Same
  <2>4. log' = log /\ pc' = pc /\ event' = event
    BY <1>5 DEF UpstreamSends
  <2> QED
    BY <2>1, <2>2, <2>3, <2>4, StepStreams
<1>6. ASSUME NEW s \in Sessions, NEW how \in {"closed", "broken"}, UpstreamEnds(s, how)
      PROVE  Streams'
  <2>1. Stream(s)'
    BY <1>0, <1>6, UpstreamEndsStream
  <2>2. Queues' /\ log' = log /\ pc' = pc /\ event' = event
    BY <1>0, <1>6 DEF UpstreamEnds, reqVars, Queues
  <2>3. \A t \in Sessions \ {s} : Same(t)
    BY <1>0, <1>6 DEF UpstreamEnds, reqVars, Queues, Same
  <2> QED
    BY <2>1, <2>2, <2>3, StepStreams
<1> QED
  BY <1>1, <1>2, <1>3, <1>4, <1>5, <1>6 DEF Next

\* The frames up to the end the upstream gave are those that were read.
LEMMA UpToItsEnd ==
    ASSUME NEW s \in Sessions, NEW got \in Seq(Frame), inbox[s] \in Seq(Frame),
           sent[s] = got \o inbox[s], Ended(s, got)
    PROVE  /\ upst[s] = "closed" \/ Dones(s) # {}
           /\ SubSeq(sent[s], 1, FirstDone(s)) = got
<1>0. PICK q \in Seq(Frame) : q = inbox[s]
  OBVIOUS
<1>1. /\ Len(got) \in Nat /\ Len(q) \in Nat /\ Len(got \o q) = Len(got) + Len(q)
      /\ \A i \in 1 .. Len(got) : (got \o q)[i] = got[i]
  <2> DEFINE S == Frame
  <2>1. got \in Seq(S) /\ q \in Seq(S)
    OBVIOUS
  <2> HIDE DEF S
  <2>2. /\ Len(got) \in Nat /\ Len(q) \in Nat /\ Len(got \o q) = Len(got) + Len(q)
        /\ \A i \in 1 .. Len(got) + Len(q) : (got \o q)[i] = IF i <= Len(got) THEN got[i]
                                                             ELSE q[i - Len(got)]
    BY <2>1, ConcatProperties, LenProperties
  <2> QED
    BY <2>2
<1>2. sent[s] = got \o q
  BY <1>0
<1>3. SubSeq(got, 1, Len(got)) = got
  BY SubSeqFull
<1>4. CASE LastDone(got)
  <2>1. PICK n \in 1 .. Len(got) :
            n = Len(got) /\ got[n].kind = "done" /\ \A i \in 1 .. n - 1 : got[i].kind # "done"
    BY <1>4 DEF LastDone
  <2>2. n \in Dones(s)
    BY <1>1, <1>2, <2>1 DEF Dones
  <2>3. \A j \in Dones(s) : n <= j
    <3> SUFFICES ASSUME NEW j \in Dones(s), ~(n <= j)
                 PROVE  FALSE
      OBVIOUS
    <3>1. j \in 1 .. Len(got \o q) /\ (got \o q)[j].kind = "done"
      BY <1>2 DEF Dones
    <3>2. j \in 1 .. n - 1 /\ j \in 1 .. Len(got)
      BY <1>1, <2>1, <3>1
    <3>3. got[j].kind = "done"
      BY <1>1, <3>1, <3>2
    <3> QED
      BY <2>1, <3>2, <3>3
  <2>4. Dones(s) \subseteq Nat
    BY <1>1, <1>2 DEF Dones
  <2>5. FirstDone(s) = n
    <3>1. \A i \in Dones(s) : (\A j \in Dones(s) : i <= j) => i = n
      BY <2>2, <2>3, <2>4
    <3> QED
      BY <2>2, <2>3, <3>1 DEF FirstDone
  <2>6. SubSeq(got \o q, 1, n) = SubSeq(got, 1, n)
    <3>1. n \in 1 .. Len(got) /\ 1 \in 1 .. Len(got)
      BY <1>1, <2>1
    <3> QED
      BY <3>1, SubSeqOfConcat1
  <2> QED
    BY <1>2, <1>3, <2>1, <2>2, <2>5, <2>6
<1>5. CASE upst[s] = "closed" /\ inbox[s] = <<>> /\ NoneDone(got)
  <2>1. got \o <<>> = got
    BY ConcatEmptySeq
  <2>2. sent[s] = got
    BY <1>0, <1>2, <1>5, <2>1
  <2>3. Dones(s) = {}
    BY <1>5, <2>2 DEF Dones, NoneDone
  <2> QED
    BY <1>3, <1>5, <2>2, <2>3 DEF FirstDone
<1> QED
  BY <1>4, <1>5 DEF Ended

\* However many requests are served at once, whatever frames the upstreams send and
\* wherever a client leaves: an event without an error means the client was sent
\* everything, once and in order, up to the upstream's end, and how its protocol ends
\* a stream (streamResponse, finishStream).
THEOREM CleanMeansCompleteHolds == Spec => []CleanMeansComplete
<1>1. ASSUME Inv, Streams
      PROVE  CleanMeansComplete
  <2>1. SUFFICES ASSUME NEW s \in Sessions, NEW i \in Entries(s), log[i].event.error = ""
                 PROVE  /\ wire[s].status = 200
                        /\ req[s].streaming =>
                              /\ upst[s] = "closed" \/ Dones(s) # {}
                              /\ wire[s].frames = Expected(s)
    BY DEF CleanMeansComplete
  <2>2. pc[s] = "end" /\ event[s].error = ""
    BY <1>1, <2>1 DEF Entries, Streams, LogFinal
  <2>3. wire[s].status = 200
    <3>1. Told(s) /\ Fine(s)
      BY <1>1 DEF Inv, Streams, Stream
    <3>2. event[s].status = 200
      BY <2>2, <3>1 DEF Fine, Over
    <3>3. pc[s] \in Telling
      BY <2>2 DEF Telling
    <3> QED
      BY <3>1, <3>2, <3>3 DEF Told
  <2>4. ASSUME req[s].streaming
        PROVE  /\ upst[s] = "closed" \/ Dones(s) # {}
               /\ wire[s].frames = Expected(s)
    <3>1. PICK got \in Seq(Frame) : Relayed(s, got)
      BY <1>1 DEF Streams, Stream
    <3>2. /\ sent[s] = got \o inbox[s] /\ Ended(s, got)
          /\ wire[s].frames = Forwarded(got, Cross(s)) \o Final(s) \o SaidDone(s)
      BY <2>2, <2>4, <3>1 DEF Relayed, Clean, Over
    <3>3. /\ upst[s] = "closed" \/ Dones(s) # {}
          /\ SubSeq(sent[s], 1, FirstDone(s)) = got
      BY <1>1, <3>2, UpToItsEnd DEF Streams, Queues
    <3> QED
      BY <3>2, <3>3 DEF Expected, Final, SaidDone, WantsDone
  <2> QED
    BY <2>3, <2>4
<1>2. Inv => Shapes
  BY DEF Inv
<1> QED
  BY <1>1, <1>2, InitStreams, NextStreams, AlwaysInv, PTL DEF Spec

=============================================================================
