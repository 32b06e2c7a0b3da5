----------------------------- MODULE EventFeed ------------------------------
(***************************************************************************)
(* How the admin console follows the conversion history.  It composes      *)
(*   - the event log of the relay (EventLog),                              *)
(*   - GET /admin/api/events (internal/admin/admin.go, getEvents), which   *)
(*     takes the log's mutex twice, once for the events and once for the   *)
(*     newest sequence number, and                                         *)
(*   - the console page (internal/admin/web/index.html, pollEvents), which *)
(*     polls on a timer without waiting for the previous poll, keeps a     *)
(*     cursor and the newest PageCap events.                               *)
(* A conversion's payload is the incarnation of the server that logged it, *)
(* so an event [seq, payload] names one conversion for good.               *)
(***************************************************************************)
EXTENDS Integers, Sequences, SequencesExt

CONSTANTS
    Cap,          \* eventLogCap
    PageCap,      \* the 200 entries the page keeps
    MaxEvents,    \* bound: conversions per incarnation of the server
    MaxRestarts,  \* bound: restarts of the server under an open page
    MaxFailures,  \* bound: polls that fail
    Polls         \* polls that may be in flight at the same time

ASSUME LogAssumption == Cap \in Nat \ {0} /\ MaxEvents \in Nat
ASSUME PageAssumption == PageCap \in Nat
ASSUME BoundsAssumption == MaxRestarts \in Nat /\ MaxFailures \in Nat

VARIABLES
    seq, items, recorded,   \* the log of the running server
    epoch,      \* incarnation of the server
    poll,       \* poll[p]: the state of one fetch
    lastSeq,    \* the page's cursor, state.lastSeq
    shown,      \* the page's list, state.events
    failures,   \* polls that failed so far
    delivered,  \* history: every event a received answer carried
    excused,    \* history: events the feed may lose, see Excuse
    overlapped  \* history: two polls were in flight at once

log == INSTANCE EventLog WITH Payload <- 0 .. MaxRestarts

logVars  == <<seq, items, recorded>>
pageVars == <<lastSeq, shown>>
ghosts   == <<delivered, excused, overlapped>>
vars     == <<logVars, epoch, poll, pageVars, failures, ghosts>>

FeedEvent == [seq : 1 .. MaxEvents, payload : 0 .. MaxRestarts]

Idle == [at |-> "idle", since |-> 0, events |-> <<>>, latest |-> 0]

Init ==
    /\ log!Init
    /\ epoch = 0
    /\ poll = [p \in Polls |-> Idle]
    /\ lastSeq = 0
    /\ shown = <<>>
    /\ failures = 0
    /\ delivered = {}
    /\ excused = {}
    /\ overlapped = FALSE

\* Every position the page holds or has in flight.
Cursors == {lastSeq} \cup {poll[p].since : p \in Polls}
                     \cup {poll[p].latest : p \in Polls}

\* What the feed may lose when an event is logged: the event itself when it
\* falls between the two halves of an answer, or when a restarted server is
\* still counting up to the page's old cursor; and an event that is pushed
\* out of the log before it was sent.
Excuse(event) ==
    LET gap      == \E p \in Polls : poll[p].at = "half"
        stranded == epoch > 0 /\ \E c \in Cursors : c > seq
    IN  (ToSet(items) \ (ToSet(items') \cup delivered))
        \cup (IF gap \/ stranded THEN {event} ELSE {})

\* A conversion ends: its deferred events.append runs.
LogEvent ==
    /\ log!AppendEvent(epoch)
    /\ excused' = excused \cup Excuse([seq |-> seq + 1, payload |-> epoch])
    /\ UNCHANGED <<epoch, poll, pageVars, failures, delivered, overlapped>>

\* pollEvents: the timer fires and the page sends its cursor.
PollSend(p) ==
    /\ poll[p].at = "idle"
    /\ poll' = [poll EXCEPT ![p] = [Idle EXCEPT !.at = "sent", !.since = lastSeq]]
    /\ overlapped' = (overlapped \/ \E q \in Polls : poll[q].at # "idle")
    /\ UNCHANGED <<logVars, epoch, pageVars, failures, delivered, excused>>

\* getEvents, first half: "events": a.proxy.EventsSince(since)
ServeSince(p) ==
    /\ poll[p].at = "sent"
    /\ poll' = [poll EXCEPT ![p].at = "half",
                            ![p].events = log!Since(poll[p].since)]
    /\ UNCHANGED <<logVars, epoch, pageVars, failures, ghosts>>

\* getEvents, second half: "latest": a.proxy.EventsTotal()
ServeLatest(p) ==
    /\ poll[p].at = "half"
    /\ poll' = [poll EXCEPT ![p].at = "answered", ![p].latest = log!LatestSeq]
    /\ UNCHANGED <<logVars, epoch, pageVars, failures, ghosts>>

\* if (state.events.length > 200) state.events = state.events.slice(...)
Truncate(s) == IF Len(s) > PageCap THEN SubSeq(s, Len(s) - PageCap + 1, Len(s)) ELSE s

\* Bug: the cursor moves past the newest event.
AdvanceTooFar(cursor, latest) == IF latest = 0 THEN cursor ELSE latest + 1

\* state.lastSeq = data.latest || state.lastSeq
Advance(cursor, latest) == IF latest = 0 THEN cursor ELSE latest

ApplyAnswer(p) ==
    /\ shown' = Truncate(shown \o poll[p].events)
    /\ lastSeq' = Advance(lastSeq, poll[p].latest)
    /\ delivered' = delivered \cup ToSet(poll[p].events)
    /\ poll' = [poll EXCEPT ![p] = Idle]
    /\ UNCHANGED <<logVars, epoch, failures, excused, overlapped>>

\* Bug: an empty answer is never consumed, so the page stops polling.
PollReceiveNonEmpty(p) ==
    poll[p].at = "answered" /\ poll[p].events # <<>> /\ ApplyAnswer(p)

\* pollEvents: the answer reaches the page.
PollReceive(p) == poll[p].at = "answered" /\ ApplyAnswer(p)

\* The fetch fails and the page ignores it: "next round retries".
PollFail(p) ==
    /\ poll[p].at # "idle"
    /\ failures < MaxFailures
    /\ failures' = failures + 1
    /\ poll' = [poll EXCEPT ![p] = Idle]
    /\ UNCHANGED <<logVars, epoch, pageVars, ghosts>>

\* The server is restarted under the open page: the log starts empty, the
\* unfinished fetches fail, the page keeps its cursor and its list.
Restart ==
    /\ epoch < MaxRestarts
    /\ epoch' = epoch + 1
    /\ seq' = 0 /\ items' = <<>> /\ recorded' = <<>>
    /\ poll' = [p \in Polls |-> IF poll[p].at = "answered" THEN poll[p] ELSE Idle]
    /\ excused' = excused \cup (ToSet(items) \ delivered)
    /\ UNCHANGED <<pageVars, failures, delivered, overlapped>>

Next ==
    \/ LogEvent
    \/ Restart
    \/ \E p \in Polls : \/ PollSend(p)
                        \/ ServeSince(p)
                        \/ ServeLatest(p)
                        \/ PollReceive(p)
                        \/ PollFail(p)

(* The timer keeps firing, the handler answers, the browser delivers.      *)
Fairness ==
    \A p \in Polls : /\ WF_vars(PollSend(p))
                     /\ WF_vars(ServeSince(p))
                     /\ WF_vars(ServeLatest(p))
                     /\ WF_vars(PollReceive(p))

Spec == Init /\ [][Next]_vars /\ Fairness

-----------------------------------------------------------------------------
TypeOK ==
    /\ log!TypeOK
    /\ epoch \in 0 .. MaxRestarts
    /\ \A p \in Polls :
          /\ poll[p].at \in {"idle", "sent", "half", "answered"}
          /\ poll[p].since \in Nat
          /\ ToSet(poll[p].events) \subseteq FeedEvent
          /\ poll[p].latest \in 0 .. MaxEvents
    /\ lastSeq \in Nat
    /\ ToSet(shown) \subseteq FeedEvent
    /\ Len(shown) <= PageCap
    /\ failures \in 0 .. MaxFailures

(* Every event the server still retains at or below the page's cursor has  *)
(* reached the page, unless it was logged in the gap of some answer or it  *)
(* belongs to a restarted server counting up to an old cursor: nothing     *)
(* else loses an event from the feed, whatever polls overlap or fail.      *)
OnlyTheGapLoses ==
    \A i \in 1 .. Len(items) :
        items[i].seq <= lastSeq => items[i] \in delivered \cup excused

(* While polls do not overlap, the page lists the events of each incarnation  *)
(* of the server once and in the order the conversions ended, also when    *)
(* the cursor moves back after a restart or the list is cut.               *)
ShownInOrder ==
    ~overlapped => \A i, j \in 1 .. Len(shown) :
        (i < j /\ shown[i].payload = shown[j].payload) => shown[i].seq < shown[j].seq

(* Every conversion that is not lost in the gap, pushed out of the log, or *)
(* stranded by a restart is shown to the operator eventually.              *)
EventuallyDelivered ==
    \A n \in 1 .. MaxEvents, k \in 0 .. MaxRestarts :
        LET e == [seq |-> n, payload |-> k]
        IN  (e \in ToSet(items)) ~> (e \in delivered \cup excused)

(* What an incremental feed is for: an event behind the cursor has been    *)
(* delivered to the page.                                                  *)
NoMissedEvent ==
    \A i \in 1 .. Len(items) : items[i].seq <= lastSeq => items[i] \in delivered
=============================================================================
