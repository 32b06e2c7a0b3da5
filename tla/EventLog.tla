------------------------------ MODULE EventLog ------------------------------
(***************************************************************************)
(* The in-memory conversion history, internal/proxy/events.go: a slice of  *)
(* at most eventLogCap events and a sequence counter, both guarded by one  *)
(* mutex, so each method is one step.                                      *)
(***************************************************************************)
EXTENDS Naturals, Sequences

CONSTANTS
    Cap,        \* eventLogCap
    Payload,    \* an Event without its Seq
    MaxEvents   \* bound: conversions recorded by one process

ASSUME CapAssumption == Cap \in Nat \ {0}
ASSUME MaxEventsAssumption == MaxEvents \in Nat

VARIABLES
    seq,        \* eventLog.seq
    items,      \* eventLog.items, oldest first
    recorded    \* history: the payload of every append so far

vars == <<seq, items, recorded>>

Event == [seq : Nat, payload : Payload]

Init ==
    /\ seq = 0
    /\ items = <<>>
    /\ recorded = <<>>

\* copy(l.items, l.items[1:]); l.items[len-1] = event
ShiftIn(s, event) ==
    [i \in 1 .. Len(s) |-> IF i = Len(s) THEN event ELSE s[i + 1]]

\* Bug: the newest slot is overwritten, the shift is missing.
PushOverwrite(s, event) ==
    IF Len(s) >= Cap
    THEN [s EXCEPT ![Len(s)] = event]
    ELSE Append(s, event)

Push(s, event) ==
    IF Len(s) >= Cap THEN ShiftIn(s, event) ELSE Append(s, event)

\* eventLog.append
AppendEvent(p) ==
    /\ seq < MaxEvents
    /\ seq' = seq + 1
    /\ items' = Push(items, [seq |-> seq + 1, payload |-> p])
    /\ recorded' = Append(recorded, p)

\* Bug: >= instead of >, the reader gets its last event again.
SinceInclusive(s) == SelectSeq(items, LAMBDA event : event.seq >= s)

\* The loop of since: the entries of l after s, in their order.  SelectSeq
\* written out, for the prover does not look into that one.
After(l, s) ==
    LET out[i \in 0 .. Len(l)] ==
            IF i = 0 THEN <<>>
            ELSE IF l[i].seq > s THEN Append(out[i - 1], l[i]) ELSE out[i - 1]
    IN  out[Len(l)]

\* eventLog.since
Since(s) == After(items, s)

\* eventLog.latestSeq
LatestSeq == seq

Next == \E p \in Payload : AppendEvent(p)

Spec == Init /\ [][Next]_vars

-----------------------------------------------------------------------------
TypeOK ==
    /\ seq \in Nat
    /\ items \in Seq(Event)
    /\ Len(items) <= Cap
    /\ recorded \in Seq(Payload)

(* The slice is exactly the newest Cap appends, each under the number the  *)
(* append gave it: shifting in place neither loses nor reorders nor        *)
(* renumbers an event.                                                     *)
Retained ==
    /\ seq = Len(recorded)
    /\ Len(items) = IF seq < Cap THEN seq ELSE Cap
    /\ \A i \in 1 .. Len(items) :
          items[i] = [seq     |-> seq - Len(items) + i,
                      payload |-> recorded[seq - Len(items) + i]]

(* A poll that passes any cursor gets every retained event after the       *)
(* cursor, oldest first, and nothing else; a cursor of 0 gets them all,    *)
(* and a cursor of LatestSeq gets none.                                    *)
SinceIsExact ==
    \A s \in 0 .. seq :
        LET lost   == seq - Len(items)
            skip   == IF s > lost THEN s - lost ELSE 0
        IN  Since(s) = SubSeq(items, skip + 1, Len(items))

-----------------------------------------------------------------------------
(* The slice with its numbers forgotten is the window of EventHistory.     *)
History == INSTANCE EventHistory
    WITH history <- recorded,
         window  <- [i \in 1 .. Len(items) |-> items[i].payload]

Refines == History!Spec
=============================================================================
