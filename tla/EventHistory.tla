---------------------------- MODULE EventHistory ----------------------------
(***************************************************************************)
(* What the conversion history promises its readers, with nothing of how   *)
(* internal/proxy/events.go keeps it: every finished conversion is         *)
(* recorded in order, and the newest Cap of them can be read.              *)
(***************************************************************************)
EXTENDS Naturals, Sequences

CONSTANTS
    Cap,        \* eventLogCap
    Payload,    \* what one conversion reports, Event without its Seq
    MaxEvents   \* bound: conversions per behaviour

VARIABLES
    history,    \* every conversion ever recorded, oldest first
    window      \* the conversions a reader may still ask for

hvars == <<history, window>>

\* The last k elements of s (all of s when it is shorter).
Newest(s, k) ==
    LET drop == IF Len(s) > k THEN Len(s) - k ELSE 0
    IN  [i \in 1 .. Len(s) - drop |-> s[drop + i]]

Init ==
    /\ history = <<>>
    /\ window = <<>>

Record(p) ==
    /\ Len(history) < MaxEvents
    /\ history' = Append(history, p)
    /\ window' = Newest(history', Cap)

Next == \E p \in Payload : Record(p)

Spec == Init /\ [][Next]_hvars
=============================================================================
