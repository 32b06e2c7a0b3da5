--------------------------- MODULE EventLogProofs ---------------------------
(***************************************************************************)
(* Proofs about EventLog for every capacity, payload set and bound.  The   *)
(* argument rests on one inductive invariant, Retained: which events the   *)
(* slice holds and under which numbers.                                    *)
(***************************************************************************)
EXTENDS EventLog, Counting, TLAPS

Inv == TypeOK /\ Retained

\* A numbered payload is an event.
LEMMA EventRecord ==
    ASSUME NEW n \in Nat, NEW p \in Payload
    PROVE  /\ [seq |-> n, payload |-> p] \in Event
           /\ [seq |-> n, payload |-> p].seq = n
           /\ [seq |-> n, payload |-> p].payload = p
BY DEF Event

\* Shifting an event in keeps the length, moves everything one slot down
\* and puts the event last.
LEMMA ShiftInFacts ==
    ASSUME NEW S, NEW s \in Seq(S), NEW event \in S, s # <<>>
    PROVE  /\ ShiftIn(s, event) \in Seq(S)
           /\ Len(ShiftIn(s, event)) = Len(s)
           /\ \A i \in 1 .. Len(s) - 1 : ShiftIn(s, event)[i] = s[i + 1]
           /\ ShiftIn(s, event)[Len(s)] = event
<1>1. Len(s) \in Nat \ {0}
  OBVIOUS
<1>2. \A i \in 1 .. Len(s) :
         (IF i = Len(s) THEN event ELSE s[i + 1]) \in S
  BY <1>1
<1>3. ShiftIn(s, event) \in [1 .. Len(s) -> S]
  BY <1>2 DEF ShiftIn
<1>4. ShiftIn(s, event) \in Seq(S) /\ Len(ShiftIn(s, event)) = Len(s)
  BY <1>1, <1>3
<1>5. \A i \in 1 .. Len(s) - 1 : ShiftIn(s, event)[i] = s[i + 1]
  BY <1>1 DEF ShiftIn
<1>6. ShiftIn(s, event)[Len(s)] = event
  BY <1>1 DEF ShiftIn
<1> QED
  BY <1>4, <1>5, <1>6

\* An append leaves the log well typed and holding the newest appends.
LEMMA AppendKeepsInv ==
    ASSUME Inv, NEW p \in Payload, AppendEvent(p)
    PROVE  Inv'
<1> USE CapAssumption, MaxEventsAssumption
<1> DEFINE e == [seq |-> seq + 1, payload |-> p]
<1>1. /\ seq \in Nat
      /\ items \in Seq(Event)
      /\ recorded \in Seq(Payload)
      /\ Len(items) \in Nat
      /\ Len(items) <= Cap
      /\ seq = Len(recorded)
      /\ Len(items) = IF seq < Cap THEN seq ELSE Cap
  BY DEF Inv, TypeOK, Retained
<1>2. \A i \in 1 .. Len(items) :
         items[i] = [seq     |-> seq - Len(items) + i,
                     payload |-> recorded[seq - Len(items) + i]]
  BY DEF Inv, Retained
<1>3. e \in Event
  <2>1. seq + 1 \in Nat
    BY <1>1
  <2> QED
    BY <2>1, EventRecord
<1>4. /\ seq' = seq + 1
      /\ recorded' = Append(recorded, p)
      /\ items' = Push(items, e)
  BY DEF AppendEvent
<1>5. /\ recorded' \in Seq(Payload)
      /\ Len(recorded') = seq + 1
      /\ recorded'[seq + 1] = p
      /\ \A i \in 1 .. seq : recorded'[i] = recorded[i]
  BY <1>1, <1>4
<1> HIDE DEF e
<1>6. CASE Len(items) >= Cap
  <2>1. items' = ShiftIn(items, e)
    BY <1>4, <1>6 DEF Push
  <2>2. items # <<>> /\ Len(items) = Cap /\ seq >= Cap
    BY <1>1, <1>6
  <2>3. /\ items' \in Seq(Event)
        /\ Len(items') = Len(items)
        /\ \A i \in 1 .. Len(items) - 1 : items'[i] = items[i + 1]
        /\ items'[Len(items)] = e
    <3>1. items \in Seq(Event) /\ items # <<>>
      BY <1>1, <2>2
    <3>2. /\ ShiftIn(items, e) \in Seq(Event)
          /\ Len(ShiftIn(items, e)) = Len(items)
          /\ \A i \in 1 .. Len(items) - 1 : ShiftIn(items, e)[i] = items[i + 1]
          /\ ShiftIn(items, e)[Len(items)] = e
      BY ONLY <3>1, <1>3, ShiftInFacts, Zenon
    <3> QED
      BY ONLY <2>1, <3>2, Zenon
  <2>4. ASSUME NEW i \in 1 .. Len(items')
        PROVE  items'[i] = [seq     |-> seq' - Len(items') + i,
                            payload |-> recorded'[seq' - Len(items') + i]]
    <3>1. CASE i = Len(items)
      <4>1. seq' - Len(items') + i = seq + 1
        BY <1>1, <1>4, <2>3, <3>1
      <4> QED
        BY <4>1, <1>5, <2>3, <3>1 DEF e
    <3>2. CASE i # Len(items)
      <4>1. /\ i \in 1 .. Len(items) - 1
            /\ i + 1 \in 1 .. Len(items)
        BY <1>1, <2>3, <3>2
      <4>2. items'[i] = [seq     |-> seq - Len(items) + (i + 1),
                         payload |-> recorded[seq - Len(items) + (i + 1)]]
        BY <1>2, <2>3, <4>1
      <4>3. /\ seq' - Len(items') + i = seq - Len(items) + (i + 1)
            /\ seq - Len(items) + (i + 1) \in 1 .. seq
        <5>1. /\ seq' = seq + 1
              /\ Len(items') = Len(items)
              /\ Len(items) = Cap
              /\ seq >= Cap
              /\ seq \in Nat
              /\ Cap \in Nat
          BY <1>1, <1>4, <2>2, <2>3
        <5> HIDE <1>1, <1>4, <2>2, <2>3
        <5> QED
          BY <4>1, <5>1
      <4> QED
        BY <1>5, <4>2, <4>3
    <3> QED
      BY <3>1, <3>2
  <2>5. TypeOK'
    BY <1>1, <1>4, <1>5, <2>2, <2>3 DEF TypeOK
  <2>6. /\ seq' = Len(recorded')
        /\ Len(items') = IF seq' < Cap THEN seq' ELSE Cap
    BY <1>1, <1>4, <1>5, <2>2, <2>3
  <2> QED
    BY <2>4, <2>5, <2>6 DEF Inv, Retained
<1>7. CASE ~(Len(items) >= Cap)
  <2>1. items' = Append(items, e)
    BY <1>4, <1>7 DEF Push
  <2>2. Len(items) = seq /\ seq < Cap
    BY <1>1, <1>7
  <2>3. /\ items' \in Seq(Event)
        /\ Len(items') = seq + 1
        /\ items'[seq + 1] = e
        /\ \A i \in 1 .. seq : items'[i] = items[i]
    BY <1>1, <1>3, <2>1, <2>2
  <2>4. ASSUME NEW i \in 1 .. Len(items')
        PROVE  items'[i] = [seq     |-> seq' - Len(items') + i,
                            payload |-> recorded'[seq' - Len(items') + i]]
    <3>1. seq' - Len(items') + i = i
      BY <1>1, <1>4, <2>3
    <3>2. CASE i = seq + 1
      BY <1>5, <2>3, <3>1, <3>2 DEF e
    <3>3. CASE i # seq + 1
      <4>1. i \in 1 .. seq
        BY <1>1, <2>3, <3>3
      <4>2. seq - Len(items) + i = i
        BY <1>1, <2>2, <4>1
      <4>3. items[i] = [seq |-> i, payload |-> recorded[i]]
        BY <1>2, <2>2, <4>1, <4>2
      <4> QED
        BY <1>5, <2>3, <3>1, <4>1, <4>3
    <3> QED
      BY <3>2, <3>3
  <2>5. TypeOK'
    BY <1>1, <1>4, <1>5, <2>2, <2>3 DEF TypeOK
  <2>6. /\ seq' = Len(recorded')
        /\ Len(items') = IF seq' < Cap THEN seq' ELSE Cap
    BY <1>1, <1>4, <1>5, <2>2, <2>3
  <2> QED
    BY <2>4, <2>5, <2>6 DEF Inv, Retained
<1> QED
  BY <1>6, <1>7

\* The inductive invariant of the log.
LEMMA InvHolds == Spec => []Inv
<1>1. Init => Inv
  BY CapAssumption DEF Init, Inv, TypeOK, Retained
<1>2. Inv /\ [Next]_vars => Inv'
  <2> SUFFICES ASSUME Inv, [Next]_vars
               PROVE  Inv'
    OBVIOUS
  <2>1. CASE Next
    BY <2>1, AppendKeepsInv DEF Next
  <2>2. CASE UNCHANGED vars
    BY <2>2 DEF Inv, TypeOK, Retained, vars
  <2> QED
    BY <2>1, <2>2
<1> QED
  BY <1>1, <1>2, PTL DEF Spec

\* eventLog never holds more than eventLogCap well-formed events.
THEOREM TypeCorrect == Spec => []TypeOK
<1>1. Inv => TypeOK
  BY DEF Inv
<1> QED
  BY <1>1, InvHolds, PTL

\* eventLog.append keeps exactly the newest events, in order and under the
\* numbers they were given, whatever the capacity.
THEOREM RetainedHolds == Spec => []Retained
<1>1. Inv => Retained
  BY DEF Inv
<1> QED
  BY <1>1, InvHolds, PTL

-----------------------------------------------------------------------------
(* Reading the log.  since is a loop, so what it returns is shown by       *)
(* induction on the entries it has passed; the induction is over a set of  *)
(* numbers, with the well-founded order of the library.                    *)

\* A longer piece is the shorter one and the next entry.
LEMMA SubSeqGrows ==
    ASSUME NEW S, NEW l \in Seq(S), NEW m \in 1 .. Len(l), NEW i \in m .. Len(l)
    PROVE  SubSeq(l, m, i) = Append(SubSeq(l, m, i - 1), l[i])
<1>1. SubSeq(l, m, i - 1) \in Seq(S) /\ l[i] \in S
  OBVIOUS
<1>2. SubSeq(l, m, i) = SubSeq(l, m, i - 1) \o <<l[i]>>
  OBVIOUS
<1> QED
  BY <1>1, <1>2

\* What since has collected from entries that are numbered in a row: those
\* whose number is greater than the cursor, a tail of the list.
LEMMA AfterIsTail ==
    ASSUME NEW S, NEW l \in Seq(S), NEW lost \in Nat, NEW s \in Nat, NEW skip,
           \A i \in 1 .. Len(l) : l[i].seq = lost + i,
           skip = IF s > lost THEN s - lost ELSE 0
    PROVE  After(l, s) = SubSeq(l, skip + 1, Len(l))
<1> DEFINE n == Len(l)
           step(f, i) == IF i = 0 THEN <<>>
                         ELSE IF l[i].seq > s THEN Append(f[i - 1], l[i]) ELSE f[i - 1]
           g == [i \in 0 .. n |-> SubSeq(l, skip + 1, i)]
           out == CHOOSE f : f = [i \in 0 .. n |-> step(f, i)]
<1>1. n \in Nat /\ skip \in Nat
  OBVIOUS
<1>2. ASSUME NEW i \in 0 .. n
      PROVE  SubSeq(l, skip + 1, i) = step(g, i)
  <2>1. CASE i = 0
    BY <1>1, <2>1
  <2>2. CASE i # 0 /\ i <= skip
    <3>1. ~(l[i].seq > s) /\ i - 1 \in 0 .. n
      BY <1>1, <2>2
    <3>2. SubSeq(l, skip + 1, i) = <<>> /\ SubSeq(l, skip + 1, i - 1) = <<>>
      BY <1>1, <2>2
    <3> QED
      BY <2>2, <3>1, <3>2
  <2>3. CASE i > skip
    <3>1. i # 0 /\ l[i].seq > s /\ i - 1 \in 0 .. n
      BY <1>1, <2>3
    <3>2. SubSeq(l, skip + 1, i) = Append(SubSeq(l, skip + 1, i - 1), l[i])
      <4>1. skip + 1 \in 1 .. Len(l) /\ i \in skip + 1 .. Len(l)
        BY <1>1, <2>3
      <4> QED
        BY <4>1, SubSeqGrows
    <3> QED
      BY <3>1, <3>2
  <2>4. i = 0 \/ (i # 0 /\ i <= skip) \/ i > skip
    BY <1>1
  <2> QED
    BY <2>1, <2>2, <2>3, <2>4
<1>3. g = [i \in 0 .. n |-> step(g, i)]
  <2>1. g = [i \in 0 .. n |-> SubSeq(l, skip + 1, i)]
    OBVIOUS
  <2> HIDE DEF g, step
  <2> QED
    BY <1>2, <2>1
<1>4. out = [i \in 0 .. n |-> step(out, i)]
  <2> HIDE DEF g, step
  <2> QED
    BY <1>3
<1> HIDE DEF out
<1>5. 0 .. n \subseteq {i \in 0 .. n : out[i] = g[i]}
  <2> DEFINE P == {i \in 0 .. n : out[i] = g[i]}
  <2>1. ASSUME NEW i \in 0 .. n
        PROVE  out[i] = step(out, i) /\ g[i] = step(g, i)
    <3> HIDE DEF g, step
    <3> QED
      BY <1>3, <1>4
  <2>2. 0 \in P
    <3>1. 0 \in 0 .. n
      BY <1>1
    <3>2. step(out, 0) = <<>> /\ step(g, 0) = <<>>
      OBVIOUS
    <3> HIDE DEF g, step
    <3> QED
      BY <2>1, <3>1, <3>2
  <2>3. ASSUME NEW i \in Nat, i < n, i \in P
        PROVE  i + 1 \in P
    <3>1. i + 1 \in 0 .. n /\ (i + 1) - 1 = i /\ i + 1 # 0
      BY <1>1, <2>3
    <3>2. out[i] = g[i]
      BY <2>3
    <3>3. step(out, i + 1) = step(g, i + 1)
      <4> HIDE DEF g
      <4> QED
        BY <3>1, <3>2
    <3> HIDE DEF g, step
    <3> QED
      BY <2>1, <3>1, <3>3
  <2>4. 0 .. n \subseteq P
    <3> HIDE DEF P, n
    <3> QED
      BY <1>1, <2>2, <2>3, CountingUp
  <2> QED
    BY <2>4
<1>6. n \in 0 .. n
  BY <1>1
<1>7. out[n] = g[n]
  BY <1>5, <1>6
<1>8. g[n] = SubSeq(l, skip + 1, n)
  BY <1>6
<1>9. After(l, s) = out[n]
  BY DEF After, out
<1> QED
  BY <1>7, <1>8, <1>9

\* A poll gets every retained event after its cursor and nothing else,
\* whatever the capacity and however many events were dropped.
THEOREM SinceIsExactHolds == Spec => []SinceIsExact
<1>1. Inv => SinceIsExact
  <2> SUFFICES ASSUME Inv, NEW s \in 0 .. seq
               PROVE  LET lost == seq - Len(items)
                          skip == IF s > lost THEN s - lost ELSE 0
                      IN  Since(s) = SubSeq(items, skip + 1, Len(items))
    BY DEF SinceIsExact
  <2> DEFINE lost == seq - Len(items)
             skip == IF s > lost THEN s - lost ELSE 0
  <2>1. /\ items \in Seq(Event)
        /\ lost \in Nat
        /\ s \in Nat
    <3>1. seq \in Nat /\ items \in Seq(Event) /\ Len(items) = IF seq < Cap THEN seq ELSE Cap
      BY DEF Inv, TypeOK, Retained
    <3> QED
      BY <3>1, CapAssumption
  <2>2. \A i \in 1 .. Len(items) : items[i].seq = lost + i
    <3> SUFFICES ASSUME NEW i \in 1 .. Len(items)
                 PROVE  items[i].seq = lost + i
      OBVIOUS
    <3>1. items[i] = [seq |-> lost + i, payload |-> recorded[lost + i]]
      BY DEF Inv, Retained
    <3> QED
      BY ONLY <3>1
  <2>3. After(items, s) = SubSeq(items, skip + 1, Len(items))
    <3> HIDE DEF lost
    <3> QED
      BY <2>1, <2>2, AfterIsTail
  <2> QED
    BY <2>3 DEF Since
<1> QED
  BY <1>1, InvHolds, PTL

-----------------------------------------------------------------------------
(* The refinement of EventHistory.                                         *)

\* Newest(s, k) is the tail of s of length min(k, Len(s)).
LEMMA NewestTail ==
    ASSUME NEW S, NEW s \in Seq(S), NEW k \in Nat, NEW n,
           n = IF Len(s) < k THEN Len(s) ELSE k
    PROVE  History!Newest(s, k) = [i \in 1 .. n |-> s[Len(s) - n + i]]
<1>1. Len(s) \in Nat /\ n \in Nat
  OBVIOUS
<1>2. CASE Len(s) > k
  <2>1. n = k /\ Len(s) - (Len(s) - k) = n
    BY <1>1, <1>2
  <2> QED
    BY <1>1, <1>2, <2>1 DEF History!Newest
<1>3. CASE ~(Len(s) > k)
  <2>1. n = Len(s) /\ Len(s) - 0 = n
    BY <1>1, <1>3
  <2> QED
    BY <1>1, <1>3, <2>1 DEF History!Newest
<1> QED
  BY <1>2, <1>3

\* The slice with an in-place shift implements the abstract window over the
\* whole history.
THEOREM LogRefinesHistory == Spec => Refines
<1> USE CapAssumption, MaxEventsAssumption
<1> DEFINE W == [i \in 1 .. Len(items) |-> items[i].payload]
<1>1. Init => History!Init
  BY DEF Init, History!Init
<1>2. Inv /\ Inv' /\ [Next]_vars => [History!Next]_History!hvars
  <2> SUFFICES ASSUME Inv, Inv', [Next]_vars
               PROVE  [History!Next]_History!hvars
    OBVIOUS
  <2>1. ASSUME NEW p \in Payload, AppendEvent(p)
        PROVE  History!Record(p)
    <3>1. /\ seq \in Nat
          /\ items' \in Seq(Event)
          /\ Len(items') \in Nat
          /\ recorded \in Seq(Payload)
          /\ seq = Len(recorded)
          /\ seq' = Len(recorded')
          /\ seq' = seq + 1
          /\ recorded' = Append(recorded, p)
          /\ Len(items') = IF seq' < Cap THEN seq' ELSE Cap
          /\ seq < MaxEvents
      <4>1. /\ seq \in Nat
            /\ recorded \in Seq(Payload)
            /\ seq = Len(recorded)
        BY DEF Inv, TypeOK, Retained
      <4>2. /\ items' \in Seq(Event)
            /\ seq' = Len(recorded')
            /\ Len(items') = IF seq' < Cap THEN seq' ELSE Cap
        BY DEF Inv, TypeOK, Retained
      <4>3. /\ seq' = seq + 1
            /\ recorded' = Append(recorded, p)
            /\ seq < MaxEvents
        BY <2>1 DEF AppendEvent
      <4>4. Len(items') \in Nat
        BY <4>1, <4>2, <4>3
      <4> QED
        BY <4>1, <4>2, <4>3, <4>4
    <3>2. \A i \in 1 .. Len(items') :
             items'[i].payload = recorded'[seq' - Len(items') + i]
      <4>1. \A i \in 1 .. Len(items') :
               items'[i] = [seq     |-> seq' - Len(items') + i,
                            payload |-> recorded'[seq' - Len(items') + i]]
        BY DEF Inv, Retained
      <4> SUFFICES ASSUME NEW i \in 1 .. Len(items')
                   PROVE  items'[i].payload = recorded'[seq' - Len(items') + i]
        OBVIOUS
      <4>2. items'[i] = [seq     |-> seq' - Len(items') + i,
                         payload |-> recorded'[seq' - Len(items') + i]]
        BY <4>1
      <4> QED
        BY ONLY <4>2
    <3>3. recorded' \in Seq(Payload) /\ Cap \in Nat
      BY DEF Inv, TypeOK
    <3>4. W' = [i \in 1 .. Len(items') |->
                  recorded'[Len(recorded') - Len(items') + i]]
      BY <3>1, <3>2
    <3>5. W' = History!Newest(recorded', Cap)
      <4>1. Len(items') = IF Len(recorded') < Cap THEN Len(recorded') ELSE Cap
        BY <3>1
      <4>2. History!Newest(recorded', Cap)
               = [i \in 1 .. Len(items') |->
                    recorded'[Len(recorded') - Len(items') + i]]
        BY ONLY <3>3, <4>1, NewestTail, Zenon
      <4> QED
        BY ONLY <3>4, <4>2, Zenon
    <3> QED
      BY <3>1, <3>5 DEF History!Record
  <2>2. CASE Next
    BY <2>1, <2>2 DEF Next, History!Next
  <2>3. CASE UNCHANGED vars
    BY <2>3 DEF vars, History!hvars
  <2> QED
    BY <2>2, <2>3
<1> QED
  BY <1>1, <1>2, InvHolds, PTL DEF Spec, Refines, History!Spec
=============================================================================
