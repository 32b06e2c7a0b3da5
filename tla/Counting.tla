------------------------------ MODULE Counting ------------------------------
(***************************************************************************)
(* Induction over the numbers for the proofs of this project, stated with  *)
(* sets and functions: some numbers have a least one, what holds at 0 and  *)
(* is handed on holds everywhere, a function that is defined step by step  *)
(* exists, and a fold over a sequence is such a function.  FoldStep is one *)
(* step of a fold, with a parameter to hand to it; who folds with a step   *)
(* of its own puts it in its place with INSTANCE.                          *)
(***************************************************************************)
EXTENDS Integers, Sequences, WellFoundedInduction, TLAPS

CONSTANT FoldStep(_, _, _)

F == INSTANCE Folds

\* Some numbers have a least one.
LEMMA LeastNumber ==
    ASSUME NEW S, S \subseteq Nat, S # {}
    PROVE  \E i \in S : \A j \in S : i <= j
<1> DEFINE R == {ss \in Nat \X Nat : ss[1] < ss[2]}
<1>1. IsWellFoundedOn(R, Nat)
  BY NatLessThanWellFounded DEF OpToRel
<1>2. \E i \in S : \A j \in S : <<j, i>> \notin R
  <2> HIDE DEF R
  <2> QED
    BY <1>1, WFMin
<1>3. PICK i \in S : \A j \in S : <<j, i>> \notin R
  BY <1>2
<1>4. ASSUME NEW j \in S
      PROVE  i <= j
  <2>1. i \in Nat /\ j \in Nat /\ <<j, i>> \notin R
    BY <1>3
  <2>2. ~(j < i)
    BY <2>1
  <2> QED
    BY <2>1, <2>2
<1> QED
  BY <1>4

\* A set with 0 that is closed under the next number up to n holds 0 .. n.
LEMMA CountingUp ==
    ASSUME NEW n \in Nat, NEW P, 0 \in P,
           \A i \in Nat : (i < n /\ i \in P) => i + 1 \in P
    PROVE  0 .. n \subseteq P
<1> DEFINE Bad == {i \in 0 .. n : i \notin P}
<1> SUFFICES ASSUME Bad # {}
             PROVE  FALSE
  OBVIOUS
<1>2. Bad \subseteq Nat
  OBVIOUS
<1>3. \E i \in Bad : \A j \in Bad : i <= j
  <2> HIDE DEF Bad
  <2> QED
    BY <1>2, LeastNumber
<1>4. PICK i \in Bad : \A j \in Bad : i <= j
  BY <1>3
<1>5. i \in Nat /\ i <= n /\ i \notin P /\ i # 0
  BY <1>4
<1>6. i - 1 \in Nat /\ i - 1 < n /\ (i - 1) + 1 = i
  BY <1>5
<1>7. i - 1 \in P
  <2> SUFFICES ASSUME i - 1 \notin P
               PROVE  FALSE
    OBVIOUS
  <2>1. i - 1 \in Bad /\ ~(i <= i - 1)
    BY <1>5, <1>6
  <2> QED
    BY <1>4, <2>1
<1> QED
  BY <1>5, <1>6, <1>7

\* g counts up from first: each value is next of the one before.
Counts(g, n, X, first, next) ==
    /\ g \in [0 .. n -> X]
    /\ g[0] = first
    /\ \A i \in 1 .. n : g[i] = next[i][g[i - 1]]

\* There is such a function: what a recursive definition on 0 .. n says
\* exists.
LEMMA Iterating ==
    ASSUME NEW n \in Nat, NEW X, NEW first \in X, NEW next \in [1 .. n -> [X -> X]]
    PROVE  \E g : Counts(g, n, X, first, next)
<1> DEFINE P == {k \in 0 .. n : \E g : Counts(g, k, X, first, next)}
<1>1. 0 \in P
  <2> DEFINE g == [i \in 0 .. 0 |-> first]
  <2>1. Counts(g, 0, X, first, next)
    BY DEF Counts
  <2> HIDE DEF g
  <2> QED
    BY <2>1
<1>2. ASSUME NEW k \in Nat, k < n, k \in P
      PROVE  k + 1 \in P
  <2>1. PICK g : Counts(g, k, X, first, next)
    BY <1>2
  <2> DEFINE x == next[k + 1][g[k]]
             h == [i \in 0 .. k + 1 |-> IF i = k + 1 THEN x ELSE g[i]]
  <2>2. x \in X
    <3>1. g[k] \in X /\ k + 1 \in 1 .. n
      BY <1>2, <2>1 DEF Counts
    <3> QED
      BY <3>1
  <2>3. h \in [0 .. k + 1 -> X]
    <3> HIDE DEF x
    <3> QED
      BY <2>1, <2>2 DEF Counts
  <2>4. /\ h[k + 1] = x
        /\ \A i \in 0 .. k : h[i] = g[i]
    <3> HIDE DEF x
    <3> QED
      OBVIOUS
  <2>5. Counts(h, k + 1, X, first, next)
    <3> HIDE DEF h
    <3>1. h[0] = first
      BY <2>1, <2>4 DEF Counts
    <3>2. ASSUME NEW i \in 1 .. k + 1
          PROVE  h[i] = next[i][h[i - 1]]
      <4>1. CASE i = k + 1
        <5>1. h[k] = g[k] /\ i - 1 = k
          BY <2>4, <4>1
        <5> QED
          BY <2>4, <4>1, <5>1
      <4>2. CASE i # k + 1
        <5>1. i \in 1 .. k /\ i - 1 \in 0 .. k /\ i \in 0 .. k
          BY <4>2
        <5> QED
          BY <2>1, <2>4, <5>1 DEF Counts
      <4> QED
        BY <4>1, <4>2
    <3> QED
      BY <2>3, <3>1, <3>2 DEF Counts
  <2>6. k + 1 \in 0 .. n
    BY <1>2
  <2> HIDE DEF h, x
  <2> QED
    BY <2>5, <2>6
<1>3. n \in P
  <2>1. 0 .. n \subseteq P
    <3> HIDE DEF P
    <3> QED
      BY <1>1, <1>2, CountingUp
  <2> HIDE DEF P
  <2> QED
    BY <2>1
<1> QED
  BY <1>3

-----------------------------------------------------------------------------
(* Folds.  FoldStep(p, t, v) is what a fold makes of t and the value v; p  *)
(* stands for what the step reads besides, the same for every value.  A    *)
(* module that proves something about a fold of its own takes this module  *)
(* by INSTANCE, with that step for FoldStep.                               *)

Highest(s) == CHOOSE n \in s : \A m \in s : n >= m

\* FoldLeft, by its definition in SequencesExt.
Folded(p, base, seq) ==
    F!MapThenFoldSet(LAMBDA v, t : FoldStep(p, t, v), base, LAMBDA i : seq[i], Highest, DOMAIN seq)

\* g holds what the first 0, 1, .. n values have made of base.
FoldChain(g, n, p, base, seq) ==
    /\ g = [i \in 0 .. n |-> g[i]]
    /\ g[0] = base
    /\ \A i \in 1 .. n : g[i] = FoldStep(p, g[i - 1], seq[i])

\* The same for every set of positions, which is how FoldLeft is defined.
FoldTable(g, n, p, base, seq) ==
    g = [s \in SUBSET (1 .. n) |->
            IF s = {} THEN base ELSE FoldStep(p, g[s \ {Highest(s)}], seq[Highest(s)])]

LEMMA MaxIsLast ==
    ASSUME NEW n \in Nat, NEW s \in SUBSET (1 .. n), n \in s
    PROVE  Highest(s) = n
<1>1. n \in s /\ \A y \in s : n >= y
  OBVIOUS
<1>2. \A x \in s : (\A y \in s : x >= y) => x = n
  OBVIOUS
<1> QED
  BY <1>1, <1>2 DEF Highest

LEMMA FoldTableExists ==
    ASSUME NEW p, NEW base, NEW seq, NEW n \in Nat
    PROVE  \E g : FoldTable(g, n, p, base, seq)
<1> DEFINE P == {k \in 0 .. n : \E g : FoldTable(g, k, p, base, seq)}
<1>1. 0 \in P
  <2> DEFINE g == [s \in SUBSET (1 .. 0) |-> base]
  <2>1. FoldTable(g, 0, p, base, seq)
    BY DEF FoldTable
  <2> HIDE DEF g
  <2> QED
    BY <2>1
<1>2. ASSUME NEW k \in Nat, k < n, k \in P
      PROVE  k + 1 \in P
  <2>1. PICK g : FoldTable(g, k, p, base, seq)
    BY <1>2
  <2> DEFINE new(s) == FoldStep(p, g[s \ {k + 1}], seq[k + 1])
             h == [s \in SUBSET (1 .. k + 1) |-> IF k + 1 \in s THEN new(s) ELSE g[s]]
  <2>2. ASSUME NEW s \in SUBSET (1 .. k + 1)
        PROVE  h[s] = IF s = {} THEN base ELSE FoldStep(p, h[s \ {Highest(s)}], seq[Highest(s)])
    <3>1. CASE k + 1 \in s
      <4>1. Highest(s) = k + 1
        BY <3>1, MaxIsLast
      <4>2. s \ {k + 1} \in SUBSET (1 .. k + 1) /\ k + 1 \notin s \ {k + 1}
        OBVIOUS
      <4>3. h[s \ {k + 1}] = g[s \ {k + 1}]
        BY <4>2
      <4>4. h[s] = new(s)
        BY <3>1
      <4> QED
        BY <3>1, <4>1, <4>3, <4>4
    <3>2. CASE k + 1 \notin s
      <4>1. s \in SUBSET (1 .. k) /\ h[s] = g[s]
        BY <3>2
      <4>2. CASE s = {}
        BY <2>1, <4>1, <4>2 DEF FoldTable
      <4>3. CASE s # {}
        <5>1. s \ {Highest(s)} \in SUBSET (1 .. k + 1) /\ k + 1 \notin s \ {Highest(s)}
          BY <3>2
        <5>2. h[s \ {Highest(s)}] = g[s \ {Highest(s)}]
          BY <5>1
        <5>3. g[s] = FoldStep(p, g[s \ {Highest(s)}], seq[Highest(s)])
          BY <2>1, <4>1, <4>3 DEF FoldTable
        <5> QED
          BY <4>1, <4>3, <5>2, <5>3
      <4> QED
        BY <4>2, <4>3
    <3> QED
      BY <3>1, <3>2
  <2>3. FoldTable(h, k + 1, p, base, seq)
    <3>1. h = [s \in SUBSET (1 .. k + 1) |-> h[s]]
      OBVIOUS
    <3> HIDE DEF h
    <3> QED
      BY <2>2, <3>1 DEF FoldTable
  <2> HIDE DEF h
  <2> QED
    BY <1>2, <2>3
<1>3. 0 .. n \subseteq P
  <2> HIDE DEF P
  <2> QED
    BY <1>1, <1>2, CountingUp
<1> QED
  BY <1>3

\* A fold goes from value to value.
LEMMA FoldedChain ==
    ASSUME NEW p, NEW base, NEW S, NEW seq \in Seq(S)
    PROVE  \E g : FoldChain(g, Len(seq), p, base, seq) /\ Folded(p, base, seq) = g[Len(seq)]
<1> DEFINE n == Len(seq)
           f == CHOOSE x : FoldTable(x, n, p, base, seq)
           g == [i \in 0 .. n |-> f[1 .. i]]
<1>0. n \in Nat /\ DOMAIN seq = 1 .. n
  OBVIOUS
<1>1. FoldTable(f, n, p, base, seq)
  BY <1>0, FoldTableExists
<1>2. Folded(p, base, seq) = f[1 .. n]
  BY <1>0 DEF Folded, F!MapThenFoldSet, FoldTable
<1> HIDE DEF f, n
<1>3. g[0] = base
  <2>1. 1 .. 0 = {} /\ {} \in SUBSET (1 .. n)
    OBVIOUS
  <2>2. f[{}] = base
    BY <1>1, <2>1 DEF FoldTable
  <2>3. g[0] = f[1 .. 0]
    BY <1>0
  <2> QED
    BY <2>1, <2>2, <2>3
<1>4. ASSUME NEW i \in 1 .. n
      PROVE  g[i] = FoldStep(p, g[i - 1], seq[i])
  <2>1. 1 .. i \in SUBSET (1 .. n) /\ 1 .. i # {} /\ i \in 1 .. i /\ i \in Nat
    BY <1>0
  <2>2. Highest(1 .. i) = i
    BY <2>1, MaxIsLast
  <2>3. (1 .. i) \ {i} = 1 .. (i - 1)
    BY <2>1
  <2>4. f[1 .. i] = FoldStep(p, f[1 .. (i - 1)], seq[i])
    BY <1>1, <2>1, <2>2, <2>3 DEF FoldTable
  <2>5. i \in 0 .. n /\ i - 1 \in 0 .. n
    BY <1>0
  <2> QED
    BY <2>4, <2>5
<1>5. FoldChain(g, n, p, base, seq)
  <2>1. g = [i \in 0 .. n |-> g[i]]
    OBVIOUS
  <2> HIDE DEF g
  <2> QED
    BY <1>3, <1>4, <2>1 DEF FoldChain
<1>6. Folded(p, base, seq) = g[n]
  BY <1>0, <1>2
<1> HIDE DEF g
<1> QED
  BY <1>5, <1>6 DEF n

\* Two chains over the same values are the same.
LEMMA FoldChainsAgree ==
    ASSUME NEW p, NEW base, NEW seq, NEW n \in Nat,
           NEW g, FoldChain(g, n, p, base, seq), NEW h, FoldChain(h, n, p, base, seq)
    PROVE  g[n] = h[n]
<1> DEFINE P == {k \in 0 .. n : g[k] = h[k]}
<1>1. 0 \in P
  BY DEF FoldChain
<1>2. ASSUME NEW k \in Nat, k < n, k \in P
      PROVE  k + 1 \in P
  <2>1. k + 1 \in 1 .. n /\ (k + 1) - 1 = k
    BY <1>2
  <2>2. g[k + 1] = FoldStep(p, g[k], seq[k + 1]) /\ h[k + 1] = FoldStep(p, h[k], seq[k + 1])
    BY <2>1 DEF FoldChain
  <2> QED
    BY <1>2, <2>1, <2>2
<1>3. 0 .. n \subseteq P
  <2> HIDE DEF P
  <2> QED
    BY <1>1, <1>2, CountingUp
<1> QED
  BY <1>3

\* A fold over no value.
LEMMA FoldedNone ==
    ASSUME NEW p, NEW base
    PROVE  Folded(p, base, << >>) = base
<1>1. << >> \in Seq({}) /\ Len(<< >>) = 0
  OBVIOUS
<1>2. PICK g : FoldChain(g, 0, p, base, << >>) /\ Folded(p, base, << >>) = g[0]
  BY <1>1, FoldedChain
<1> QED
  BY <1>2 DEF FoldChain

\* A fold over values and more values.
LEMMA FoldedConcat ==
    ASSUME NEW p, NEW base, NEW S, NEW s \in Seq(S), NEW t \in Seq(S)
    PROVE  Folded(p, base, s \o t) = Folded(p, Folded(p, base, s), t)
<1> DEFINE n == Len(s)
           m == Len(t)
           st == s \o t
<1>0. n \in Nat /\ m \in Nat /\ st \in Seq(S) /\ Len(st) = n + m
  OBVIOUS
<1>1. PICK g : FoldChain(g, n, p, base, s) /\ Folded(p, base, s) = g[n]
  BY FoldedChain
<1>2. PICK h : FoldChain(h, m, p, g[n], t) /\ Folded(p, g[n], t) = h[m]
  BY FoldedChain
<1>3. PICK k : FoldChain(k, n + m, p, base, st) /\ Folded(p, base, st) = k[n + m]
  BY <1>0, FoldedChain
<1> DEFINE j == [i \in 0 .. n + m |-> IF i <= n THEN g[i] ELSE h[i - n]]
<1>4. ASSUME NEW i \in 1 .. n + m
      PROVE  j[i] = FoldStep(p, j[i - 1], st[i])
  <2>1. CASE i <= n
    <3>1. i \in 1 .. n /\ i \in 0 .. n + m /\ i - 1 \in 0 .. n + m /\ i - 1 <= n /\ st[i] = s[i]
      BY <1>0, <2>1
    <3>2. j[i] = g[i] /\ j[i - 1] = g[i - 1]
      BY <2>1, <3>1
    <3> QED
      BY <1>1, <3>1, <3>2 DEF FoldChain
  <2>2. CASE i = n + 1
    <3>1. i - 1 = n /\ n \in 0 .. n + m /\ ~(i <= n) /\ i - n = 1 /\ 1 \in 1 .. m /\ st[i] = t[1]
      BY <1>0, <2>2
    <3>2. j[i] = h[1] /\ j[i - 1] = g[n]
      BY <2>2, <3>1
    <3>3. h[0] = g[n] /\ \A q \in 1 .. m : h[q] = FoldStep(p, h[q - 1], t[q])
      BY <1>2 DEF FoldChain
    <3>4. h[1] = FoldStep(p, h[1 - 1], t[1]) /\ 1 - 1 = 0
      BY <3>1, <3>3
    <3> QED
      BY <3>1, <3>2, <3>3, <3>4
  <2>3. CASE i > n + 1
    <3>1. /\ ~(i <= n) /\ ~(i - 1 <= n) /\ i - n \in 1 .. m /\ st[i] = t[i - n]
          /\ (i - 1) - n = (i - n) - 1 /\ i \in 0 .. n + m /\ i - 1 \in 0 .. n + m
      BY <1>0, <2>3
    <3>2. j[i] = h[i - n] /\ j[i - 1] = h[(i - n) - 1]
      BY <3>1
    <3> QED
      BY <1>2, <3>1, <3>2 DEF FoldChain
  <2> QED
    BY <1>0, <2>1, <2>2, <2>3
<1>5. FoldChain(j, n + m, p, base, st)
  <2>1. j[0] = base
    BY <1>0, <1>1 DEF FoldChain
  <2>2. j = [i \in 0 .. n + m |-> j[i]]
    OBVIOUS
  <2> HIDE DEF j, st
  <2> QED
    BY <1>4, <2>1, <2>2 DEF FoldChain
<1>6. j[n + m] = h[m]
  <2>1. CASE m = 0
    <3>1. n + m = n /\ n \in 0 .. n + m /\ n <= n
      BY <1>0, <2>1
    <3>2. j[n] = g[n] /\ h[0] = g[n]
      BY <1>2, <3>1 DEF FoldChain
    <3> QED
      BY <2>1, <3>1, <3>2
  <2>2. CASE m # 0
    <3>1. ~(n + m <= n) /\ (n + m) - n = m /\ n + m \in 0 .. n + m
      BY <1>0, <2>2
    <3> QED
      BY <3>1
  <2> QED
    BY <2>1, <2>2
<1> HIDE DEF j, n, m, st
<1>7. j[n + m] = k[n + m]
  <2>1. n + m \in Nat
    BY <1>0
  <2> QED
    BY <1>3, <1>5, <2>1, FoldChainsAgree
<1> QED
  BY <1>1, <1>2, <1>3, <1>6, <1>7 DEF st

\* A fold over one value.
LEMMA FoldedOne ==
    ASSUME NEW p, NEW base, NEW v
    PROVE  Folded(p, base, <<v>>) = FoldStep(p, base, v)
<1>1. <<v>> \in Seq({v}) /\ Len(<<v>>) = 1 /\ <<v>>[1] = v
  OBVIOUS
<1>2. PICK g : FoldChain(g, 1, p, base, <<v>>) /\ Folded(p, base, <<v>>) = g[1]
  BY <1>1, FoldedChain
<1>3. g[1] = FoldStep(p, g[1 - 1], <<v>>[1]) /\ g[0] = base /\ 1 - 1 = 0
  BY <1>2 DEF FoldChain
<1> QED
  BY <1>1, <1>2, <1>3
=============================================================================
