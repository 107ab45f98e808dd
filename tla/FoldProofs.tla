----------------------------- MODULE FoldProofs -----------------------------
(***************************************************************************)
(* What holds of a loop over a list: FoldLeft, as the community modules    *)
(* define it, for any body Op of two parameters and any assertion Holds    *)
(* about the first k rounds. An instance gives both, so that a fact about  *)
(* one loop follows from what one round does.                              *)
(***************************************************************************)
EXTENDS SequencesExt, WellFoundedInduction, TLAPS

CONSTANTS
  Op(_, _, _, _),            \* the body: parameters, what it has so far, the item
  Holds(_, _, _, _, _, _)    \* parameters, start, list, rounds done, what it has

Folded(p, q, base, list) == FoldLeft(LAMBDA a, x : Op(p, q, a, x), base, list)

\* What FoldLeft is defined by: the last item is taken out of a set of indices.
Solution(g, p, q, base, list, n) ==
  g = [s \in SUBSET (1 .. n) |->
         IF s = {} THEN base ELSE Op(p, q, g[s \ {Max(s)}], list[Max(s)])]

\* One round keeps the assertion.
Round(p, q, base, list) ==
  \A k \in 1 .. Len(list) :
    \A a : Holds(p, q, base, list, k - 1, a)
             => Holds(p, q, base, list, k, Op(p, q, a, list[k]))

\* Induction over the first n numbers.
LEMMA UpTo ==
  ASSUME NEW n \in Nat, NEW T \in SUBSET (0 .. n),
         0 \in T, \A k \in T : k < n => k + 1 \in T
  PROVE T = 0 .. n
<1> SUFFICES ASSUME NEW U, U = (0 .. n) \ T, U # {} PROVE FALSE
  OBVIOUS
<1>1. U \subseteq Nat
  OBVIOUS
<1> DEFINE R == {ss \in Nat \X Nat : ss[1] < ss[2]}
<1>2. IsWellFoundedOn(R, Nat)
  BY NatLessThanWellFounded DEF OpToRel
<1> HIDE DEF R
<1>3. PICK k \in U : \A y \in U : <<y, k>> \notin R
  BY <1>1, <1>2, WFMin
<1>4. \A y \in U : ~(y < k)
  BY <1>1, <1>3 DEF R
<1>5. k \in 1 .. n
  OBVIOUS
<1>6. k - 1 \in T
  BY <1>4, <1>5
<1> QED
  BY <1>5, <1>6

\* The recursion FoldLeft is defined by has a solution.
LEMMA Recursion ==
  ASSUME NEW p, NEW q, NEW base, NEW list, NEW n \in Nat
  PROVE \E g : Solution(g, p, q, base, list, n)
<1> DEFINE Solves(g, k) ==
             \A s \in SUBSET (1 .. k) :
               g[s] = IF s = {} THEN base ELSE Op(p, q, g[s \ {Max(s)}], list[Max(s)])
           T == {k \in 0 .. n : \E g : Solves(g, k)}
<1>1. 0 \in T
  <2>1. \A s \in SUBSET (1 .. 0) : s = {}
    OBVIOUS
  <2> DEFINE g == [s \in SUBSET (1 .. 0) |-> base]
  <2>2. Solves(g, 0)
    BY <2>1
  <2>3. 0 \in 0 .. n
    OBVIOUS
  <2> HIDE DEF g
  <2> QED
    BY <2>2, <2>3
<1>2. ASSUME NEW k \in T, k < n PROVE k + 1 \in T
  <2>1. PICK g : Solves(g, k)
    BY <1>2
  <2>2. k \in Nat /\ k + 1 \in 0 .. n
    BY <1>2
  <2> HIDE DEF T
  <2> DEFINE h == [s \in SUBSET (1 .. (k + 1)) |->
                     IF k + 1 \in s THEN Op(p, q, g[s \ {k + 1}], list[k + 1]) ELSE g[s]]
  <2>3. ASSUME NEW s \in SUBSET (1 .. (k + 1))
        PROVE h[s] = IF s = {} THEN base ELSE Op(p, q, h[s \ {Max(s)}], list[Max(s)])
    <3>1. CASE k + 1 \in s
      <4>1. k + 1 \in s /\ \A j \in s : k + 1 >= j
        BY <2>2, <3>1
      <4>2. ASSUME NEW m \in s, \A j \in s : m >= j PROVE m = k + 1
        BY <2>2, <3>1, <4>2
      <4>3. Max(s) = k + 1
        BY <4>1, <4>2 DEF Max
      <4>4. s \ {k + 1} \in SUBSET (1 .. (k + 1)) /\ k + 1 \notin s \ {k + 1}
        OBVIOUS
      <4>5. h[s \ {k + 1}] = g[s \ {k + 1}]
        BY <4>4
      <4> QED
        BY <3>1, <4>3, <4>5
    <3>2. CASE k + 1 \notin s
      <4>1. s \in SUBSET (1 .. k)
        BY <2>2, <3>2
      <4>2. s \ {Max(s)} \in SUBSET (1 .. (k + 1)) /\ k + 1 \notin s \ {Max(s)}
        BY <3>2
      <4>3. h[s] = g[s] /\ h[s \ {Max(s)}] = g[s \ {Max(s)}]
        BY <3>2, <4>2
      <4>4. g[s] = IF s = {} THEN base ELSE Op(p, q, g[s \ {Max(s)}], list[Max(s)])
        BY <2>1, <4>1
      <4> QED
        BY <4>3, <4>4
    <3> QED
      BY <3>1, <3>2
  <2> HIDE DEF h
  <2>4. Solves(h, k + 1)
    BY <2>3
  <2> QED
    BY <2>2, <2>4 DEF T
<1> HIDE DEF T
<1>3. T = 0 .. n
  <2>1. T \in SUBSET (0 .. n)
    BY DEF T
  <2> QED
    BY <1>1, <1>2, <2>1, UpTo
<1>4. PICK g : Solves(g, n)
  <2>1. n \in 0 .. n
    OBVIOUS
  <2> QED
    BY <1>3, <2>1 DEF T
<1> DEFINE h == [s \in SUBSET (1 .. n) |-> g[s]]
<1>5. Solution(h, p, q, base, list, n)
  BY <1>4 DEF Solution
<1> HIDE DEF h
<1> QED
  BY <1>5

\* What holds at the start and is kept by every round holds at the end.
LEMMA FoldInduction ==
  ASSUME NEW p, NEW q, NEW base, NEW X, NEW list \in Seq(X),
         Holds(p, q, base, list, 0, base), Round(p, q, base, list)
  PROVE Holds(p, q, base, list, Len(list), Folded(p, q, base, list))
<1> DEFINE S == DOMAIN list
           Rec(g) == g = [s \in SUBSET S |->
                            IF s = {} THEN base ELSE Op(p, q, g[s \ {Max(s)}], list[Max(s)])]
           it == CHOOSE h : Rec(h)
           after(k) == it[1 .. k]
           T == {k \in 0 .. Len(list) : Holds(p, q, base, list, k, after(k))}
<1>1. S = 1 .. Len(list) /\ Len(list) \in Nat
  OBVIOUS
<1>2. Folded(p, q, base, list) = it[S]
  BY DEF Folded, FoldLeft, MapThenFoldSet
<1>3. Rec(it)
  <2>1. \E g : Solution(g, p, q, base, list, Len(list))
    BY <1>1, Recursion
  <2>2. \E g : Rec(g)
    BY <1>1, <2>1 DEF Solution
  <2> QED
    BY <2>2
<1> HIDE DEF it
<1>4. after(0) = base
  <2>1. 1 .. 0 = {}
    OBVIOUS
  <2> QED
    BY <2>1, <1>3
<1>5. ASSUME NEW k \in 1 .. Len(list)
      PROVE after(k) = Op(p, q, after(k - 1), list[k])
  <2>1. k \in Nat /\ k \in 1 .. k /\ \A j \in 1 .. k : k >= j
    BY <1>1
  <2>2. ASSUME NEW m \in 1 .. k, \A j \in 1 .. k : m >= j PROVE m = k
    BY <2>1, <2>2
  <2>3. Max(1 .. k) = k
    BY <2>1, <2>2 DEF Max
  <2>4. 1 .. k \in SUBSET S /\ 1 .. k # {}
    <3>1. \A j \in 1 .. k : j \in 1 .. Len(list)
      BY <1>1
    <3> QED
      BY <1>1, <2>1, <3>1
  <2>5. (1 .. k) \ {k} = 1 .. (k - 1)
    BY <2>1
  <2> QED
    BY <1>3, <2>3, <2>4, <2>5
<1>6. 0 \in T
  BY <1>1, <1>4
<1>7. ASSUME NEW k \in T, k < Len(list) PROVE k + 1 \in T
  <2>1. k \in 0 .. Len(list) /\ k + 1 \in 1 .. Len(list) /\ (k + 1) - 1 = k
    BY <1>1, <1>7
  <2>2. Holds(p, q, base, list, k, after(k))
    BY <1>7
  <2>3. after(k + 1) = Op(p, q, after(k), list[k + 1])
    BY <1>5, <2>1
  <2>4. Holds(p, q, base, list, k + 1, Op(p, q, after(k), list[k + 1]))
    BY <2>1, <2>2 DEF Round
  <2> QED
    BY <2>1, <2>3, <2>4
<1>8. T \in SUBSET (0 .. Len(list))
  OBVIOUS
<1>9. T = 0 .. Len(list)
  BY <1>1, <1>6, <1>7, <1>8, UpTo
<1> QED
  BY <1>1, <1>2, <1>9

=============================================================================
