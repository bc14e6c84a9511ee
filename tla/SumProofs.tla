------------------------------ MODULE SumProofs ------------------------------
(***************************************************************************)
(* What the sums of FiniteSetsExt compute, which fold over a finite set by *)
(* removing one arbitrary element after the other: adding an element to    *)
(* the set adds its value to the sum. A sum is read off a function that    *)
(* gives the total of every subset.                                        *)
(***************************************************************************)
EXTENDS Integers, FiniteSets, FiniteSetTheorems, WellFoundedInduction, TLAPS

Less == {ss \in Nat \X Nat : ss[1] < ss[2]}

LEMMA LeastNatural ==
  ASSUME NEW T, T \subseteq Nat, T # {}
  PROVE  \E x \in T : \A y \in T : x <= y
<1>1. IsWellFoundedOn(Less, Nat)
  BY NatLessThanWellFounded DEF Less, OpToRel
<1>2. PICK x \in T : \A y \in T : ~(<<y, x>> \in Less)
  BY <1>1, WFMin
<1>3. ASSUME NEW y \in T PROVE x <= y
  <2>1. <<y, x>> \in Nat \X Nat
    OBVIOUS
  <2>2. ~(y < x)
    BY <1>2, <2>1 DEF Less
  <2> QED
    BY <2>2
<1> QED
  BY <1>3

(* Induction over the naturals, for a property given as the set of its numbers. *)
LEMMA Induction ==
  ASSUME NEW P, 0 \in P, \A n \in Nat : n \in P => n + 1 \in P
  PROVE  Nat \subseteq P
<1> SUFFICES ASSUME Nat \ P # {} PROVE FALSE
  OBVIOUS
<1>1. PICK m \in Nat \ P : \A y \in Nat \ P : m <= y
  BY LeastNatural
<1>2. m # 0 /\ m - 1 \in Nat /\ m - 1 \notin Nat \ P
  BY <1>1
<1> QED
  BY <1>1, <1>2

-----------------------------------------------------------------------------
(* The element that a fold removes first. *)
Pick(s) == CHOOSE x \in s : TRUE

(* One line of the recursion: the total of s, when g gives that of smaller sets. *)
Total(g, val, s) == IF s = {} THEN 0 ELSE val[Pick(s)] + g[s \ {Pick(s)}]

(* g gives the total of val over every set in D. *)
Totals(g, val, D) == g = [s \in D |-> Total(g, val, s)]

Small(S, n) == {s \in SUBSET S : Cardinality(s) <= n}

LEMMA PickSmaller ==
  ASSUME NEW S, IsFiniteSet(S), NEW s \in SUBSET S, s # {}
  PROVE  /\ Pick(s) \in s /\ s \ {Pick(s)} \in SUBSET S
         /\ Cardinality(s) \in Nat
         /\ Cardinality(s \ {Pick(s)}) = Cardinality(s) - 1
<1>1. Pick(s) \in s
  BY DEF Pick
<1>2. IsFiniteSet(s)
  BY FS_Subset
<1> QED
  BY <1>1, <1>2, FS_RemoveElement, FS_CardinalityType

LEMMA TotalsExist ==
  ASSUME NEW S, IsFiniteSet(S), NEW val
  PROVE  \E g : Totals(g, val, SUBSET S)
<1> DEFINE P == {n \in Nat : \E g : Totals(g, val, Small(S, n))}
<1>1. 0 \in P
  <2> DEFINE g == [s \in Small(S, 0) |-> 0]
  <2>1. \A s \in Small(S, 0) : s = {}
    BY FS_EmptySet, FS_Subset, FS_CardinalityType DEF Small
  <2>2. Totals(g, val, Small(S, 0))
    BY <2>1 DEF Totals, Total
  <2> QED
    BY <2>2
<1>2. ASSUME NEW n \in Nat, n \in P PROVE n + 1 \in P
  <2>1. PICK g : Totals(g, val, Small(S, n))
    BY <1>2
  <2> DEFINE h == [s \in Small(S, n + 1) |-> Total(g, val, s)]
  <2>2. \A s \in Small(S, n) : s \in Small(S, n + 1) /\ h[s] = g[s]
    <3>1. \A s \in SUBSET S : Cardinality(s) \in Nat
      BY FS_Subset, FS_CardinalityType
    <3>2. \A s \in Small(S, n) : s \in Small(S, n + 1)
      BY <3>1 DEF Small
    <3> QED
      BY <2>1, <3>2 DEF Totals
  <2>3. ASSUME NEW s \in Small(S, n + 1) PROVE Total(g, val, s) = Total(h, val, s)
    <3>1. CASE s = {}
      BY <3>1 DEF Total
    <3>2. CASE s # {}
      <4>1. s \ {Pick(s)} \in Small(S, n)
        BY <3>2, PickSmaller DEF Small
      <4> HIDE DEF h
      <4> QED
        BY <2>2, <4>1 DEF Total
    <3> QED
      BY <3>1, <3>2
  <2>4. Totals(h, val, Small(S, n + 1))
    BY <2>3 DEF Totals
  <2> QED
    BY <2>4
<1>3. Nat \subseteq P
  <2> HIDE DEF P
  <2> QED
    BY <1>1, <1>2, Induction
<1>4. Small(S, Cardinality(S)) = SUBSET S /\ Cardinality(S) \in Nat
  BY FS_Subset, FS_CardinalityType DEF Small
<1> QED
  BY <1>3, <1>4

(* Every element may be the one that is removed first. *)
AddsUp(g, val, s) ==
  /\ g[s] \in Int
  /\ s = {} => g[s] = 0
  /\ \A x \in s : g[s] = val[x] + g[s \ {x}]

LEMMA TotalsAddUp ==
  ASSUME NEW S, IsFiniteSet(S), NEW val, \A x \in S : val[x] \in Int,
         NEW g, Totals(g, val, SUBSET S)
  PROVE  \A s \in SUBSET S : AddsUp(g, val, s)
<1> DEFINE P == {n \in Nat : \A s \in Small(S, n) : AddsUp(g, val, s)}
<1>1. \A s \in SUBSET S : Cardinality(s) \in Nat /\ g[s] = Total(g, val, s)
  BY FS_Subset, FS_CardinalityType DEF Totals
<1>2. 0 \in P
  <2>1. \A s \in Small(S, 0) : s \in SUBSET S /\ s = {}
    BY FS_EmptySet, FS_Subset, FS_CardinalityType DEF Small
  <2>2. ASSUME NEW s \in Small(S, 0) PROVE AddsUp(g, val, s)
    <3>1. s = {} /\ g[s] = Total(g, val, s)
      BY <1>1, <2>1
    <3>2. g[s] = 0
      BY <3>1 DEF Total
    <3> QED
      BY <3>1, <3>2 DEF AddsUp
  <2> QED
    BY <2>2
<1>3. ASSUME NEW n \in Nat, n \in P PROVE n + 1 \in P
  <2> SUFFICES ASSUME NEW s \in Small(S, n + 1) PROVE AddsUp(g, val, s)
    OBVIOUS
  <2>1. s \in SUBSET S /\ Cardinality(s) <= n + 1 /\ g[s] = Total(g, val, s)
    BY <1>1 DEF Small
  <2>2. CASE s = {}
    BY <2>1, <2>2 DEF AddsUp, Total
  <2>3. CASE s # {}
    <3> DEFINE c == Pick(s)
    <3>1. c \in s /\ g[s] = val[c] + g[s \ {c}]
      BY <2>1, <2>3, PickSmaller DEF Total
    <3> HIDE DEF c
    <3>2. ASSUME NEW x \in s, NEW d \in SUBSET (s \ {x}) PROVE AddsUp(g, val, d)
      <4>1. IsFiniteSet(s) /\ IsFiniteSet(s \ {x})
        BY <2>1, FS_Subset
      <4>2. Cardinality(s \ {x}) = Cardinality(s) - 1 /\ Cardinality(s) \in Nat
        BY <4>1, FS_RemoveElement, FS_CardinalityType
      <4>3. Cardinality(d) <= Cardinality(s \ {x}) /\ d \in SUBSET S
        BY <2>1, <4>1, FS_Subset
      <4>4. d \in Small(S, n)
        BY <1>1, <2>1, <4>2, <4>3 DEF Small
      <4> QED
        BY <1>3, <4>4
    <3>3. ASSUME NEW x \in s PROVE g[s] = val[x] + g[s \ {x}]
      <4>1. CASE x = c
        BY <3>1, <4>1
      <4>2. CASE x # c
        <5>1. (s \ {c}) \ {x} = (s \ {x}) \ {c}
          OBVIOUS
        <5>2. /\ g[s \ {c}] = val[x] + g[(s \ {x}) \ {c}]
              /\ g[s \ {x}] = val[c] + g[(s \ {x}) \ {c}]
          BY <3>1, <3>2, <4>2, <5>1 DEF AddsUp
        <5>3. g[(s \ {x}) \ {c}] \in Int
          BY <3>2 DEF AddsUp
        <5> QED
          BY <2>1, <3>1, <5>2, <5>3
      <4> QED
        BY <4>1, <4>2
    <3>4. g[s] \in Int
      BY <2>1, <3>1, <3>2 DEF AddsUp
    <3> QED
      BY <2>3, <3>3, <3>4 DEF AddsUp
  <2> QED
    BY <2>2, <2>3
<1>4. Nat \subseteq P
  <2> HIDE DEF P
  <2> QED
    BY <1>2, <1>3, Induction
<1> QED
  BY <1>1, <1>4 DEF Small

SameOn(val, valT, T) == \A x \in T : val[x] = valT[x]

(* The totals of a set do not depend on the larger set they are computed for. *)
LEMMA TotalsAgree ==
  ASSUME NEW S, IsFiniteSet(S), NEW T, T \subseteq S,
         NEW val, NEW valT, SameOn(val, valT, T),
         NEW g, Totals(g, val, SUBSET S), NEW h, Totals(h, valT, SUBSET T)
  PROVE  SameOn(g, h, SUBSET T)
<1> DEFINE P == {n \in Nat : \A s \in Small(T, n) : g[s] = h[s]}
<1>1. IsFiniteSet(T) /\ \A s \in SUBSET T : IsFiniteSet(s) /\ Cardinality(s) \in Nat
  BY FS_Subset, FS_CardinalityType
<1>2. \A s \in SUBSET T : g[s] = Total(g, val, s) /\ h[s] = Total(h, valT, s)
  BY DEF Totals
<1>3. 0 \in P
  <2>1. ASSUME NEW s \in Small(T, 0) PROVE g[s] = h[s]
    <3>1. s \in SUBSET T /\ s = {}
      BY <1>1, FS_EmptySet DEF Small
    <3> QED
      BY <1>2, <3>1 DEF Total
  <2> QED
    BY <2>1
<1>4. ASSUME NEW n \in Nat, n \in P PROVE n + 1 \in P
  <2> SUFFICES ASSUME NEW s \in Small(T, n + 1) PROVE g[s] = h[s]
    OBVIOUS
  <2>1. s \in SUBSET T
    BY DEF Small
  <2>2. CASE s = {}
    BY <1>2, <2>1, <2>2 DEF Total
  <2>3. CASE s # {}
    <3>1. Pick(s) \in T /\ s \ {Pick(s)} \in Small(T, n)
      BY <1>1, <2>1, <2>3, PickSmaller DEF Small
    <3>2. g[s \ {Pick(s)}] = h[s \ {Pick(s)}]
      BY <1>4, <3>1
    <3> QED
      BY <1>2, <2>1, <2>3, <3>1, <3>2 DEF Total, SameOn
  <2> QED
    BY <2>2, <2>3
<1>5. Nat \subseteq P
  <2> HIDE DEF P
  <2> QED
    BY <1>3, <1>4, Induction
<1> QED
  BY <1>1, <1>5 DEF Small, SameOn

(* What follows for a sum when one element is added to its set. *)
LEMMA TotalsGrow ==
  ASSUME NEW T, IsFiniteSet(T), NEW x, x \notin T, NEW val, NEW valT,
         \A y \in T : val[y] = valT[y], \A y \in T \cup {x} : val[y] \in Int,
         NEW g, Totals(g, val, SUBSET (T \cup {x})), NEW h, Totals(h, valT, SUBSET T)
  PROVE  g[T \cup {x}] = val[x] + h[T] /\ h[T] \in Int
<1> DEFINE S == T \cup {x}
<1>1. IsFiniteSet(S) /\ T \in SUBSET S /\ S \ {x} = T
  BY FS_AddElement
<1> HIDE DEF S
<1>2. AddsUp(g, val, S) /\ AddsUp(g, val, T)
  BY <1>1, TotalsAddUp DEF S
<1>3. g[T] = h[T]
  <2>1. Totals(g, val, SUBSET S)
    BY DEF S
  <2>2. SameOn(val, valT, T) /\ T \subseteq S
    BY <1>1 DEF SameOn
  <2>3. SameOn(g, h, SUBSET T)
    BY <1>1, <2>1, <2>2, TotalsAgree
  <2> QED
    BY <2>3 DEF SameOn
<1> QED
  BY <1>1, <1>2, <1>3 DEF AddsUp, S
==============================================================================
