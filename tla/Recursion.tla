------------------------------ MODULE Recursion ------------------------------
(***************************************************************************)
(* What a function defined by recursion over 0..n returns.  Induction on a *)
(* formula cannot be cited from the library; induction on a set can be     *)
(* proved from the well-foundedness of < on the natural numbers, and the   *)
(* formula is then the one that defines the set.                           *)
(***************************************************************************)
EXTENDS Integers, Sequences, WellFoundedInduction, TLAPS

(* Every set of natural numbers that is not empty has a least element.     *)
LEMMA LeastNatural ==
  ASSUME NEW T, T \subseteq Nat, T # {}
  PROVE  \E n \in T : \A m \in T : n =< m
<1> DEFINE R == OpToRel(<, Nat)
<1>1. IsWellFoundedOn(R, Nat)
  BY NatLessThanWellFounded
<1>2. \A x, y \in Nat : <<y, x>> \in R <=> y < x
  BY DEF OpToRel
<1> HIDE DEF R
<1>3. PICK n \in T : \A m \in T : ~(<<m, n>> \in R)
  BY <1>1, WFMin
<1>4. ASSUME NEW m \in T PROVE n =< m
  <2>1. m \in Nat /\ n \in Nat
    OBVIOUS
  <2>2. ~(m < n)
    BY <1>2, <1>3, <2>1, Zenon
  <2> QED
    BY <2>1, <2>2
<1> QED
  BY <1>3, <1>4

(* Induction up to n, for the members of a set.                            *)
LEMMA Induction ==
  ASSUME NEW n \in Nat, NEW S, 0 \in S, \A i \in 1..n : i - 1 \in S => i \in S
  PROVE  \A i \in 0..n : i \in S
<1> SUFFICES ASSUME NEW k \in 0..n, k \notin S PROVE FALSE
  OBVIOUS
<1> DEFINE T == {i \in 0..n : i \notin S}
<1>1. T \subseteq Nat /\ k \in T
  OBVIOUS
<1>2. PICK m \in T : \A j \in T : m =< j
  BY <1>1, LeastNatural
<1>3. m \in 1..n /\ m - 1 \in 0..n /\ m - 1 \notin T
  BY <1>2
<1>4. m - 1 \in S
  BY <1>3
<1> QED
  BY <1>2, <1>3, <1>4

Follows(g, n, base, step) == g[0] = base /\ \A i \in 1..n : g[i] = step[i][g[i - 1]]

Steps(n, V) == [1..n -> [V -> V]]

(* There is a sequence of values that starts with base and follows step.   *)
LEMMA Recurrence ==
  ASSUME NEW n \in Nat, NEW V, NEW base \in V, NEW step \in Steps(n, V)
  PROVE  \E g \in [0..n -> V] : Follows(g, n, base, step)
<1> USE DEF Steps
<1> DEFINE S == {k \in 0..n : \E g \in [0..k -> V] : Follows(g, k, base, step)}
<1>1. 0 \in S
  <2> DEFINE g == [i \in 0..0 |-> base]
  <2>1. g \in [0..0 -> V] /\ Follows(g, 0, base, step)
    BY DEF Follows
  <2> HIDE DEF g
  <2> QED
    BY <2>1
<1>2. ASSUME NEW i \in 1..n, i - 1 \in S
      PROVE  i \in S
  <2>1. PICK g \in [0..(i - 1) -> V] : Follows(g, i - 1, base, step)
    BY <1>2
  <2> DEFINE h == [j \in 0..i |-> IF j = i THEN step[i][g[i - 1]] ELSE g[j]]
  <2>2. step[i] \in [V -> V] /\ g[i - 1] \in V
    BY <2>1
  <2>3. h \in [0..i -> V]
    BY <2>1, <2>2
  <2>4. h[0] = base
    BY <2>1 DEF Follows
  <2>5. ASSUME NEW j \in 1..i PROVE h[j] = step[j][h[j - 1]]
    <3>1. CASE j = i
      BY <3>1
    <3>2. CASE j # i
      <4>1. j \in 1..(i - 1) /\ j \in 0..i /\ j - 1 \in 0..i /\ j - 1 # i
        BY <3>2
      <4>2. h[j] = g[j] /\ h[j - 1] = g[j - 1]
        BY <3>2, <4>1
      <4> QED
        BY <2>1, <4>1, <4>2 DEF Follows
    <3> QED
      BY <3>1, <3>2
  <2>6. Follows(h, i, base, step)
    BY <2>4, <2>5 DEF Follows
  <2> HIDE DEF h
  <2> QED
    BY <2>3, <2>6
<1> HIDE DEF S
<1>3. \A i \in 0..n : i \in S
  BY <1>1, <1>2, Induction
<1>4. n \in S
  BY <1>3
<1> QED
  BY <1>4 DEF S

(* A property of the first value that each value hands to the next is one  *)
(* of all.                                                                 *)
LEMMA Values ==
  ASSUME NEW n \in Nat, NEW V, NEW g, g[0] \in V, \A i \in 1..n : g[i - 1] \in V => g[i] \in V
  PROVE  \A i \in 0..n : g[i] \in V
<1> DEFINE S == {i \in 0..n : g[i] \in V}
<1>1. 0 \in S /\ \A i \in 1..n : i - 1 \in S => i \in S
  OBVIOUS
<1> HIDE DEF S
<1>2. \A i \in 0..n : i \in S
  BY <1>1, Induction
<1> QED
  BY <1>2 DEF S
=============================================================================
