------------------------------ MODULE Recursion ------------------------------
(***************************************************************************)
(* Induction over numbers, and functions defined by recursion up to one:   *)
(* that there is one, and what its values stay in.  A set of numbers       *)
(* stands for what is proved of them, and a function for a step, because   *)
(* no prover instantiates an operator.                                     *)
(***************************************************************************)
EXTENDS Integers, WellFoundedInduction, TLAPS

NatLess == {p \in Nat \X Nat : p[1] < p[2]}

LEMMA NatWellFounded == IsWellFoundedOn(NatLess, Nat)
  BY NatLessThanWellFounded DEF OpToRel, NatLess

LEMMA Least ==
    ASSUME NEW T, T \subseteq Nat, T # {}
    PROVE  \E x \in T : \A y \in T : x <= y
  <1>1. \E x \in T : \A y \in T : ~ (<<y, x>> \in NatLess)
    BY NatWellFounded, WFMin
  <1>2. \A x, y \in Nat : y < x => <<y, x>> \in NatLess
    BY DEF NatLess
  <1>3. PICK x \in T : \A y \in T : ~ (<<y, x>> \in NatLess)
    BY <1>1
  <1>4. \A y \in T : ~ (y < x)
    BY <1>2, <1>3
  <1> QED
    BY <1>4

\* Induction over the numbers, for the set of those that a fact holds of.
LEMMA Induct ==
    ASSUME NEW T, T \subseteq Nat, 0 \in T, \A n \in T : n + 1 \in T
    PROVE  T = Nat
  <1> SUFFICES ASSUME Nat \ T # {} PROVE FALSE
    OBVIOUS
  <1>1. PICK x \in Nat \ T : \A y \in Nat \ T : x <= y
    BY Least
  <1>2. x - 1 \in Nat /\ x - 1 \notin Nat \ T
    BY <1>1
  <1> QED
    BY <1>1, <1>2

\* A step of a definition by recursion up to n, as a function G of the place
\* and of the value before it: S[i] is what its values at i are in.
StaysIn(n, S, G) == \A i \in 1..n : \A s \in S[i - 1] : G[<<i, s>>] \in S[i]

Solves(n, S, v, G, g) ==
    /\ g = [i \in 0..n |-> g[i]]
    /\ g[0] = v
    /\ \A i \in 0..n : g[i] \in S[i]
    /\ \A i \in 1..n : g[i] = G[<<i, g[i - 1]>>]

LEMMA RecursionExists ==
    ASSUME NEW n \in Nat, NEW S, NEW v \in S[0], NEW G, StaysIn(n, S, G)
    PROVE  \E g : Solves(n, S, v, G, g)
  <1> DEFINE Run(g, k) == /\ g = [i \in 0..k |-> g[i]]
                          /\ g[0] = v
                          /\ \A i \in 0..k : g[i] \in S[i]
                          /\ \A i \in 1..k : g[i] = G[<<i, g[i - 1]>>]
             T == {k \in Nat : k <= n => \E g : Run(g, k)}
  <1>0. \A i \in 1..n : \A s \in S[i - 1] : G[<<i, s>>] \in S[i]
    BY DEF StaysIn
  <1>1. 0 \in T
    <2> DEFINE g == [i \in 0..0 |-> v]
    <2>1. Run(g, 0)
      OBVIOUS
    <2> QED
      BY <2>1
  <1>2. ASSUME NEW k \in T PROVE k + 1 \in T
    <2> SUFFICES ASSUME k + 1 <= n PROVE \E g : Run(g, k + 1)
      OBVIOUS
    <2>0. k \in Nat /\ k <= n
      BY <1>2
    <2>1. PICK g : Run(g, k)
      BY <1>2, <2>0
    <2> DEFINE h == [i \in 0..(k + 1) |-> IF i = k + 1 THEN G[<<k + 1, g[k]>>] ELSE g[i]]
    <2>2. \A i \in 0..k : h[i] = g[i]
      BY <2>0
    <2>3. h[k + 1] = G[<<k + 1, g[k]>>]
      BY <2>0
    <2>4. h = [i \in 0..(k + 1) |-> h[i]]
      OBVIOUS
    <2> HIDE DEF h
    <2>5. h[0] = v
      BY <2>0, <2>1, <2>2
    <2>6. ASSUME NEW i \in 1..(k + 1) PROVE h[i] = G[<<i, h[i - 1]>>] /\ h[i] \in S[i]
      <3>1. CASE i = k + 1
        <4>1. h[i - 1] = g[k] /\ g[k] \in S[k] /\ i - 1 = k
          BY <2>0, <2>1, <2>2, <3>1
        <4>2. h[i] = G[<<i, h[i - 1]>>] /\ h[i - 1] \in S[i - 1]
          BY <2>3, <3>1, <4>1
        <4>3. i \in 1..n
          BY <2>0, <3>1
        <4> QED
          BY <1>0, <4>2, <4>3
      <3>2. CASE i # k + 1
        <4>1. i \in 1..k /\ i \in 0..k /\ i - 1 \in 0..k
          BY <2>0, <3>2
        <4>2. h[i] = g[i] /\ h[i - 1] = g[i - 1]
          BY <2>2, <4>1
        <4> QED
          BY <2>1, <4>1, <4>2
      <3> QED
        BY <3>1, <3>2
    <2>7. h[0] \in S[0]
      BY <2>5
    <2>8. \A i \in 0..(k + 1) : h[i] \in S[i]
      <3>1. \A i \in 0..(k + 1) : i = 0 \/ i \in 1..(k + 1)
        BY <2>0
      <3> QED
        BY <2>6, <2>7, <3>1
    <2> QED
      BY <2>4, <2>5, <2>6, <2>8
  <1>3. T \subseteq Nat
    OBVIOUS
  <1> HIDE DEF T
  <1>4. n \in T
    BY <1>1, <1>2, <1>3, Induct
  <1> QED
    BY <1>4 DEF T, Solves

\* And its solution stays in the sets the step stays in.
LEMMA RecursionStays ==
    ASSUME NEW n \in Nat, NEW S, NEW f, f[0] \in S[0],
           \A i \in 1..n : f[i - 1] \in S[i - 1] => f[i] \in S[i]
    PROVE  \A i \in 0..n : f[i] \in S[i]
  <1> DEFINE T == {k \in Nat : k <= n => f[k] \in S[k]}
  <1>1. 0 \in T
    OBVIOUS
  <1>2. ASSUME NEW k \in T PROVE k + 1 \in T
    <2> SUFFICES ASSUME k + 1 <= n PROVE f[k + 1] \in S[k + 1]
      OBVIOUS
    <2>1. k + 1 \in 1..n /\ (k + 1) - 1 = k /\ f[k] \in S[k]
      BY <1>2
    <2> QED
      BY <2>1
  <1>3. T \subseteq Nat
    OBVIOUS
  <1> HIDE DEF T
  <1>4. T = Nat
    BY <1>1, <1>2, <1>3, Induct
  <1> QED
    BY <1>4 DEF T
=============================================================================
