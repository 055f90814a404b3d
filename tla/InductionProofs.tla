-------------------------- MODULE InductionProofs --------------------------
(***************************************************************************)
(* Induction over the natural numbers, and functions defined by recursion  *)
(* over them, stated about sets: that every set of numbers has a least     *)
(* member follows from the well-foundedness of <.                          *)
(***************************************************************************)
EXTENDS Naturals, WellFoundedInduction, TLAPS

LEMMA LeastNumber ==
  ASSUME NEW T, T \subseteq Nat, T # {}
  PROVE  \E n \in T : \A m \in T : n <= m
  <1> DEFINE R == OpToRel(<, Nat)
  <1>1. IsWellFoundedOn(R, Nat)
    BY NatLessThanWellFounded
  <1>2. \A m, n \in Nat : m < n => <<m, n>> \in R
    BY DEF OpToRel
  <1> HIDE DEF R
  <1>3. PICK n \in T : \A m \in T : ~(<<m, n>> \in R)
    BY <1>1, WFMin
  <1>4. \A m \in T : m \in Nat /\ ~(m < n) /\ n \in Nat
    BY <1>2, <1>3
  <1>5. \A m \in T : n <= m
    BY <1>4
  <1> QED BY <1>5

LEMMA Induction ==
  ASSUME NEW S, 0 \in S, \A n \in Nat : n \in S => n + 1 \in S
  PROVE  Nat \subseteq S
  <1> SUFFICES ASSUME Nat \ S # {} PROVE FALSE
    OBVIOUS
  <1>1. PICK n \in Nat \ S : \A m \in Nat \ S : n <= m
    BY LeastNumber
  <1>2. n # 0
    BY <1>1
  <1>3. n - 1 \in Nat /\ n - 1 \notin Nat \ S
    BY <1>1, <1>2
  <1>4. (n - 1) + 1 \in S
    BY <1>3
  <1> QED BY <1>1, <1>4

(* Recursion: a function on the numbers that begins with d and goes on by  *)
(* the step D, which may depend on the argument.                           *)
IsStep(S, D) == D \in [Nat -> [S -> S]]

IsIteration(S, d, D, f) == f \in [Nat -> S] /\ f[0] = d /\ \A n \in Nat : f[n + 1] = D[n][f[n]]

LEMMA Recursion ==
  ASSUME NEW S, NEW d \in S, NEW D, IsStep(S, D)
  PROVE  \E f : IsIteration(S, d, D, f)
  <1>0. D \in [Nat -> [S -> S]]
    BY DEF IsStep
  <1> DEFINE Upto(m, f) == f[0] = d /\ \A n \in Nat : n < m => f[n + 1] = D[n][f[n]]
             Good == {m \in Nat : \E f \in [Nat -> S] : Upto(m, f)}
  <1>1. 0 \in Good
    <2>1. [n \in Nat |-> d] \in [Nat -> S] /\ Upto(0, [n \in Nat |-> d])
      OBVIOUS
    <2> QED BY <2>1
  <1>2. ASSUME NEW m \in Nat, m \in Good PROVE m + 1 \in Good
    <2>1. PICK f \in [Nat -> S] : Upto(m, f)
      BY <1>2
    <2> DEFINE g == [f EXCEPT ![m + 1] = D[m][f[m]]]
    <2>2. g \in [Nat -> S]
      BY <1>0
    <2>3. g[0] = d
      BY <2>1
    <2>4. ASSUME NEW n \in Nat, n < m + 1 PROVE g[n + 1] = D[n][g[n]]
      <3>1. CASE n = m
        BY <3>1
      <3>2. CASE n < m
        <4>1. g[n + 1] = f[n + 1] /\ g[n] = f[n]
          BY <3>2
        <4> QED BY <2>1, <3>2, <4>1
      <3> QED BY <2>4, <3>1, <3>2
    <2> HIDE DEF g
    <2>5. Upto(m + 1, g)
      BY <2>3, <2>4
    <2> QED BY <2>2, <2>5
  <1>3. Nat \subseteq Good
    <2> HIDE DEF Good
    <2> QED BY <1>1, <1>2, Induction
  <1> DEFINE pick == [m \in Nat |-> CHOOSE f \in [Nat -> S] : Upto(m, f)]
             h == [m \in Nat |-> pick[m][m]]
  <1>4. \A m \in Nat : pick[m] \in [Nat -> S] /\ Upto(m, pick[m])
    BY <1>3
  <1> HIDE DEF pick
  <1>5. h \in [Nat -> S] /\ h[0] = d
    BY <1>4
  <1>6. ASSUME NEW n \in Nat PROVE h[n + 1] = D[n][h[n]]
    <2> DEFINE f == pick[n + 1]
               g == pick[n]
    <2>1. f \in [Nat -> S] /\ g \in [Nat -> S] /\ Upto(n + 1, f) /\ Upto(n, g)
      BY <1>4
    <2> HIDE DEF f, g
    <2>2. f[0] = g[0] /\ \A i \in Nat : i < n /\ f[i] = g[i] => f[i + 1] = g[i + 1]
      BY <2>1
    <2> DEFINE Same == {i \in Nat : i <= n => f[i] = g[i]}
    <2>3. n \in Same
      <3>1. 0 \in Same
        BY <2>2
      <3>2. ASSUME NEW i \in Nat, i \in Same PROVE i + 1 \in Same
        <4> SUFFICES ASSUME i + 1 <= n PROVE f[i + 1] = g[i + 1]
          OBVIOUS
        <4>1. i < n /\ i <= n
          OBVIOUS
        <4> QED BY <2>2, <3>2, <4>1
      <3> HIDE DEF Same
      <3> QED BY <3>1, <3>2, Induction
    <2>4. f[n + 1] = D[n][g[n]]
      BY <2>1, <2>3
    <2> QED BY <2>4 DEF f, g
  <1> HIDE DEF h
  <1>7. IsIteration(S, d, D, h)
    BY <1>5, <1>6 DEF IsIteration
  <1> QED BY <1>7
=============================================================================
