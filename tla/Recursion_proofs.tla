-------------------------- MODULE Recursion_proofs --------------------------
(***************************************************************************)
(* Induction over the natural numbers and functions defined by recursion on *)
(* them, stated with sets and functions in the place of operators.          *)
(***************************************************************************)
EXTENDS Integers, TLAPS, WellFoundedInduction

\* A set of numbers has a least one.
LEMMA LeastNumber ==
  ASSUME NEW T, T \subseteq Nat, T # {}
  PROVE  \E n \in T : \A m \in T : n <= m
<1> DEFINE R == OpToRel(<, Nat)
<1>1. IsWellFoundedOn(R, Nat)
  BY NatLessThanWellFounded
<1>2. \A x, y \in Nat : <<y, x>> \in R <=> y < x
  BY DEF OpToRel
<1> HIDE DEF R
<1>3. PICK x \in T : \A y \in T : ~ (<<y, x>> \in R)
  BY <1>1, WFMin
<1>4. ASSUME NEW y \in T PROVE x <= y
  <2>1. x \in Nat /\ y \in Nat
    OBVIOUS
  <2>2. ~ (<<y, x>> \in R)
    BY <1>3
  <2>3. ~ (y < x)
    BY <1>2, <2>1, <2>2, Zenon
  <2> QED BY <2>1, <2>3
<1> QED BY <1>4

\* Induction.
LEMMA NatSetInduction ==
  ASSUME NEW T, 0 \in T, \A n \in Nat : n \in T => n + 1 \in T
  PROVE  Nat \subseteq T
<1> SUFFICES ASSUME NEW k \in Nat, k \notin T PROVE FALSE
  OBVIOUS
<1> DEFINE U == Nat \ T
<1>1. PICK n \in U : \A m \in U : n <= m
  <2>1. U \subseteq Nat /\ U # {}
    OBVIOUS
  <2> HIDE DEF U
  <2> QED BY <2>1, LeastNumber
<1>2. n # 0
  OBVIOUS
<1>3. n - 1 \in Nat /\ n - 1 \notin U
  BY <1>1, <1>2
<1>4. n - 1 \in T
  BY <1>3
<1>5. (n - 1) + 1 \in T
  BY <1>3, <1>4
<1> QED BY <1>5

\* f starts with base, and step gives it its next value at each number.
IsRecursion(f, S, base, step) ==
  /\ f \in [Nat -> S] /\ f[0] = base
  /\ \A n \in Nat : f[n + 1] = step[n][f[n]]

\* There is such a function.
LEMMA PrimitiveRecursion ==
  ASSUME NEW S, NEW base, base \in S, NEW step, step \in [Nat -> [S -> S]]
  PROVE  \E f : IsRecursion(f, S, base, step)
<1> DEFINE Upto(g, n) == /\ g \in [0 .. n -> S]
                         /\ g[0] = base
                         /\ \A i \in 0 .. n - 1 : g[i + 1] = step[i][g[i]]
           T == {n \in Nat : \E g \in [0 .. n -> S] : Upto(g, n)}
<1>1. Nat \subseteq T
  <2>1. 0 \in T
    <3> DEFINE g0 == [i \in 0 .. 0 |-> base]
    <3>1. Upto(g0, 0)
      OBVIOUS
    <3> QED BY <3>1
  <2>2. ASSUME NEW n \in Nat, n \in T PROVE n + 1 \in T
    <3>1. PICK g \in [0 .. n -> S] : Upto(g, n)
      BY <2>2
    <3> DEFINE h == [i \in 0 .. n + 1 |-> IF i = n + 1 THEN step[n][g[n]] ELSE g[i]]
    <3>2. h \in [0 .. n + 1 -> S]
      BY <3>1
    <3>3. h[0] = base
      BY <3>1
    <3>4. ASSUME NEW i \in 0 .. (n + 1) - 1 PROVE h[i + 1] = step[i][h[i]]
      <4>1. CASE i = n
        <5>1. h[i + 1] = step[n][g[n]] /\ h[i] = g[n]
          BY <4>1
        <5> QED BY <5>1, <4>1
      <4>2. CASE i < n
        BY <4>2, <3>1
      <4> QED BY <4>1, <4>2
    <3>5. Upto(h, n + 1)
      BY <3>2, <3>3, <3>4
    <3> HIDE DEF h
    <3> QED BY <3>2, <3>5
  <2> HIDE DEF T
  <2> QED BY <2>1, <2>2, NatSetInduction
<1>2. ASSUME NEW m \in Nat, NEW n \in Nat, m <= n,
             NEW g, NEW h, Upto(g, m), Upto(h, n)
      PROVE  g[m] = h[m]
  <2> DEFINE A == {i \in Nat : i <= m => g[i] = h[i]}
  <2>1. 0 \in A
    BY <1>2
  <2>2. ASSUME NEW i \in Nat, i \in A PROVE i + 1 \in A
    <3>1. CASE i + 1 <= m
      <4>1. g[i + 1] = step[i][g[i]] /\ h[i + 1] = step[i][h[i]]
        BY <1>2, <3>1
      <4> QED BY <4>1, <2>2, <3>1
    <3>2. CASE ~(i + 1 <= m)
      BY <3>2
    <3> QED BY <3>1, <3>2
  <2>3. Nat \subseteq A
    <3> HIDE DEF A
    <3> QED BY <2>1, <2>2, NatSetInduction
  <2> QED BY <2>3
<1> DEFINE G(n) == CHOOSE g \in [0 .. n -> S] : Upto(g, n)
           f == [n \in Nat |-> G(n)[n]]
<1>3. \A n \in Nat : Upto(G(n), n)
  BY <1>1
<1> HIDE DEF G
<1>4. f \in [Nat -> S]
  BY <1>3
<1>5. f[0] = base
  BY <1>3
<1>6. ASSUME NEW n \in Nat PROVE f[n + 1] = step[n][f[n]]
  <2>1. Upto(G(n), n) /\ Upto(G(n + 1), n + 1)
    BY <1>3
  <2>2. G(n)[n] = G(n + 1)[n]
    <3> HIDE DEF Upto
    <3> QED BY <2>1, <1>2
  <2>3. G(n + 1)[n + 1] = step[n][G(n + 1)[n]]
    BY <2>1
  <2> QED BY <2>2, <2>3
<1> QED BY <1>4, <1>5, <1>6 DEF IsRecursion

=============================================================================
