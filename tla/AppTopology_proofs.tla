------------------------- MODULE AppTopology_proofs -------------------------
(***************************************************************************)
(* Theorems of AppTopology: the paths ShortestPath finds are shortest ones,  *)
(* and it finds one wherever there is one.                                    *)
(***************************************************************************)
EXTENDS AppTopology, Recursion_proofs, FiniteSetTheorems

-----------------------------------------------------------------------------
(* The graph *)

LEMMA ImageFinite ==
    ASSUME NEW n \in Nat, NEW S, NEW f \in [1 .. n -> S]
    PROVE  IsFiniteSet(Range(f))
<1>1. IsFiniteSet(1 .. n)
  BY FS_Interval
<1>2. f \in Surjection(1 .. n, Range(f))
  BY DEF Surjection, Range
<1> QED
  BY <1>1, <1>2, FS_Surjection

\* Links make finitely many nodes of the two kinds.
LEMMA NodesFinite ==
    ASSUME NEW links \in Seq(Link)
    PROVE  /\ IsFiniteSet(Nodes(links)) /\ Nodes(links) \subseteq Node
           /\ Cardinality(Nodes(links)) \in Nat
<1> DEFINE n == Len(links)
           f == [i \in 1 .. n |-> links[i][1]]
           g == [i \in 1 .. n |-> links[i][2]]
<1>1. links \in [1 .. n -> Link] /\ n \in Nat /\ Range(links) \subseteq Link
  BY DEF Range
<1>2. f \in [1 .. n -> Node] /\ g \in [1 .. n -> Node]
  BY <1>1 DEF Link
<1>3. Range(f) \cup Range(g) = Nodes(links)
  BY <1>1 DEF Range, Nodes
<1>4. IsFiniteSet(Nodes(links))
  <2> HIDE DEF f, g
  <2>1. IsFiniteSet(Range(f)) /\ IsFiniteSet(Range(g))
    BY <1>1, <1>2, ImageFinite
  <2> QED
    BY <1>3, <2>1, FS_Union
<1>5. Nodes(links) \subseteq Node
  BY <1>1 DEF Nodes, Link
<1> QED
  BY <1>4, <1>5, FS_CardinalityType

\* The neighbours of a node are nodes, and those of a host switches.
LEMMA NeighborsAreNodes ==
    ASSUME NEW links \in Seq(Link), NEW a
    PROVE  /\ Neighbors(links, a) \subseteq Nodes(links)
           /\ IsHost(a) => \A n \in Neighbors(links, a) : ~IsHost(n)
<1>1. Range(links) \subseteq Link
  BY DEF Range
<1>2. \A l \in Range(links) : ~IsHost(l[1]) \/ ~IsHost(l[2])
  BY <1>1 DEF Link
<1> QED
  BY <1>2 DEF Neighbors, Nodes

-----------------------------------------------------------------------------
(* Distances *)

\* Within is the function its definition promises.
LEMMA WithinRecursive ==
    ASSUME NEW links, NEW b \in Nodes(links)
    PROVE  /\ Within(links, b) \in [Nat -> SUBSET Nodes(links)]
           /\ Within(links, b)[0] = {b}
           /\ \A k \in Nat : Within(links, b)[k + 1] = Within(links, b)[k] \cup
                 {a \in Nodes(links) : \E n \in Neighbors(links, a) \cap Within(links, b)[k] :
                     n = b \/ ~IsHost(n)}
<1> DEFINE S == SUBSET Nodes(links)
           More(X) == X \cup {a \in Nodes(links) : \E n \in Neighbors(links, a) \cap X :
                                 n = b \/ ~IsHost(n)}
           step == [k \in Nat |-> [X \in S |-> More(X)]]
           base == {b}
           Eq(g) == g = [k \in Nat |-> IF k = 0 THEN {b} ELSE More(g[k - 1])]
<1>1. step \in [Nat -> [S -> S]] /\ base \in S
  OBVIOUS
<1>2. PICK f : IsRecursion(f, S, base, step)
  <2> HIDE DEF step, S, base
  <2> QED
    BY <1>1, PrimitiveRecursion
<1>3. f \in [Nat -> S] /\ f[0] = {b} /\ \A k \in Nat : f[k + 1] = More(f[k])
  <2>1. f \in [Nat -> S] /\ f[0] = {b} /\ \A k \in Nat : f[k + 1] = step[k][f[k]]
    BY <1>2 DEF IsRecursion
  <2>2. \A k \in Nat : \A X \in S : step[k][X] = More(X)
    OBVIOUS
  <2> HIDE DEF step, S, More
  <2> QED
    BY <2>1, <2>2
<1> HIDE DEF More, S, step
<1>4. Eq(f)
  <2>1. ASSUME NEW k \in Nat PROVE f[k] = IF k = 0 THEN {b} ELSE More(f[k - 1])
    <3>1. CASE k = 0
      BY <1>3, <3>1
    <3>2. CASE k # 0
      <4>1. k - 1 \in Nat /\ (k - 1) + 1 = k
        BY <3>2
      <4> QED
        BY <1>3, <3>2, <4>1
    <3> QED
      BY <3>1, <3>2
  <2> QED
    BY <1>3, <2>1
<1>5. Eq(Within(links, b))
  <2>1. Within(links, b) = CHOOSE g : Eq(g)
    BY DEF Within, More
  <2> HIDE DEF Eq
  <2> QED
    BY <1>4, <2>1
<1> DEFINE W == Within(links, b)
<1>6. W[0] = {b} /\ \A k \in Nat : W[k + 1] = More(W[k])
  <2>1. W = [k \in Nat |-> IF k = 0 THEN {b} ELSE More(W[k - 1])]
    BY <1>5
  <2> HIDE DEF W
  <2>2. W[0] = {b}
    BY <2>1
  <2>3. ASSUME NEW k \in Nat PROVE W[k + 1] = More(W[k])
    <3>1. k + 1 \in Nat /\ k + 1 # 0 /\ (k + 1) - 1 = k
      OBVIOUS
    <3> QED
      BY <2>1, <3>1
  <2> QED
    BY <2>2, <2>3
<1>7. Within(links, b) \in [Nat -> SUBSET Nodes(links)]
  <2> DEFINE T == {k \in Nat : W[k] = f[k]}
  <2> HIDE DEF W
  <2>1. 0 \in T /\ \A k \in Nat : k \in T => k + 1 \in T
    BY <1>3, <1>6
  <2>2. Nat \subseteq T
    <3> HIDE DEF T
    <3> QED
      BY <2>1, NatSetInduction
  <2>3. W = [k \in Nat |-> IF k = 0 THEN {b} ELSE More(W[k - 1])]
    BY <1>5 DEF W
  <2>4. W = f
    BY <1>3, <2>2, <2>3
  <2> QED
    BY <1>3, <2>4 DEF W, S
<1> QED
  BY <1>6, <1>7 DEF More

\* Within the hops from a to b, more may be reached than within fewer.
LEMMA WithinGrows ==
    ASSUME NEW links, NEW b \in Nodes(links), NEW m \in Nat, NEW n \in Nat, m <= n
    PROVE  Within(links, b)[m] \subseteq Within(links, b)[n]
<1> DEFINE W == Within(links, b)
           T == {k \in Nat : m <= k => W[m] \subseteq W[k]}
<1>1. 0 \in T
  OBVIOUS
<1>2. ASSUME NEW k \in Nat, k \in T PROVE k + 1 \in T
  <2>1. W[k] \subseteq W[k + 1]
    BY WithinRecursive
  <2>2. CASE m <= k
    BY <1>2, <2>1, <2>2
  <2>3. CASE m = k + 1
    BY <2>3
  <2>4. CASE m > k + 1
    BY <2>4
  <2> QED
    BY <2>2, <2>3, <2>4
<1>3. Nat \subseteq T
  <2> HIDE DEF T
  <2> QED
    BY <1>1, <1>2, NatSetInduction
<1> QED
  BY <1>3

\* a is k hops from b.
IsHops(links, a, b, k) ==
    /\ k \in Nat /\ a \in Within(links, b)[k]
    /\ \A i \in 0 .. k - 1 : a \notin Within(links, b)[i]

\* From where b can be reached at all it is a certain number of hops.
LEMMA HopsExist ==
    ASSUME NEW links, NEW b \in Nodes(links), NEW a, NEW m \in Nat,
           a \in Within(links, b)[m]
    PROVE  \E k \in 0 .. m : IsHops(links, a, b, k)
<1> DEFINE T == {k \in Nat : a \in Within(links, b)[k]}
<1>1. PICK k \in T : \A i \in T : k <= i
  <2>1. T \subseteq Nat /\ T # {}
    OBVIOUS
  <2> HIDE DEF T
  <2> QED
    BY <2>1, LeastNumber
<1>2. k \in 0 .. m
  BY <1>1
<1>3. \A i \in 0 .. k - 1 : i \in Nat /\ ~ (k <= i)
  BY <1>2
<1>4. \A i \in 0 .. k - 1 : a \notin Within(links, b)[i]
  BY <1>1, <1>3
<1> QED
  BY <1>2, <1>4 DEF IsHops

LEMMA HopsUnique ==
    ASSUME NEW links, NEW a, NEW b, NEW j, NEW k,
           IsHops(links, a, b, j), IsHops(links, a, b, k)
    PROVE  j = k
<1>1. j \in Nat /\ k \in Nat
  BY DEF IsHops
<1>2. ~ (j < k) /\ ~ (k < j)
  <2>1. j < k => j \in 0 .. k - 1
    BY <1>1
  <2>2. k < j => k \in 0 .. j - 1
    BY <1>1
  <2> QED
    BY <2>1, <2>2 DEF IsHops
<1> QED
  BY <1>1, <1>2

-----------------------------------------------------------------------------
(* The recursion of ShortestPath *)

\* _recPath's arguments, and how many nodes it has left to visit.
Calls(links) == Nodes(links) \X SUBSET Nodes(links)
Left(links, a, V) ==
    2 * Cardinality(Nodes(links) \ V) + (IF a \in V THEN 1 ELSE 0)

LEMMA LeftTyped ==
    ASSUME NEW links \in Seq(Link), NEW a, NEW V
    PROVE  Left(links, a, V) \in Nat
<1>1. IsFiniteSet(Nodes(links) \ V)
  BY NodesFinite, FS_Subset
<1>2. Cardinality(Nodes(links) \ V) \in Nat
  BY <1>1, FS_CardinalityType
<1> QED
  BY <1>2 DEF Left

\* Each call goes on to calls that have fewer.
LEMMA LeftDecreases ==
    ASSUME NEW links \in Seq(Link), NEW b, NEW a \in Nodes(links),
           NEW V \in SUBSET Nodes(links), NEW n \in Onward(links, b, a, V)
    PROVE  /\ <<n, V \cup {a}>> \in Calls(links)
           /\ Left(links, n, V \cup {a}) < Left(links, a, V)
<1>1. n \in Nodes(links) /\ n \notin V \cup {a}
  BY NeighborsAreNodes DEF Onward
<1>2. <<n, V \cup {a}>> \in Calls(links)
  BY <1>1 DEF Calls
<1> DEFINE U == Nodes(links) \ V
           W == Nodes(links) \ (V \cup {a})
           c == Cardinality(U)
           d == Cardinality(W)
<1>3. IsFiniteSet(U) /\ c \in Nat /\ IsFiniteSet(W) /\ d \in Nat
  BY NodesFinite, FS_Subset, FS_CardinalityType
<1>4. W = U \ {a}
  OBVIOUS
<1>5. d = IF a \in U THEN c - 1 ELSE c
  BY <1>3, <1>4, FS_RemoveElement
<1>6. a \in U <=> a \notin V
  OBVIOUS
<1>7. Left(links, n, V \cup {a}) = 2 * d + 0
  BY <1>1, Zenon DEF Left
<1>8. Left(links, a, V) = 2 * c + (IF a \in V THEN 1 ELSE 0)
  BY DEF Left
<1> HIDE DEF U, W, c, d
<1>9. CASE a \in V
  <2>1. d = c /\ Left(links, a, V) = 2 * c + 1
    BY <1>5, <1>6, <1>8, <1>9
  <2> QED
    BY <1>2, <1>3, <1>7, <1>9, <2>1
<1>10. CASE a \notin V
  <2>1. d = c - 1 /\ Left(links, a, V) = 2 * c + 0
    BY <1>5, <1>6, <1>8, <1>10
  <2>2. c = d + 1 /\ Left(links, n, V \cup {a}) < Left(links, a, V)
    BY <1>3, <1>7, <2>1
  <2> QED
    BY <1>2, <2>2
<1> QED
  BY <1>9, <1>10

\* What a call returns depends on the calls it goes on to.
LEMMA RecPathDepends ==
    ASSUME NEW links, NEW b, NEW a, NEW V, NEW g, NEW h,
           \A n \in Onward(links, b, a, V) : g[<<n, V \cup {a}>>] = h[<<n, V \cup {a}>>]
    PROVE  RecPath(links, b, g, a, V) = RecPath(links, b, h, a, V)
<1>1. UNION {g[<<n, V \cup {a}>>] : n \in Onward(links, b, a, V)}
        = UNION {h[<<n, V \cup {a}>>] : n \in Onward(links, b, a, V)}
  OBVIOUS
<1> QED
  BY <1>1 DEF RecPath

\* A path that it returns is the node itself, or one of a call's with the node before it.
LEMMA RecPathMembers ==
    ASSUME NEW links, NEW b, NEW a, NEW V, NEW g, NEW p \in RecPath(links, b, g, a, V)
    PROVE  IF a = b THEN p = <<a>>
           ELSE \E n \in Onward(links, b, a, V) : \E q \in g[<<n, V \cup {a}>>] : p = <<a>> \o q
BY DEF RecPath, Shortest

\* So what holds of a call whenever it does of the calls it goes on to holds of all.
LEMMA CallInduction ==
    ASSUME NEW links \in Seq(Link), NEW b, NEW T,
           \A a \in Nodes(links), V \in SUBSET Nodes(links) :
              (\A n \in Onward(links, b, a, V) : <<n, V \cup {a}>> \in T) => <<a, V>> \in T
    PROVE  Calls(links) \subseteq T
<1> DEFINE Up == {k \in Nat : \A a \in Nodes(links), V \in SUBSET Nodes(links) :
                     Left(links, a, V) < k => <<a, V>> \in T}
<1>1. 0 \in Up
  BY LeftTyped
<1>2. ASSUME NEW k \in Nat, k \in Up PROVE k + 1 \in Up
  <2>1. ASSUME NEW a \in Nodes(links), NEW V \in SUBSET Nodes(links),
               Left(links, a, V) < k + 1
        PROVE  <<a, V>> \in T
    <3>1. ASSUME NEW n \in Onward(links, b, a, V) PROVE <<n, V \cup {a}>> \in T
      <4>1. n \in Nodes(links) /\ V \cup {a} \in SUBSET Nodes(links)
        BY NeighborsAreNodes DEF Onward
      <4>2. Left(links, n, V \cup {a}) < Left(links, a, V)
        BY LeftDecreases
      <4>3. Left(links, n, V \cup {a}) \in Nat /\ Left(links, a, V) \in Nat
        BY LeftTyped
      <4>4. Left(links, n, V \cup {a}) < k
        BY <2>1, <4>2, <4>3
      <4> QED
        BY <1>2, <4>1, <4>4
    <3> QED
      BY <3>1
  <2> QED
    BY <2>1
<1>3. Nat \subseteq Up
  <2> HIDE DEF Up
  <2> QED
    BY <1>1, <1>2, NatSetInduction
<1>4. ASSUME NEW v \in Calls(links) PROVE v \in T
  <2>1. PICK a \in Nodes(links), V \in SUBSET Nodes(links) : v = <<a, V>>
    BY DEF Calls
  <2>2. Left(links, a, V) \in Nat
    BY LeftTyped
  <2>3. Left(links, a, V) + 1 \in Up /\ Left(links, a, V) < Left(links, a, V) + 1
    BY <1>3, <2>2
  <2> QED
    BY <2>1, <2>3
<1> QED
  BY <1>4

\* Calls that return paths of the network make a call do.
LEMMA RecPathTyped ==
    ASSUME NEW links \in Seq(Link), NEW b, NEW a \in Nodes(links), NEW V, NEW g,
           \A n \in Onward(links, b, a, V) : g[<<n, V \cup {a}>>] \in SUBSET Seq(Nodes(links))
    PROVE  RecPath(links, b, g, a, V) \in SUBSET Seq(Nodes(links))
<1>1. ASSUME NEW p \in RecPath(links, b, g, a, V) PROVE p \in Seq(Nodes(links))
  <2>1. CASE a = b
    <3>1. p = <<a>>
      BY <2>1 DEF RecPath
    <3> QED
      BY <3>1
  <2>2. CASE a # b
    <3>1. PICK n \in Onward(links, b, a, V) : \E q \in g[<<n, V \cup {a}>>] : p = <<a>> \o q
      BY <2>2 DEF RecPath, Shortest
    <3>2. PICK q \in g[<<n, V \cup {a}>>] : p = <<a>> \o q
      BY <3>1
    <3>3. q \in Seq(Nodes(links)) /\ <<a>> \in Seq(Nodes(links))
      BY <3>2
    <3> QED
      BY <3>2, <3>3
  <2> QED
    BY <2>1, <2>2
<1> QED
  BY <1>1

\* Paths is the function its definition promises.
LEMMA PathsRecursive ==
    ASSUME NEW links \in Seq(Link), NEW b
    PROVE  /\ \A a \in Nodes(links), V \in SUBSET Nodes(links) :
                 Paths(links, b)[<<a, V>>] = RecPath(links, b, Paths(links, b), a, V)
           /\ \A v \in Calls(links) : Paths(links, b)[v] \in SUBSET Seq(Nodes(links))
<1> DEFINE D == Calls(links)
           N == Nodes(links)
           S == [D -> SUBSET Seq(N)]
           Return(g) == [v \in D |-> RecPath(links, b, g, v[1], v[2])]
           step == [k \in Nat |-> [g \in S |-> Return(g)]]
           base == [v \in D |-> {}]
           Eq(f) == f = Return(f)
<1>1. ASSUME NEW g \in S PROVE Return(g) \in S
  <2>1. ASSUME NEW v \in D PROVE RecPath(links, b, g, v[1], v[2]) \in SUBSET Seq(N)
    <3>1. v[1] \in N /\ v[2] \in SUBSET N
      BY DEF Calls
    <3>2. \A n \in Onward(links, b, v[1], v[2]) : <<n, v[2] \cup {v[1]}>> \in D
      BY <3>1, LeftDecreases
    <3>3. \A n \in Onward(links, b, v[1], v[2]) :
              g[<<n, v[2] \cup {v[1]}>>] \in SUBSET Seq(N)
      BY <3>2
    <3> QED
      BY <3>1, <3>3, RecPathTyped
  <2> QED
    BY <2>1
<1>2. step \in [Nat -> [S -> S]] /\ base \in S
  BY <1>1
<1>3. PICK G : IsRecursion(G, S, base, step)
  <2> HIDE DEF step, S, base
  <2> QED
    BY <1>2, PrimitiveRecursion
<1>4. G \in [Nat -> S] /\ \A k \in Nat : G[k + 1] = Return(G[k])
  <2>1. G \in [Nat -> S] /\ \A k \in Nat : G[k + 1] = step[k][G[k]]
    BY <1>3 DEF IsRecursion
  <2>2. \A k \in Nat : \A X \in S : step[k][X] = Return(X)
    OBVIOUS
  <2> HIDE DEF step, S, Return
  <2> QED
    BY <2>1, <2>2
<1>5. \A k \in Nat : \A a \in N, V \in SUBSET N :
          G[k + 1][<<a, V>>] = RecPath(links, b, G[k], a, V)
  BY <1>4 DEF Calls
<1> HIDE DEF S, step, base
\* A call settles once the calls it goes on to have.
<1> DEFINE T == {k \in Nat : \A a \in N, V \in SUBSET N :
                    Left(links, a, V) < k => G[k + 1][<<a, V>>] = G[k][<<a, V>>]}
<1>6. Nat \subseteq T
  <2>1. 0 \in T
    BY LeftTyped
  <2>2. ASSUME NEW k \in Nat, k \in T PROVE k + 1 \in T
    <3>1. ASSUME NEW a \in N, NEW V \in SUBSET N, Left(links, a, V) < k + 1
          PROVE  G[(k + 1) + 1][<<a, V>>] = G[k + 1][<<a, V>>]
      <4>1. ASSUME NEW n \in Onward(links, b, a, V)
            PROVE  G[k + 1][<<n, V \cup {a}>>] = G[k][<<n, V \cup {a}>>]
        <5>1. n \in N /\ V \cup {a} \in SUBSET N
          BY NeighborsAreNodes DEF Onward
        <5>2. Left(links, n, V \cup {a}) < Left(links, a, V)
          BY LeftDecreases
        <5>3. Left(links, n, V \cup {a}) \in Nat /\ Left(links, a, V) \in Nat
          BY LeftTyped
        <5>4. Left(links, n, V \cup {a}) < k
          BY <3>1, <5>2, <5>3
        <5> QED
          BY <2>2, <5>1, <5>4
      <4>2. RecPath(links, b, G[k + 1], a, V) = RecPath(links, b, G[k], a, V)
        BY <4>1, RecPathDepends
      <4>3. k + 1 \in Nat
        OBVIOUS
      <4> QED
        BY <1>5, <4>2, <4>3
    <3> QED
      BY <3>1
  <2> HIDE DEF T
  <2> QED
    BY <2>1, <2>2, NatSetInduction
<1>7. \E f : Eq(f)
  <2> DEFINE c == Cardinality(N)
             m == 2 * c + 2
  <2>1. c \in Nat /\ m \in Nat
    BY NodesFinite
  <2>2. ASSUME NEW a \in N, NEW V \in SUBSET N PROVE Left(links, a, V) < m
    <3>1. IsFiniteSet(N \ V) /\ Cardinality(N \ V) <= c
      BY NodesFinite, FS_Subset
    <3>2. Cardinality(N \ V) \in Nat
      BY <3>1, FS_CardinalityType
    <3> HIDE DEF c
    <3> DEFINE d == Cardinality(N \ V)
    <3>3. Left(links, a, V) = 2 * d + (IF a \in V THEN 1 ELSE 0)
      BY DEF Left
    <3>4. d <= c /\ d \in Nat
      BY <3>1, <3>2
    <3> HIDE DEF d
    <3> QED
      BY <2>1, <3>3, <3>4
  <2> HIDE DEF m
  <2>3. ASSUME NEW v \in D PROVE G[m + 1][v] = G[m][v]
    BY <1>6, <2>1, <2>2 DEF Calls
  <2>4. G[m] = Return(G[m])
    <3>1. G[m + 1] = Return(G[m]) /\ G[m] \in S
      BY <1>4, <2>1
    <3>2. \A v \in D : G[m][v] = Return(G[m])[v]
      <4> HIDE DEF Return
      <4> QED
        BY <2>3, <3>1
    <3> QED
      BY <3>1, <3>2 DEF S
  <2> QED
    BY <2>4
<1>8. Eq(Paths(links, b))
  <2>1. Paths(links, b) = CHOOSE f : Eq(f)
    BY DEF Paths, Calls
  <2> HIDE DEF Eq
  <2> QED
    BY <1>7, <2>1
<1>9. ASSUME NEW a \in N, NEW V \in SUBSET N
      PROVE  Paths(links, b)[<<a, V>>] = RecPath(links, b, Paths(links, b), a, V)
  <2> DEFINE P == Paths(links, b)
  <2>1. P = [v \in D |-> RecPath(links, b, P, v[1], v[2])]
    BY <1>8
  <2> HIDE DEF P
  <2>2. P[<<a, V>>] = RecPath(links, b, P, a, V)
    BY <2>1 DEF Calls
  <2> QED
    BY <2>2 DEF P
<1>10. Calls(links) \subseteq {v \in D : Paths(links, b)[v] \in SUBSET Seq(N)}
  <2> DEFINE U == {v \in D : Paths(links, b)[v] \in SUBSET Seq(N)}
  <2>1. ASSUME NEW a \in N, NEW V \in SUBSET N,
               \A n \in Onward(links, b, a, V) : <<n, V \cup {a}>> \in U
        PROVE  <<a, V>> \in U
    <3>1. RecPath(links, b, Paths(links, b), a, V) \in SUBSET Seq(N)
      BY <2>1, RecPathTyped
    <3> QED
      BY <1>9, <3>1 DEF Calls
  <2> HIDE DEF U
  <2>2. Calls(links) \subseteq U
    BY <2>1, CallInduction
  <2> QED
    BY <2>2 DEF U
<1> QED
  BY <1>9, <1>10

-----------------------------------------------------------------------------
(* What ShortestPath finds *)

\* From a node other than its end a call returns the shortest of what its calls
\* return with the node before it.
Extensions(links, b, a, V) ==
    {<<a>> \o q : q \in UNION {Paths(links, b)[<<n, V \cup {a}>>] :
                                 n \in Onward(links, b, a, V)}}

LEMMA PathsOnward ==
    ASSUME NEW links \in Seq(Link), NEW b, NEW a \in Nodes(links),
           NEW V \in SUBSET Nodes(links)
    PROVE  Paths(links, b)[<<a, V>>] =
             IF a = b THEN {<<a>>} ELSE Shortest(Extensions(links, b, a, V))
<1> DEFINE P == Paths(links, b)
           X == {<<a>> \o q : q \in UNION {P[<<n, V \cup {a}>>] : n \in Onward(links, b, a, V)}}
<1>1. P[<<a, V>>] = RecPath(links, b, P, a, V)
  BY PathsRecursive
<1>2. RecPath(links, b, P, a, V) =
          IF a = b THEN {<<a>>} ELSE UNION {Shortest(paths) : paths \in {X}}
  BY DEF RecPath
<1>3. UNION {Shortest(paths) : paths \in {X}} = Shortest(X)
  <2> HIDE DEF X
  <2> QED
    OBVIOUS
<1>4. X = Extensions(links, b, a, V)
  BY DEF Extensions
<1> HIDE DEF X, P
<1> QED
  BY <1>1, <1>2, <1>3, <1>4 DEF P

\* p is a path from a to b past the nodes in V, in no fewer hops than there are.
IsPath(links, b, a, V, p) ==
    /\ p \in Seq(Nodes(links)) /\ Len(p) >= 1 /\ p[1] = a
    /\ a \in Within(links, b)[Len(p) - 1]
    /\ a \notin V => Len(p) <= Cardinality(Nodes(links) \ V)

\* One hop more.
LEMMA OneHopMore ==
    ASSUME NEW links \in Seq(Link), NEW b \in Nodes(links), NEW a \in Nodes(links),
           NEW V, NEW n \in Onward(links, b, a, V), NEW k \in Nat,
           n \in Within(links, b)[k]
    PROVE  a \in Within(links, b)[k + 1]
<1>1. n \in Neighbors(links, a) /\ (n = b \/ ~IsHost(n))
  BY DEF Onward
<1> QED
  BY <1>1, WithinRecursive

LEMMA PathStep ==
    ASSUME NEW links \in Seq(Link), NEW b \in Nodes(links), NEW a \in Nodes(links),
           NEW V \in SUBSET Nodes(links), NEW n \in Onward(links, b, a, V), NEW q,
           IsPath(links, b, n, V \cup {a}, q)
    PROVE  /\ IsPath(links, b, a, V, <<a>> \o q)
           /\ Len(<<a>> \o q) = Len(q) + 1 /\ (<<a>> \o q)[2] = n
<1> DEFINE p == <<a>> \o q
           N == Nodes(links)
<1>1. q \in Seq(N) /\ Len(q) \in Nat /\ Len(q) >= 1 /\ q[1] = n
  BY DEF IsPath
<1>2. p \in Seq(N) /\ Len(p) = Len(q) + 1 /\ p[1] = a /\ p[2] = n
  BY <1>1
<1>3. a \in Within(links, b)[Len(p) - 1]
  <2>1. n \in Within(links, b)[Len(q) - 1] /\ Len(q) - 1 \in Nat
    BY <1>1 DEF IsPath
  <2>2. a \in Within(links, b)[(Len(q) - 1) + 1]
    BY <2>1, OneHopMore
  <2>3. (Len(q) - 1) + 1 = Len(p) - 1
    BY <1>1, <1>2
  <2> QED
    BY <2>2, <2>3
<1>4. ASSUME a \notin V PROVE Len(p) <= Cardinality(N \ V)
  <2>1. n \notin V \cup {a}
    BY DEF Onward
  <2>2. Len(q) <= Cardinality(N \ (V \cup {a}))
    BY <2>1 DEF IsPath
  <2> DEFINE U == N \ V
             W == N \ (V \cup {a})
  <2>3. IsFiniteSet(U) /\ Cardinality(U) \in Nat /\ Cardinality(W) \in Nat
    BY NodesFinite, FS_Subset, FS_CardinalityType
  <2>4. W = U \ {a} /\ a \in U
    BY <1>4
  <2>5. Cardinality(W) = Cardinality(U) - 1
    <3> HIDE DEF U, W
    <3>1. Cardinality(U \ {a}) = IF a \in U THEN Cardinality(U) - 1 ELSE Cardinality(U)
      BY <2>3, FS_RemoveElement
    <3> QED
      BY <2>4, <3>1
  <2>6. Len(q) <= Cardinality(W)
    BY <2>2
  <2> HIDE DEF U, W, p
  <2>7. Len(p) <= Cardinality(U)
    BY <1>1, <1>2, <2>3, <2>5, <2>6
  <2> QED
    BY <2>7 DEF U
<1> QED
  BY <1>2, <1>3, <1>4 DEF IsPath

LEMMA PathsArePaths ==
    ASSUME NEW links \in Seq(Link), NEW b \in Nodes(links), NEW a \in Nodes(links),
           NEW V \in SUBSET Nodes(links), NEW p \in Paths(links, b)[<<a, V>>]
    PROVE  IsPath(links, b, a, V, p)
<1> DEFINE N == Nodes(links)
           T == {v \in Calls(links) : \A q \in Paths(links, b)[v] :
                     IsPath(links, b, v[1], v[2], q)}
<1>1. ASSUME NEW c \in N, NEW U \in SUBSET N,
             \A n \in Onward(links, b, c, U) : <<n, U \cup {c}>> \in T
      PROVE  <<c, U>> \in T
  <2>1. ASSUME NEW q \in Paths(links, b)[<<c, U>>] PROVE IsPath(links, b, c, U, q)
    <3>1. CASE c = b
      <4>1. Paths(links, b)[<<c, U>>] = {<<c>>}
        BY <3>1, PathsOnward
      <4>2. q \in Seq(N) /\ Len(q) = 1 /\ q[1] = c
        <5>1. q = <<c>>
          BY <4>1
        <5> QED
          BY <5>1
      <4>3. c \in Within(links, b)[Len(q) - 1]
        BY <3>1, <4>2, WithinRecursive
      <4>4. ASSUME c \notin U PROVE Len(q) <= Cardinality(N \ U)
        <5>1. IsFiniteSet(N \ U) /\ N \ U # {}
          BY <4>4, NodesFinite, FS_Subset
        <5>2. Cardinality(N \ U) \in Nat /\ Cardinality(N \ U) # 0
          BY <5>1, FS_CardinalityType, FS_EmptySet
        <5> QED
          BY <4>2, <5>2
      <4> QED
        BY <4>2, <4>3, <4>4 DEF IsPath
    <3>2. CASE c # b
      <4>0. Paths(links, b)[<<c, U>>] = Shortest(Extensions(links, b, c, U))
        BY <3>2, PathsOnward
      <4>1. q \in Extensions(links, b, c, U)
        BY <4>0 DEF Shortest
      <4>2. PICK n \in Onward(links, b, c, U) :
                \E r \in Paths(links, b)[<<n, U \cup {c}>>] : q = <<c>> \o r
        BY <4>1 DEF Extensions
      <4>3. PICK r \in Paths(links, b)[<<n, U \cup {c}>>] : q = <<c>> \o r
        BY <4>2
      <4>4. IsPath(links, b, n, U \cup {c}, r)
        BY <1>1, <4>2, <4>3
      <4> QED
        BY <4>3, <4>4, PathStep
    <3> QED
      BY <3>1, <3>2
  <2> QED
    BY <2>1 DEF Calls
<1>2. Calls(links) \subseteq T
  <2> HIDE DEF T
  <2> QED
    BY <1>1, CallInduction
<1> QED
  BY <1>2 DEF Calls

\* A node k hops away has paths, all of them of k hops, as long as none of the nodes
\* within those is to be avoided.
LEMMA PathsShortest ==
    ASSUME NEW links \in Seq(Link), NEW b \in Nodes(links), NEW a \in Nodes(links),
           NEW V \in SUBSET Nodes(links), NEW k, IsHops(links, a, b, k),
           V \cap Within(links, b)[k] = {}
    PROVE  /\ Paths(links, b)[<<a, V>>] # {}
           /\ \A p \in Paths(links, b)[<<a, V>>] : Len(p) = k + 1
<1> DEFINE N == Nodes(links)
           W == Within(links, b)
           P == Paths(links, b)
           T == {j \in Nat : \A c \in N, U \in SUBSET N :
                    (IsHops(links, c, b, j) /\ U \cap W[j] = {}) =>
                        /\ P[<<c, U>>] # {}
                        /\ \A p \in P[<<c, U>>] : Len(p) = j + 1}
<1>1. 0 \in T
  <2>1. ASSUME NEW c \in N, NEW U \in SUBSET N, IsHops(links, c, b, 0)
        PROVE  P[<<c, U>>] = {<<b>>}
    <3>1. c = b
      BY <2>1, WithinRecursive DEF IsHops
    <3> QED
      BY <3>1, PathsOnward
  <2>2. Len(<<b>>) = 0 + 1
    OBVIOUS
  <2> HIDE DEF P, W
  <2> QED
    BY <2>1, <2>2
<1>2. ASSUME NEW j \in Nat, j \in T PROVE j + 1 \in T
  <2>1. ASSUME NEW c \in N, NEW U \in SUBSET N, IsHops(links, c, b, j + 1),
               U \cap W[j + 1] = {}
        PROVE  /\ P[<<c, U>>] # {}
               /\ \A p \in P[<<c, U>>] : Len(p) = (j + 1) + 1
    <3>1. c \in W[j + 1] /\ \A i \in 0 .. j : c \notin W[i]
      BY <2>1 DEF IsHops
    <3>2. c # b
      <4>1. W[0] = {b} /\ 0 \in 0 .. j
        BY WithinRecursive
      <4> QED
        BY <3>1, <4>1
    <3> DEFINE X == Extensions(links, b, c, U)
    <3>3. P[<<c, U>>] = Shortest(X)
      BY <3>2, PathsOnward
    <3>4. ASSUME NEW p \in X PROVE Len(p) \in Nat /\ Len(p) >= (j + 1) + 1
      <4>0. PICK n \in Onward(links, b, c, U) : \E q \in P[<<n, U \cup {c}>>] : p = <<c>> \o q
        BY DEF Extensions
      <4>1. PICK q \in P[<<n, U \cup {c}>>] : p = <<c>> \o q
        BY <4>0
      <4>2. n \in N /\ U \cup {c} \in SUBSET N
        BY NeighborsAreNodes DEF Onward
      <4>3. IsPath(links, b, n, U \cup {c}, q)
        BY <4>1, <4>2, PathsArePaths
      <4>4. Len(q) \in Nat /\ Len(q) >= 1 /\ n \in W[Len(q) - 1] /\ Len(p) = Len(q) + 1
        BY <4>1, <4>3, PathStep DEF IsPath
      <4>5. c \in W[(Len(q) - 1) + 1]
        BY <4>1, <4>4, OneHopMore
      <4>6. (Len(q) - 1) + 1 = Len(q)
        BY <4>4
      <4>7. Len(q) \notin 0 .. j
        BY <3>1, <4>5, <4>6
      <4> QED
        BY <4>4, <4>7
    <3>5. PICK p \in X : Len(p) = (j + 1) + 1
      <4>0. c \notin W[j] /\ W[j + 1] = W[j] \cup
                {a1 \in N : \E n \in Neighbors(links, a1) \cap W[j] : n = b \/ ~IsHost(n)}
        BY <3>1, WithinRecursive
      <4>1. PICK n \in Neighbors(links, c) \cap W[j] : n = b \/ ~IsHost(n)
        <5> HIDE DEF W
        <5> QED
          BY <3>1, <4>0
      <4>2. n \in N
        BY NeighborsAreNodes
      <4>3. n \notin U /\ n # c
        BY <2>1, <3>1, <4>1, WithinRecursive
      <4>4. n \in Onward(links, b, c, U)
        BY <4>1, <4>3 DEF Onward
      <4>5. IsHops(links, n, b, j)
        <5>1. ASSUME NEW i \in 0 .. j - 1 PROVE n \notin W[i]
          <6>1. i \in Nat /\ i + 1 \in 0 .. j
            OBVIOUS
          <6> QED
            BY <3>1, <4>4, <6>1, OneHopMore
        <5> QED
          BY <4>1, <5>1 DEF IsHops
      <4>6. (U \cup {c}) \cap W[j] = {} /\ U \cup {c} \in SUBSET N
        BY <2>1, <3>1, WithinRecursive
      <4>7. P[<<n, U \cup {c}>>] # {} /\ \A q \in P[<<n, U \cup {c}>>] : Len(q) = j + 1
        BY <1>2, <4>2, <4>5, <4>6
      <4>8. PICK q \in P[<<n, U \cup {c}>>] : Len(q) = j + 1
        BY <4>7
      <4>9. IsPath(links, b, n, U \cup {c}, q)
        BY <4>2, <4>6, <4>8, PathsArePaths
      <4>10. Len(<<c>> \o q) = (j + 1) + 1
        BY <4>4, <4>8, <4>9, PathStep
      <4>11. <<c>> \o q \in X
        BY <4>4, <4>8 DEF Extensions
      <4> QED
        BY <4>10, <4>11
    <3> HIDE DEF X
    <3>6. p \in Shortest(X)
      BY <3>4, <3>5 DEF Shortest
    <3>7. ASSUME NEW r \in Shortest(X) PROVE Len(r) = (j + 1) + 1
      <4>1. r \in X /\ Len(r) <= Len(p)
        BY <3>5 DEF Shortest
      <4>2. Len(r) \in Nat /\ Len(r) >= (j + 1) + 1
        BY <3>4, <4>1
      <4> QED
        BY <3>5, <4>1, <4>2
    <3> QED
      BY <3>3, <3>6, <3>7
  <2> QED
    BY <2>1
<1>3. Nat \subseteq T
  <2> HIDE DEF T
  <2> QED
    BY <1>1, <1>2, NatSetInduction
<1>4. k \in T
  BY <1>3 DEF IsHops
<1> QED
  BY <1>4

\* HopsUnique makes Hops the distance that IsHops says.
LEMMA HopsAre ==
    ASSUME NEW links, NEW a, NEW b, NEW k \in 0 .. Cardinality(Nodes(links)),
           IsHops(links, a, b, k)
    PROVE  Hops(links, a, b) = k
<1> DEFINE c == Cardinality(Nodes(links))
           Is(j) == a \in Within(links, b)[j] /\ \A i \in 0 .. j - 1 : a \notin Within(links, b)[i]
<1>1. \A j \in 0 .. c : IsHops(links, a, b, j) <=> Is(j)
  BY DEF IsHops
<1>2. Hops(links, a, b) = CHOOSE j \in 0 .. c : Is(j)
  BY DEF Hops
<1> HIDE DEF c, Is
<1>3. Hops(links, a, b) \in 0 .. c /\ Is(Hops(links, a, b))
  BY <1>1, <1>2 DEF c
<1>4. IsHops(links, a, b, Hops(links, a, b))
  BY <1>1, <1>3
<1> QED
  BY <1>4, HopsUnique

\* Between any two nodes that are connected ShortestPath finds a path, and each path it
\* finds is a shortest one: it goes on through a neighbour of its first node that is
\* one hop nearer its last (ShortestPath.get, _recPath).
THEOREM PathsLead ==
    ASSUME NEW links \in Seq(Link), NEW a \in Nodes(links), NEW b \in Nodes(links), a # b
    PROVE  /\ Joined(links, a, b) => ShortestPaths(links, a, b) # {}
           /\ \A p \in ShortestPaths(links, a, b) :
                 /\ p \in Seq(Nodes(links)) /\ p[1] = a /\ Len(p) - 1 = Hops(links, a, b)
                 /\ p[2] \in Neighbors(links, a) /\ (IsHost(p[2]) => p[2] = b)
                 /\ Joined(links, p[2], b)
                 /\ Hops(links, a, b) = Hops(links, p[2], b) + 1
<1> DEFINE N == Nodes(links)
           W == Within(links, b)
           c == Cardinality(N)
<1>1. c \in Nat
  BY NodesFinite
<1>2. ASSUME NEW k, IsHops(links, a, b, k)
      PROVE  /\ ShortestPaths(links, a, b) # {}
             /\ \A p \in ShortestPaths(links, a, b) : Len(p) = k + 1
  <2>1. {} \in SUBSET N /\ {} \cap W[k] = {}
    OBVIOUS
  <2> QED
    BY <1>2, <2>1, PathsShortest DEF ShortestPaths
<1>3. ASSUME Joined(links, a, b) PROVE ShortestPaths(links, a, b) # {}
  <2>1. a \in W[c]
    BY <1>3 DEF Joined
  <2> HIDE DEF c
  <2>2. PICK k \in 0 .. c : IsHops(links, a, b, k)
    BY <1>1, <2>1, HopsExist
  <2> QED
    BY <1>2, <2>2
<1>4. ASSUME NEW p \in ShortestPaths(links, a, b)
      PROVE  /\ p \in Seq(N) /\ p[1] = a /\ Len(p) - 1 = Hops(links, a, b)
             /\ p[2] \in Neighbors(links, a) /\ (IsHost(p[2]) => p[2] = b)
             /\ Joined(links, p[2], b)
             /\ Hops(links, a, b) = Hops(links, p[2], b) + 1
  <2>1. {} \in SUBSET N /\ p \in Paths(links, b)[<<a, {}>>]
    BY DEF ShortestPaths
  <2>2. IsPath(links, b, a, {}, p)
    BY <2>1, PathsArePaths
  <2>3. N \ {} = N /\ a \notin {}
    OBVIOUS
  <2>4. p \in Seq(N) /\ Len(p) \in Nat /\ p[1] = a /\ a \in W[Len(p) - 1]
        /\ Len(p) - 1 \in Nat /\ Len(p) <= c
    BY <2>2, <2>3 DEF IsPath
  <2> HIDE DEF c
  <2>5. PICK k \in 0 .. Len(p) - 1 : IsHops(links, a, b, k)
    BY <2>4, HopsExist
  <2>6. Len(p) = k + 1 /\ k \in 0 .. c
    BY <1>1, <1>2, <2>4, <2>5
  <2>7. Hops(links, a, b) = k
    BY <2>5, <2>6, HopsAre DEF c
  <2>8. p \in Extensions(links, b, a, {})
    <3>1. Paths(links, b)[<<a, {}>>] = Shortest(Extensions(links, b, a, {}))
      BY <2>1, PathsOnward
    <3> QED
      BY <2>1, <3>1 DEF Shortest
  <2>9. PICK n \in Onward(links, b, a, {}) :
            \E q \in Paths(links, b)[<<n, {} \cup {a}>>] : p = <<a>> \o q
    BY <2>8 DEF Extensions
  <2>10. PICK q \in Paths(links, b)[<<n, {} \cup {a}>>] : p = <<a>> \o q
    BY <2>9
  <2>11. n \in N /\ {} \cup {a} \in SUBSET N
    BY NeighborsAreNodes DEF Onward
  <2>12. IsPath(links, b, n, {} \cup {a}, q)
    BY <2>10, <2>11, PathsArePaths
  <2>13. Len(p) = Len(q) + 1 /\ p[2] = n
    <3>1. q \in Seq(N) /\ Len(q) \in Nat /\ Len(q) >= 1 /\ q[1] = n
      BY <2>12 DEF IsPath
    <3> QED
      BY <2>10, <3>1
  <2>14. n \in W[Len(q) - 1] /\ Len(q) \in Nat /\ Len(q) >= 1
    BY <2>12 DEF IsPath
  <2>15. k - 1 \in 0 .. c /\ k - 1 = Len(q) - 1
    BY <1>1, <2>6, <2>13, <2>14
  <2>16. IsHops(links, n, b, k - 1)
    <3>1. ASSUME NEW i \in 0 .. (k - 1) - 1 PROVE n \notin W[i]
      <4>1. i \in Nat /\ i + 1 \in 0 .. k - 1
        BY <2>15
      <4>2. a \notin W[i + 1]
        BY <2>5, <4>1 DEF IsHops
      <4> QED
        BY <4>1, <4>2, OneHopMore
    <3> QED
      BY <2>14, <2>15, <3>1 DEF IsHops
  <2>17. Hops(links, n, b) = k - 1
    BY <2>15, <2>16, HopsAre DEF c
  <2>18. Joined(links, n, b)
    <3>1. W[k - 1] \subseteq W[c]
      BY <1>1, <2>15, WithinGrows
    <3> QED
      BY <2>14, <2>15, <3>1 DEF Joined, c
  <2>19. n \in Neighbors(links, a) /\ (IsHost(n) => n = b)
    BY DEF Onward
  <2> QED
    BY <2>4, <2>6, <2>7, <2>13, <2>15, <2>17, <2>18, <2>19
<1> QED
  BY <1>3, <1>4

\* A host has a first link to each switch it is at.
LEMMA FirstLinkExists ==
    ASSUME NEW links \in Seq(Link), NEW host, NEW sw \in Neighbors(links, host)
    PROVE  FirstLink(links, host, sw) \in Nat
<1> DEFINE I(i) == links[i] \in {<<host, sw>>, <<sw, host>>}
           T == {i \in DOMAIN links : I(i)}
<1>1. T # {} /\ T \subseteq Nat
  <2>1. \A l \in Link : l = <<l[1], l[2]>>
    BY DEF Link
  <2>2. \E l \in Range(links) : l = <<host, sw>> \/ l = <<sw, host>>
    BY <2>1 DEF Neighbors, Range
  <2> QED
    BY <2>2 DEF Range
<1>2. PICK i \in T : \A k \in T : i <= k
  <2> HIDE DEF T
  <2> QED
    BY <1>1, LeastNumber
<1>3. i \in DOMAIN links /\ I(i) /\ \A k \in 1 .. i - 1 : ~I(k)
  <2>1. DOMAIN links = 1 .. Len(links) /\ Len(links) \in Nat
    OBVIOUS
  <2>2. \A k \in 1 .. i - 1 : k \in DOMAIN links /\ ~(i <= k)
    BY <2>1
  <2> QED
    BY <1>2, <2>2
<1>4. FirstLink(links, host, sw) = CHOOSE j \in DOMAIN links : I(j) /\ \A k \in 1 .. j - 1 : ~I(k)
  BY DEF FirstLink
<1>5. FirstLink(links, host, sw) \in DOMAIN links
  <2> HIDE DEF I
  <2> QED
    BY <1>3, <1>4
<1> QED
  BY <1>5

\* The switch of a host's first entry is one that it is at.
LEMMA FirstSwitchExists ==
    ASSUME NEW links \in Seq(Link), NEW host \in Nodes(links)
    PROVE  FirstSwitch(links, host) \in Neighbors(links, host)
<1> DEFINE N == Neighbors(links, host)
           T == {FirstLink(links, host, sw) : sw \in N}
<1>1. N # {}
  <2>1. PICK l \in Range(links) : host = l[1] \/ host = l[2]
    BY DEF Nodes
  <2>2. l[1] \in N \/ l[2] \in N
    BY <2>1 DEF Neighbors
  <2> QED
    BY <2>2
<1>2. T # {} /\ T \subseteq Nat
  BY <1>1, FirstLinkExists
<1>3. PICK i \in T : \A k \in T : i <= k
  <2> HIDE DEF T
  <2> QED
    BY <1>2, LeastNumber
<1>4. PICK sw \in N : i = FirstLink(links, host, sw)
  BY <1>3
<1>5. \A other \in N : FirstLink(links, host, sw) <= FirstLink(links, host, other)
  BY <1>3, <1>4
<1>6. FirstSwitch(links, host) =
          CHOOSE s \in N : \A other \in N :
              FirstLink(links, host, s) <= FirstLink(links, host, other)
  BY DEF FirstSwitch
<1> HIDE DEF N
<1> QED
  BY <1>4, <1>5, <1>6 DEF N

\* A host on one switch has the address that the routes to it lead to.
LEMMA OneSwitch ==
    ASSUME NEW links \in Seq(Link), NEW host, NEW sw, Neighbors(links, host) = {sw}
    PROVE  FirstSwitch(links, host) = sw /\ LastSwitch(links, host) = sw
<1>1. FirstLink(links, host, sw) \in Nat
  BY FirstLinkExists
<1>2. FirstLink(links, host, sw) <= FirstLink(links, host, sw)
      /\ FirstLink(links, host, sw) >= FirstLink(links, host, sw)
  BY <1>1
<1> QED
  BY <1>2 DEF FirstSwitch, LastSwitch

=============================================================================
