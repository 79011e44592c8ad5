------------------------------ MODULE Induction ------------------------------
(***************************************************************************)
(* Induction and recursion as first-order facts.  The induction theorems   *)
(* of the library are about an operator, which no prover here instantiates; *)
(* stated about sets and functions they can be cited by any proof.  They   *)
(* all rest on the well-foundedness of < on Nat.                           *)
(***************************************************************************)
EXTENDS Integers, FiniteSetsExt, WellFoundedInduction, TLAPS

LOCAL Below == {pair \in Nat \X Nat : pair[1] < pair[2]}

\* A set of naturals that is not empty has a least element.
LEMMA Least ==
  ASSUME NEW T \in SUBSET Nat, T # {}
  PROVE  \E x \in T : \A y \in T : x <= y
<1>1. IsWellFoundedOn(Below, Nat)
  BY NatLessThanWellFounded DEF OpToRel, Below
<1>2. PICK x \in T : \A y \in T : ~ (<<y, x>> \in Below)
  BY <1>1, WFMin
<1>3. ASSUME NEW y \in T PROVE x <= y
  <2>1. x \in Nat /\ y \in Nat
    OBVIOUS
  <2>2. ~ (<<y, x>> \in Below)
    BY <1>2, <1>3
  <2>3. ~ (y < x)
    BY <2>1, <2>2 DEF Below
  <2> QED BY <2>1, <2>3
<1> QED BY <1>3

\* A set that holds 0 and with each natural the next one holds them all.
LEMMA NatSteps ==
  ASSUME NEW T, 0 \in T, \A n \in Nat : n \in T => n + 1 \in T
  PROVE  Nat \subseteq T
<1> SUFFICES ASSUME NEW n \in Nat, n \notin T PROVE FALSE
  OBVIOUS
<1> DEFINE out == {m \in Nat : m \notin T}
<1>1. PICK x \in out : \A y \in out : x <= y
  BY Least
<1>2. x \in Nat /\ x # 0 /\ x \notin T
  BY <1>1
<1>3. x - 1 \in Nat /\ x - 1 \notin out
  BY <1>1, <1>2
<1> QED BY <1>2, <1>3

\* A set that holds each member of S when it holds those of smaller rank holds S.
LEMMA RankSteps ==
  ASSUME NEW S, NEW rank \in [S -> Nat], NEW T,
         \A x \in S : (\A y \in S : rank[y] < rank[x] => y \in T) => x \in T
  PROVE  S \subseteq T
<1> SUFFICES ASSUME NEW z \in S, z \notin T PROVE FALSE
  OBVIOUS
<1> DEFINE out == {x \in S : x \notin T}
           ranks == {rank[x] : x \in out}
<1>1. PICK n \in ranks : \A m \in ranks : n <= m
  <2>1. ranks \in SUBSET Nat /\ ranks # {}
    OBVIOUS
  <2> HIDE DEF ranks
  <2> QED BY <2>1, Least
<1>2. PICK x \in out : n = rank[x]
  OBVIOUS
<1>3. \A y \in S : rank[y] < rank[x] => y \in T
  <2> SUFFICES ASSUME NEW y \in S, rank[y] < rank[x], y \notin T PROVE FALSE
    OBVIOUS
  <2>1. rank[y] \in ranks
    OBVIOUS
  <2>2. rank[x] <= rank[y]
    BY <1>1, <1>2, <2>1
  <2>3. rank[x] \in Nat /\ rank[y] \in Nat
    OBVIOUS
  <2> QED BY <2>2, <2>3
<1> QED BY <1>2, <1>3

\* The value of a step at each member of S depends on those of smaller rank only.
Grounded(S, V, rank, Step) ==
  /\ V # {} /\ rank \in [S -> Nat] /\ Step \in [[S -> V] -> [S -> V]]
  /\ \A g, h \in [S -> V] : \A x \in S :
       (\A y \in S : rank[y] < rank[x] => g[y] = h[y]) => Step[g][x] = Step[h][x]

\* A step whose value at each member of S depends on those of smaller rank only has a
\* fixpoint: a recursive function over S is well defined.
LEMMA Recursion ==
  ASSUME NEW S, NEW V, NEW rank, NEW Step, Grounded(S, V, rank, Step)
  PROVE  \E f \in [S -> V] : f = Step[f]
<1>a. V # {} /\ rank \in [S -> Nat] /\ Step \in [[S -> V] -> [S -> V]]
  BY DEF Grounded
<1>b. \A g, h \in [S -> V] : \A x \in S :
        (\A y \in S : rank[y] < rank[x] => g[y] = h[y]) => Step[g][x] = Step[h][x]
  BY DEF Grounded
<1> USE <1>a
<1> DEFINE Good(n, g) == \A x \in S : rank[x] < n => Step[g][x] = g[x]
<1>1. \A n \in Nat : \E g \in [S -> V] : Good(n, g)
  <2> DEFINE T == {n \in Nat : \E g \in [S -> V] : Good(n, g)}
  <2>1. 0 \in T
    <3>1. PICK v \in V : TRUE
      OBVIOUS
    <3>2. [x \in S |-> v] \in [S -> V]
      OBVIOUS
    <3>3. \A x \in S : ~ (rank[x] < 0)
      OBVIOUS
    <3>4. Good(0, [x \in S |-> v])
      BY <3>3
    <3> QED BY <3>2, <3>4
  <2>2. ASSUME NEW n \in Nat, n \in T PROVE n + 1 \in T
    <3>1. PICK g \in [S -> V] : Good(n, g)
      BY <2>2
    <3>2. Step[g] \in [S -> V]
      OBVIOUS
    <3>3. ASSUME NEW x \in S, rank[x] < n + 1 PROVE Step[Step[g]][x] = Step[g][x]
      <4>1. \A y \in S : rank[y] < rank[x] => Step[g][y] = g[y]
        <5> SUFFICES ASSUME NEW y \in S, rank[y] < rank[x] PROVE Step[g][y] = g[y]
          OBVIOUS
        <5>1. rank[x] \in Nat /\ rank[y] \in Nat
          OBVIOUS
        <5>2. rank[y] < n
          BY <3>3, <5>1
        <5> QED BY <3>1, <5>2
      <4> QED BY <1>b, <3>2, <4>1
    <3>4. Good(n + 1, Step[g])
      BY <3>3
    <3> HIDE DEF Good
    <3> QED BY <3>2, <3>4
  <2>3. Nat \subseteq T
    <3> HIDE DEF T
    <3> QED BY <2>1, <2>2, NatSteps
  <2> QED BY <2>3
<1>2. ASSUME NEW x \in S, NEW n \in Nat, NEW m \in Nat, rank[x] < n, rank[x] < m,
             NEW g \in [S -> V], NEW h \in [S -> V], Good(n, g), Good(m, h)
      PROVE  g[x] = h[x]
  <2> DEFINE T == {y \in S : rank[y] < n /\ rank[y] < m => g[y] = h[y]}
  <2>1. ASSUME NEW y \in S, \A z \in S : rank[z] < rank[y] => z \in T
        PROVE  y \in T
    <3> SUFFICES ASSUME rank[y] < n, rank[y] < m PROVE g[y] = h[y]
      OBVIOUS
    <3>1. \A z \in S : rank[z] < rank[y] => g[z] = h[z]
      <4> SUFFICES ASSUME NEW z \in S, rank[z] < rank[y] PROVE g[z] = h[z]
        OBVIOUS
      <4>1. rank[z] \in Nat /\ rank[y] \in Nat
        OBVIOUS
      <4>2. rank[z] < n /\ rank[z] < m
        BY <4>1
      <4> QED BY <2>1, <4>2
    <3>2. Step[g][y] = Step[h][y]
      BY <1>b, <3>1
    <3> QED BY <1>2, <3>2
  <2>2. S \subseteq T
    <3> HIDE DEF T
    <3> QED BY <2>1, RankSteps
  <2> QED BY <1>2, <2>2
<1> DEFINE G(x) == CHOOSE g \in [S -> V] : Good(rank[x] + 1, g)
           f == [x \in S |-> G(x)[x]]
<1>3. ASSUME NEW x \in S PROVE G(x) \in [S -> V] /\ Good(rank[x] + 1, G(x))
  <2>1. rank[x] + 1 \in Nat
    OBVIOUS
  <2>2. \E g \in [S -> V] : Good(rank[x] + 1, g)
    BY <1>1, <2>1
  <2> HIDE DEF Good
  <2> QED BY <2>2
<1>4. f \in [S -> V]
  <2>1. ASSUME NEW x \in S PROVE G(x)[x] \in V
    <3>1. G(x) \in [S -> V]
      BY <1>3
    <3> HIDE DEF G
    <3> QED BY <3>1
  <2> HIDE DEF G
  <2> QED BY <2>1
<1>5. ASSUME NEW x \in S PROVE f[x] = Step[f][x]
  <2>1. ASSUME NEW y \in S, rank[y] < rank[x] PROVE f[y] = G(x)[y]
    <3>1. rank[x] \in Nat /\ rank[y] \in Nat
      OBVIOUS
    <3>2. rank[y] + 1 \in Nat /\ rank[x] + 1 \in Nat /\ rank[y] < rank[y] + 1 /\ rank[y] < rank[x] + 1
      BY <2>1, <3>1
    <3>3. /\ G(y) \in [S -> V] /\ Good(rank[y] + 1, G(y))
          /\ G(x) \in [S -> V] /\ Good(rank[x] + 1, G(x))
      BY <1>3
    <3>4. G(y)[y] = G(x)[y]
      <4> HIDE DEF G, Good
      <4> QED BY <3>2, <3>3, <1>2
    <3> QED BY <3>4
  <2>2. Step[f][x] = Step[G(x)][x]
    <3>1. G(x) \in [S -> V]
      BY <1>3
    <3> HIDE DEF f, G
    <3> QED BY <1>b, <1>4, <2>1, <3>1
  <2>3. Step[G(x)][x] = G(x)[x]
    <3>1. rank[x] \in Nat /\ rank[x] < rank[x] + 1
      OBVIOUS
    <3>2. Good(rank[x] + 1, G(x))
      BY <1>3
    <3> HIDE DEF G
    <3> QED BY <3>1, <3>2
  <2> QED BY <2>2, <2>3
<1>6. f = Step[f]
  <2>1. Step[f] \in [S -> V]
    <3> HIDE DEF f
    <3> QED BY <1>4
  <2> HIDE DEF f
  <2> QED BY <1>4, <1>5, <2>1
<1> HIDE DEF f
<1> QED BY <1>4, <1>6

----------------------------------------------------------------------------
(* The folds of SequencesExt.                                              *)

\* The greatest and the least of some of the first n positions.
LEMMA MaxIs ==
  ASSUME NEW n \in Nat, NEW s \in SUBSET (1 .. n), s # {}
  PROVE  /\ Max(s) \in s /\ \A y \in s : y <= Max(s)
         /\ Min(s) \in s /\ \A y \in s : Min(s) <= y
<1>1. \E x \in s : \A y \in s : x <= y
  BY Least
<1>2. \E x \in s : \A y \in s : x >= y
  <2> DEFINE t == {n - x : x \in s}
  <2>1. t \in SUBSET Nat /\ t # {}
    <3>1. \A x \in s : n - x \in Nat
      OBVIOUS
    <3> QED BY <3>1
  <2> HIDE DEF t
  <2>2. PICK u \in t : \A v \in t : u <= v
    BY <2>1, Least
  <2>3. PICK x \in s : u = n - x
    BY <2>2 DEF t
  <2>4. ASSUME NEW y \in s PROVE x >= y
    <3>1. n - y \in t
      BY DEF t
    <3>2. u <= n - y
      BY <2>2, <3>1
    <3>3. x \in Int /\ y \in Int
      OBVIOUS
    <3> QED BY <2>3, <3>2, <3>3
  <2> QED BY <2>4
<1>3. Max(s) \in s /\ \A y \in s : Max(s) >= y
  BY <1>2 DEF Max
<1>4. Min(s) \in s /\ \A y \in s : Min(s) <= y
  BY <1>1 DEF Min
<1> QED BY <1>3, <1>4

\* iter folds G over every set of the first n positions, the last one outermost.
Folded(n, base, G, iter) ==
  iter = [s \in SUBSET (1 .. n) |-> IF s = {} THEN base ELSE G[Max(s)][iter[s \ {Max(s)}]]]

\* A fold over the positions of a sequence is well defined.
LEMMA FoldExists ==
  ASSUME NEW n \in Nat, NEW V, NEW base \in V, NEW G \in [1 .. n -> [V -> V]]
  PROVE  \E iter \in [SUBSET (1 .. n) -> V] : Folded(n, base, G, iter)
<1> DEFINE S == SUBSET (1 .. n)
           rank == [s \in S |-> IF s = {} THEN 0 ELSE Max(s)]
           One(g, s) == IF s = {} THEN base ELSE G[Max(s)][g[s \ {Max(s)}]]
           Step == [g \in [S -> V] |-> [s \in S |-> One(g, s)]]
<1>1. \A s \in S : s # {} => Max(s) \in 1 .. n /\ s \ {Max(s)} \in S /\ \A y \in s : y <= Max(s)
  BY MaxIs
<1>2. rank \in [S -> Nat]
  <2>1. \A s \in S : (IF s = {} THEN 0 ELSE Max(s)) \in Nat
    BY <1>1
  <2> QED BY <2>1
<1>3. ASSUME NEW s \in S, s # {} PROVE rank[s \ {Max(s)}] < rank[s]
  <2> DEFINE t == s \ {Max(s)}
  <2>1. t \in S /\ Max(s) \in 1 .. n /\ \A y \in t : y <= Max(s) /\ y # Max(s)
    BY <1>1, <1>3
  <2>2. t # {} => Max(t) \in t /\ Max(t) \in 1 .. n
    BY <1>1, <2>1, MaxIs
  <2> HIDE DEF t
  <2>3. rank[s] = Max(s) /\ rank[t] = IF t = {} THEN 0 ELSE Max(t)
    BY <1>3, <2>1
  <2>4. rank[t] < rank[s]
    BY <2>1, <2>2, <2>3
  <2> QED BY <2>4 DEF t
<1>4. ASSUME NEW g \in [S -> V], NEW s \in S PROVE One(g, s) \in V
  <2>1. CASE s = {}
    BY <2>1
  <2>2. CASE s # {}
    <3>1. Max(s) \in 1 .. n /\ s \ {Max(s)} \in S
      BY <1>1, <2>2
    <3> DEFINE m == Max(s)
               v == g[s \ {Max(s)}]
    <3>2. v \in V /\ m \in 1 .. n
      BY <3>1
    <3> HIDE DEF m, v
    <3>3. G[m][v] \in V
      BY <3>2
    <3> QED BY <2>2, <3>3 DEF m, v
  <2> QED BY <2>1, <2>2
<1>5. Step \in [[S -> V] -> [S -> V]]
  <2> HIDE DEF One
  <2> QED BY <1>4
<1>6. ASSUME NEW g \in [S -> V], NEW h \in [S -> V], NEW s \in S,
             \A t \in S : rank[t] < rank[s] => g[t] = h[t]
      PROVE  Step[g][s] = Step[h][s]
  <2>1. CASE s = {}
    BY <2>1
  <2>2. CASE s # {}
    <3>1. g[s \ {Max(s)}] = h[s \ {Max(s)}]
      <4> HIDE DEF rank
      <4> QED BY <1>1, <1>3, <1>6, <2>2
    <3> QED BY <3>1
  <2> QED BY <2>1, <2>2
<1>7. Grounded(S, V, rank, Step)
  <2> HIDE DEF S, rank, Step
  <2> QED BY <1>2, <1>5, <1>6 DEF Grounded
<1>8. \E f \in [S -> V] : f = Step[f]
  <2> HIDE DEF S, rank, Step
  <2> QED BY <1>7, Recursion
<1> QED BY <1>8 DEF Folded

\* Where iter has a value in V for a set of positions, it folds G over it.
Folding(n, V, base, G, iter) ==
  /\ iter[{}] = base
  /\ \A s \in SUBSET (1 .. n) : s # {} /\ iter[s \ {Max(s)}] \in V =>
       iter[s] = G[Max(s)][iter[s \ {Max(s)}]]

\* The values kept is after each number of positions, the last of them the fold's.
Passing(n, base, G, iter, kept) ==
  /\ kept[0] = base
  /\ \A i \in 1 .. n : kept[i] = G[i][kept[i - 1]]
  /\ kept[n] = iter[1 .. n]

LEMMA LastOf ==
  ASSUME NEW n \in Nat, NEW i \in 1 .. n
  PROVE  /\ 1 .. i \in SUBSET (1 .. n) /\ 1 .. i # {}
         /\ Max(1 .. i) = i /\ (1 .. i) \ {i} = 1 .. (i - 1)
<1> DEFINE s == 1 .. i
<1>1. s \in SUBSET (1 .. n) /\ s # {} /\ i \in s /\ \A y \in s : y <= i
  OBVIOUS
<1>2. Max(s) \in s /\ \A y \in s : y <= Max(s)
  BY <1>1, MaxIs
<1>3. Max(s) = i
  BY <1>1, <1>2
<1>4. s \ {i} = 1 .. (i - 1)
  OBVIOUS
<1> HIDE DEF s
<1> QED BY <1>1, <1>3, <1>4 DEF s

\* A fold over the positions passes through a value for each number of them.
LEMMA FoldRuns ==
  ASSUME NEW n \in Nat, NEW V, NEW base \in V, NEW G \in [1 .. n -> [V -> V]], NEW iter,
         Folding(n, V, base, G, iter)
  PROVE  \E kept \in [0 .. n -> V] : Passing(n, base, G, iter, kept)
<1>0. /\ iter[{}] = base
      /\ \A s \in SUBSET (1 .. n) : s # {} /\ iter[s \ {Max(s)}] \in V =>
           iter[s] = G[Max(s)][iter[s \ {Max(s)}]]
  BY DEF Folding
<1>1. ASSUME NEW i \in 1 .. n, iter[1 .. (i - 1)] \in V
      PROVE  iter[1 .. i] = G[i][iter[1 .. (i - 1)]]
  <2> DEFINE s == 1 .. i
  <2>1. s \in SUBSET (1 .. n) /\ s # {} /\ Max(s) = i /\ s \ {Max(s)} = 1 .. (i - 1)
    BY LastOf
  <2> HIDE DEF s
  <2> QED BY <1>0, <1>1, <2>1 DEF s
<1> DEFINE T == {i \in Nat : i <= n => iter[1 .. i] \in V}
           kept == [i \in 0 .. n |-> iter[1 .. i]]
<1>2. 1 .. 0 = {} /\ 0 \in 0 .. n /\ n \in 0 .. n
  OBVIOUS
<1>3. Nat \subseteq T
  <2>1. 0 \in T
    BY <1>0, <1>2
  <2>2. ASSUME NEW i \in Nat, i \in T PROVE i + 1 \in T
    <3> SUFFICES ASSUME i + 1 <= n PROVE iter[1 .. (i + 1)] \in V
      OBVIOUS
    <3>1. i + 1 \in 1 .. n /\ i + 1 - 1 = i /\ i <= n
      OBVIOUS
    <3>2. iter[1 .. i] \in V
      BY <2>2, <3>1
    <3>3. iter[1 .. (i + 1)] = G[i + 1][iter[1 .. i]]
      BY <1>1, <3>1, <3>2
    <3>4. G[i + 1] \in [V -> V]
      BY <3>1
    <3> QED BY <3>2, <3>3, <3>4
  <2> HIDE DEF T
  <2> QED BY <2>1, <2>2, NatSteps
<1>4. kept \in [0 .. n -> V]
  BY <1>3
<1>5. kept[0] = base /\ kept[n] = iter[1 .. n]
  BY <1>0, <1>2
<1>6. ASSUME NEW i \in 1 .. n PROVE kept[i] = G[i][kept[i - 1]]
  <2>1. i \in 0 .. n /\ i - 1 \in 0 .. n
    OBVIOUS
  <2>2. kept[i - 1] = iter[1 .. (i - 1)] /\ kept[i] = iter[1 .. i]
    BY <2>1
  <2>3. iter[1 .. (i - 1)] \in V
    BY <1>4, <2>1, <2>2
  <2> HIDE DEF kept
  <2> QED BY <1>1, <2>2, <2>3
<1> HIDE DEF kept
<1> QED BY <1>4, <1>5, <1>6 DEF Passing
=============================================================================
