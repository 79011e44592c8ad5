------------------------------ MODULE LtlProofs ------------------------------
(***************************************************************************)
(* Proofs about the evaluator of a property (Ltl, LtlReference), for any   *)
(* properties of any bounded depth, any outcomes and timings of the        *)
(* observations and any number of them: the state keeps its shapes, and,   *)
(* for windows of a whole number of steps or seconds, the verdict is at    *)
(* every observation what the observations so far decide, the end of the   *)
(* run breaks exactly what no continuation keeps, and the blame falls on   *)
(* the first step that failed.                                             *)
(*                                                                         *)
(* The argument: formulas form levels, over which induction and recursion  *)
(* are facts about sets (Induction); the recursive functions satisfy the   *)
(* equations that define them; a formula of the evaluator has a value at   *)
(* every place of a record of observations; reducing it against one        *)
(* observation keeps that value; the normal form of what an author wrote   *)
(* has the value of what he wrote; so that every obligation carried is     *)
(* worth, whatever follows, what some assertion of the property is.        *)
(***************************************************************************)
EXTENDS LtlReference, Induction

----------------------------------------------------------------------------
(* The formulas, level by level.                                           *)

\* The two hierarchies of formulas satisfy the equations that define them.
LEMMA AuthoredLevels ==
  Authored = [n \in Nat |-> IF n = 0 THEN Leaves ELSE Authoring(Authored[n - 1])]
<1> DEFINE Chain(g, k) ==
             g = [n \in 0 .. k |-> IF n = 0 THEN Leaves ELSE Authoring(g[n - 1])]
<1>1. \A k \in Nat : \E g : Chain(g, k)
  <2> DEFINE T == {k \in Nat : \E g : Chain(g, k)}
  <2>1. 0 \in T
    <3> DEFINE g == [n \in 0 .. 0 |-> Leaves]
    <3>1. Chain(g, 0)
      OBVIOUS
    <3> QED BY <3>1
  <2>2. ASSUME NEW k \in Nat, k \in T PROVE k + 1 \in T
    <3>1. PICK g : Chain(g, k)
      BY <2>2
    <3> DEFINE h == [n \in 0 .. k + 1 |-> IF n = 0 THEN Leaves ELSE Authoring(g[n - 1])]
    <3>2. ASSUME NEW n \in 0 .. k PROVE h[n] = g[n]
      <4>1. h[n] = IF n = 0 THEN Leaves ELSE Authoring(g[n - 1])
        OBVIOUS
      <4>2. g[n] = IF n = 0 THEN Leaves ELSE Authoring(g[n - 1])
        BY <3>1
      <4> QED BY <4>1, <4>2
    <3>3. ASSUME NEW n \in 0 .. k + 1
          PROVE  h[n] = IF n = 0 THEN Leaves ELSE Authoring(h[n - 1])
      <4>1. h[n] = IF n = 0 THEN Leaves ELSE Authoring(g[n - 1])
        OBVIOUS
      <4>2. n # 0 => n - 1 \in 0 .. k
        OBVIOUS
      <4>3. n # 0 => h[n - 1] = g[n - 1]
        BY <3>2, <4>2
      <4> HIDE DEF h
      <4> QED BY <4>1, <4>3
    <3>4. Chain(h, k + 1)
      <4>1. h = [n \in 0 .. k + 1 |-> h[n]]
        OBVIOUS
      <4> HIDE DEF h
      <4> QED BY <3>3, <4>1
    <3> HIDE DEF Chain
    <3> QED BY <3>4
  <2> HIDE DEF T
  <2>3. Nat \subseteq T
    BY <2>1, <2>2, NatSteps
  <2> QED BY <2>3 DEF T
<1>2. \A n \in Nat : \A k, l \in Nat : \A g, h :
        n <= k /\ n <= l /\ Chain(g, k) /\ Chain(h, l) => g[n] = h[n]
  <2> DEFINE T == {n \in Nat : \A k, l \in Nat : \A g, h :
                     n <= k /\ n <= l /\ Chain(g, k) /\ Chain(h, l) => g[n] = h[n]}
  <2>a. ASSUME NEW k \in Nat, NEW g, Chain(g, k), NEW n \in 0 .. k
        PROVE  g[n] = IF n = 0 THEN Leaves ELSE Authoring(g[n - 1])
    BY <2>a
  <2> HIDE DEF Chain
  <2>1. 0 \in T
    <3> SUFFICES ASSUME NEW k \in Nat, NEW l \in Nat, NEW g, NEW h, Chain(g, k), Chain(h, l)
                 PROVE  g[0] = h[0]
      OBVIOUS
    <3>1. 0 \in 0 .. k /\ 0 \in 0 .. l
      OBVIOUS
    <3>2. g[0] = Leaves /\ h[0] = Leaves
      BY <2>a, <3>1
    <3> QED BY <3>2
  <2>2. ASSUME NEW n \in Nat, n \in T PROVE n + 1 \in T
    <3> SUFFICES ASSUME NEW k \in Nat, NEW l \in Nat, NEW g, NEW h,
                        n + 1 <= k, n + 1 <= l, Chain(g, k), Chain(h, l)
                 PROVE  g[n + 1] = h[n + 1]
      OBVIOUS
    <3>1. n + 1 \in 0 .. k /\ n + 1 \in 0 .. l /\ n + 1 # 0 /\ (n + 1) - 1 = n
      OBVIOUS
    <3>2. g[n + 1] = Authoring(g[n]) /\ h[n + 1] = Authoring(h[n])
      BY <2>a, <3>1
    <3>3. g[n] = h[n]
      BY <2>2
    <3> QED BY <3>2, <3>3
  <2> HIDE DEF T
  <2>3. Nat \subseteq T
    BY <2>1, <2>2, NatSteps
  <2> QED BY <2>3 DEF T
<1> DEFINE G(k) == CHOOSE g : Chain(g, k)
           A == [n \in Nat |-> G(n)[n]]
<1>3. ASSUME NEW n \in Nat
      PROVE  A[n] = IF n = 0 THEN Leaves ELSE Authoring(A[n - 1])
  <2>1. Chain(G(n), n)
    BY <1>1
  <2>2. n \in 0 .. n
    OBVIOUS
  <2>3. G(n)[n] = IF n = 0 THEN Leaves ELSE Authoring(G(n)[n - 1])
    <3> HIDE DEF G
    <3> QED BY <2>1, <2>2
  <2>4. n # 0 => A[n - 1] = G(n)[n - 1]
    <3> SUFFICES ASSUME n # 0 PROVE A[n - 1] = G(n)[n - 1]
      OBVIOUS
    <3>1. n - 1 \in Nat /\ n - 1 <= n
      OBVIOUS
    <3>2. Chain(G(n - 1), n - 1)
      BY <1>1, <3>1
    <3>3. G(n - 1)[n - 1] = G(n)[n - 1]
      <4> HIDE DEF Chain, G
      <4> QED BY <1>2, <2>1, <3>1, <3>2
    <3> QED BY <3>1, <3>3
  <2>5. A[n] = G(n)[n]
    OBVIOUS
  <2> HIDE DEF A, G
  <2> QED BY <2>3, <2>4, <2>5
<1>4. A = [n \in Nat |-> IF n = 0 THEN Leaves ELSE Authoring(A[n - 1])]
  <2>1. A = [n \in Nat |-> A[n]]
    OBVIOUS
  <2> HIDE DEF A
  <2> QED BY <1>3, <2>1
<1> HIDE DEF A
<1> QED BY <1>4 DEF Authored

\* The same of those the evaluator works on.
LEMMA BuiltLevels ==
  Built = [n \in Nat |-> IF n = 0 THEN Leaves ELSE Building(Built[n - 1])]
<1> DEFINE Chain(g, k) ==
             g = [n \in 0 .. k |-> IF n = 0 THEN Leaves ELSE Building(g[n - 1])]
<1>1. \A k \in Nat : \E g : Chain(g, k)
  <2> DEFINE T == {k \in Nat : \E g : Chain(g, k)}
  <2>1. 0 \in T
    <3> DEFINE g == [n \in 0 .. 0 |-> Leaves]
    <3>1. Chain(g, 0)
      OBVIOUS
    <3> QED BY <3>1
  <2>2. ASSUME NEW k \in Nat, k \in T PROVE k + 1 \in T
    <3>1. PICK g : Chain(g, k)
      BY <2>2
    <3> DEFINE h == [n \in 0 .. k + 1 |-> IF n = 0 THEN Leaves ELSE Building(g[n - 1])]
    <3>2. ASSUME NEW n \in 0 .. k PROVE h[n] = g[n]
      <4>1. h[n] = IF n = 0 THEN Leaves ELSE Building(g[n - 1])
        OBVIOUS
      <4>2. g[n] = IF n = 0 THEN Leaves ELSE Building(g[n - 1])
        BY <3>1
      <4> QED BY <4>1, <4>2
    <3>3. ASSUME NEW n \in 0 .. k + 1
          PROVE  h[n] = IF n = 0 THEN Leaves ELSE Building(h[n - 1])
      <4>1. h[n] = IF n = 0 THEN Leaves ELSE Building(g[n - 1])
        OBVIOUS
      <4>2. n # 0 => n - 1 \in 0 .. k
        OBVIOUS
      <4>3. n # 0 => h[n - 1] = g[n - 1]
        BY <3>2, <4>2
      <4> HIDE DEF h
      <4> QED BY <4>1, <4>3
    <3>4. Chain(h, k + 1)
      <4>1. h = [n \in 0 .. k + 1 |-> h[n]]
        OBVIOUS
      <4> HIDE DEF h
      <4> QED BY <3>3, <4>1
    <3> HIDE DEF Chain
    <3> QED BY <3>4
  <2> HIDE DEF T
  <2>3. Nat \subseteq T
    BY <2>1, <2>2, NatSteps
  <2> QED BY <2>3 DEF T
<1>2. \A n \in Nat : \A k, l \in Nat : \A g, h :
        n <= k /\ n <= l /\ Chain(g, k) /\ Chain(h, l) => g[n] = h[n]
  <2> DEFINE T == {n \in Nat : \A k, l \in Nat : \A g, h :
                     n <= k /\ n <= l /\ Chain(g, k) /\ Chain(h, l) => g[n] = h[n]}
  <2>a. ASSUME NEW k \in Nat, NEW g, Chain(g, k), NEW n \in 0 .. k
        PROVE  g[n] = IF n = 0 THEN Leaves ELSE Building(g[n - 1])
    BY <2>a
  <2> HIDE DEF Chain
  <2>1. 0 \in T
    <3> SUFFICES ASSUME NEW k \in Nat, NEW l \in Nat, NEW g, NEW h, Chain(g, k), Chain(h, l)
                 PROVE  g[0] = h[0]
      OBVIOUS
    <3>1. 0 \in 0 .. k /\ 0 \in 0 .. l
      OBVIOUS
    <3>2. g[0] = Leaves /\ h[0] = Leaves
      BY <2>a, <3>1
    <3> QED BY <3>2
  <2>2. ASSUME NEW n \in Nat, n \in T PROVE n + 1 \in T
    <3> SUFFICES ASSUME NEW k \in Nat, NEW l \in Nat, NEW g, NEW h,
                        n + 1 <= k, n + 1 <= l, Chain(g, k), Chain(h, l)
                 PROVE  g[n + 1] = h[n + 1]
      OBVIOUS
    <3>1. n + 1 \in 0 .. k /\ n + 1 \in 0 .. l /\ n + 1 # 0 /\ (n + 1) - 1 = n
      OBVIOUS
    <3>2. g[n + 1] = Building(g[n]) /\ h[n + 1] = Building(h[n])
      BY <2>a, <3>1
    <3>3. g[n] = h[n]
      BY <2>2
    <3> QED BY <3>2, <3>3
  <2> HIDE DEF T
  <2>3. Nat \subseteq T
    BY <2>1, <2>2, NatSteps
  <2> QED BY <2>3 DEF T
<1> DEFINE G(k) == CHOOSE g : Chain(g, k)
           A == [n \in Nat |-> G(n)[n]]
<1>3. ASSUME NEW n \in Nat
      PROVE  A[n] = IF n = 0 THEN Leaves ELSE Building(A[n - 1])
  <2>1. Chain(G(n), n)
    BY <1>1
  <2>2. n \in 0 .. n
    OBVIOUS
  <2>3. G(n)[n] = IF n = 0 THEN Leaves ELSE Building(G(n)[n - 1])
    <3> HIDE DEF G
    <3> QED BY <2>1, <2>2
  <2>4. n # 0 => A[n - 1] = G(n)[n - 1]
    <3> SUFFICES ASSUME n # 0 PROVE A[n - 1] = G(n)[n - 1]
      OBVIOUS
    <3>1. n - 1 \in Nat /\ n - 1 <= n
      OBVIOUS
    <3>2. Chain(G(n - 1), n - 1)
      BY <1>1, <3>1
    <3>3. G(n - 1)[n - 1] = G(n)[n - 1]
      <4> HIDE DEF Chain, G
      <4> QED BY <1>2, <2>1, <3>1, <3>2
    <3> QED BY <3>1, <3>3
  <2>5. A[n] = G(n)[n]
    OBVIOUS
  <2> HIDE DEF A, G
  <2> QED BY <2>3, <2>4, <2>5
<1>4. A = [n \in Nat |-> IF n = 0 THEN Leaves ELSE Building(A[n - 1])]
  <2>1. A = [n \in Nat |-> A[n]]
    OBVIOUS
  <2> HIDE DEF A
  <2> QED BY <1>3, <2>1
<1> HIDE DEF A
<1> QED BY <1>4 DEF Built

\* What a formula of either hierarchy looks like, its parts taken from a set.
Leaf(f) ==
  \/ f.op = "pure" /\ f.value \in BOOLEAN /\ f = Pure(f.value)
  \/ f.op = "thunk" /\ f.atom \in DOMAIN Outcomes /\ f = Thunk(f.atom)
Joint(f, parts) ==
  \/ f.op \in UnaryOps /\ f.inner \in parts /\ f = Unary(f.op, f.inner)
  \/ f.op \in BinaryOps /\ f.left \in parts /\ f.right \in parts /\ f = Binary(f.op, f.left, f.right)
Timed(f, parts) ==
  /\ f.op \in TemporalOps /\ f.inner \in parts /\ f.unit \in Units /\ f.amount \in Nat
  /\ f.closes \in Nat \cup {Unresolved}
  /\ f = Temporal(f.op, f.inner, f.unit, f.amount, f.closes)
Clause(f, parts) ==
  \/ f.op = "always" /\ f.inner \in parts /\ f = Unary("always", f.inner)
  \/ /\ f.op = "eventually" /\ f.inner \in parts /\ f.unit \in Units /\ f.halves \in Nat
     /\ [unit |-> f.unit, halves |-> f.halves] \in Bounds
     /\ f = Eventually(f.inner, f.unit, f.halves)

\* The formulas without parts.
LEMMA LeavesAre == \A f : f \in Leaves <=> Leaf(f)
<1>1. ASSUME NEW f \in Leaves PROVE Leaf(f)
  <2>1. CASE f \in [op : {"thunk"}, atom : DOMAIN Outcomes]
    BY <2>1 DEF Leaf, Thunk
  <2>2. CASE f \in [op : {"pure"}, value : BOOLEAN]
    BY <2>2 DEF Leaf, Pure
  <2> QED BY <2>1, <2>2 DEF Leaves
<1>2. ASSUME NEW f, Leaf(f) PROVE f \in Leaves
  <2>1. CASE f.value \in BOOLEAN /\ f = Pure(f.value)
    BY <2>1 DEF Leaves, Pure
  <2>2. CASE f.atom \in DOMAIN Outcomes /\ f = Thunk(f.atom)
    BY <2>2 DEF Leaves, Thunk
  <2> QED BY <1>2, <2>1, <2>2 DEF Leaf
<1> QED BY <1>1, <1>2

\* The formulas both hierarchies make of the same parts.
LEMMA JoinedAre == \A parts, f : f \in Joined(parts) <=> Joint(f, parts)
<1>1. ASSUME NEW parts, NEW f \in Joined(parts) PROVE Joint(f, parts)
  <2>1. CASE f \in [op : UnaryOps, inner : parts]
    BY <2>1 DEF Joint, Unary
  <2>2. CASE f \in [op : BinaryOps, left : parts, right : parts]
    BY <2>2 DEF Joint, Binary
  <2> QED BY <2>1, <2>2 DEF Joined
<1>2. ASSUME NEW parts, NEW f, Joint(f, parts) PROVE f \in Joined(parts)
  <2>1. CASE f.op \in UnaryOps /\ f.inner \in parts /\ f = Unary(f.op, f.inner)
    BY <2>1 DEF Joined, Unary
  <2>2. CASE f.op \in BinaryOps /\ f.left \in parts /\ f.right \in parts
             /\ f = Binary(f.op, f.left, f.right)
    BY <2>2 DEF Joined, Binary
  <2> QED BY <1>2, <2>1, <2>2 DEF Joint
<1> QED BY <1>1, <1>2

\* What the evaluator's formulas are made of.
LEMMA BuildingIs ==
  \A parts, f : f \in Building(parts) <=> Leaf(f) \/ Joint(f, parts) \/ Timed(f, parts)
<1> DEFINE Here(parts) == [op : TemporalOps, inner : parts, unit : Units, amount : Nat,
                           closes : Nat \cup {Unresolved}]
<1>1. \A parts, f : f \in Here(parts) => Timed(f, parts)
  BY DEF Timed, Temporal
<1>2. \A parts, f : Timed(f, parts) => f \in Here(parts)
  BY DEF Timed, Temporal
<1>3. \A parts : Building(parts) = Leaves \cup Joined(parts) \cup Here(parts)
  BY DEF Building
<1> HIDE DEF Here
<1> QED BY <1>1, <1>2, <1>3, LeavesAre, JoinedAre

\* What an author's formulas are made of.
LEMMA AuthoringIs ==
  \A parts, f : f \in Authoring(parts) <=> Leaf(f) \/ Joint(f, parts) \/ Clause(f, parts)
<1> DEFINE Always(parts) == [op : {"always"}, inner : parts]
           Ever(parts) == {f \in [op : {"eventually"}, inner : parts, unit : Units, halves : Nat] :
                             [unit |-> f.unit, halves |-> f.halves] \in Bounds}
<1>1. \A parts, f : f \in Always(parts) \/ f \in Ever(parts) => Clause(f, parts)
  <2>1. \A parts, f : f \in Always(parts) => Clause(f, parts)
    BY DEF Clause, Unary
  <2>2. \A parts, f : f \in Ever(parts) => Clause(f, parts)
    BY DEF Clause, Eventually
  <2> QED BY <2>1, <2>2
<1>2. \A parts, f : Clause(f, parts) => f \in Always(parts) \/ f \in Ever(parts)
  BY DEF Clause, Unary, Eventually
<1>3. \A parts : Authoring(parts) = Leaves \cup Joined(parts) \cup Always(parts) \cup Ever(parts)
  BY DEF Authoring
<1> HIDE DEF Always, Ever
<1> QED BY <1>1, <1>2, <1>3, LeavesAre, JoinedAre

\* The lowest level of each hierarchy, and each next one.
LEMMA LevelZero == Built[0] = Leaves /\ Authored[0] = Leaves
<1>1. Built[0] = IF 0 = 0 THEN Leaves ELSE Building(Built[0 - 1])
  BY BuiltLevels
<1>2. Authored[0] = IF 0 = 0 THEN Leaves ELSE Authoring(Authored[0 - 1])
  BY AuthoredLevels
<1> QED BY <1>1, <1>2

\* Each level is made of the formulas of the one before it.
LEMMA LevelNext ==
  \A n \in Nat : Built[n + 1] = Building(Built[n]) /\ Authored[n + 1] = Authoring(Authored[n])
<1> SUFFICES ASSUME NEW n \in Nat
             PROVE Built[n + 1] = Building(Built[n]) /\ Authored[n + 1] = Authoring(Authored[n])
  OBVIOUS
<1>1. n + 1 \in Nat /\ n + 1 # 0 /\ (n + 1) - 1 = n
  OBVIOUS
<1>2. Built[n + 1] = IF n + 1 = 0 THEN Leaves ELSE Building(Built[(n + 1) - 1])
  BY BuiltLevels, <1>1
<1>3. Authored[n + 1] = IF n + 1 = 0 THEN Leaves ELSE Authoring(Authored[(n + 1) - 1])
  BY AuthoredLevels, <1>1
<1> QED BY <1>1, <1>2, <1>3

\* A level holds the one before it.
LEMMA LevelsRise == \A n \in Nat : Built[n] \subseteq Built[n + 1] /\ Authored[n] \subseteq Authored[n + 1]
<1> DEFINE T == {n \in Nat : Built[n] \subseteq Built[n + 1] /\ Authored[n] \subseteq Authored[n + 1]}
<1>1. 0 \in T
  <2>1. Built[0 + 1] = Building(Built[0]) /\ Authored[0 + 1] = Authoring(Authored[0])
    BY LevelNext
  <2>2. \A parts : Leaves \subseteq Building(parts) /\ Leaves \subseteq Authoring(parts)
    BY DEF Building, Authoring
  <2> QED BY <2>1, <2>2, LevelZero
<1>2. ASSUME NEW n \in Nat, n \in T PROVE n + 1 \in T
  <2>1. \A p, q \in {Built[n], Built[n + 1]} : p \subseteq q => Building(p) \subseteq Building(q)
    BY BuildingIs DEF Joint, Timed
  <2>2. \A p, q \in {Authored[n], Authored[n + 1]} : p \subseteq q => Authoring(p) \subseteq Authoring(q)
    BY AuthoringIs DEF Joint, Clause
  <2>3. n + 1 \in Nat
    OBVIOUS
  <2>4. Built[(n + 1) + 1] = Building(Built[n + 1]) /\ Authored[(n + 1) + 1] = Authoring(Authored[n + 1])
    BY <2>3, LevelNext
  <2>5. Built[n + 1] = Building(Built[n]) /\ Authored[n + 1] = Authoring(Authored[n])
    BY LevelNext
  <2> QED BY <1>2, <2>1, <2>2, <2>3, <2>4, <2>5
<1> HIDE DEF T
<1>3. Nat \subseteq T
  BY <1>1, <1>2, NatSteps
<1> QED BY <1>3 DEF T

\* A level holds all those below it.
LEMMA LevelsGrow ==
  \A n, m \in Nat : n <= m => Built[n] \subseteq Built[m] /\ Authored[n] \subseteq Authored[m]
<1>1. ASSUME NEW n \in Nat
      PROVE \A d \in Nat : Built[n] \subseteq Built[n + d] /\ Authored[n] \subseteq Authored[n + d]
  <2> DEFINE T == {d \in Nat : Built[n] \subseteq Built[n + d] /\ Authored[n] \subseteq Authored[n + d]}
  <2>1. 0 \in T
    OBVIOUS
  <2>2. ASSUME NEW d \in Nat, d \in T PROVE d + 1 \in T
    <3>1. n + d \in Nat /\ n + (d + 1) = (n + d) + 1
      OBVIOUS
    <3>2. Built[n + d] \subseteq Built[(n + d) + 1] /\ Authored[n + d] \subseteq Authored[(n + d) + 1]
      BY <3>1, LevelsRise
    <3>3. Built[n] \subseteq Built[n + d] /\ Authored[n] \subseteq Authored[n + d]
      BY <2>2
    <3>4. d + 1 \in Nat
      OBVIOUS
    <3>5. Built[n] \subseteq Built[n + (d + 1)] /\ Authored[n] \subseteq Authored[n + (d + 1)]
      BY <3>1, <3>2, <3>3
    <3> QED BY <3>4, <3>5
  <2> HIDE DEF T
  <2>3. Nat \subseteq T
    BY <2>1, <2>2, NatSteps
  <2> QED BY <2>3 DEF T
<1>2. ASSUME NEW n \in Nat, NEW m \in Nat, n <= m
      PROVE  Built[n] \subseteq Built[m] /\ Authored[n] \subseteq Authored[m]
  <2>1. m - n \in Nat /\ n + (m - n) = m
    BY <1>2
  <2>2. Built[n] \subseteq Built[n + (m - n)] /\ Authored[n] \subseteq Authored[n + (m - n)]
    BY <1>1, <2>1
  <2> QED BY <2>1, <2>2
<1> QED BY <1>2

----------------------------------------------------------------------------
(* Induction and recursion over formulas.                                  *)

Top == Depth + MaxObservations + 3

\* The evaluator's formulas are those of one level, high enough for every residual.
LEMMA TopIs == Top \in Nat /\ Depth \in Nat /\ MaxObservations \in Nat /\ Formula = Built[Top]
  BY DepthAssumption DEF Top, Formula

\* The formulas of any depth.
AnyFormula == UNION {Built[n] : n \in Nat}
Formulas == {Formula, AnyFormula}

\* Structural induction: over the formulas, and over the properties.
LEMMA FormulaSteps ==
  ASSUME NEW S \in Formulas, NEW T,
         \A f \in S : Leaf(f) \/ Joint(f, S \cap T) \/ Timed(f, S \cap T) => f \in T
  PROVE  S \subseteq T
<1> DEFINE U == {n \in Nat : Built[n] \subseteq S => Built[n] \subseteq T}
<1>1. 0 \in U
  BY LevelZero, LeavesAre
<1>2. ASSUME NEW n \in Nat, n \in U PROVE n + 1 \in U
  <2> SUFFICES ASSUME Built[n + 1] \subseteq S, NEW f \in Built[n + 1] PROVE f \in T
    OBVIOUS
  <2>1. Built[n] \subseteq S /\ Built[n] \subseteq T
    BY <1>2, LevelsRise
  <2>2. Leaf(f) \/ Joint(f, Built[n]) \/ Timed(f, Built[n])
    <3>1. Built[n + 1] = Building(Built[n])
      BY LevelNext
    <3> QED BY <3>1, BuildingIs
  <2>3. Joint(f, Built[n]) => Joint(f, S \cap T)
    BY <2>1 DEF Joint
  <2>4. Timed(f, Built[n]) => Timed(f, S \cap T)
    BY <2>1 DEF Timed
  <2> QED BY <2>2, <2>3, <2>4
<1> HIDE DEF U
<1>3. Nat \subseteq U
  BY <1>1, <1>2, NatSteps
<1>4. CASE S = Formula
  <2>1. Top \in U
    BY <1>3, TopIs
  <2> QED BY <1>4, <2>1, TopIs DEF U
<1>5. CASE S = AnyFormula
  <2> SUFFICES ASSUME NEW f \in AnyFormula PROVE f \in T
    BY <1>5
  <2>1. PICK n \in Nat : f \in Built[n]
    BY DEF AnyFormula
  <2>2. n \in U
    BY <1>3
  <2>3. Built[n] \subseteq S
    BY <1>5 DEF AnyFormula
  <2> QED BY <2>1, <2>2, <2>3 DEF U
<1> QED BY <1>4, <1>5 DEF Formulas

\* The same over the properties an author writes.
LEMMA PropertySteps ==
  ASSUME NEW T,
         \A f \in Property :
           Leaf(f) \/ Joint(f, Property \cap T) \/ Clause(f, Property \cap T) => f \in T
  PROVE  Property \subseteq T
<1> DEFINE U == {n \in Nat : n <= Depth => Authored[n] \subseteq T}
<1>1. 0 \in U
  <2> SUFFICES ASSUME NEW f \in Authored[0] PROVE f \in T
    BY TopIs
  <2>1. Leaf(f)
    BY LevelZero, LeavesAre
  <2>2. f \in Property
    <3>1. 0 \in Nat /\ 0 <= Depth
      BY TopIs
    <3> QED BY TopIs, LevelsGrow, <3>1 DEF Property
  <2> QED BY <2>1, <2>2
<1>2. ASSUME NEW n \in Nat, n \in U PROVE n + 1 \in U
  <2> SUFFICES ASSUME n + 1 <= Depth, NEW f \in Authored[n + 1] PROVE f \in T
    OBVIOUS
  <2>1. n + 1 \in Nat /\ n <= Depth
    BY TopIs
  <2>2. Authored[n] \subseteq Property /\ Authored[n + 1] \subseteq Property
    BY <2>1, TopIs, LevelsGrow DEF Property
  <2>3. Authored[n] \subseteq T
    BY <1>2, <2>1
  <2>4. Leaf(f) \/ Joint(f, Authored[n]) \/ Clause(f, Authored[n])
    <3>1. Authored[n + 1] = Authoring(Authored[n])
      BY LevelNext
    <3> QED BY <3>1, AuthoringIs
  <2>5. Joint(f, Authored[n]) => Joint(f, Property \cap T)
    BY <2>2, <2>3 DEF Joint
  <2>6. Clause(f, Authored[n]) => Clause(f, Property \cap T)
    BY <2>2, <2>3 DEF Clause
  <2> QED BY <2>2, <2>4, <2>5, <2>6
<1> HIDE DEF U
<1>3. Nat \subseteq U
  BY <1>1, <1>2, NatSteps
<1>4. Depth \in U
  BY <1>3, TopIs
<1> QED BY <1>4, TopIs DEF U, Property

\* Every formula has its parts among the formulas, at a lower level.
Rank(levels, f) == CHOOSE n \in Nat : f \in levels[n] /\ \A m \in Nat : f \in levels[m] => n <= m
Smaller(levels, S, f) == {g \in S : Rank(levels, g) < Rank(levels, f)}

\* The rank of a formula is its lowest level.
LEMMA RankIs ==
  ASSUME NEW levels, NEW f, NEW k \in Nat, f \in levels[k]
  PROVE  /\ Rank(levels, f) \in Nat /\ f \in levels[Rank(levels, f)]
         /\ \A m \in Nat : f \in levels[m] => Rank(levels, f) <= m
<1> DEFINE U == {n \in Nat : f \in levels[n]}
<1>1. \E n \in U : \A m \in U : n <= m
  BY Least
<1>2. \E n \in Nat : f \in levels[n] /\ \A m \in Nat : f \in levels[m] => n <= m
  BY <1>1
<1> QED BY <1>2 DEF Rank

\* The parts of an evaluator's formula are of lower rank.
LEMMA FormulaParts ==
  ASSUME NEW S \in Formulas, NEW f \in S
  PROVE  Leaf(f) \/ Joint(f, Smaller(Built, S, f)) \/ Timed(f, Smaller(Built, S, f))
<1> DEFINE r == Rank(Built, f)
<1>1. r \in Nat /\ f \in Built[r] /\ Built[r] \subseteq S
  <2>1. CASE S = Formula
    <3>1. r \in Nat /\ f \in Built[r] /\ r <= Top
      BY RankIs, TopIs, <2>1
    <3> HIDE DEF r
    <3> QED BY TopIs, LevelsGrow, <2>1, <3>1
  <2>2. CASE S = AnyFormula
    <3>1. PICK n \in Nat : f \in Built[n]
      BY <2>2 DEF AnyFormula
    <3>2. r \in Nat /\ f \in Built[r]
      BY RankIs, <3>1
    <3> QED BY <2>2, <3>2 DEF AnyFormula
  <2> QED BY <2>1, <2>2 DEF Formulas
<1>2. CASE r = 0
  BY <1>1, <1>2, LevelZero, LeavesAre
<1>3. CASE r # 0
  <2>1. r - 1 \in Nat /\ r = (r - 1) + 1
    BY <1>1, <1>3
  <2>2. Built[r] = Building(Built[r - 1]) /\ Built[r - 1] \subseteq Built[r]
    BY <2>1, LevelNext, LevelsRise
  <2>3. ASSUME NEW g \in Built[r - 1] PROVE g \in Smaller(Built, S, f)
    <3>1. g \in S
      BY <1>1, <2>2
    <3>2. Rank(Built, g) \in Nat /\ Rank(Built, g) <= r - 1
      BY <2>1, RankIs
    <3> HIDE DEF r
    <3>3. Rank(Built, g) < r
      BY <3>2, <1>1
    <3> QED BY <3>1, <3>3 DEF Smaller, r
  <2>4. Leaf(f) \/ Joint(f, Built[r - 1]) \/ Timed(f, Built[r - 1])
    BY <1>1, <2>2, BuildingIs
  <2> HIDE DEF r
  <2> QED BY <2>3, <2>4 DEF Joint, Timed
<1> QED BY <1>2, <1>3

\* The parts of a property are of lower rank.
LEMMA PropertyParts ==
  ASSUME NEW f \in Property
  PROVE  Leaf(f) \/ Joint(f, Smaller(Authored, Property, f)) \/ Clause(f, Smaller(Authored, Property, f))
<1> DEFINE r == Rank(Authored, f)
<1>1. r \in Nat /\ r <= Depth /\ f \in Authored[r]
  BY RankIs, TopIs DEF Property
<1>2. CASE r = 0
  BY <1>1, <1>2, LevelZero, LeavesAre
<1>3. CASE r # 0
  <2>1. r - 1 \in Nat /\ r = (r - 1) + 1 /\ r - 1 <= Depth
    BY <1>1, <1>3, TopIs
  <2>2. Authored[r] = Authoring(Authored[r - 1])
    BY <2>1, LevelNext
  <2>3. ASSUME NEW g \in Authored[r - 1] PROVE g \in Smaller(Authored, Property, f)
    <3>1. g \in Property
      BY <2>1, TopIs, LevelsGrow DEF Property
    <3>2. Rank(Authored, g) \in Nat /\ Rank(Authored, g) <= r - 1
      BY <2>1, RankIs
    <3> HIDE DEF r
    <3>3. Rank(Authored, g) < r
      BY <3>2, <1>1
    <3> QED BY <3>1, <3>3 DEF Smaller, r
  <2>4. Leaf(f) \/ Joint(f, Authored[r - 1]) \/ Clause(f, Authored[r - 1])
    BY <1>1, <2>2, AuthoringIs
  <2> HIDE DEF r
  <2> QED BY <2>3, <2>4 DEF Joint, Clause
<1> QED BY <1>2, <1>3

\* Where the depth is not bounded, formulas are exactly those made of formulas.
LEMMA AnyFormulaIs ==
  \A f : f \in AnyFormula <=> Leaf(f) \/ Joint(f, AnyFormula) \/ Timed(f, AnyFormula)
<1>1. ASSUME NEW f \in AnyFormula
      PROVE Leaf(f) \/ Joint(f, AnyFormula) \/ Timed(f, AnyFormula)
  <2>1. PICK n \in Nat : f \in Built[n]
    BY DEF AnyFormula
  <2>2. f \in Built[n + 1] /\ Built[n + 1] = Building(Built[n])
    BY <2>1, LevelsRise, LevelNext
  <2>3. Leaf(f) \/ Joint(f, Built[n]) \/ Timed(f, Built[n])
    BY <2>2, BuildingIs
  <2>4. Built[n] \subseteq AnyFormula
    BY DEF AnyFormula
  <2>5. Joint(f, Built[n]) => Joint(f, AnyFormula)
    BY <2>4 DEF Joint
  <2>6. Timed(f, Built[n]) => Timed(f, AnyFormula)
    BY <2>4 DEF Timed
  <2> QED BY <2>3, <2>5, <2>6
<1>2. ASSUME NEW f, NEW n \in Nat, Leaf(f) \/ Joint(f, Built[n]) \/ Timed(f, Built[n])
      PROVE  f \in AnyFormula
  <2>1. n + 1 \in Nat
    OBVIOUS
  <2>2. f \in Built[n + 1]
    BY <1>2, LevelNext, BuildingIs
  <2> QED BY <2>1, <2>2 DEF AnyFormula
<1>3. ASSUME NEW f, Leaf(f) PROVE f \in AnyFormula
  BY <1>2, <1>3
<1>4. ASSUME NEW f, f.op \in UnaryOps, f.inner \in AnyFormula, f = Unary(f.op, f.inner)
      PROVE  f \in AnyFormula
  <2>1. PICK n \in Nat : f.inner \in Built[n]
    BY <1>4 DEF AnyFormula
  <2>2. Joint(f, Built[n])
    BY <1>4, <2>1 DEF Joint
  <2> QED BY <1>2, <2>2
<1>5. ASSUME NEW f, f.op \in BinaryOps, f.left \in AnyFormula, f.right \in AnyFormula,
             f = Binary(f.op, f.left, f.right)
      PROVE  f \in AnyFormula
  <2>1. PICK n \in Nat : f.left \in Built[n]
    BY <1>5 DEF AnyFormula
  <2>2. PICK m \in Nat : f.right \in Built[m]
    BY <1>5 DEF AnyFormula
  <2>3. PICK k \in Nat : n <= k /\ m <= k
    <3>1. n + m \in Nat /\ n <= n + m /\ m <= n + m
      OBVIOUS
    <3> QED BY <3>1
  <2>4. f.left \in Built[k] /\ f.right \in Built[k]
    BY <2>1, <2>2, <2>3, LevelsGrow
  <2>5. Joint(f, Built[k])
    BY <1>5, <2>4 DEF Joint
  <2> QED BY <1>2, <2>5
<1>6. ASSUME NEW f, Timed(f, AnyFormula) PROVE f \in AnyFormula
  <2>1. PICK n \in Nat : f.inner \in Built[n]
    BY <1>6 DEF AnyFormula, Timed
  <2>2. Timed(f, Built[n])
    BY <1>6, <2>1 DEF Timed
  <2> QED BY <1>2, <2>2
<1> QED BY <1>1, <1>3, <1>4, <1>5, <1>6 DEF Joint

\* A recursive function over the formulas, or over the properties, is well defined.
LEMMA FormulaRecursion ==
  ASSUME NEW S \in Formulas, NEW V, V # {}, NEW Step \in [[S -> V] -> [S -> V]],
         \A g, h \in [S -> V] : \A f \in S :
           (\A x \in Smaller(Built, S, f) : g[x] = h[x]) => Step[g][f] = Step[h][f]
  PROVE  \E F \in [S -> V] : F = Step[F]
<1> DEFINE rank == [f \in S |-> Rank(Built, f)]
<1>1. rank \in [S -> Nat]
  <2>1. ASSUME NEW f \in S PROVE Rank(Built, f) \in Nat
    <3>1. PICK n \in Nat : f \in Built[n]
      BY TopIs DEF Formulas, AnyFormula
    <3> QED BY RankIs, <3>1
  <2> QED BY <2>1
<1>2. ASSUME NEW g \in [S -> V], NEW h \in [S -> V], NEW f \in S,
             \A y \in S : rank[y] < rank[f] => g[y] = h[y]
      PROVE  Step[g][f] = Step[h][f]
  BY <1>2 DEF Smaller
<1> HIDE DEF rank
<1>3. Grounded(S, V, rank, Step)
  BY <1>1, <1>2 DEF Grounded
<1> QED BY <1>3, Recursion

\* The same over the properties.
LEMMA PropertyRecursion ==
  ASSUME NEW V, V # {}, NEW Step \in [[Property -> V] -> [Property -> V]],
         \A g, h \in [Property -> V] : \A f \in Property :
           (\A x \in Smaller(Authored, Property, f) : g[x] = h[x]) => Step[g][f] = Step[h][f]
  PROVE  \E F \in [Property -> V] : F = Step[F]
<1> DEFINE rank == [f \in Property |-> Rank(Authored, f)]
<1>1. rank \in [Property -> Nat]
  BY RankIs, TopIs DEF Property
<1>2. ASSUME NEW g \in [Property -> V], NEW h \in [Property -> V], NEW f \in Property,
             \A y \in Property : rank[y] < rank[f] => g[y] = h[y]
      PROVE  Step[g][f] = Step[h][f]
  BY <1>2 DEF Smaller
<1> HIDE DEF rank
<1>3. Grounded(Property, V, rank, Step)
  BY <1>1, <1>2 DEF Grounded
<1> QED BY <1>3, Recursion

----------------------------------------------------------------------------
(* The recursive functions of the model.                                   *)

\* The recursive functions of the model satisfy the equations that define them.
Shapes == [nnf : AnyFormula, pushNot : AnyFormula]

\* A constant is a formula.
LEMMA PureShape == \A b \in BOOLEAN : Pure(b) \in AnyFormula
  BY AnyFormulaIs DEF Leaf, Pure

\* An operator with one operand makes a formula of a formula.
LEMMA UnaryShape == \A op \in UnaryOps, f \in AnyFormula : Unary(op, f) \in AnyFormula
<1> SUFFICES ASSUME NEW op \in UnaryOps, NEW f \in AnyFormula PROVE Unary(op, f) \in AnyFormula
  OBVIOUS
<1>1. Joint(Unary(op, f), AnyFormula)
  BY DEF Joint, Unary
<1> QED BY <1>1, AnyFormulaIs

\* An operator with two operands makes a formula of two.
LEMMA BinaryShape ==
  \A op \in BinaryOps, f \in AnyFormula, g \in AnyFormula : Binary(op, f, g) \in AnyFormula
<1> SUFFICES ASSUME NEW op \in BinaryOps, NEW f \in AnyFormula, NEW g \in AnyFormula
             PROVE  Binary(op, f, g) \in AnyFormula
  OBVIOUS
<1>1. Joint(Binary(op, f, g), AnyFormula)
  BY DEF Joint, Binary
<1> QED BY <1>1, AnyFormulaIs

\* A temporal operator makes a formula of a formula, whatever its window.
LEMMA TemporalShape ==
  \A op \in TemporalOps, f \in AnyFormula, unit \in Units, amount \in Nat,
     closes \in Nat \cup {Unresolved} : Temporal(op, f, unit, amount, closes) \in AnyFormula
<1> SUFFICES ASSUME NEW op \in TemporalOps, NEW f \in AnyFormula, NEW unit \in Units,
                    NEW amount \in Nat, NEW closes \in Nat \cup {Unresolved}
             PROVE  Temporal(op, f, unit, amount, closes) \in AnyFormula
  OBVIOUS
<1>1. Timed(Temporal(op, f, unit, amount, closes), AnyFormula)
  BY DEF Timed, Temporal
<1> QED BY <1>1, AnyFormulaIs

\* nnf and pushNot of one formula, operator by operator.
LEMMA FormsAre ==
  ASSUME NEW f, NEW g
  PROVE
  /\ f.op = "pure" =>
       Forms(f, g) = [nnf |-> f,
                      pushNot |-> Pure(~f.value)]
  /\ f.op = "thunk" =>
       Forms(f, g) = [nnf |-> f,
                      pushNot |-> Unary("not", f)]
  /\ f.op = "not" =>
       Forms(f, g) = [nnf |-> g[f.inner].pushNot,
                      pushNot |-> g[f.inner].nnf]
  /\ f.op = "now" =>
       Forms(f, g) = [nnf |-> Unary("now", g[f.inner].nnf),
                      pushNot |-> Unary("now", g[f.inner].pushNot)]
  /\ f.op = "next" =>
       Forms(f, g) = [nnf |-> Unary("next", g[f.inner].nnf),
                      pushNot |-> Unary("next", g[f.inner].pushNot)]
  /\ f.op = "and" =>
       Forms(f, g) = [nnf |-> Binary("and", g[f.left].nnf, g[f.right].nnf),
                      pushNot |-> Binary("or", g[f.left].pushNot, g[f.right].pushNot)]
  /\ f.op = "or" =>
       Forms(f, g) = [nnf |-> Binary("or", g[f.left].nnf, g[f.right].nnf),
                      pushNot |-> Binary("and", g[f.left].pushNot, g[f.right].pushNot)]
  /\ f.op = "implies" =>
       Forms(f, g) = [nnf |-> Binary("or", g[f.left].pushNot, g[f.right].nnf),
                      pushNot |-> Binary("and", g[f.left].nnf, g[f.right].pushNot)]
  /\ f.op = "always" =>
       Forms(f, g) = [nnf |-> Temporal("always", g[f.inner].nnf, f.unit, f.amount, f.closes),
                      pushNot |-> Temporal("eventually", g[f.inner].pushNot, f.unit, f.amount, f.closes)]
  /\ f.op = "eventually" =>
       Forms(f, g) = [nnf |-> Temporal("eventually", g[f.inner].nnf, f.unit, f.amount, f.closes),
                      pushNot |-> Temporal("always", g[f.inner].pushNot, f.unit, f.amount, f.closes)]
<1>0. /\ Dual["and"] = "or" /\ Dual["or"] = "and" /\ Dual["always"] = "eventually"
      /\ Dual["eventually"] = "always"
  BY DEF Dual
<1>1. ASSUME f.op = "pure"
      PROVE  Forms(f, g) = [nnf |-> f,
                            pushNot |-> Pure(~f.value)]
  BY <1>0, <1>1 DEF Forms, TemporalOps
<1>2. ASSUME f.op = "thunk"
      PROVE  Forms(f, g) = [nnf |-> f,
                            pushNot |-> Unary("not", f)]
  BY <1>0, <1>2 DEF Forms, TemporalOps
<1>3. ASSUME f.op = "not"
      PROVE  Forms(f, g) = [nnf |-> g[f.inner].pushNot,
                            pushNot |-> g[f.inner].nnf]
  BY <1>0, <1>3 DEF Forms, TemporalOps
<1>4. ASSUME f.op = "now"
      PROVE  Forms(f, g) = [nnf |-> Unary("now", g[f.inner].nnf),
                            pushNot |-> Unary("now", g[f.inner].pushNot)]
  BY <1>0, <1>4 DEF Forms, TemporalOps
<1>5. ASSUME f.op = "next"
      PROVE  Forms(f, g) = [nnf |-> Unary("next", g[f.inner].nnf),
                            pushNot |-> Unary("next", g[f.inner].pushNot)]
  BY <1>0, <1>5 DEF Forms, TemporalOps
<1>6. ASSUME f.op = "and"
      PROVE  Forms(f, g) = [nnf |-> Binary("and", g[f.left].nnf, g[f.right].nnf),
                            pushNot |-> Binary("or", g[f.left].pushNot, g[f.right].pushNot)]
  BY <1>0, <1>6 DEF Forms, TemporalOps
<1>7. ASSUME f.op = "or"
      PROVE  Forms(f, g) = [nnf |-> Binary("or", g[f.left].nnf, g[f.right].nnf),
                            pushNot |-> Binary("and", g[f.left].pushNot, g[f.right].pushNot)]
  BY <1>0, <1>7 DEF Forms, TemporalOps
<1>8. ASSUME f.op = "implies"
      PROVE  Forms(f, g) = [nnf |-> Binary("or", g[f.left].pushNot, g[f.right].nnf),
                            pushNot |-> Binary("and", g[f.left].nnf, g[f.right].pushNot)]
  BY <1>0, <1>8 DEF Forms, ImpliesRewritten, TemporalOps
<1>9. ASSUME f.op = "always"
      PROVE  Forms(f, g) = [nnf |-> Temporal("always", g[f.inner].nnf, f.unit, f.amount, f.closes),
                            pushNot |-> Temporal("eventually", g[f.inner].pushNot, f.unit, f.amount, f.closes)]
  BY <1>0, <1>9 DEF Forms, TemporalOps
<1>10. ASSUME f.op = "eventually"
      PROVE  Forms(f, g) = [nnf |-> Temporal("eventually", g[f.inner].nnf, f.unit, f.amount, f.closes),
                            pushNot |-> Temporal("always", g[f.inner].pushNot, f.unit, f.amount, f.closes)]
  BY <1>0, <1>10 DEF Forms, TemporalOps
<1> QED BY <1>1, <1>2, <1>3, <1>4, <1>5, <1>6, <1>7, <1>8, <1>9, <1>10

\* The normal forms satisfy the recursion that defines them (nnf, pushNot).
LEMMA NormalIs ==
  Normal \in [Formula -> Shapes] /\ Normal = [f \in Formula |-> Forms(f, Normal)]
<1>1. ASSUME NEW g, NEW f \in Formula, NEW parts,
             Leaf(f) \/ Joint(f, parts) \/ Timed(f, parts), \A x \in parts : g[x] \in Shapes
      PROVE  Forms(f, g) \in Shapes
  <2>0. f \in AnyFormula
    BY TopIs DEF AnyFormula
  <2>1. \A x \in parts : g[x].nnf \in AnyFormula /\ g[x].pushNot \in AnyFormula
    BY <1>1 DEF Shapes
  <2>2. \A x, y \in AnyFormula : [nnf |-> x, pushNot |-> y] \in Shapes
    BY DEF Shapes
  <2>3. CASE Leaf(f)
    <3>1. CASE f.op = "pure" /\ f.value \in BOOLEAN
      <4>1. Pure(~f.value) \in AnyFormula
        BY <3>1, PureShape
      <4> QED BY <2>0, <2>2, <3>1, <4>1, FormsAre
    <3>2. CASE f.op = "thunk"
      <4>1. Unary("not", f) \in AnyFormula
        BY <2>0, UnaryShape DEF UnaryOps
      <4> QED BY <2>0, <2>2, <3>2, <4>1, FormsAre
    <3> QED BY <2>3, <3>1, <3>2 DEF Leaf
  <2>4. CASE f.op \in UnaryOps /\ f.inner \in parts
    <3>1. CASE f.op = "not"
      BY <2>1, <2>2, <2>4, <3>1, FormsAre
    <3>2. CASE f.op \in {"now", "next"}
      <4>1. Unary(f.op, g[f.inner].nnf) \in AnyFormula /\ Unary(f.op, g[f.inner].pushNot) \in AnyFormula
        BY <2>1, <2>4, UnaryShape
      <4> QED BY <2>2, <3>2, <4>1, FormsAre
    <3> QED BY <2>4, <3>1, <3>2 DEF UnaryOps
  <2>5. CASE f.op \in BinaryOps /\ f.left \in parts /\ f.right \in parts
    <3>1. \A op \in BinaryOps : \A x, y \in {g[f.left].nnf, g[f.left].pushNot, g[f.right].nnf, g[f.right].pushNot} :
            Binary(op, x, y) \in AnyFormula
      BY <2>1, <2>5, BinaryShape
    <3>2. "and" \in BinaryOps /\ "or" \in BinaryOps
      BY DEF BinaryOps
    <3>3. CASE f.op = "and"
      BY <2>2, <2>5, <3>1, <3>2, <3>3, FormsAre
    <3>4. CASE f.op = "or"
      BY <2>2, <2>5, <3>1, <3>2, <3>4, FormsAre
    <3>5. CASE f.op = "implies"
      BY <2>2, <2>5, <3>1, <3>2, <3>5, FormsAre
    <3> QED BY <2>5, <3>3, <3>4, <3>5 DEF BinaryOps
  <2>6. CASE Timed(f, parts)
    <3>1. \A op \in TemporalOps : \A x \in {g[f.inner].nnf, g[f.inner].pushNot} :
            Temporal(op, x, f.unit, f.amount, f.closes) \in AnyFormula
      BY <2>1, <2>6, TemporalShape DEF Timed
    <3>2. "always" \in TemporalOps /\ "eventually" \in TemporalOps /\ f.op \in TemporalOps
      BY <2>6 DEF TemporalOps, Timed
    <3> QED BY <2>2, <3>1, <3>2, FormsAre DEF TemporalOps
  <2> QED BY <1>1, <2>3, <2>4, <2>5, <2>6 DEF Joint
<1>2. ASSUME NEW g \in [Formula -> Shapes], NEW h \in [Formula -> Shapes], NEW f \in Formula,
             \A x \in Smaller(Built, Formula, f) : g[x] = h[x]
      PROVE  Forms(f, g) = Forms(f, h)
  <2>2. Leaf(f) \/ Joint(f, Smaller(Built, Formula, f)) \/ Timed(f, Smaller(Built, Formula, f))
    BY FormulaParts DEF Formulas
  <2>3. CASE Leaf(f)
    BY <2>3 DEF Leaf, Forms
  <2>4. CASE f.op \in UnaryOps /\ g[f.inner] = h[f.inner]
    BY <2>4 DEF Forms, UnaryOps
  <2>5. CASE f.op \in BinaryOps /\ g[f.left] = h[f.left] /\ g[f.right] = h[f.right]
    BY <2>5 DEF Forms, BinaryOps, ImpliesRewritten
  <2>6. CASE f.op \in TemporalOps /\ g[f.inner] = h[f.inner]
    BY <2>6 DEF Forms, TemporalOps
  <2> QED BY <1>2, <2>2, <2>3, <2>4, <2>5, <2>6 DEF Joint, Timed
<1> DEFINE Step == [g \in [Formula -> Shapes] |-> [f \in Formula |-> Forms(f, g)]]
<1>3. Step \in [[Formula -> Shapes] -> [Formula -> Shapes]]
  <2> SUFFICES ASSUME NEW g \in [Formula -> Shapes], NEW f \in Formula PROVE Forms(f, g) \in Shapes
    OBVIOUS
  <2>1. \A x \in Smaller(Built, Formula, f) : g[x] \in Shapes
    BY DEF Smaller
  <2> QED BY <1>1, <2>1, FormulaParts DEF Formulas
<1>4. \A g, h \in [Formula -> Shapes] : \A f \in Formula :
        (\A x \in Smaller(Built, Formula, f) : g[x] = h[x]) => Step[g][f] = Step[h][f]
  BY <1>2
<1>5. Shapes # {}
  <2>1. [nnf |-> Pure(TRUE), pushNot |-> Pure(TRUE)] \in Shapes
    BY PureShape DEF Shapes
  <2> QED BY <2>1
<1>6. \E F \in [Formula -> Shapes] : F = Step[F]
  <2> HIDE DEF Step
  <2> QED BY <1>3, <1>4, <1>5, FormulaRecursion DEF Formulas
<1>7. PICK F \in [Formula -> Shapes] : F = [f \in Formula |-> Forms(f, F)]
  BY <1>6
<1>8. Normal = CHOOSE Fn : Fn = [f \in Formula |-> Forms(f, Fn)]
  BY DEF Normal
<1>9. Normal = [f \in Formula |-> Forms(f, Normal)]
  BY <1>7, <1>8
<1>10. Formula \subseteq {f \in Formula : Normal[f] \in Shapes}
  <2> DEFINE T == {f \in Formula : Normal[f] \in Shapes}
  <2>1. ASSUME NEW f \in Formula, Leaf(f) \/ Joint(f, Formula \cap T) \/ Timed(f, Formula \cap T)
        PROVE  f \in T
    <3>1. \A x \in Formula \cap T : Normal[x] \in Shapes
      OBVIOUS
    <3>2. Forms(f, Normal) \in Shapes
      <4> HIDE DEF T
      <4> QED BY <1>1, <2>1, <3>1
    <3>3. Normal[f] = Forms(f, Normal)
      BY <1>9
    <3> QED BY <3>2, <3>3
  <2> HIDE DEF T
  <2>2. Formula \subseteq T
    BY <2>1, FormulaSteps DEF Formulas
  <2> QED BY <2>2 DEF T
<1> QED BY <1>9, <1>10

\* Building one formula, operator by operator.
LEMMA NodesAre ==
  ASSUME NEW f, NEW g
  PROVE
  /\ f.op \in {"pure", "thunk"} => Node(f, g) = f
  /\ f.op \in UnaryOps => Node(f, g) = Unary(f.op, g[f.inner])
  /\ f.op \in BinaryOps => Node(f, g) = Binary(f.op, g[f.left], g[f.right])
  /\ f.op = "always" => Node(f, g) = Temporal("always", g[f.inner], "none", 0, Unresolved)
  /\ f.op = "eventually" =>
       Node(f, g) = Temporal("eventually", g[f.inner], Window(f.unit, f.halves).unit,
                             Window(f.unit, f.halves).amount, Unresolved)
<1>1. ASSUME f.op \in {"pure", "thunk"} PROVE Node(f, g) = f
  BY <1>1 DEF Node, UnaryOps, BinaryOps
<1>2. ASSUME f.op \in UnaryOps PROVE Node(f, g) = Unary(f.op, g[f.inner])
  BY <1>2 DEF Node, UnaryOps, BinaryOps
<1>3. ASSUME f.op \in BinaryOps PROVE Node(f, g) = Binary(f.op, g[f.left], g[f.right])
  BY <1>3 DEF Node, UnaryOps, BinaryOps
<1>4. ASSUME f.op = "always"
      PROVE  Node(f, g) = Temporal("always", g[f.inner], "none", 0, Unresolved)
  BY <1>4 DEF Node, UnaryOps, BinaryOps
<1>5. ASSUME f.op = "eventually"
      PROVE  Node(f, g) = Temporal("eventually", g[f.inner], Window(f.unit, f.halves).unit,
                                   Window(f.unit, f.halves).amount, Unresolved)
  BY <1>5 DEF Node, UnaryOps, BinaryOps
<1> QED BY <1>1, <1>2, <1>3, <1>4, <1>5

\* What .within makes of its argument is a window.
LEMMA WindowShape ==
  \A unit \in Units, halves \in Nat :
    Window(unit, halves).unit \in Units /\ Window(unit, halves).amount \in Nat
<1> SUFFICES ASSUME NEW unit \in Units, NEW halves \in Nat
             PROVE  Window(unit, halves).unit \in Units /\ Window(unit, halves).amount \in Nat
  OBVIOUS
<1>0. halves \div 2 \in Nat /\ 2 * (halves \div 2) \in Nat
  OBVIOUS
<1>1. CASE unit = "seconds"
  BY <1>0, <1>1 DEF Window, Units
<1>2. CASE unit = "steps"
  BY <1>0, <1>2 DEF Window, Units
<1>3. CASE unit = "none"
  BY <1>3 DEF Window, Units
<1> QED BY <1>1, <1>2, <1>3 DEF Units

\* Building satisfies the recursion that defines it (buildNode).
LEMMA BuildNodeIs ==
  /\ BuildNode \in [Property -> AnyFormula]
  /\ BuildNode = [f \in Property |-> Node(f, BuildNode)]
<1>1. ASSUME NEW g, NEW f \in Property, NEW parts,
             Leaf(f) \/ Joint(f, parts) \/ Clause(f, parts), \A x \in parts : g[x] \in AnyFormula
      PROVE  Node(f, g) \in AnyFormula
  <2>1. CASE Leaf(f)
    <3>1. f.op \in {"pure", "thunk"}
      BY <2>1 DEF Leaf
    <3> QED BY <2>1, <3>1, NodesAre, AnyFormulaIs
  <2>2. CASE f.op \in UnaryOps /\ f.inner \in parts
    BY <1>1, <2>2, NodesAre, UnaryShape
  <2>3. CASE f.op \in BinaryOps /\ f.left \in parts /\ f.right \in parts
    BY <1>1, <2>3, NodesAre, BinaryShape
  <2>4. CASE f.op = "always" /\ f.inner \in parts
    <3>1. Temporal("always", g[f.inner], "none", 0, Unresolved) \in AnyFormula
      BY <1>1, <2>4, TemporalShape DEF TemporalOps, Units
    <3> QED BY <2>4, <3>1, NodesAre
  <2>5. CASE f.op = "eventually" /\ f.inner \in parts /\ f.unit \in Units /\ f.halves \in Nat
    <3>1. Window(f.unit, f.halves).unit \in Units /\ Window(f.unit, f.halves).amount \in Nat
      BY <2>5, WindowShape
    <3>2. Temporal("eventually", g[f.inner], Window(f.unit, f.halves).unit,
                   Window(f.unit, f.halves).amount, Unresolved) \in AnyFormula
      BY <1>1, <2>5, <3>1, TemporalShape DEF TemporalOps
    <3> QED BY <2>5, <3>2, NodesAre
  <2> QED BY <1>1, <2>1, <2>2, <2>3, <2>4, <2>5 DEF Joint, Clause
<1>2. ASSUME NEW g, NEW h, NEW f \in Property,
             \A x \in Smaller(Authored, Property, f) : g[x] = h[x]
      PROVE  Node(f, g) = Node(f, h)
  <2>1. Leaf(f) \/ Joint(f, Smaller(Authored, Property, f)) \/ Clause(f, Smaller(Authored, Property, f))
    BY PropertyParts
  <2>2. CASE Leaf(f)
    <3>1. f.op \in {"pure", "thunk"}
      BY <2>2 DEF Leaf
    <3> QED BY <3>1, NodesAre
  <2>3. CASE f.op \in UnaryOps /\ g[f.inner] = h[f.inner]
    BY <2>3, NodesAre
  <2>4. CASE f.op \in BinaryOps /\ g[f.left] = h[f.left] /\ g[f.right] = h[f.right]
    BY <2>4, NodesAre
  <2>5. CASE f.op = "always" /\ g[f.inner] = h[f.inner]
    BY <2>5, NodesAre
  <2>6. CASE f.op = "eventually" /\ g[f.inner] = h[f.inner]
    BY <2>6, NodesAre
  <2> QED BY <1>2, <2>1, <2>2, <2>3, <2>4, <2>5, <2>6 DEF Joint, Clause
<1> DEFINE Step == [g \in [Property -> AnyFormula] |-> [f \in Property |-> Node(f, g)]]
<1>3. Step \in [[Property -> AnyFormula] -> [Property -> AnyFormula]]
  <2> SUFFICES ASSUME NEW g \in [Property -> AnyFormula], NEW f \in Property
               PROVE  Node(f, g) \in AnyFormula
    OBVIOUS
  <2>1. \A x \in Smaller(Authored, Property, f) : g[x] \in AnyFormula
    BY DEF Smaller
  <2> QED BY <1>1, <2>1, PropertyParts
<1>4. \A g, h \in [Property -> AnyFormula] : \A f \in Property :
        (\A x \in Smaller(Authored, Property, f) : g[x] = h[x]) => Step[g][f] = Step[h][f]
  BY <1>2
<1>5. AnyFormula # {}
  BY PureShape
<1>6. \E F \in [Property -> AnyFormula] : F = Step[F]
  <2> HIDE DEF Step
  <2> QED BY <1>3, <1>4, <1>5, PropertyRecursion
<1>7. PICK F \in [Property -> AnyFormula] : F = [f \in Property |-> Node(f, F)]
  BY <1>6
<1>8. BuildNode = CHOOSE Fn : Fn = [f \in Property |-> Node(f, Fn)]
  BY DEF BuildNode
<1>9. BuildNode = [f \in Property |-> Node(f, BuildNode)]
  BY <1>7, <1>8
<1>10. Property \subseteq {f \in Property : BuildNode[f] \in AnyFormula}
  <2> DEFINE T == {f \in Property : BuildNode[f] \in AnyFormula}
  <2>1. ASSUME NEW f \in Property, Leaf(f) \/ Joint(f, Property \cap T) \/ Clause(f, Property \cap T)
        PROVE  f \in T
    <3>1. \A x \in Property \cap T : BuildNode[x] \in AnyFormula
      OBVIOUS
    <3>2. Node(f, BuildNode) \in AnyFormula
      <4> HIDE DEF T
      <4> QED BY <1>1, <2>1, <3>1
    <3>3. BuildNode[f] = Node(f, BuildNode)
      BY <1>9
    <3> QED BY <3>2, <3>3
  <2> HIDE DEF T
  <2>2. Property \subseteq T
    BY <2>1, PropertySteps
  <2> QED BY <2>2 DEF T
<1> QED BY <1>9, <1>10

\* Reducing one formula, operator by operator.
Words == {"holds", "violated", "pending"}
Reductions == [status : Words, formula : AnyFormula]
Observation(obs) == obs.index \in Nat \ {0} /\ obs.now \in Nat

\* A reduction of one formula is that of its parts, put together.
LEMMA ReductionsAre ==
  ASSUME NEW f, NEW obs, NEW g
  PROVE
  /\ f.op = "pure" => Reduction(f, obs, g) = Done(IF f.value THEN "holds" ELSE "violated")
  /\ f.op = "thunk" =>
       Reduction(f, obs, g) = Done(IF obs.atoms[f.atom] = "true" THEN "holds" ELSE "violated")
  /\ f.op = "now" => Reduction(f, obs, g) = g[f.inner]
  /\ f.op = "next" => Reduction(f, obs, g) = Pending(f.inner)
  /\ f.op = "not" => Reduction(f, obs, g) = Negate(g[f.inner])
  /\ f.op = "or" => Reduction(f, obs, g) = JoinOr(g[f.left], g[f.right])
  /\ f.op = "and" => Reduction(f, obs, g) = JoinAnd(g[f.left], g[f.right])
  /\ f.op = "implies" => Reduction(f, obs, g) = JoinOr(Negate(g[f.left]), g[f.right])
  /\ f.op = "eventually" =>
       /\ g[f.inner].status = "holds" => Reduction(f, obs, g) = Done("holds")
       /\ g[f.inner].status # "holds" /\ HasClosed(Resolve(f, obs), obs) =>
            Reduction(f, obs, g) = Done("violated")
       /\ g[f.inner].status # "holds" /\ ~ HasClosed(Resolve(f, obs), obs) =>
            Reduction(f, obs, g) = Unroll(Resolve(f, obs), g[f.inner])
  /\ f.op = "always" =>
       /\ g[f.inner].status = "violated" => Reduction(f, obs, g) = Done("violated")
       /\ g[f.inner].status # "violated" /\ HasClosed(Resolve(f, obs), obs) =>
            Reduction(f, obs, g) = Done("holds")
       /\ g[f.inner].status # "violated" /\ ~ HasClosed(Resolve(f, obs), obs) =>
            Reduction(f, obs, g) = JoinAnd(g[f.inner], Pending(Resolve(f, obs)))
<1>1. ASSUME f.op = "pure"
      PROVE  Reduction(f, obs, g) = Done(IF f.value THEN "holds" ELSE "violated")
  BY <1>1 DEF Reduction
<1>2. ASSUME f.op = "thunk"
      PROVE  Reduction(f, obs, g) = Done(IF obs.atoms[f.atom] = "true" THEN "holds" ELSE "violated")
  BY <1>2 DEF Reduction
<1>3. /\ f.op = "now" => Reduction(f, obs, g) = g[f.inner]
      /\ f.op = "next" => Reduction(f, obs, g) = Pending(f.inner)
      /\ f.op = "not" => Reduction(f, obs, g) = Negate(g[f.inner])
  BY DEF Reduction
<1>4. /\ f.op = "or" => Reduction(f, obs, g) = JoinOr(g[f.left], g[f.right])
      /\ f.op = "and" => Reduction(f, obs, g) = JoinAnd(g[f.left], g[f.right])
      /\ f.op = "implies" => Reduction(f, obs, g) = JoinOr(Negate(g[f.left]), g[f.right])
  BY DEF Reduction
<1>5. ASSUME f.op = "eventually"
      PROVE
       /\ g[f.inner].status = "holds" => Reduction(f, obs, g) = Done("holds")
       /\ g[f.inner].status # "holds" /\ HasClosed(Resolve(f, obs), obs) =>
            Reduction(f, obs, g) = Done("violated")
       /\ g[f.inner].status # "holds" /\ ~ HasClosed(Resolve(f, obs), obs) =>
            Reduction(f, obs, g) = Unroll(Resolve(f, obs), g[f.inner])
  BY <1>5 DEF Reduction
<1>6. ASSUME f.op = "always"
      PROVE
       /\ g[f.inner].status = "violated" => Reduction(f, obs, g) = Done("violated")
       /\ g[f.inner].status # "violated" /\ HasClosed(Resolve(f, obs), obs) =>
            Reduction(f, obs, g) = Done("holds")
       /\ g[f.inner].status # "violated" /\ ~ HasClosed(Resolve(f, obs), obs) =>
            Reduction(f, obs, g) = JoinAnd(g[f.inner], Pending(Resolve(f, obs)))
  BY <1>6 DEF Reduction
<1> QED BY <1>1, <1>2, <1>3, <1>4, <1>5, <1>6

\* What the joins of two reductions come to.
LEMMA JoinsAre ==
  ASSUME NEW l \in Reductions, NEW r \in Reductions
  PROVE
  /\ l.status = "holds" \/ r.status = "holds" => JoinOr(l, r) = Done("holds")
  /\ l.status = "violated" /\ r.status # "holds" => JoinOr(l, r) = r
  /\ l.status = "pending" /\ r.status = "violated" => JoinOr(l, r) = l
  /\ l.status = "pending" /\ r.status = "pending" =>
       JoinOr(l, r) = Pending(Binary("or", l.formula, r.formula))
  /\ l.status = "violated" \/ r.status = "violated" => JoinAnd(l, r) = Done("violated")
  /\ l.status = "holds" /\ r.status # "violated" => JoinAnd(l, r) = r
  /\ l.status = "pending" /\ r.status = "holds" => JoinAnd(l, r) = l
  /\ l.status = "pending" /\ r.status = "pending" =>
       JoinAnd(l, r) = Pending(Binary("and", l.formula, r.formula))
<1>0. l.status \in Words /\ r.status \in Words
  BY DEF Reductions
<1>1. /\ l.status = "holds" \/ r.status = "holds" => JoinOr(l, r) = Done("holds")
      /\ l.status = "violated" /\ r.status # "holds" => JoinOr(l, r) = r
      /\ l.status = "pending" /\ r.status = "violated" => JoinOr(l, r) = l
  BY <1>0 DEF JoinOr, Words
<1>2. l.status = "pending" /\ r.status = "pending" =>
       JoinOr(l, r) = Pending(Binary("or", l.formula, r.formula))
  BY <1>0 DEF JoinOr, Words
<1>3. /\ l.status = "violated" \/ r.status = "violated" => JoinAnd(l, r) = Done("violated")
      /\ l.status = "holds" /\ r.status # "violated" => JoinAnd(l, r) = r
      /\ l.status = "pending" /\ r.status = "holds" => JoinAnd(l, r) = l
  BY <1>0 DEF JoinAnd, Words
<1>4. l.status = "pending" /\ r.status = "pending" =>
       JoinAnd(l, r) = Pending(Binary("and", l.formula, r.formula))
  BY <1>0 DEF JoinAnd, Words
<1> QED BY <1>1, <1>2, <1>3, <1>4

\* What reductions are joined to is a reduction.
LEMMA ReductionShape ==
  /\ \A w \in Words : Done(w) \in Reductions
  /\ \A f \in AnyFormula : Pending(f) \in Reductions
  /\ \A r \in Reductions : Negate(r) \in Reductions
  /\ \A l, r \in Reductions : JoinOr(l, r) \in Reductions /\ JoinAnd(l, r) \in Reductions
<1>1. \A w \in Words : Done(w) \in Reductions
  BY PureShape DEF Done, Reductions
<1>2. \A f \in AnyFormula : Pending(f) \in Reductions
  BY DEF Pending, Reductions, Words
<1>3. ASSUME NEW r \in Reductions PROVE Negate(r) \in Reductions
  <2>1. r.status \in Words /\ r.formula \in AnyFormula
    BY DEF Reductions
  <2>2. Unary("not", r.formula) \in AnyFormula
    BY <2>1, UnaryShape DEF UnaryOps
  <2> QED BY <1>1, <1>2, <2>1, <2>2 DEF Negate, Words
<1>4. ASSUME NEW l \in Reductions, NEW r \in Reductions
      PROVE  JoinOr(l, r) \in Reductions /\ JoinAnd(l, r) \in Reductions
  <2>1. /\ l.status \in Words /\ l.formula \in AnyFormula
        /\ r.status \in Words /\ r.formula \in AnyFormula
    BY DEF Reductions
  <2>2. /\ Pending(Binary("or", l.formula, r.formula)) \in Reductions
        /\ Pending(Binary("and", l.formula, r.formula)) \in Reductions
    BY <1>2, <2>1, BinaryShape DEF BinaryOps
  <2>3. Done("holds") \in Reductions /\ Done("violated") \in Reductions
    BY <1>1 DEF Words
  <2> QED BY <2>1, <2>2, <2>3, JoinsAre DEF Words
<1> QED BY <1>1, <1>2, <1>3, <1>4

\* A window that is resolved keeps the formula what it was but for where it closes.
LEMMA ResolveIs ==
  ASSUME NEW f, NEW parts, Timed(f, parts), NEW obs, Observation(obs)
  PROVE
  /\ Resolve(f, obs) = Temporal(f.op, f.inner, f.unit, f.amount, Resolve(f, obs).closes)
  /\ Resolve(f, obs).closes \in Nat \cup {Unresolved}
  /\ f.unit = "none" \/ f.closes # Unresolved => Resolve(f, obs).closes = f.closes
  /\ f.unit # "none" => Resolve(f, obs).closes # Unresolved
  /\ f.unit = "steps" /\ f.closes = Unresolved => Resolve(f, obs).closes = obs.index + f.amount - 1
  /\ f.unit = "seconds" /\ f.closes = Unresolved => Resolve(f, obs).closes = obs.now + f.amount
<1>0. /\ f = [op |-> f.op, inner |-> f.inner, unit |-> f.unit, amount |-> f.amount, closes |-> f.closes]
      /\ f.amount \in Nat /\ f.closes \in Nat \cup {-1} /\ f.unit \in {"none", "steps", "seconds"}
      /\ obs.index \in Nat /\ obs.index >= 1 /\ obs.now \in Nat
  BY DEF Timed, Temporal, Unresolved, Units, Observation
<1>1. CASE f.closes # -1 \/ f.unit = "none"
  <2>1. Resolve(f, obs) = f
    BY <1>1 DEF Resolve, Unresolved
  <2> QED BY <1>0, <1>1, <2>1 DEF Temporal, Unresolved
<1>2. CASE f.closes = -1 /\ f.unit = "steps"
  <2>1. Resolve(f, obs) = [f EXCEPT !.closes = obs.index + f.amount - 1]
    BY <1>2 DEF Resolve, Unresolved, ClosesInObservations
  <2>2. obs.index + f.amount - 1 \in Nat
    BY <1>0
  <2>3. Resolve(f, obs) = [op |-> f.op, inner |-> f.inner, unit |-> f.unit, amount |-> f.amount,
                           closes |-> obs.index + f.amount - 1]
    BY <1>0, <2>1
  <2> QED BY <1>0, <1>2, <2>2, <2>3 DEF Temporal, Unresolved
<1>3. CASE f.closes = -1 /\ f.unit = "seconds"
  <2>1. Resolve(f, obs) = [f EXCEPT !.closes = obs.now + f.amount]
    BY <1>3 DEF Resolve, Unresolved
  <2>2. obs.now + f.amount \in Nat
    BY <1>0
  <2>3. Resolve(f, obs) = [op |-> f.op, inner |-> f.inner, unit |-> f.unit, amount |-> f.amount,
                           closes |-> obs.now + f.amount]
    BY <1>0, <2>1
  <2> QED BY <1>0, <1>3, <2>2, <2>3 DEF Temporal, Unresolved
<1> QED BY <1>0, <1>1, <1>2, <1>3

\* The function that reduces every formula against one observation.
Reducer(obs) == CHOOSE reduce : reduce = [g \in Formula |-> Reduction(g, obs, reduce)]

\* Reducing satisfies the recursion that defines it (reduce).
LEMMA ReducerIs ==
  ASSUME NEW obs, Observation(obs)
  PROVE
  /\ Reducer(obs) \in [Formula -> Reductions]
  /\ Reducer(obs) = [f \in Formula |-> Reduction(f, obs, Reducer(obs))]
  /\ \A f : Reduce(f, obs) = Reducer(obs)[f]
<1>1. ASSUME NEW g, NEW f \in Formula, NEW parts, parts \subseteq AnyFormula,
             Leaf(f) \/ Joint(f, parts) \/ Timed(f, parts), \A x \in parts : g[x] \in Reductions
      PROVE  Reduction(f, obs, g) \in Reductions
  <2>0. f \in AnyFormula
    BY TopIs DEF AnyFormula
  <2>1. CASE Leaf(f)
    <3>1. Done("holds") \in Reductions /\ Done("violated") \in Reductions
      BY ReductionShape DEF Words
    <3>2. f.op \in {"pure", "thunk"}
      BY <2>1 DEF Leaf
    <3> QED BY <3>1, <3>2, ReductionsAre
  <2>2. CASE f.op \in UnaryOps /\ f.inner \in parts
    <3>1. g[f.inner] \in Reductions /\ f.inner \in AnyFormula
      BY <1>1, <2>2
    <3> QED BY <2>2, <3>1, ReductionsAre, ReductionShape DEF UnaryOps
  <2>3. CASE f.op \in BinaryOps /\ f.left \in parts /\ f.right \in parts
    <3>1. g[f.left] \in Reductions /\ g[f.right] \in Reductions /\ Negate(g[f.left]) \in Reductions
      BY <1>1, <2>3, ReductionShape
    <3> QED BY <2>3, <3>1, ReductionsAre, ReductionShape DEF BinaryOps
  <2>4. CASE Timed(f, parts)
    <3> DEFINE h == Resolve(f, obs)
    <3>1. f.inner \in parts /\ f.op \in TemporalOps /\ f.unit \in Units /\ f.amount \in Nat
      BY <2>4 DEF Timed
    <3>2. h = Temporal(f.op, f.inner, f.unit, f.amount, h.closes) /\ h.closes \in Nat \cup {Unresolved}
      BY <2>4, ResolveIs
    <3> HIDE DEF h
    <3>3. h \in AnyFormula
      BY <1>1, <3>1, <3>2, TemporalShape
    <3>4. g[f.inner] \in Reductions
      BY <1>1, <3>1
    <3>5. g[f.inner].formula \in AnyFormula
      BY <3>4 DEF Reductions
    <3>6. Unroll(h, g[f.inner]) \in Reductions
      <4>1. Binary("or", g[f.inner].formula, h) \in AnyFormula
        BY <3>3, <3>5, BinaryShape DEF BinaryOps
      <4> QED BY <3>3, <4>1, ReductionShape DEF Unroll
    <3>7. JoinAnd(g[f.inner], Pending(h)) \in Reductions
      BY <3>3, <3>4, ReductionShape
    <3>8. Done("holds") \in Reductions /\ Done("violated") \in Reductions
      BY ReductionShape DEF Words
    <3> QED BY <3>1, <3>6, <3>7, <3>8, ReductionsAre DEF TemporalOps, h
  <2> QED BY <1>1, <2>1, <2>2, <2>3, <2>4 DEF Joint
<1>2. ASSUME NEW g, NEW h, NEW f \in Formula, \A x \in Smaller(Built, Formula, f) : g[x] = h[x]
      PROVE  Reduction(f, obs, g) = Reduction(f, obs, h)
  <2>1. Leaf(f) \/ Joint(f, Smaller(Built, Formula, f)) \/ Timed(f, Smaller(Built, Formula, f))
    BY FormulaParts DEF Formulas
  <2>2. CASE Leaf(f)
    <3>1. f.op \in {"pure", "thunk"}
      BY <2>2 DEF Leaf
    <3> QED BY <3>1, ReductionsAre
  <2>3. CASE f.op \in UnaryOps /\ g[f.inner] = h[f.inner]
    BY <2>3, ReductionsAre DEF UnaryOps
  <2>4. CASE f.op \in BinaryOps /\ g[f.left] = h[f.left] /\ g[f.right] = h[f.right]
    BY <2>4, ReductionsAre DEF BinaryOps
  <2>5. CASE f.op \in TemporalOps /\ g[f.inner] = h[f.inner]
    BY <2>5, ReductionsAre DEF TemporalOps
  <2> QED BY <1>2, <2>1, <2>2, <2>3, <2>4, <2>5 DEF Joint, Timed
<1> DEFINE Step == [g \in [Formula -> Reductions] |-> [f \in Formula |-> Reduction(f, obs, g)]]
<1>a. ASSUME NEW f \in Formula PROVE Smaller(Built, Formula, f) \subseteq AnyFormula
  BY TopIs DEF Smaller, AnyFormula
<1>3. Step \in [[Formula -> Reductions] -> [Formula -> Reductions]]
  <2> SUFFICES ASSUME NEW g \in [Formula -> Reductions], NEW f \in Formula
               PROVE  Reduction(f, obs, g) \in Reductions
    OBVIOUS
  <2>1. \A x \in Smaller(Built, Formula, f) : g[x] \in Reductions
    BY DEF Smaller
  <2> QED BY <1>1, <1>a, <2>1, FormulaParts DEF Formulas
<1>4. \A g, h \in [Formula -> Reductions] : \A f \in Formula :
        (\A x \in Smaller(Built, Formula, f) : g[x] = h[x]) => Step[g][f] = Step[h][f]
  BY <1>2
<1>5. Reductions # {}
  BY ReductionShape DEF Words
<1>6. \E F \in [Formula -> Reductions] : F = Step[F]
  <2> HIDE DEF Step
  <2> QED BY <1>3, <1>4, <1>5, FormulaRecursion DEF Formulas
<1>7. PICK F \in [Formula -> Reductions] : F = [f \in Formula |-> Reduction(f, obs, F)]
  BY <1>6
<1> DEFINE R == Reducer(obs)
<1>8. R = [f \in Formula |-> Reduction(f, obs, R)]
  BY <1>7 DEF Reducer
<1>9. \A f : Reduce(f, obs) = R[f]
  BY DEF Reduce, Reducer
<1> HIDE DEF R
<1>10. Formula \subseteq {f \in Formula : R[f] \in Reductions}
  <2> DEFINE T == {f \in Formula : R[f] \in Reductions}
  <2>1. ASSUME NEW f \in Formula, Leaf(f) \/ Joint(f, Formula \cap T) \/ Timed(f, Formula \cap T)
        PROVE  f \in T
    <3>1. \A x \in Formula \cap T : R[x] \in Reductions
      OBVIOUS
    <3>2. Formula \cap T \subseteq AnyFormula
      BY TopIs DEF AnyFormula
    <3>3. Reduction(f, obs, R) \in Reductions
      <4> HIDE DEF T
      <4> QED BY <1>1, <2>1, <3>1, <3>2
    <3>4. R[f] = Reduction(f, obs, R)
      BY <1>8
    <3> QED BY <3>3, <3>4
  <2> HIDE DEF T
  <2>2. Formula \subseteq T
    BY <2>1, FormulaSteps DEF Formulas
  <2> QED BY <2>2 DEF T
<1>11. R \in [Formula -> Reductions]
  BY <1>8, <1>10
<1> QED BY <1>8, <1>9, <1>11 DEF R

\* What one residual comes to at the end, operator by operator.
LEMMA FinalitiesAre ==
  ASSUME NEW f, NEW g
  PROVE
  /\ f.op = "pure" => Finality(f, g) = IF f.value THEN "holds" ELSE "violated"
  /\ f.op \in {"thunk", "next"} => Finality(f, g) = "pending"
  /\ f.op = "eventually" => Finality(f, g) = "violated"
  /\ f.op = "always" => Finality(f, g) = "holds"
  /\ f.op = "now" => Finality(f, g) = g[f.inner]
  /\ f.op = "not" => Finality(f, g) = Opposite[g[f.inner]]
  /\ f.op \in {"or", "implies"} =>
       LET left == IF f.op = "implies" THEN Opposite[g[f.left]] ELSE g[f.left]
       IN  /\ left = "holds" \/ g[f.right] = "holds" => Finality(f, g) = "holds"
           /\ /\ left # "holds" /\ g[f.right] # "holds"
              /\ left = "pending" \/ g[f.right] = "pending"
              => Finality(f, g) = "pending"
           /\ /\ left \notin {"holds", "pending"} /\ g[f.right] \notin {"holds", "pending"}
              => Finality(f, g) = "violated"
  /\ f.op = "and" =>
       /\ g[f.left] = "violated" \/ g[f.right] = "violated" => Finality(f, g) = "violated"
       /\ /\ g[f.left] # "violated" /\ g[f.right] # "violated"
          /\ g[f.left] = "pending" \/ g[f.right] = "pending"
          => Finality(f, g) = "pending"
       /\ /\ g[f.left] \notin {"violated", "pending"} /\ g[f.right] \notin {"violated", "pending"}
          => Finality(f, g) = "holds"
<1>0. Opposite["holds"] = "violated" /\ Opposite["violated"] = "holds"
  BY DEF Opposite
<1>1. ASSUME f.op = "pure" PROVE Finality(f, g) = IF f.value THEN "holds" ELSE "violated"
  BY <1>1 DEF Finality, BinaryOps
<1>2. ASSUME f.op \in {"thunk", "next"} PROVE Finality(f, g) = "pending"
  BY <1>2 DEF Finality, BinaryOps, DeferredCheck
<1>3. /\ f.op = "eventually" => Finality(f, g) = "violated"
      /\ f.op = "always" => Finality(f, g) = "holds"
  BY DEF Finality, BinaryOps
<1>4. /\ f.op = "now" => Finality(f, g) = g[f.inner]
      /\ f.op = "not" => Finality(f, g) = Opposite[g[f.inner]]
  BY DEF Finality, BinaryOps
<1>5. ASSUME f.op \in {"or", "implies"}
      PROVE
       LET left == IF f.op = "implies" THEN Opposite[g[f.left]] ELSE g[f.left]
       IN  /\ left = "holds" \/ g[f.right] = "holds" => Finality(f, g) = "holds"
           /\ /\ left # "holds" /\ g[f.right] # "holds"
              /\ left = "pending" \/ g[f.right] = "pending"
              => Finality(f, g) = "pending"
           /\ /\ left \notin {"holds", "pending"} /\ g[f.right] \notin {"holds", "pending"}
              => Finality(f, g) = "violated"
  BY <1>0, <1>5 DEF Finality, BinaryOps
<1>6. ASSUME f.op = "and"
      PROVE
       /\ g[f.left] = "violated" \/ g[f.right] = "violated" => Finality(f, g) = "violated"
       /\ /\ g[f.left] # "violated" /\ g[f.right] # "violated"
          /\ g[f.left] = "pending" \/ g[f.right] = "pending"
          => Finality(f, g) = "pending"
       /\ /\ g[f.left] \notin {"violated", "pending"} /\ g[f.right] \notin {"violated", "pending"}
          => Finality(f, g) = "holds"
  BY <1>0, <1>6 DEF Finality, BinaryOps
<1> QED BY <1>1, <1>2, <1>3, <1>4, <1>5, <1>6

\* What Finalize judges a residual by satisfies the recursion that defines it (finalize).
LEMMA FinalStatusIs ==
  /\ FinalStatus \in [Formula -> Words]
  /\ FinalStatus = [f \in Formula |-> Finality(f, FinalStatus)]
<1>0. Opposite \in [Words -> Words]
  BY DEF Opposite, Words
<1>1. ASSUME NEW g, NEW f \in Formula, NEW parts,
             Leaf(f) \/ Joint(f, parts) \/ Timed(f, parts), \A x \in parts : g[x] \in Words
      PROVE  Finality(f, g) \in Words
  <2>1. CASE Leaf(f)
    <3>1. f.op \in {"pure", "thunk"}
      BY <2>1 DEF Leaf
    <3> QED BY <3>1, FinalitiesAre DEF Words
  <2>2. CASE f.op \in UnaryOps /\ g[f.inner] \in Words
    BY <1>0, <2>2, FinalitiesAre DEF Words, UnaryOps
  <2>3. CASE f.op \in BinaryOps /\ g[f.left] \in Words /\ g[f.right] \in Words
    <3>1. Opposite[g[f.left]] \in Words
      BY <1>0, <2>3
    <3> QED BY <3>1, <2>3, FinalitiesAre DEF Words, BinaryOps
  <2>4. CASE f.op \in TemporalOps
    BY <2>4, FinalitiesAre DEF Words, TemporalOps
  <2> QED BY <1>1, <2>1, <2>2, <2>3, <2>4 DEF Joint, Timed
<1>2. ASSUME NEW g \in [Formula -> Words], NEW h \in [Formula -> Words], NEW f \in Formula,
             \A x \in Smaller(Built, Formula, f) : g[x] = h[x]
      PROVE  Finality(f, g) = Finality(f, h)
  <2>1. Leaf(f) \/ Joint(f, Smaller(Built, Formula, f)) \/ Timed(f, Smaller(Built, Formula, f))
    BY FormulaParts DEF Formulas
  <2>2. CASE Leaf(f)
    <3>1. f.op \in {"pure", "thunk"}
      BY <2>2 DEF Leaf
    <3> QED BY <3>1, FinalitiesAre
  <2>3. CASE f.op \in UnaryOps /\ g[f.inner] = h[f.inner]
    BY <2>3, FinalitiesAre DEF UnaryOps
  <2>4. CASE f.op \in BinaryOps /\ g[f.left] = h[f.left] /\ g[f.right] = h[f.right]
    BY <2>4 DEF Finality, BinaryOps
  <2>5. CASE f.op \in TemporalOps
    BY <2>5, FinalitiesAre DEF TemporalOps
  <2> QED BY <1>2, <2>1, <2>2, <2>3, <2>4, <2>5 DEF Joint, Timed
<1> DEFINE Step == [g \in [Formula -> Words] |-> [f \in Formula |-> Finality(f, g)]]
<1>3. Step \in [[Formula -> Words] -> [Formula -> Words]]
  <2> SUFFICES ASSUME NEW g \in [Formula -> Words], NEW f \in Formula PROVE Finality(f, g) \in Words
    OBVIOUS
  <2>1. \A x \in Smaller(Built, Formula, f) : g[x] \in Words
    BY DEF Smaller
  <2> QED BY <1>1, <2>1, FormulaParts DEF Formulas
<1>4. \A g, h \in [Formula -> Words] : \A f \in Formula :
        (\A x \in Smaller(Built, Formula, f) : g[x] = h[x]) => Step[g][f] = Step[h][f]
  BY <1>2
<1>5. Words # {}
  BY DEF Words
<1>6. \E F \in [Formula -> Words] : F = Step[F]
  <2> HIDE DEF Step
  <2> QED BY <1>3, <1>4, <1>5, FormulaRecursion DEF Formulas
<1>7. PICK F \in [Formula -> Words] : F = [f \in Formula |-> Finality(f, F)]
  BY <1>6
<1>8. FinalStatus = CHOOSE Fn : Fn = [f \in Formula |-> Finality(f, Fn)]
  BY DEF FinalStatus
<1>9. FinalStatus = [f \in Formula |-> Finality(f, FinalStatus)]
  BY <1>7, <1>8
<1>10. Formula \subseteq {f \in Formula : FinalStatus[f] \in Words}
  <2> DEFINE T == {f \in Formula : FinalStatus[f] \in Words}
  <2>1. ASSUME NEW f \in Formula, Leaf(f) \/ Joint(f, Formula \cap T) \/ Timed(f, Formula \cap T)
        PROVE  f \in T
    <3>1. \A x \in Formula \cap T : FinalStatus[x] \in Words
      OBVIOUS
    <3>2. Finality(f, FinalStatus) \in Words
      <4> HIDE DEF T
      <4> QED BY <1>1, <2>1, <3>1
    <3>3. FinalStatus[f] = Finality(f, FinalStatus)
      BY <1>9
    <3> QED BY <3>2, <3>3
  <2> HIDE DEF T
  <2>2. Formula \subseteq T
    BY <2>1, FormulaSteps DEF Formulas
  <2> QED BY <2>2 DEF T
<1> QED BY <1>9, <1>10

\* Being in normal form, operator by operator.
LEMMA NormalNodesAre ==
  ASSUME NEW f, NEW g
  PROVE
  /\ f.op \in {"pure", "thunk"} => NormalNode(f, g) = TRUE
  /\ f.op = "not" => NormalNode(f, g) = (f.inner.op = "thunk")
  /\ f.op \in {"and", "or"} => NormalNode(f, g) = (g[f.left] /\ g[f.right])
  /\ f.op \in {"now", "next"} \cup TemporalOps => NormalNode(f, g) = g[f.inner]
  /\ f.op = "implies" => NormalNode(f, g) = FALSE
<1>1. ASSUME f.op \in {"pure", "thunk"} PROVE NormalNode(f, g) = TRUE
  BY <1>1 DEF NormalNode, TemporalOps
<1>2. ASSUME f.op = "not" PROVE NormalNode(f, g) = (f.inner.op = "thunk")
  BY <1>2 DEF NormalNode, TemporalOps
<1>3. ASSUME f.op \in {"and", "or"} PROVE NormalNode(f, g) = (g[f.left] /\ g[f.right])
  BY <1>3 DEF NormalNode, TemporalOps
<1>4. ASSUME f.op \in {"now", "next"} \cup TemporalOps PROVE NormalNode(f, g) = g[f.inner]
  BY <1>4 DEF NormalNode, TemporalOps
<1>5. ASSUME f.op = "implies" PROVE NormalNode(f, g) = FALSE
  BY <1>5 DEF NormalNode, TemporalOps
<1> QED BY <1>1, <1>2, <1>3, <1>4, <1>5

\* Being in normal form satisfies the recursion that defines it.
LEMMA InNormalFormIs ==
  /\ InNormalForm \in [Formula -> BOOLEAN]
  /\ InNormalForm = [f \in Formula |-> NormalNode(f, InNormalForm)]
<1>1. ASSUME NEW g, NEW f \in Formula, NEW parts,
             Leaf(f) \/ Joint(f, parts) \/ Timed(f, parts), \A x \in parts : g[x] \in BOOLEAN
      PROVE  NormalNode(f, g) \in BOOLEAN
  <2>1. CASE Leaf(f)
    <3>1. f.op \in {"pure", "thunk"}
      BY <2>1 DEF Leaf
    <3> QED BY <3>1, NormalNodesAre
  <2>2. CASE f.op \in UnaryOps /\ g[f.inner] \in BOOLEAN
    BY <2>2, NormalNodesAre DEF UnaryOps
  <2>3. CASE f.op \in BinaryOps /\ g[f.left] \in BOOLEAN /\ g[f.right] \in BOOLEAN
    BY <2>3, NormalNodesAre DEF BinaryOps
  <2>4. CASE f.op \in TemporalOps /\ g[f.inner] \in BOOLEAN
    BY <2>4, NormalNodesAre DEF TemporalOps
  <2> QED BY <1>1, <2>1, <2>2, <2>3, <2>4 DEF Joint, Timed
<1>2. ASSUME NEW g \in [Formula -> BOOLEAN], NEW h \in [Formula -> BOOLEAN], NEW f \in Formula,
             \A x \in Smaller(Built, Formula, f) : g[x] = h[x]
      PROVE  NormalNode(f, g) = NormalNode(f, h)
  <2>1. Leaf(f) \/ Joint(f, Smaller(Built, Formula, f)) \/ Timed(f, Smaller(Built, Formula, f))
    BY FormulaParts DEF Formulas
  <2>2. CASE Leaf(f)
    <3>1. f.op \in {"pure", "thunk"}
      BY <2>2 DEF Leaf
    <3> QED BY <3>1, NormalNodesAre
  <2>3. CASE f.op \in UnaryOps /\ g[f.inner] = h[f.inner]
    <3>1. CASE f.op = "not"
      BY <3>1, NormalNodesAre
    <3>2. CASE f.op \in {"now", "next"}
      BY <2>3, <3>2, NormalNodesAre
    <3> QED BY <2>3, <3>1, <3>2 DEF UnaryOps
  <2>4. CASE f.op \in BinaryOps /\ g[f.left] = h[f.left] /\ g[f.right] = h[f.right]
    <3>1. CASE f.op = "implies"
      BY <3>1, NormalNodesAre
    <3>2. CASE f.op \in {"and", "or"}
      <4>1. (g[f.left] /\ g[f.right]) = (h[f.left] /\ h[f.right])
        BY <2>4
      <4>2. NormalNode(f, g) = (g[f.left] /\ g[f.right]) /\ NormalNode(f, h) = (h[f.left] /\ h[f.right])
        BY <3>2, NormalNodesAre
      <4> QED BY <4>1, <4>2
    <3> QED BY <2>4, <3>1, <3>2 DEF BinaryOps
  <2>5. CASE f.op \in TemporalOps /\ g[f.inner] = h[f.inner]
    BY <2>5, NormalNodesAre
  <2> QED BY <1>2, <2>1, <2>2, <2>3, <2>4, <2>5 DEF Joint, Timed
<1> DEFINE Step == [g \in [Formula -> BOOLEAN] |-> [f \in Formula |-> NormalNode(f, g)]]
<1>3. Step \in [[Formula -> BOOLEAN] -> [Formula -> BOOLEAN]]
  <2> SUFFICES ASSUME NEW g \in [Formula -> BOOLEAN], NEW f \in Formula
               PROVE  NormalNode(f, g) \in BOOLEAN
    OBVIOUS
  <2>1. \A x \in Smaller(Built, Formula, f) : g[x] \in BOOLEAN
    BY DEF Smaller
  <2> QED BY <1>1, <2>1, FormulaParts DEF Formulas
<1>4. \A g, h \in [Formula -> BOOLEAN] : \A f \in Formula :
        (\A x \in Smaller(Built, Formula, f) : g[x] = h[x]) => Step[g][f] = Step[h][f]
  BY <1>2
<1>6. \E F \in [Formula -> BOOLEAN] : F = Step[F]
  <2>1. BOOLEAN # {}
    OBVIOUS
  <2> HIDE DEF Step
  <2> QED BY <1>3, <1>4, <2>1, FormulaRecursion DEF Formulas
<1>7. PICK F \in [Formula -> BOOLEAN] : F = [f \in Formula |-> NormalNode(f, F)]
  BY <1>6
<1>8. InNormalForm = CHOOSE Fn : Fn = [f \in Formula |-> NormalNode(f, Fn)]
  BY DEF InNormalForm
<1>9. InNormalForm = [f \in Formula |-> NormalNode(f, InNormalForm)]
  BY <1>7, <1>8
<1>10. Formula \subseteq {f \in Formula : InNormalForm[f] \in BOOLEAN}
  <2> DEFINE T == {f \in Formula : InNormalForm[f] \in BOOLEAN}
  <2>1. ASSUME NEW f \in Formula, Leaf(f) \/ Joint(f, Formula \cap T) \/ Timed(f, Formula \cap T)
        PROVE  f \in T
    <3>1. \A x \in Formula \cap T : InNormalForm[x] \in BOOLEAN
      OBVIOUS
    <3>2. NormalNode(f, InNormalForm) \in BOOLEAN
      <4> HIDE DEF T
      <4> QED BY <1>1, <2>1, <3>1
    <3>3. InNormalForm[f] = NormalNode(f, InNormalForm)
      BY <1>9
    <3> QED BY <3>2, <3>3
  <2> HIDE DEF T
  <2>2. Formula \subseteq T
    BY <2>1, FormulaSteps DEF Formulas
  <2> QED BY <2>2 DEF T
<1> QED BY <1>9, <1>10

----------------------------------------------------------------------------
(* The values of the evaluator's formulas.                                 *)

\* The values a formula takes: one at each place.
Truths == [Place -> Words]

\* The disjunction of any values is a value.
LEMMA SomeIsWord == \A values : Some(values) \in Words
  BY DEF Some, Words

\* The negation of a value is a value, and undone by another.
LEMMA OppositeIs ==
  /\ Opposite \in [Words -> Words]
  /\ Opposite["holds"] = "violated" /\ Opposite["violated"] = "holds"
  /\ Opposite["pending"] = "pending"
  /\ \A w \in Words : Opposite[Opposite[w]] = w
  BY DEF Opposite, Words

\* A promise has a value.
LEMMA PromiseIsWord == \A truth, closed, p : Promise(truth, closed, p) \in Words
  BY SomeIsWord DEF Promise

\* The observations, from place p on, at which the window of the evaluator's formula f is
\* closed: where it was resolved, or as it would be if it were reduced first at p.
ClosesAt(h, f, p) ==
  IF f.closes # Unresolved THEN f.closes
  ELSE IF f.unit = "steps" THEN p.at + f.amount - 1 ELSE h[p.at].now + f.amount
ClosedBy(h, f, p) ==
  {j \in p.at .. p.upto : \/ f.unit = "steps" /\ j >= ClosesAt(h, f, p)
                          \/ f.unit = "seconds" /\ h[j].now >= ClosesAt(h, f, p)}

\* What a leaf is worth, which is the same in both.
OfPure(f, p) == CASE p.at > p.upto /\ ~p.over -> "pending"
                  [] ~(p.at > p.upto /\ ~p.over) /\ f.value -> "holds"
                  [] OTHER -> "violated"
OfThunk(h, f, p) == CASE p.at > p.upto -> "pending"
                      [] p.at <= p.upto /\ h[p.at].atoms[f.atom] = "true" -> "holds"
                      [] OTHER -> "violated"

\* The value of the evaluator's formula f at place p of the observations h: that of an
\* authored formula, but for the window, and with the dual of the promise.
Worth(h, f, value, p) ==
  CASE f.op = "now" -> value[f.inner][p]
    [] f.op = "not" -> Opposite[value[f.inner][p]]
    [] f.op = "or" -> Some({value[f.left][p], value[f.right][p]})
    [] f.op = "and" -> Opposite[Some({Opposite[value[f.left][p]], Opposite[value[f.right][p]]})]
    [] f.op = "implies" -> Some({Opposite[value[f.left][p]], value[f.right][p]})
    [] f.op = "eventually" -> Promise(value[f.inner], ClosedBy(h, f, p), p)
    [] f.op = "always" -> Opposite[Promise(Denied(value[f.inner]), ClosedBy(h, f, p), p)]
    [] f.op = "next" -> IF p.at > p.upto THEN "pending"
                        ELSE value[f.inner][[p EXCEPT !.at = @ + 1]]
    [] f.op = "pure" -> OfPure(f, p)
    [] f.op = "thunk" -> OfThunk(h, f, p)

\* The value of one formula, operator by operator: of the evaluator, and of an author.
WorthClauses(h, f, g, p) ==
  /\ f.op = "now" => Worth(h, f, g, p) = g[f.inner][p]
  /\ f.op = "not" => Worth(h, f, g, p) = Opposite[g[f.inner][p]]
  /\ f.op = "or" => Worth(h, f, g, p) = Some({g[f.left][p], g[f.right][p]})
  /\ f.op = "and" => Worth(h, f, g, p) = Opposite[Some({Opposite[g[f.left][p]], Opposite[g[f.right][p]]})]
  /\ f.op = "implies" => Worth(h, f, g, p) = Some({Opposite[g[f.left][p]], g[f.right][p]})
  /\ f.op = "eventually" => Worth(h, f, g, p) = Promise(g[f.inner], ClosedBy(h, f, p), p)
  /\ f.op = "always" => Worth(h, f, g, p) = Opposite[Promise(Denied(g[f.inner]), ClosedBy(h, f, p), p)]
  /\ f.op = "next" => Worth(h, f, g, p) = IF p.at > p.upto THEN "pending"
                                          ELSE g[f.inner][[p EXCEPT !.at = @ + 1]]
  /\ f.op = "pure" => Worth(h, f, g, p) = OfPure(f, p)
  /\ f.op = "thunk" => Worth(h, f, g, p) = OfThunk(h, f, p)

\* The clauses hold of the evaluator's formulas.
LEMMA WorthsAre == \A h, f, g, p : WorthClauses(h, f, g, p)
<1> SUFFICES ASSUME NEW h, NEW f, NEW g, NEW p PROVE WorthClauses(h, f, g, p)
  OBVIOUS
<1>1. ASSUME f.op = "now" PROVE Worth(h, f, g, p) = g[f.inner][p]
  BY <1>1 DEF Worth
<1>2. ASSUME f.op = "not" PROVE Worth(h, f, g, p) = Opposite[g[f.inner][p]]
  BY <1>2 DEF Worth
<1>3. ASSUME f.op = "or" PROVE Worth(h, f, g, p) = Some({g[f.left][p], g[f.right][p]})
  BY <1>3 DEF Worth
<1>4. ASSUME f.op = "and"
      PROVE  Worth(h, f, g, p) = Opposite[Some({Opposite[g[f.left][p]], Opposite[g[f.right][p]]})]
  BY <1>4 DEF Worth
<1>5. ASSUME f.op = "implies" PROVE Worth(h, f, g, p) = Some({Opposite[g[f.left][p]], g[f.right][p]})
  BY <1>5 DEF Worth
<1>6. ASSUME f.op = "eventually" PROVE Worth(h, f, g, p) = Promise(g[f.inner], ClosedBy(h, f, p), p)
  BY <1>6 DEF Worth
<1>7. ASSUME f.op = "always"
      PROVE  Worth(h, f, g, p) = Opposite[Promise(Denied(g[f.inner]), ClosedBy(h, f, p), p)]
  BY <1>7 DEF Worth
<1>8. ASSUME f.op = "next"
      PROVE  Worth(h, f, g, p) = IF p.at > p.upto THEN "pending"
                                 ELSE g[f.inner][[p EXCEPT !.at = @ + 1]]
  BY <1>8 DEF Worth
<1>9. ASSUME f.op = "pure" PROVE Worth(h, f, g, p) = OfPure(f, p)
  BY <1>9 DEF Worth, OfPure
<1>10. ASSUME f.op = "thunk" PROVE Worth(h, f, g, p) = OfThunk(h, f, p)
  BY <1>10 DEF Worth, OfThunk
<1> QED BY <1>1, <1>2, <1>3, <1>4, <1>5, <1>6, <1>7, <1>8, <1>9, <1>10 DEF WorthClauses

MeaningClauses(h, f, g, p) ==
  /\ f.op = "now" => Meaning(h, f, g, p) = g[f.inner][p]
  /\ f.op = "not" => Meaning(h, f, g, p) = Opposite[g[f.inner][p]]
  /\ f.op = "or" => Meaning(h, f, g, p) = Some({g[f.left][p], g[f.right][p]})
  /\ f.op = "and" => Meaning(h, f, g, p) = Opposite[Some({Opposite[g[f.left][p]], Opposite[g[f.right][p]]})]
  /\ f.op = "implies" => Meaning(h, f, g, p) = Some({Opposite[g[f.left][p]], g[f.right][p]})
  /\ f.op = "eventually" => Meaning(h, f, g, p) = Promise(g[f.inner], ClosedFrom(h, f, p), p)
  /\ f.op = "always" => Meaning(h, f, g, p) = Opposite[Promise(Denied(g[f.inner]), {}, p)]
  /\ f.op = "next" => Meaning(h, f, g, p) = IF p.at > p.upto THEN "pending"
                                            ELSE g[f.inner][[p EXCEPT !.at = @ + 1]]
  /\ f.op = "pure" => Meaning(h, f, g, p) = OfPure(f, p)
  /\ f.op = "thunk" => Meaning(h, f, g, p) = OfThunk(h, f, p)

\* The clauses hold of an author's formulas.
LEMMA MeaningsAre == \A h, f, g, p : MeaningClauses(h, f, g, p)
<1> SUFFICES ASSUME NEW h, NEW f, NEW g, NEW p PROVE MeaningClauses(h, f, g, p)
  OBVIOUS
<1>1. ASSUME f.op = "now" PROVE Meaning(h, f, g, p) = g[f.inner][p]
  BY <1>1 DEF Meaning
<1>2. ASSUME f.op = "not" PROVE Meaning(h, f, g, p) = Opposite[g[f.inner][p]]
  BY <1>2 DEF Meaning
<1>3. ASSUME f.op = "or" PROVE Meaning(h, f, g, p) = Some({g[f.left][p], g[f.right][p]})
  BY <1>3 DEF Meaning
<1>4. ASSUME f.op = "and"
      PROVE  Meaning(h, f, g, p) = Opposite[Some({Opposite[g[f.left][p]], Opposite[g[f.right][p]]})]
  BY <1>4 DEF Meaning
<1>5. ASSUME f.op = "implies" PROVE Meaning(h, f, g, p) = Some({Opposite[g[f.left][p]], g[f.right][p]})
  BY <1>5 DEF Meaning
<1>6. ASSUME f.op = "eventually" PROVE Meaning(h, f, g, p) = Promise(g[f.inner], ClosedFrom(h, f, p), p)
  BY <1>6 DEF Meaning
<1>7. ASSUME f.op = "always"
      PROVE  Meaning(h, f, g, p) = Opposite[Promise(Denied(g[f.inner]), {}, p)]
  BY <1>7 DEF Meaning
<1>8. ASSUME f.op = "next"
      PROVE  Meaning(h, f, g, p) = IF p.at > p.upto THEN "pending"
                                   ELSE g[f.inner][[p EXCEPT !.at = @ + 1]]
  BY <1>8 DEF Meaning
<1>9. ASSUME f.op = "pure" PROVE Meaning(h, f, g, p) = OfPure(f, p)
  BY <1>9 DEF Meaning, OfPure
<1>10. ASSUME f.op = "thunk" PROVE Meaning(h, f, g, p) = OfThunk(h, f, p)
  BY <1>10 DEF Meaning, OfThunk
<1> QED BY <1>1, <1>2, <1>3, <1>4, <1>5, <1>6, <1>7, <1>8, <1>9, <1>10 DEF MeaningClauses

\* A leaf has a value.
LEMMA LeafIsWord == \A h, f, p : OfPure(f, p) \in Words /\ OfThunk(h, f, p) \in Words
  BY DEF OfPure, OfThunk, Words

\* Moving a place to another observation makes a place.
LEMMA NextPlace ==
  \A p \in Place : \A j \in Nat :
    /\ [p EXCEPT !.at = j] \in Place /\ [p EXCEPT !.at = @ + 1] \in Place
    /\ [p EXCEPT !.at = @ + 1] = [p EXCEPT !.at = p.at + 1]
  BY DEF Place

\* The values of every formula of the evaluator, and of every authored one.
WorthOf(h) == CHOOSE worth : worth = [f \in AnyFormula |-> [p \in Place |-> Worth(h, f, worth, p)]]
Valuer(h) == CHOOSE value : value = [f \in Property |-> [p \in Place |-> Meaning(h, f, value, p)]]

\* The values of the evaluator's formulas satisfy the recursion that defines them.
LEMMA WorthOfIs ==
  ASSUME NEW h
  PROVE
  /\ WorthOf(h) \in [AnyFormula -> Truths]
  /\ WorthOf(h) = [f \in AnyFormula |-> [p \in Place |-> Worth(h, f, WorthOf(h), p)]]
<1>1. ASSUME NEW g, NEW f \in AnyFormula, NEW parts,
             Leaf(f) \/ Joint(f, parts) \/ Timed(f, parts), \A x \in parts : g[x] \in Truths
      PROVE  [p \in Place |-> Worth(h, f, g, p)] \in Truths
  <2>1. ASSUME NEW p \in Place PROVE Worth(h, f, g, p) \in Words
    <3>0. WorthClauses(h, f, g, p)
      BY WorthsAre
    <3>1. CASE Leaf(f)
      <4>1. f.op \in {"pure", "thunk"}
        BY <3>1 DEF Leaf
      <4> QED BY <4>1, LeafIsWord, <3>0 DEF WorthClauses
    <3>2. CASE f.op \in UnaryOps /\ g[f.inner] \in Truths
      <4>1. [p EXCEPT !.at = @ + 1] \in Place /\ "pending" \in Words
        BY NextPlace DEF Place, Words
      <4>2. g[f.inner][p] \in Words /\ g[f.inner][[p EXCEPT !.at = @ + 1]] \in Words
        BY <3>2, <4>1 DEF Truths
      <4> HIDE DEF Words
      <4> QED BY <3>2, <4>1, <4>2, <3>0, OppositeIs DEF WorthClauses, UnaryOps
    <3>3. CASE f.op \in BinaryOps
      BY <3>3, <3>0, SomeIsWord, OppositeIs DEF WorthClauses, BinaryOps
    <3>4. CASE f.op \in TemporalOps
      BY <3>4, <3>0, PromiseIsWord, OppositeIs DEF WorthClauses, TemporalOps
    <3> QED BY <1>1, <3>1, <3>2, <3>3, <3>4 DEF Joint, Timed
  <2> QED BY <2>1 DEF Truths
<1>2. ASSUME NEW g, NEW k, NEW f \in AnyFormula, \A x \in Smaller(Built, AnyFormula, f) : g[x] = k[x]
      PROVE  [p \in Place |-> Worth(h, f, g, p)] = [p \in Place |-> Worth(h, f, k, p)]
  <2>1. Leaf(f) \/ Joint(f, Smaller(Built, AnyFormula, f)) \/ Timed(f, Smaller(Built, AnyFormula, f))
    BY FormulaParts DEF Formulas
  <2>2. ASSUME NEW p \in Place PROVE Worth(h, f, g, p) = Worth(h, f, k, p)
    <3>0. WorthClauses(h, f, g, p) /\ WorthClauses(h, f, k, p)
      BY WorthsAre
    <3>2. CASE Leaf(f)
      <4>1. f.op \in {"pure", "thunk"}
        BY <3>2 DEF Leaf
      <4> QED BY <4>1, <3>0 DEF WorthClauses
    <3>3. CASE f.op \in UnaryOps /\ g[f.inner] = k[f.inner]
      BY <3>3, <3>0 DEF WorthClauses, UnaryOps
    <3>4. CASE f.op \in BinaryOps /\ g[f.left] = k[f.left] /\ g[f.right] = k[f.right]
      BY <3>4, <3>0 DEF WorthClauses, BinaryOps
    <3>5. CASE f.op \in TemporalOps /\ g[f.inner] = k[f.inner]
      BY <3>5, <3>0 DEF WorthClauses, TemporalOps
    <3> QED BY <1>2, <2>1, <3>2, <3>3, <3>4, <3>5 DEF Joint, Timed
  <2>3. [p \in Place |-> Worth(h, f, g, p)] = [p \in Place |-> Worth(h, f, k, p)]
    BY <2>2
  <2> QED BY <2>3
<1> DEFINE Step == [g \in [AnyFormula -> Truths] |-> [f \in AnyFormula |-> [p \in Place |-> Worth(h, f, g, p)]]]
<1>3. Step \in [[AnyFormula -> Truths] -> [AnyFormula -> Truths]]
  <2> SUFFICES ASSUME NEW g \in [AnyFormula -> Truths], NEW f \in AnyFormula
               PROVE  [p \in Place |-> Worth(h, f, g, p)] \in Truths
    OBVIOUS
  <2>1. \A x \in Smaller(Built, AnyFormula, f) : g[x] \in Truths
    BY DEF Smaller
  <2> QED BY <1>1, <2>1, FormulaParts DEF Formulas
<1>4. \A g, k \in [AnyFormula -> Truths] : \A f \in AnyFormula :
        (\A x \in Smaller(Built, AnyFormula, f) : g[x] = k[x]) => Step[g][f] = Step[k][f]
  BY <1>2
<1>5. Truths # {}
  <2>1. [p \in Place |-> "holds"] \in Truths
    BY DEF Truths, Words
  <2> QED BY <2>1
<1>6. \E F \in [AnyFormula -> Truths] : F = Step[F]
  <2> HIDE DEF Step
  <2> QED BY <1>3, <1>4, <1>5, FormulaRecursion DEF Formulas
<1>7. PICK F \in [AnyFormula -> Truths] : F = [f \in AnyFormula |-> [p \in Place |-> Worth(h, f, F, p)]]
  BY <1>6
<1> DEFINE R == WorthOf(h)
<1>8. R = [f \in AnyFormula |-> [p \in Place |-> Worth(h, f, R, p)]]
  BY <1>7 DEF WorthOf
<1> HIDE DEF R
<1>10. AnyFormula \subseteq {f \in AnyFormula : R[f] \in Truths}
  <2> DEFINE T == {f \in AnyFormula : R[f] \in Truths}
  <2>1. ASSUME NEW f \in AnyFormula,
               Leaf(f) \/ Joint(f, AnyFormula \cap T) \/ Timed(f, AnyFormula \cap T)
        PROVE  f \in T
    <3>1. \A x \in AnyFormula \cap T : R[x] \in Truths
      OBVIOUS
    <3>2. [p \in Place |-> Worth(h, f, R, p)] \in Truths
      <4> HIDE DEF T
      <4> QED BY <1>1, <2>1, <3>1
    <3>3. R[f] = [p \in Place |-> Worth(h, f, R, p)]
      BY <1>8
    <3> QED BY <3>2, <3>3
  <2> HIDE DEF T
  <2>2. AnyFormula \subseteq T
    BY <2>1, FormulaSteps DEF Formulas
  <2> QED BY <2>2 DEF T
<1>11. R \in [AnyFormula -> Truths]
  BY <1>8, <1>10
<1> QED BY <1>8, <1>11 DEF R

\* The values of the properties satisfy the recursion that defines them.
LEMMA ValuerIs ==
  ASSUME NEW h
  PROVE
  /\ Valuer(h) \in [Property -> Truths]
  /\ Valuer(h) = [f \in Property |-> [p \in Place |-> Meaning(h, f, Valuer(h), p)]]
  /\ \A f : ValueOf(h, f) = Valuer(h)[f]
<1>1. ASSUME NEW g, NEW f \in Property, NEW parts,
             Leaf(f) \/ Joint(f, parts) \/ Clause(f, parts), \A x \in parts : g[x] \in Truths
      PROVE  [p \in Place |-> Meaning(h, f, g, p)] \in Truths
  <2>1. ASSUME NEW p \in Place PROVE Meaning(h, f, g, p) \in Words
    <3>0. MeaningClauses(h, f, g, p)
      BY MeaningsAre
    <3>1. CASE Leaf(f)
      <4>1. f.op \in {"pure", "thunk"}
        BY <3>1 DEF Leaf
      <4> QED BY <4>1, LeafIsWord, <3>0 DEF MeaningClauses
    <3>2. CASE f.op \in UnaryOps /\ g[f.inner] \in Truths
      <4>1. [p EXCEPT !.at = @ + 1] \in Place /\ "pending" \in Words
        BY NextPlace DEF Place, Words
      <4>2. g[f.inner][p] \in Words /\ g[f.inner][[p EXCEPT !.at = @ + 1]] \in Words
        BY <3>2, <4>1 DEF Truths
      <4> HIDE DEF Words
      <4> QED BY <3>2, <4>1, <4>2, <3>0, OppositeIs DEF MeaningClauses, UnaryOps
    <3>3. CASE f.op \in BinaryOps
      BY <3>3, <3>0, SomeIsWord, OppositeIs DEF MeaningClauses, BinaryOps
    <3>4. CASE f.op \in TemporalOps
      BY <3>4, <3>0, PromiseIsWord, OppositeIs DEF MeaningClauses, TemporalOps
    <3> QED BY <1>1, <3>1, <3>2, <3>3, <3>4 DEF Joint, Clause, TemporalOps
  <2> QED BY <2>1 DEF Truths
<1>2. ASSUME NEW g, NEW k, NEW f \in Property, \A x \in Smaller(Authored, Property, f) : g[x] = k[x]
      PROVE  [p \in Place |-> Meaning(h, f, g, p)] = [p \in Place |-> Meaning(h, f, k, p)]
  <2>1. Leaf(f) \/ Joint(f, Smaller(Authored, Property, f)) \/ Clause(f, Smaller(Authored, Property, f))
    BY PropertyParts
  <2>2. ASSUME NEW p \in Place PROVE Meaning(h, f, g, p) = Meaning(h, f, k, p)
    <3>0. MeaningClauses(h, f, g, p) /\ MeaningClauses(h, f, k, p)
      BY MeaningsAre
    <3>2. CASE Leaf(f)
      <4>1. f.op \in {"pure", "thunk"}
        BY <3>2 DEF Leaf
      <4> QED BY <4>1, <3>0 DEF MeaningClauses
    <3>3. CASE f.op \in UnaryOps /\ g[f.inner] = k[f.inner]
      BY <3>3, <3>0 DEF MeaningClauses, UnaryOps
    <3>4. CASE f.op \in BinaryOps /\ g[f.left] = k[f.left] /\ g[f.right] = k[f.right]
      BY <3>4, <3>0 DEF MeaningClauses, BinaryOps
    <3>5. CASE f.op \in TemporalOps /\ g[f.inner] = k[f.inner]
      BY <3>5, <3>0 DEF MeaningClauses, TemporalOps
    <3> QED BY <1>2, <2>1, <3>2, <3>3, <3>4, <3>5 DEF Joint, Clause, TemporalOps
  <2>3. [p \in Place |-> Meaning(h, f, g, p)] = [p \in Place |-> Meaning(h, f, k, p)]
    BY <2>2
  <2> QED BY <2>3
<1> DEFINE Step == [g \in [Property -> Truths] |-> [f \in Property |-> [p \in Place |-> Meaning(h, f, g, p)]]]
<1>3. Step \in [[Property -> Truths] -> [Property -> Truths]]
  <2> SUFFICES ASSUME NEW g \in [Property -> Truths], NEW f \in Property
               PROVE  [p \in Place |-> Meaning(h, f, g, p)] \in Truths
    OBVIOUS
  <2>1. \A x \in Smaller(Authored, Property, f) : g[x] \in Truths
    BY DEF Smaller
  <2> QED BY <1>1, <2>1, PropertyParts
<1>4. \A g, k \in [Property -> Truths] : \A f \in Property :
        (\A x \in Smaller(Authored, Property, f) : g[x] = k[x]) => Step[g][f] = Step[k][f]
  BY <1>2
<1>5. Truths # {}
  <2>1. [p \in Place |-> "holds"] \in Truths
    BY DEF Truths, Words
  <2> QED BY <2>1
<1>6. \E F \in [Property -> Truths] : F = Step[F]
  <2> HIDE DEF Step
  <2> QED BY <1>3, <1>4, <1>5, PropertyRecursion
<1>7. PICK F \in [Property -> Truths] : F = [f \in Property |-> [p \in Place |-> Meaning(h, f, F, p)]]
  BY <1>6
<1> DEFINE R == Valuer(h)
<1>8. R = [f \in Property |-> [p \in Place |-> Meaning(h, f, R, p)]]
  BY <1>7 DEF Valuer
<1>9. \A f : ValueOf(h, f) = R[f]
  BY DEF ValueOf, Valuer
<1> HIDE DEF R
<1>10. Property \subseteq {f \in Property : R[f] \in Truths}
  <2> DEFINE T == {f \in Property : R[f] \in Truths}
  <2>1. ASSUME NEW f \in Property,
               Leaf(f) \/ Joint(f, Property \cap T) \/ Clause(f, Property \cap T)
        PROVE  f \in T
    <3>1. \A x \in Property \cap T : R[x] \in Truths
      OBVIOUS
    <3>2. [p \in Place |-> Meaning(h, f, R, p)] \in Truths
      <4> HIDE DEF T
      <4> QED BY <1>1, <2>1, <3>1
    <3>3. R[f] = [p \in Place |-> Meaning(h, f, R, p)]
      BY <1>8
    <3> QED BY <3>2, <3>3
  <2> HIDE DEF T
  <2>2. Property \subseteq T
    BY <2>1, PropertySteps
  <2> QED BY <2>2 DEF T
<1>11. R \in [Property -> Truths]
  BY <1>8, <1>10
<1> QED BY <1>8, <1>9, <1>11 DEF R

----------------------------------------------------------------------------
(* Promises and windows, one observation on.                               *)

\* What the disjunction of some values is.
LEMMA SomeIs ==
  ASSUME NEW A
  PROVE  /\ Some(A) = "holds" <=> "holds" \in A
         /\ Some(A) = "pending" <=> "holds" \notin A /\ "pending" \in A
         /\ Some(A) = "violated" <=> "holds" \notin A /\ "pending" \notin A
<1>1. ASSUME "holds" \in A PROVE Some(A) = "holds"
  BY <1>1 DEF Some
<1>2. ASSUME "holds" \notin A, "pending" \in A PROVE Some(A) = "pending"
  BY <1>2 DEF Some
<1>3. ASSUME "holds" \notin A, "pending" \notin A PROVE Some(A) = "violated"
  BY <1>3 DEF Some
<1> QED BY <1>1, <1>2, <1>3

\* The disjunction of two values.
LEMMA SomeOfTwo ==
  \A v, w \in Words :
    /\ Some({v, w}) \in Words
    /\ v = "holds" \/ w = "holds" => Some({v, w}) = "holds"
    /\ v = "violated" => Some({v, w}) = w
    /\ w = "violated" => Some({v, w}) = v
    /\ v = "pending" /\ w = "pending" => Some({v, w}) = "pending"
<1> SUFFICES ASSUME NEW v \in Words, NEW w \in Words
             PROVE
    /\ Some({v, w}) \in Words
    /\ v = "holds" \/ w = "holds" => Some({v, w}) = "holds"
    /\ v = "violated" => Some({v, w}) = w
    /\ w = "violated" => Some({v, w}) = v
    /\ v = "pending" /\ w = "pending" => Some({v, w}) = "pending"
  OBVIOUS
<1> DEFINE A == {v, w}
<1>1. /\ Some(A) = "holds" <=> "holds" \in A
      /\ Some(A) = "pending" <=> "holds" \notin A /\ "pending" \in A
      /\ Some(A) = "violated" <=> "holds" \notin A /\ "pending" \notin A
  <2> HIDE DEF A
  <2> QED BY SomeIs
<1>2. Some(A) \in Words
  BY SomeIsWord
<1> QED BY <1>1, <1>2 DEF Words

\* A disjunction may be taken in parts.
LEMMA SomeOfParts ==
  ASSUME NEW A, NEW B
  PROVE  Some(A \cup B) = Some({Some(A), Some(B)})
<1>1. /\ Some(A \cup B) = "holds" <=> Some(A) = "holds" \/ Some(B) = "holds"
      /\ Some(A \cup B) = "violated" <=> Some(A) = "violated" /\ Some(B) = "violated"
  BY SomeIs
<1>2. Some(A) \in Words /\ Some(B) \in Words /\ Some(A \cup B) \in Words
  BY SomeIsWord
<1>3. /\ Some(A) = "holds" \/ Some(B) = "holds" => Some({Some(A), Some(B)}) = "holds"
      /\ Some(A) = "violated" => Some({Some(A), Some(B)}) = Some(B)
      /\ Some(B) = "violated" => Some({Some(A), Some(B)}) = Some(A)
      /\ Some(A) = "pending" /\ Some(B) = "pending" => Some({Some(A), Some(B)}) = "pending"
  BY <1>2, SomeOfTwo
<1> QED BY <1>1, <1>2, <1>3 DEF Words

\* The next place, and the one judged by the observation at hand alone.
Later(p) == [p EXCEPT !.at = @ + 1]
Alone(p) == [at |-> p.at, upto |-> p.at, over |-> FALSE]

\* What the places next to a place are.
LEMMA PlacesAre ==
  \A p \in Place :
    /\ p.at \in Nat /\ p.upto \in Nat /\ p.over \in BOOLEAN
    /\ p = [at |-> p.at, upto |-> p.upto, over |-> p.over]
    /\ Later(p) = [at |-> p.at + 1, upto |-> p.upto, over |-> p.over]
    /\ Later(p) \in Place /\ Alone(p) \in Place
    /\ Later(p).at = p.at + 1 /\ Later(p).upto = p.upto /\ Later(p).over = p.over
    /\ \A j : [p EXCEPT !.at = j] = [Later(p) EXCEPT !.at = j]
    /\ [p EXCEPT !.at = p.at] = p
<1> SUFFICES ASSUME NEW p \in Place
             PROVE
    /\ p.at \in Nat /\ p.upto \in Nat /\ p.over \in BOOLEAN
    /\ p = [at |-> p.at, upto |-> p.upto, over |-> p.over]
    /\ Later(p) = [at |-> p.at + 1, upto |-> p.upto, over |-> p.over]
    /\ Later(p) \in Place /\ Alone(p) \in Place
    /\ Later(p).at = p.at + 1 /\ Later(p).upto = p.upto /\ Later(p).over = p.over
    /\ \A j : [p EXCEPT !.at = j] = [Later(p) EXCEPT !.at = j]
    /\ [p EXCEPT !.at = p.at] = p
  OBVIOUS
<1>1. /\ p.at \in Nat /\ p.upto \in Nat /\ p.over \in BOOLEAN
      /\ p = [at |-> p.at, upto |-> p.upto, over |-> p.over]
  BY DEF Place
<1>2. \A j : [p EXCEPT !.at = j] = [at |-> j, upto |-> p.upto, over |-> p.over]
  BY <1>1
<1>3. Later(p) = [at |-> p.at + 1, upto |-> p.upto, over |-> p.over]
  BY <1>2 DEF Later
<1>4. \A j : [Later(p) EXCEPT !.at = j] = [at |-> j, upto |-> p.upto, over |-> p.over]
  BY <1>3
<1>5. Later(p) \in Place /\ Alone(p) \in Place
  BY <1>1, <1>3 DEF Place, Alone
<1> QED BY <1>1, <1>2, <1>3, <1>4, <1>5

\* A promise whose window is closed asks for what is true at hand.
LEMMA PromiseClosed ==
  ASSUME NEW truth, NEW p \in Place, p.at <= p.upto,
         NEW closed \in SUBSET (p.at .. p.upto), p.at \in closed
  PROVE  Promise(truth, closed, p) = IF truth[Alone(p)] = "holds" THEN "holds" ELSE "violated"
<1> DEFINE Then(j) == truth[[at |-> j, upto |-> j, over |-> FALSE]]
           before == {j \in p.at .. p.upto : \A c \in closed : j < c}
           atClose == {j \in closed : \A c \in closed : j <= c}
           A == {truth[[p EXCEPT !.at = j]] : j \in before}
           B == {IF Then(j) = "holds" THEN "holds" ELSE "violated" : j \in atClose}
           C == {IF closed # {} \/ p.over THEN "violated" ELSE "pending"}
<1>1. Promise(truth, closed, p) = Some(A \cup B \cup C)
  BY DEF Promise
<1>2. before = {} /\ atClose = {p.at}
  <2>1. p.at \in Int /\ p.upto \in Int /\ \A c \in closed : c \in Int /\ p.at <= c
    BY PlacesAre
  <2>2. \A j \in p.at .. p.upto : ~ (j < p.at)
    BY <2>1
  <2>3. before = {}
    BY <2>2
  <2>4. \A j \in closed : j <= p.at => j = p.at
    BY <2>1
  <2>5. atClose = {p.at}
    BY <2>1, <2>4
  <2> QED BY <2>3, <2>5
<1>3. A = {} /\ B = {IF Then(p.at) = "holds" THEN "holds" ELSE "violated"} /\ C = {"violated"}
  BY <1>2
<1>4. Then(p.at) = truth[Alone(p)]
  BY DEF Alone
<1> DEFINE D == A \cup B \cup C
<1>5. "holds" \in D <=> truth[Alone(p)] = "holds"
  BY <1>3, <1>4
<1>6. "pending" \notin D
  BY <1>3
<1> HIDE DEF D
<1>7. Promise(truth, closed, p) = Some(D)
  BY <1>1 DEF D
<1> QED BY <1>5, <1>6, <1>7, SomeIs

\* An open promise is kept at hand or later.
LEMMA PromiseOpen ==
  ASSUME NEW truth, NEW p \in Place, p.at <= p.upto, truth[p] \in Words,
         NEW closed \in SUBSET (p.at + 1 .. p.upto)
  PROVE  Promise(truth, closed, p) = Some({truth[p], Promise(truth, closed, Later(p))})
<1> DEFINE q == Later(p)
           Then(j) == truth[[at |-> j, upto |-> j, over |-> FALSE]]
           beforeP == {j \in p.at .. p.upto : \A c \in closed : j < c}
           beforeQ == {j \in q.at .. q.upto : \A c \in closed : j < c}
           atClose == {j \in closed : \A c \in closed : j <= c}
           AP == {truth[[p EXCEPT !.at = j]] : j \in beforeP}
           AQ == {truth[[q EXCEPT !.at = j]] : j \in beforeQ}
           B == {IF Then(j) = "holds" THEN "holds" ELSE "violated" : j \in atClose}
           CP == {IF closed # {} \/ p.over THEN "violated" ELSE "pending"}
           CQ == {IF closed # {} \/ q.over THEN "violated" ELSE "pending"}
<1>1. Promise(truth, closed, p) = Some(AP \cup B \cup CP)
  BY DEF Promise
<1>2. Promise(truth, closed, q) = Some(AQ \cup B \cup CQ)
  BY DEF Promise
<1>3. /\ p.at \in Nat /\ p.upto \in Nat
      /\ q.at = p.at + 1 /\ q.upto = p.upto /\ q.over = p.over
      /\ \A j : [p EXCEPT !.at = j] = [q EXCEPT !.at = j]
      /\ [p EXCEPT !.at = p.at] = p
  BY PlacesAre
<1> HIDE DEF q
<1>4. CP = CQ
  BY <1>3
<1>5. beforeP = {p.at} \cup beforeQ
  <2>1. \A c \in closed : c \in Int /\ p.at < c
    BY <1>3
  <2>2. p.at .. p.upto = {p.at} \cup ((p.at + 1) .. p.upto)
    BY <1>3
  <2> QED BY <2>1, <2>2, <1>3
<1>6. AP = {truth[p]} \cup AQ
  <2> DEFINE K(j) == [p EXCEPT !.at = j]
             L(j) == [q EXCEPT !.at = j]
  <2>1. AQ = {truth[K(j)] : j \in beforeQ}
    <3>1. AQ = {truth[L(j)] : j \in beforeQ}
      OBVIOUS
    <3>2. \A j : K(j) = L(j)
      BY <1>3
    <3> HIDE DEF beforeQ, K, L, AQ
    <3> QED BY <3>1, <3>2
  <2>2. AP = {truth[K(j)] : j \in beforeP}
    OBVIOUS
  <2>3. K(p.at) = p
    BY <1>3
  <2> HIDE DEF beforeP, beforeQ, AP, AQ, K
  <2> QED BY <1>5, <2>1, <2>2, <2>3
<1>7. AP \cup B \cup CP = {truth[p]} \cup (AQ \cup B \cup CQ)
  <2> HIDE DEF AP, AQ, B, CP, CQ
  <2> QED BY <1>4, <1>6
<1>8. Some({truth[p]}) = truth[p]
  <2> DEFINE S == {truth[p]}
  <2>1. /\ "holds" \in S <=> truth[p] = "holds"
        /\ "pending" \in S <=> truth[p] = "pending"
    OBVIOUS
  <2>2. truth[p] = "holds" \/ truth[p] = "violated" \/ truth[p] = "pending"
    BY DEF Words
  <2> HIDE DEF S
  <2>3. Some(S) = truth[p]
    BY <2>1, <2>2, SomeIs
  <2> QED BY <2>3 DEF S
<1> DEFINE rest == AQ \cup B \cup CQ
<1> HIDE DEF AP, AQ, B, CP, CQ
<1>9. Promise(truth, closed, p) = Some({truth[p]} \cup rest)
  BY <1>1, <1>7
<1>10. Promise(truth, closed, q) = Some(rest)
  BY <1>2
<1> HIDE DEF rest
<1>11. Some({truth[p]} \cup rest) = Some({truth[p], Some(rest)})
  BY <1>8, SomeOfParts
<1> QED BY <1>9, <1>10, <1>11 DEF q

\* A promise beyond the observations is open until the run is over.
LEMMA PromiseBeyond ==
  ASSUME NEW truth, NEW p \in Place, p.at > p.upto
  PROVE  Promise(truth, {}, p) = IF p.over THEN "violated" ELSE "pending"
<1> DEFINE Then(j) == truth[[at |-> j, upto |-> j, over |-> FALSE]]
           before == {j \in p.at .. p.upto : \A c \in {} : j < c}
           atClose == {j \in {} : \A c \in {} : j <= c}
           A == {truth[[p EXCEPT !.at = j]] : j \in before}
           B == {IF Then(j) = "holds" THEN "holds" ELSE "violated" : j \in atClose}
           C == {IF {} # {} \/ p.over THEN "violated" ELSE "pending"}
<1>1. Promise(truth, {}, p) = Some(A \cup B \cup C)
  BY DEF Promise
<1>2. before = {} /\ atClose = {}
  BY PlacesAre
<1>3. A = {} /\ B = {} /\ C = {IF p.over THEN "violated" ELSE "pending"}
  BY <1>2
<1> DEFINE D == A \cup B \cup C
<1>4. "holds" \notin D /\ ("pending" \in D <=> ~ p.over)
  BY <1>3
<1> HIDE DEF D
<1>5. Promise(truth, {}, p) = Some(D)
  BY <1>1 DEF D
<1> QED BY <1>4, <1>5, SomeIs

\* obs is the observation of h it says it is.
ObservedIn(h, obs) ==
  /\ Observation(obs) /\ h[obs.index].now = obs.now /\ h[obs.index].atoms = obs.atoms

\* An open window closes, after an observation, where it did before it.
LEMMA WindowStep ==
  ASSUME NEW h, NEW f, NEW parts, Timed(f, parts), NEW obs, ObservedIn(h, obs),
         NEW p \in Place, p.at = obs.index, p.at <= p.upto
  PROVE
  /\ ClosedBy(h, f, p) \in SUBSET (p.at .. p.upto)
  /\ HasClosed(Resolve(f, obs), obs) => p.at \in ClosedBy(h, f, p)
  /\ ~ HasClosed(Resolve(f, obs), obs) =>
       /\ ClosedBy(h, f, p) = ClosedBy(h, Resolve(f, obs), Later(p))
       /\ ClosedBy(h, f, p) \in SUBSET (p.at + 1 .. p.upto)
<1> DEFINE g == Resolve(f, obs)
           q == Later(p)
<1>0. Observation(obs) /\ h[p.at].now = obs.now
  BY DEF ObservedIn
<1>1. /\ g = Temporal(f.op, f.inner, f.unit, f.amount, g.closes)
      /\ g.closes \in Nat \cup {Unresolved}
      /\ f.unit = "none" \/ f.closes # Unresolved => g.closes = f.closes
      /\ f.unit # "none" => g.closes # Unresolved
      /\ f.unit = "steps" /\ f.closes = Unresolved => g.closes = obs.index + f.amount - 1
      /\ f.unit = "seconds" /\ f.closes = Unresolved => g.closes = obs.now + f.amount
  BY <1>0, ResolveIs
<1>2. g.unit = f.unit
  <2> HIDE DEF g
  <2> QED BY <1>1 DEF Temporal
<1>3. p.at \in Nat /\ p.upto \in Nat /\ q.at = p.at + 1 /\ q.upto = p.upto
  BY PlacesAre
<1> HIDE DEF g, q
<1>u. f.unit \in {"none", "steps", "seconds"}
  BY DEF Timed, Units
<1>4. f.unit # "none" => ClosesAt(h, f, p) = g.closes /\ ClosesAt(h, g, q) = g.closes
  BY <1>0, <1>1, <1>u DEF ClosesAt
<1>5. HasClosed(g, obs) <=> \/ f.unit = "steps" /\ p.at >= g.closes
                            \/ f.unit = "seconds" /\ h[p.at].now >= g.closes
  BY <1>0, <1>2 DEF HasClosed
<1>6. ASSUME NEW j
      PROVE  j \in ClosedBy(h, f, p) <=>
               /\ j \in p.at .. p.upto
               /\ \/ f.unit = "steps" /\ j >= g.closes
                  \/ f.unit = "seconds" /\ h[j].now >= g.closes
  BY <1>4 DEF ClosedBy
<1>7. ASSUME NEW j
      PROVE  j \in ClosedBy(h, g, q) <=>
               /\ j \in p.at + 1 .. p.upto
               /\ \/ f.unit = "steps" /\ j >= g.closes
                  \/ f.unit = "seconds" /\ h[j].now >= g.closes
  BY <1>2, <1>3, <1>4 DEF ClosedBy
<1>8. ClosedBy(h, f, p) \in SUBSET (p.at .. p.upto)
  BY DEF ClosedBy
<1>9. p.at \in p.at .. p.upto
  BY <1>3
<1>10. HasClosed(g, obs) => p.at \in ClosedBy(h, f, p)
  BY <1>5, <1>6, <1>9
<1>11. ASSUME ~ HasClosed(g, obs)
       PROVE  /\ ClosedBy(h, f, p) = ClosedBy(h, g, q)
              /\ ClosedBy(h, f, p) \in SUBSET (p.at + 1 .. p.upto)
  <2>1. p.at .. p.upto = {p.at} \cup (p.at + 1 .. p.upto)
    BY <1>3
  <2>2. p.at \notin ClosedBy(h, f, p)
    BY <1>5, <1>6, <1>11
  <2>3. \A j : j \in ClosedBy(h, f, p) <=> j \in ClosedBy(h, g, q)
    <3> SUFFICES ASSUME NEW j PROVE j \in ClosedBy(h, f, p) <=> j \in ClosedBy(h, g, q)
      OBVIOUS
    <3>1. CASE j = p.at
      <4>1. p.at \notin p.at + 1 .. p.upto
        BY <1>3
      <4> QED BY <2>2, <3>1, <4>1, <1>7
    <3>2. CASE j # p.at
      BY <2>1, <3>2, <1>6, <1>7
    <3> QED BY <3>1, <3>2
  <2>4. \A j \in ClosedBy(h, f, p) : j \in p.at + 1 .. p.upto
    BY <2>1, <2>2, <1>8
  <2> QED BY <2>3, <2>4
<1> QED BY <1>8, <1>10, <1>11 DEF g, q

\* Beyond the observations nothing is decided until the run is over.
LEMMA Unsettled ==
  ASSUME NEW h
  PROVE  \A f \in AnyFormula : \A p \in Place :
           p.at > p.upto /\ ~ p.over => WorthOf(h)[f][p] = "pending"
<1> DEFINE W == WorthOf(h)
           T == {f \in AnyFormula : \A p \in Place : p.at > p.upto /\ ~ p.over => W[f][p] = "pending"}
<1>0. W = [f \in AnyFormula |-> [p \in Place |-> Worth(h, f, W, p)]]
  BY WorthOfIs
<1> HIDE DEF W
<1>1. ASSUME NEW f \in AnyFormula,
             Leaf(f) \/ Joint(f, AnyFormula \cap T) \/ Timed(f, AnyFormula \cap T)
      PROVE  f \in T
  <2> SUFFICES ASSUME NEW p \in Place, p.at > p.upto, ~ p.over PROVE W[f][p] = "pending"
    OBVIOUS
  <2>0. W[f][p] = Worth(h, f, W, p) /\ WorthClauses(h, f, W, p)
    BY <1>0, WorthsAre
  <2>1. \A x \in AnyFormula \cap T : W[x][p] = "pending"
    OBVIOUS
  <2> HIDE DEF T
  <2>2. "pending" \in Words /\ Some({"pending", "pending"}) = "pending"
    BY SomeOfTwo DEF Words
  <2>3. CASE Leaf(f)
    <3>1. f.op \in {"pure", "thunk"}
      BY <2>3 DEF Leaf
    <3>2. OfPure(f, p) = "pending" /\ OfThunk(h, f, p) = "pending"
      BY PlacesAre DEF OfPure, OfThunk
    <3> QED BY <2>0, <3>1, <3>2 DEF WorthClauses
  <2>4. CASE f.op \in UnaryOps /\ W[f.inner][p] = "pending"
    <3>1. f.op = "not" => W[f][p] = "pending"
      BY <2>0, <2>4, OppositeIs DEF WorthClauses
    <3>2. f.op = "now" => W[f][p] = "pending"
      BY <2>0, <2>4 DEF WorthClauses
    <3>3. f.op = "next" => W[f][p] = "pending"
      BY <2>0 DEF WorthClauses
    <3> QED BY <2>4, <3>1, <3>2, <3>3 DEF UnaryOps
  <2>5. CASE f.op \in BinaryOps /\ W[f.left][p] = "pending" /\ W[f.right][p] = "pending"
    BY <2>0, <2>2, <2>5, OppositeIs DEF WorthClauses, BinaryOps
  <2>6. CASE f.op \in TemporalOps
    <3>1. ClosedBy(h, f, p) = {}
      <4>1. p.at .. p.upto = {}
        BY PlacesAre
      <4> QED BY <4>1 DEF ClosedBy
    <3>2. \A truth : Promise(truth, {}, p) = "pending"
      BY PromiseBeyond
    <3> QED BY <2>0, <2>6, <3>1, <3>2, OppositeIs DEF WorthClauses, TemporalOps
  <2> QED BY <1>1, <2>1, <2>3, <2>4, <2>5, <2>6 DEF Joint, Timed
<1>2. AnyFormula \subseteq T
  <2> HIDE DEF T
  <2> QED BY <1>1, FormulaSteps DEF Formulas
<1> QED BY <1>2 DEF W

\* At the end of the run a residual is worth what Finalize makes of it.
LEMMA FinalIsWorth ==
  ASSUME NEW h
  PROVE  \A f \in Formula : \A p \in Place :
           p.at > p.upto /\ p.over => WorthOf(h)[f][p] = FinalStatus[f]
<1> DEFINE W == WorthOf(h)
           T == {f \in Formula : \A p \in Place : p.at > p.upto /\ p.over => W[f][p] = FinalStatus[f]}
<1>0. W = [f \in AnyFormula |-> [p \in Place |-> Worth(h, f, W, p)]]
  BY WorthOfIs
<1> HIDE DEF W
<1>1. ASSUME NEW f \in Formula,
             Leaf(f) \/ Joint(f, Formula \cap T) \/ Timed(f, Formula \cap T)
      PROVE  f \in T
  <2> SUFFICES ASSUME NEW p \in Place, p.at > p.upto, p.over PROVE W[f][p] = FinalStatus[f]
    OBVIOUS
  <2>a. f \in AnyFormula
    BY TopIs DEF AnyFormula
  <2>0. W[f][p] = Worth(h, f, W, p) /\ WorthClauses(h, f, W, p)
    BY <1>0, <2>a, WorthsAre
  <2>1. \A x \in Formula \cap T : W[x][p] = FinalStatus[x] /\ FinalStatus[x] \in Words
    BY FinalStatusIs
  <2>2. FinalStatus[f] = Finality(f, FinalStatus)
    BY FinalStatusIs
  <2> HIDE DEF T
  <2>3. CASE Leaf(f)
    <3>1. f.op \in {"pure", "thunk"}
      BY <2>3 DEF Leaf
    <3>2. OfPure(f, p) = (IF f.value THEN "holds" ELSE "violated") /\ OfThunk(h, f, p) = "pending"
      BY PlacesAre DEF OfPure, OfThunk
    <3> QED BY <2>0, <2>2, <3>1, <3>2, FinalitiesAre DEF WorthClauses
  <2>4. CASE f.op \in UnaryOps /\ W[f.inner][p] = FinalStatus[f.inner]
    <3>1. f.op = "not" => W[f][p] = FinalStatus[f]
      BY <2>0, <2>2, <2>4, FinalitiesAre DEF WorthClauses
    <3>2. f.op = "now" => W[f][p] = FinalStatus[f]
      BY <2>0, <2>2, <2>4, FinalitiesAre DEF WorthClauses
    <3>3. f.op = "next" => W[f][p] = FinalStatus[f]
      BY <2>0, <2>2, FinalitiesAre DEF WorthClauses
    <3> QED BY <2>4, <3>1, <3>2, <3>3 DEF UnaryOps
  <2>5. CASE /\ f.op \in BinaryOps
             /\ W[f.left][p] = FinalStatus[f.left] /\ FinalStatus[f.left] \in Words
             /\ W[f.right][p] = FinalStatus[f.right] /\ FinalStatus[f.right] \in Words
    <3> DEFINE l == FinalStatus[f.left]
               r == FinalStatus[f.right]
    <3>0. l \in Words /\ r \in Words /\ Opposite[l] \in Words /\ Opposite[r] \in Words
      BY <2>5, OppositeIs
    <3> HIDE DEF l, r
    <3>1. CASE f.op = "or"
      <4>1. W[f][p] = Some({l, r})
        BY <2>0, <2>5, <3>1 DEF WorthClauses, l, r
      <4>2. /\ l = "holds" \/ r = "holds" => FinalStatus[f] = "holds"
            /\ l # "holds" /\ r # "holds" /\ (l = "pending" \/ r = "pending") => FinalStatus[f] = "pending"
            /\ l \notin {"holds", "pending"} /\ r \notin {"holds", "pending"} => FinalStatus[f] = "violated"
        BY <2>2, <3>1, FinalitiesAre DEF l, r
      <4> QED BY <3>0, <4>1, <4>2, SomeOfTwo DEF Words
    <3>2. CASE f.op = "implies"
      <4>1. W[f][p] = Some({Opposite[l], r})
        BY <2>0, <2>5, <3>2 DEF WorthClauses, l, r
      <4>2. /\ Opposite[l] = "holds" \/ r = "holds" => FinalStatus[f] = "holds"
            /\ Opposite[l] # "holds" /\ r # "holds" /\ (Opposite[l] = "pending" \/ r = "pending")
               => FinalStatus[f] = "pending"
            /\ Opposite[l] \notin {"holds", "pending"} /\ r \notin {"holds", "pending"}
               => FinalStatus[f] = "violated"
        BY <2>2, <3>2, FinalitiesAre DEF l, r
      <4> QED BY <3>0, <4>1, <4>2, SomeOfTwo DEF Words
    <3>3. CASE f.op = "and"
      <4>1. W[f][p] = Opposite[Some({Opposite[l], Opposite[r]})]
        BY <2>0, <2>5, <3>3 DEF WorthClauses, l, r
      <4>2. /\ l = "violated" \/ r = "violated" => FinalStatus[f] = "violated"
            /\ l # "violated" /\ r # "violated" /\ (l = "pending" \/ r = "pending") => FinalStatus[f] = "pending"
            /\ l \notin {"violated", "pending"} /\ r \notin {"violated", "pending"} => FinalStatus[f] = "holds"
        BY <2>2, <3>3, FinalitiesAre DEF l, r
      <4> QED BY <3>0, <4>1, <4>2, SomeOfTwo, OppositeIs DEF Words
    <3> QED BY <2>5, <3>1, <3>2, <3>3 DEF BinaryOps
  <2>6. CASE f.op \in TemporalOps
    <3>1. ClosedBy(h, f, p) = {}
      <4>1. p.at .. p.upto = {}
        BY PlacesAre
      <4> QED BY <4>1 DEF ClosedBy
    <3>2. \A truth : Promise(truth, {}, p) = "violated"
      BY PromiseBeyond
    <3>3. CASE f.op = "eventually"
      BY <2>0, <2>2, <3>1, <3>2, <3>3, FinalitiesAre DEF WorthClauses
    <3>4. CASE f.op = "always"
      BY <2>0, <2>2, <3>1, <3>2, <3>4, FinalitiesAre, OppositeIs DEF WorthClauses
    <3> QED BY <2>6, <3>3, <3>4 DEF TemporalOps
  <2> QED BY <1>1, <2>1, <2>3, <2>4, <2>5, <2>6 DEF Joint, Timed
<1>2. Formula \subseteq T
  <2> HIDE DEF T
  <2> QED BY <1>1, FormulaSteps DEF Formulas
<1> QED BY <1>2 DEF W

----------------------------------------------------------------------------
(* Reduction is sound.                                                     *)

\* What a reduction promises of the value at p: the one it decides, or that of what is left,
\* from the next observation on.
Outcome(h, r, p) == IF r.status = "pending" THEN WorthOf(h)[r.formula][Later(p)] ELSE r.status

\* What a reduction promises is a value.
LEMMA OutcomeIsWord ==
  \A h : \A r \in Reductions : \A p \in Place : Outcome(h, r, p) \in Words
<1> SUFFICES ASSUME NEW h, NEW r \in Reductions, NEW p \in Place PROVE Outcome(h, r, p) \in Words
  OBVIOUS
<1>1. r.status \in Words /\ r.formula \in AnyFormula
  BY DEF Reductions
<1>2. Later(p) \in Place
  BY PlacesAre
<1>3. WorthOf(h)[r.formula] \in Truths
  BY <1>1, WorthOfIs
<1>4. WorthOf(h)[r.formula][Later(p)] \in Words
  BY <1>2, <1>3 DEF Truths
<1> QED BY <1>1, <1>4 DEF Outcome

\* Joining reductions joins what they promise.
LEMMA OutcomesJoin ==
  ASSUME NEW h, NEW l \in Reductions, NEW r \in Reductions, NEW p \in Place, p.at <= p.upto
  PROVE
  /\ Outcome(h, Negate(l), p) = Opposite[Outcome(h, l, p)]
  /\ Outcome(h, JoinOr(l, r), p) = Some({Outcome(h, l, p), Outcome(h, r, p)})
  /\ Outcome(h, JoinAnd(l, r), p) =
       Opposite[Some({Opposite[Outcome(h, l, p)], Opposite[Outcome(h, r, p)]})]
<1> DEFINE W == WorthOf(h)
           q == Later(p)
           L == Outcome(h, l, p)
           R == Outcome(h, r, p)
<1>0. W = [f \in AnyFormula |-> [x \in Place |-> Worth(h, f, W, x)]]
  BY WorthOfIs
<1>1. /\ l.status \in Words /\ l.formula \in AnyFormula
      /\ r.status \in Words /\ r.formula \in AnyFormula
  BY DEF Reductions
<1>2. q \in Place
  BY PlacesAre
<1>3. /\ L \in Words /\ R \in Words
      /\ Opposite[L] \in Words /\ Opposite[R] \in Words
  BY OutcomeIsWord, OppositeIs
<1>4. /\ L = IF l.status = "pending" THEN W[l.formula][q] ELSE l.status
      /\ R = IF r.status = "pending" THEN W[r.formula][q] ELSE r.status
  BY DEF Outcome
<1>5. /\ \A w \in Words \ {"pending"} : Outcome(h, Done(w), p) = w
      /\ \A f : Outcome(h, Pending(f), p) = W[f][q]
  BY DEF Outcome, Done, Pending
<1>6. /\ W[Unary("not", l.formula)][q] = Opposite[W[l.formula][q]]
      /\ W[Binary("or", l.formula, r.formula)][q] = Some({W[l.formula][q], W[r.formula][q]})
      /\ W[Binary("and", l.formula, r.formula)][q] =
           Opposite[Some({Opposite[W[l.formula][q]], Opposite[W[r.formula][q]]})]
  <2> DEFINE a == Unary("not", l.formula)
             b == Binary("or", l.formula, r.formula)
             c == Binary("and", l.formula, r.formula)
  <2>1. a \in AnyFormula /\ b \in AnyFormula /\ c \in AnyFormula
    BY <1>1, UnaryShape, BinaryShape DEF UnaryOps, BinaryOps
  <2>2. /\ a.op = "not" /\ a.inner = l.formula
        /\ b.op = "or" /\ b.left = l.formula /\ b.right = r.formula
        /\ c.op = "and" /\ c.left = l.formula /\ c.right = r.formula
    BY DEF Unary, Binary
  <2> HIDE DEF a, b, c, W, q
  <2>3. W[a][q] = Worth(h, a, W, q) /\ W[b][q] = Worth(h, b, W, q) /\ W[c][q] = Worth(h, c, W, q)
    BY <1>0, <1>2, <2>1
  <2>4. WorthClauses(h, a, W, q) /\ WorthClauses(h, b, W, q) /\ WorthClauses(h, c, W, q)
    BY WorthsAre
  <2>5. W[a][q] = Opposite[W[l.formula][q]]
    BY <2>2, <2>3, <2>4 DEF WorthClauses
  <2>6. W[b][q] = Some({W[l.formula][q], W[r.formula][q]})
    BY <2>2, <2>3, <2>4 DEF WorthClauses
  <2>7. W[c][q] = Opposite[Some({Opposite[W[l.formula][q]], Opposite[W[r.formula][q]]})]
    BY <2>2, <2>3, <2>4 DEF WorthClauses
  <2> QED BY <2>5, <2>6, <2>7 DEF a, b, c
<1> HIDE DEF W, q, L, R
<1>7. Outcome(h, Negate(l), p) = Opposite[L]
  <2>1. /\ l.status = "holds" => Negate(l) = Done("violated")
        /\ l.status = "violated" => Negate(l) = Done("holds")
        /\ l.status = "pending" => Negate(l) = Pending(Unary("not", l.formula))
    BY DEF Negate
  <2> QED BY <1>1, <1>4, <1>5, <1>6, <2>1, OppositeIs DEF Words
<1>8. Outcome(h, JoinOr(l, r), p) = Some({L, R})
  <2>1. CASE l.status = "holds" \/ r.status = "holds"
    <3>1. JoinOr(l, r) = Done("holds") /\ (L = "holds" \/ R = "holds")
      BY <2>1, <1>4, JoinsAre
    <3> QED BY <1>3, <1>5, <3>1, SomeOfTwo DEF Words
  <2>2. CASE l.status = "violated" /\ r.status # "holds"
    <3>1. JoinOr(l, r) = r /\ L = "violated"
      BY <2>2, <1>4, JoinsAre
    <3>2. Some({L, R}) = R
      BY <1>3, <3>1, SomeOfTwo
    <3> QED BY <3>1, <3>2 DEF R
  <2>3. CASE l.status = "pending" /\ r.status = "violated"
    <3>1. JoinOr(l, r) = l /\ R = "violated"
      BY <2>3, <1>4, JoinsAre
    <3>2. Some({L, R}) = L
      BY <1>3, <3>1, SomeOfTwo
    <3> QED BY <3>1, <3>2 DEF L
  <2>4. CASE l.status = "pending" /\ r.status = "pending"
    BY <1>4, <1>5, <1>6, <2>4, JoinsAre
  <2> QED BY <1>1, <2>1, <2>2, <2>3, <2>4 DEF Words
<1>9. Outcome(h, JoinAnd(l, r), p) = Opposite[Some({Opposite[L], Opposite[R]})]
  <2>1. CASE l.status = "violated" \/ r.status = "violated"
    <3>1. JoinAnd(l, r) = Done("violated") /\ (Opposite[L] = "holds" \/ Opposite[R] = "holds")
      BY <2>1, <1>4, JoinsAre, OppositeIs
    <3>2. Outcome(h, Done("violated"), p) = "violated"
      BY <1>5 DEF Words
    <3>3. Some({Opposite[L], Opposite[R]}) = "holds"
      BY <1>3, <3>1, SomeOfTwo
    <3> QED BY <3>1, <3>2, <3>3, OppositeIs
  <2>2. CASE l.status = "holds" /\ r.status # "violated"
    <3>1. JoinAnd(l, r) = r /\ Opposite[L] = "violated"
      BY <2>2, <1>4, JoinsAre, OppositeIs
    <3> QED BY <1>3, <3>1, SomeOfTwo, OppositeIs DEF R
  <2>3. CASE l.status = "pending" /\ r.status = "holds"
    <3>1. JoinAnd(l, r) = l /\ Opposite[R] = "violated"
      BY <2>3, <1>4, JoinsAre, OppositeIs
    <3> QED BY <1>3, <3>1, SomeOfTwo, OppositeIs DEF L
  <2>4. CASE l.status = "pending" /\ r.status = "pending"
    BY <1>4, <1>5, <1>6, <2>4, JoinsAre
  <2> QED BY <1>1, <2>1, <2>2, <2>3, <2>4 DEF Words
<1> QED BY <1>7, <1>8, <1>9 DEF L, R

\* What a promise reduces to is worth what it was.
LEMMA PromiseReduces ==
  ASSUME NEW h, NEW f \in AnyFormula, NEW parts \in SUBSET AnyFormula, Timed(f, parts),
         NEW obs, ObservedIn(h, obs), NEW p \in Place, p.at = obs.index, p.at <= p.upto,
         NEW R, R[f.inner] \in Reductions,
         \A x \in Place : x.at = obs.index /\ x.at <= x.upto =>
           WorthOf(h)[f.inner][x] = Outcome(h, R[f.inner], x)
  PROVE  WorthOf(h)[f][p] = Outcome(h, Reduction(f, obs, R), p)
<1> DEFINE W == WorthOf(h)
           q == Later(p)
           g == Resolve(f, obs)
           r == R[f.inner]
           C == ClosedBy(h, f, p)
<1>0. W = [x \in AnyFormula |-> [y \in Place |-> Worth(h, x, W, y)]]
  BY WorthOfIs
<1>1. f.op \in TemporalOps /\ f.inner \in AnyFormula
  BY DEF Timed
<1>2. /\ C \in SUBSET (p.at .. p.upto)
      /\ HasClosed(g, obs) => p.at \in C
      /\ ~ HasClosed(g, obs) => C = ClosedBy(h, g, q) /\ C \in SUBSET (p.at + 1 .. p.upto)
  BY WindowStep
<1>3. g \in AnyFormula /\ g.op = f.op /\ g.inner = f.inner
  <2>1. Observation(obs)
    BY DEF ObservedIn
  <2>2. g = Temporal(f.op, f.inner, f.unit, f.amount, g.closes) /\ g.closes \in Nat \cup {Unresolved}
    BY <2>1, ResolveIs
  <2>3. f.unit \in Units /\ f.amount \in Nat
    BY DEF Timed
  <2> HIDE DEF g
  <2>4. g.op = f.op /\ g.inner = f.inner
    BY <2>2 DEF Temporal
  <2> QED BY <1>1, <2>2, <2>3, <2>4, TemporalShape
<1>4. q \in Place /\ Alone(p) \in Place /\ Alone(p).at = obs.index /\ Alone(p).at <= Alone(p).upto
  BY PlacesAre DEF Alone
<1>5. W[f.inner][p] = Outcome(h, r, p) /\ W[f.inner][Alone(p)] = Outcome(h, r, Alone(p))
  BY <1>4
<1>6. r.status \in Words /\ r.formula \in AnyFormula
  BY DEF Reductions
<1>7. Outcome(h, r, Alone(p)) = r.status
  <2>1. CASE r.status = "pending"
    <3> DEFINE y == Later(Alone(p))
    <3>0. Alone(p).at = p.at /\ Alone(p).upto = p.at /\ Alone(p).over = FALSE /\ p.at \in Nat
      BY PlacesAre DEF Alone
    <3>1. y \in Place /\ y.at = p.at + 1 /\ y.upto = p.at /\ y.over = FALSE
      BY <1>4, <3>0, PlacesAre
    <3> HIDE DEF y
    <3>2. WorthOf(h)[r.formula][y] = "pending"
      BY <1>6, <3>0, <3>1, Unsettled
    <3> QED BY <2>1, <3>2 DEF Outcome, y
  <2>2. CASE r.status # "pending"
    BY <2>2 DEF Outcome
  <2> QED BY <2>1, <2>2
<1>8. W[f][p] = Worth(h, f, W, p) /\ WorthClauses(h, f, W, p)
  BY <1>0, WorthsAre
<1>9. W[g][q] = Worth(h, g, W, q) /\ WorthClauses(h, g, W, q)
  <2> HIDE DEF W, g, q
  <2> QED BY <1>0, <1>3, <1>4, WorthsAre
<1>10. /\ \A w \in Words \ {"pending"} : Outcome(h, Done(w), p) = w
       /\ \A x : Outcome(h, Pending(x), p) = W[x][q]
  BY DEF Outcome, Done, Pending
<1>11. W[f.inner] \in Truths /\ W[g] \in Truths
  BY <1>1, <1>3, WorthOfIs
<1>12. Pending(g) \in Reductions
  BY <1>3, ReductionShape
<1>a. /\ f.op = "eventually" =>
         /\ r.status = "holds" => Reduction(f, obs, R) = Done("holds")
         /\ r.status # "holds" /\ HasClosed(g, obs) => Reduction(f, obs, R) = Done("violated")
         /\ r.status # "holds" /\ ~ HasClosed(g, obs) => Reduction(f, obs, R) = Unroll(g, r)
      /\ f.op = "always" =>
         /\ r.status = "violated" => Reduction(f, obs, R) = Done("violated")
         /\ r.status # "violated" /\ HasClosed(g, obs) => Reduction(f, obs, R) = Done("holds")
         /\ r.status # "violated" /\ ~ HasClosed(g, obs) => Reduction(f, obs, R) = JoinAnd(r, Pending(g))
  BY ReductionsAre
<1>b. r \in Reductions
  OBVIOUS
<1> HIDE DEF W, q, g, r, C
<1>13. ASSUME f.op = "eventually" PROVE W[f][p] = Outcome(h, Reduction(f, obs, R), p)
  <2>1. W[f][p] = Promise(W[f.inner], C, p)
    BY <1>8, <1>13 DEF WorthClauses, C
  <2>2. W[g][q] = Promise(W[f.inner], ClosedBy(h, g, q), q)
    BY <1>3, <1>9, <1>13 DEF WorthClauses
  <2>3. CASE HasClosed(g, obs)
    <3>1. W[f][p] = IF W[f.inner][Alone(p)] = "holds" THEN "holds" ELSE "violated"
      BY <1>2, <2>1, <2>3, PromiseClosed
    <3> QED BY <1>5, <1>6, <1>7, <1>10, <1>a, <1>13, <2>3, <3>1 DEF Words
  <2>4. CASE ~ HasClosed(g, obs)
    <3>1. W[f.inner][p] \in Words /\ W[g][q] \in Words
      BY <1>4, <1>11 DEF Truths
    <3>2. W[f][p] = Some({W[f.inner][p], W[g][q]})
      BY <1>2, <2>1, <2>2, <2>4, <3>1, PromiseOpen DEF q
    <3>3. W[f][p] = Some({Outcome(h, r, p), Outcome(h, Pending(g), p)})
      BY <1>5, <1>10, <3>2
    <3>4. CASE r.status = "holds"
      <4>1. Outcome(h, r, p) = "holds"
        BY <3>4 DEF Outcome
      <4>2. W[f][p] = "holds"
        BY <1>5, <3>1, <3>2, <4>1, SomeOfTwo
      <4>3. Outcome(h, Done("holds"), p) = "holds"
        BY <1>10 DEF Words
      <4> QED BY <1>a, <1>13, <3>4, <4>2, <4>3
    <3>5. CASE r.status # "holds"
      <4>1. Outcome(h, JoinOr(r, Pending(g)), p) = Some({Outcome(h, r, p), Outcome(h, Pending(g), p)})
        BY <1>b, <1>12, OutcomesJoin
      <4>2. JoinOr(r, Pending(g)) = Unroll(g, r)
        <5>1. Pending(g).status = "pending" /\ Pending(g).formula = g
          BY DEF Pending
        <5>2. r.status = "violated" => JoinOr(r, Pending(g)) = Pending(g)
          BY <1>b, <1>12, <5>1, JoinsAre
        <5>3. r.status = "pending" => JoinOr(r, Pending(g)) = Pending(Binary("or", r.formula, g))
          BY <1>b, <1>12, <5>1, JoinsAre
        <5> QED BY <1>6, <3>5, <5>2, <5>3 DEF Unroll, Words
      <4> QED BY <1>a, <1>13, <2>4, <3>3, <3>5, <4>1, <4>2
    <3> QED BY <3>4, <3>5
  <2> QED BY <2>3, <2>4
<1>14. ASSUME f.op = "always" PROVE W[f][p] = Outcome(h, Reduction(f, obs, R), p)
  <2> DEFINE D == Denied(W[f.inner])
  <2>1. W[f][p] = Opposite[Promise(D, C, p)]
    BY <1>8, <1>14 DEF WorthClauses, C
  <2>2. W[g][q] = Opposite[Promise(D, ClosedBy(h, g, q), q)]
    BY <1>3, <1>9, <1>14 DEF WorthClauses
  <2>a. \A x \in Place : D[x] = Opposite[W[f.inner][x]]
    BY DEF Denied
  <2> HIDE DEF D
  <2>3. CASE HasClosed(g, obs)
    <3>1. Promise(D, C, p) = IF D[Alone(p)] = "holds" THEN "holds" ELSE "violated"
      BY <1>2, <2>3, PromiseClosed
    <3>2. D[Alone(p)] = Opposite[r.status]
      BY <1>4, <1>5, <1>7, <2>a
    <3> QED BY <1>6, <1>10, <1>a, <1>14, <2>1, <2>3, <3>1, <3>2, OppositeIs DEF Words
  <2>4. CASE ~ HasClosed(g, obs)
    <3>1. W[f.inner][p] \in Words /\ W[g][q] \in Words
      BY <1>4, <1>11 DEF Truths
    <3>2. D[p] = Opposite[W[f.inner][p]] /\ D[p] \in Words
      BY <2>a, <3>1, OppositeIs
    <3>3. Promise(D, C, p) = Some({D[p], Promise(D, C, q)})
      BY <1>2, <2>4, <3>2, PromiseOpen DEF q
    <3>4. Promise(D, C, q) = Opposite[W[g][q]]
      BY <1>2, <2>2, <2>4, PromiseIsWord, OppositeIs
    <3>5. W[f][p] = Opposite[Some({Opposite[Outcome(h, r, p)], Opposite[Outcome(h, Pending(g), p)]})]
      BY <1>5, <1>10, <2>1, <3>2, <3>3, <3>4
    <3>6. W[f][p] = Outcome(h, JoinAnd(r, Pending(g)), p)
      BY <1>b, <1>12, <3>5, OutcomesJoin
    <3>7. CASE r.status = "violated"
      <4>1. JoinAnd(r, Pending(g)) = Done("violated")
        BY <1>b, <1>12, <3>7, JoinsAre
      <4> QED BY <1>a, <1>14, <3>6, <3>7, <4>1
    <3> QED BY <1>a, <1>14, <2>4, <3>6, <3>7
  <2> QED BY <2>3, <2>4
<1> QED BY <1>1, <1>13, <1>14 DEF TemporalOps, W

\* Reducing a formula against an observation preserves what it is worth (reduce).
THEOREM ReduceIsSound ==
  ASSUME NEW h, NEW obs, ObservedIn(h, obs)
  PROVE  \A f \in Formula : \A p \in Place :
           p.at = obs.index /\ p.at <= p.upto =>
             WorthOf(h)[f][p] = Outcome(h, Reduce(f, obs), p)
<1> DEFINE W == WorthOf(h)
           R == Reducer(obs)
           T == {f \in Formula : \A p \in Place : p.at = obs.index /\ p.at <= p.upto =>
                                   W[f][p] = Outcome(h, R[f], p)}
<1>a. /\ R \in [Formula -> Reductions] /\ R = [f \in Formula |-> Reduction(f, obs, R)]
      /\ \A f : Reduce(f, obs) = R[f]
  BY ReducerIs DEF ObservedIn
<1>0. W = [f \in AnyFormula |-> [x \in Place |-> Worth(h, f, W, x)]]
  BY WorthOfIs
<1>b. Formula \subseteq AnyFormula
  BY TopIs DEF AnyFormula
<1> HIDE DEF W, R
<1>1. ASSUME NEW f \in Formula,
             Leaf(f) \/ Joint(f, Formula \cap T) \/ Timed(f, Formula \cap T)
      PROVE  f \in T
  <2> SUFFICES ASSUME NEW p \in Place, p.at = obs.index, p.at <= p.upto
               PROVE  W[f][p] = Outcome(h, R[f], p)
    OBVIOUS
  <2>0. W[f][p] = Worth(h, f, W, p) /\ WorthClauses(h, f, W, p)
    BY <1>0, <1>b, WorthsAre
  <2>1. R[f] = Reduction(f, obs, R)
    BY <1>a
  <2>2. \A x \in Formula \cap T : \A y \in Place : y.at = obs.index /\ y.at <= y.upto =>
           W[x][y] = Outcome(h, R[x], y)
    OBVIOUS
  <2>3. \A x \in Formula \cap T : R[x] \in Reductions
    BY <1>a
  <2> HIDE DEF T
  <2>4. \A w \in Words \ {"pending"} : Outcome(h, Done(w), p) = w
    BY DEF Outcome, Done
  <2>5. Outcome(h, Done("holds"), p) = "holds" /\ Outcome(h, Done("violated"), p) = "violated"
    BY <2>4 DEF Words
  <2>6. CASE Leaf(f)
    <3>1. CASE f.op = "pure"
      <4>1. OfPure(f, p) = IF f.value THEN "holds" ELSE "violated"
        BY PlacesAre DEF OfPure
      <4> QED BY <2>0, <2>1, <2>5, <3>1, <4>1, ReductionsAre DEF WorthClauses
    <3>2. CASE f.op = "thunk"
      <4>1. OfThunk(h, f, p) = IF obs.atoms[f.atom] = "true" THEN "holds" ELSE "violated"
        <5>1. h[p.at].atoms = obs.atoms
          BY DEF ObservedIn
        <5> QED BY <5>1, PlacesAre DEF OfThunk
      <4> QED BY <2>0, <2>1, <2>5, <3>2, <4>1, ReductionsAre DEF WorthClauses
    <3> QED BY <2>6, <3>1, <3>2 DEF Leaf
  <2>7. CASE f.op \in UnaryOps /\ f.inner \in Formula \cap T
    <3>0. W[f.inner][p] = Outcome(h, R[f.inner], p) /\ R[f.inner] \in Reductions
      BY <2>2, <2>3, <2>7
    <3>1. CASE f.op = "now"
      BY <2>0, <2>1, <3>0, <3>1, ReductionsAre DEF WorthClauses
    <3>2. CASE f.op = "next"
      <4>1. W[f][p] = W[f.inner][Later(p)]
        <5>1. ~ (p.at > p.upto)
          BY PlacesAre
        <5> QED BY <2>0, <3>2, <5>1 DEF WorthClauses, Later
      <4>2. Outcome(h, Pending(f.inner), p) = W[f.inner][Later(p)]
        BY DEF Outcome, Pending, W
      <4> QED BY <2>1, <3>2, <4>1, <4>2, ReductionsAre
    <3>3. CASE f.op = "not"
      <4>1. Outcome(h, Negate(R[f.inner]), p) = Opposite[Outcome(h, R[f.inner], p)]
        BY <3>0, OutcomesJoin
      <4> QED BY <2>0, <2>1, <3>0, <3>3, <4>1, ReductionsAre DEF WorthClauses
    <3> QED BY <2>7, <3>1, <3>2, <3>3 DEF UnaryOps
  <2>8. CASE f.op \in BinaryOps /\ f.left \in Formula \cap T /\ f.right \in Formula \cap T
    <3> DEFINE l == R[f.left]
               r == R[f.right]
    <3>0. /\ W[f.left][p] = Outcome(h, l, p) /\ l \in Reductions
          /\ W[f.right][p] = Outcome(h, r, p) /\ r \in Reductions
      BY <2>2, <2>3, <2>8
    <3>1. Negate(l) \in Reductions
      BY <3>0, ReductionShape
    <3>2. /\ f.op = "or" => R[f] = JoinOr(l, r)
          /\ f.op = "and" => R[f] = JoinAnd(l, r)
          /\ f.op = "implies" => R[f] = JoinOr(Negate(l), r)
      BY <2>1, ReductionsAre
    <3> HIDE DEF l, r
    <3>3. CASE f.op = "or"
      <4>1. Outcome(h, JoinOr(l, r), p) = Some({Outcome(h, l, p), Outcome(h, r, p)})
        BY <3>0, OutcomesJoin
      <4> QED BY <2>0, <3>0, <3>2, <3>3, <4>1 DEF WorthClauses
    <3>4. CASE f.op = "and"
      <4>1. Outcome(h, JoinAnd(l, r), p) = Opposite[Some({Opposite[Outcome(h, l, p)], Opposite[Outcome(h, r, p)]})]
        BY <3>0, OutcomesJoin
      <4> QED BY <2>0, <3>0, <3>2, <3>4, <4>1 DEF WorthClauses
    <3>5. CASE f.op = "implies"
      <4>1. /\ Outcome(h, JoinOr(Negate(l), r), p) = Some({Outcome(h, Negate(l), p), Outcome(h, r, p)})
            /\ Outcome(h, Negate(l), p) = Opposite[Outcome(h, l, p)]
        BY <3>0, <3>1, OutcomesJoin
      <4> QED BY <2>0, <3>0, <3>2, <3>5, <4>1 DEF WorthClauses
    <3> QED BY <2>8, <3>3, <3>4, <3>5 DEF BinaryOps
  <2>9. CASE Timed(f, Formula \cap T)
    <3>1. f.inner \in Formula \cap T /\ f \in AnyFormula
      BY <2>9, <1>b DEF Timed
    <3>2. R[f.inner] \in Reductions
      BY <2>3, <3>1
    <3>3. \A x \in Place : x.at = obs.index /\ x.at <= x.upto => W[f.inner][x] = Outcome(h, R[f.inner], x)
      BY <2>2, <3>1
    <3>4. Formula \cap T \in SUBSET AnyFormula
      BY <1>b
    <3>5. W[f][p] = Outcome(h, Reduction(f, obs, R), p)
      BY <2>9, <3>1, <3>2, <3>3, <3>4, PromiseReduces DEF W
    <3> QED BY <2>1, <3>5
  <2> QED BY <1>1, <2>6, <2>7, <2>8, <2>9 DEF Joint
<1>2. Formula \subseteq T
  <2> HIDE DEF T
  <2> QED BY <1>1, FormulaSteps DEF Formulas
<1> QED BY <1>2, <1>a DEF W

----------------------------------------------------------------------------
(* Normal forms, and how high they nest.                                   *)

\* A level is made of the formulas one operator away from those of the one before it.
LEMMA LevelParts ==
  ASSUME NEW n \in Nat
  PROVE  /\ \A f : f \in Built[n] <=>
               Leaf(f) \/ (n > 0 /\ (Joint(f, Built[n - 1]) \/ Timed(f, Built[n - 1])))
         /\ \A f : f \in Authored[n] <=>
               Leaf(f) \/ (n > 0 /\ (Joint(f, Authored[n - 1]) \/ Clause(f, Authored[n - 1])))
<1>1. CASE n = 0
  BY <1>1, LevelZero, LeavesAre
<1>2. CASE n > 0
  <2>1. n - 1 \in Nat /\ n - 1 + 1 = n
    BY <1>2
  <2>2. Built[n] = Building(Built[n - 1]) /\ Authored[n] = Authoring(Authored[n - 1])
    BY <2>1, LevelNext
  <2> QED BY <1>2, <2>2, BuildingIs, AuthoringIs
<1> QED BY <1>1, <1>2

\* What an operator makes of the formulas of a level is of the next one.
LEMMA LevelMakes ==
  ASSUME NEW n \in Nat
  PROVE  /\ \A b \in BOOLEAN : Pure(b) \in Built[n]
         /\ \A op \in UnaryOps, f \in Built[n] : Unary(op, f) \in Built[n + 1]
         /\ \A op \in BinaryOps, f \in Built[n], g \in Built[n] : Binary(op, f, g) \in Built[n + 1]
         /\ \A op \in TemporalOps, f \in Built[n], unit \in Units, amount \in Nat,
               closes \in Nat \cup {Unresolved} :
              Temporal(op, f, unit, amount, closes) \in Built[n + 1]
<1>0. n + 1 > 0 /\ n + 1 - 1 = n /\ n + 1 \in Nat
  OBVIOUS
<1>1. \A f : Leaf(f) => f \in Built[n]
  BY LevelParts
<1>2. \A f : Joint(f, Built[n]) \/ Timed(f, Built[n]) => f \in Built[n + 1]
  BY <1>0, LevelNext, BuildingIs
<1>3. \A b \in BOOLEAN : Leaf(Pure(b))
  BY DEF Leaf, Pure
<1>4. \A op \in UnaryOps, f \in Built[n] : Joint(Unary(op, f), Built[n])
  BY DEF Joint, Unary
<1>5. \A op \in BinaryOps, f \in Built[n], g \in Built[n] : Joint(Binary(op, f, g), Built[n])
  BY DEF Joint, Binary
<1>6. \A op \in TemporalOps, f \in Built[n], unit \in Units, amount \in Nat,
         closes \in Nat \cup {Unresolved} : Timed(Temporal(op, f, unit, amount, closes), Built[n])
  BY DEF Timed, Temporal
<1> QED BY <1>1, <1>2, <1>3, <1>4, <1>5, <1>6

\* Building a formula adds no level.
LEMMA BuildLevels ==
  \A n \in Nat : n <= Depth => \A f \in Authored[n] : BuildNode[f] \in Built[n]
<1> DEFINE T == {n \in Nat : n <= Depth => \A f \in Authored[n] : BuildNode[f] \in Built[n]}
<1>1. ASSUME NEW n \in Nat, n <= Depth, NEW f \in Authored[n]
      PROVE  f \in Property /\ BuildNode[f] = Node(f, BuildNode)
  <2>1. f \in Property
    BY <1>1, LevelsGrow, TopIs DEF Property
  <2> QED BY <2>1, BuildNodeIs
<1>2. ASSUME NEW n \in Nat, n <= Depth, NEW f \in Authored[n], Leaf(f)
      PROVE  BuildNode[f] \in Built[n]
  <2>1. f.op \in {"pure", "thunk"}
    BY <1>2 DEF Leaf
  <2>2. BuildNode[f] = f
    BY <1>1, <1>2, <2>1, NodesAre
  <2> QED BY <1>2, <2>2, LevelParts
<1>3. 0 \in T
  BY <1>2, LevelParts
<1>4. ASSUME NEW n \in Nat, n \in T PROVE n + 1 \in T
  <2> SUFFICES ASSUME n + 1 <= Depth, NEW f \in Authored[n + 1] PROVE BuildNode[f] \in Built[n + 1]
    OBVIOUS
  <2>0. n <= Depth /\ n + 1 \in Nat /\ n + 1 - 1 = n
    BY TopIs
  <2>1. \A x \in Authored[n] : BuildNode[x] \in Built[n]
    BY <1>4, <2>0
  <2>2. Leaf(f) \/ Joint(f, Authored[n]) \/ Clause(f, Authored[n])
    BY <2>0, LevelParts
  <2>3. BuildNode[f] = Node(f, BuildNode)
    BY <1>1, <2>0
  <2> HIDE DEF T
  <2>4. CASE Leaf(f)
    BY <1>2, <2>0, <2>4
  <2>5. CASE f.op \in UnaryOps /\ f.inner \in Authored[n]
    BY <2>1, <2>3, <2>5, NodesAre, LevelMakes
  <2>6. CASE f.op \in BinaryOps /\ f.left \in Authored[n] /\ f.right \in Authored[n]
    BY <2>1, <2>3, <2>6, NodesAre, LevelMakes
  <2>7. CASE f.op = "always" /\ f.inner \in Authored[n]
    <3>1. Temporal("always", BuildNode[f.inner], "none", 0, Unresolved) \in Built[n + 1]
      BY <2>1, <2>7, LevelMakes DEF TemporalOps, Units
    <3> QED BY <2>3, <2>7, <3>1, NodesAre
  <2>8. CASE f.op = "eventually" /\ f.inner \in Authored[n] /\ f.unit \in Units /\ f.halves \in Nat
    <3>1. Window(f.unit, f.halves).unit \in Units /\ Window(f.unit, f.halves).amount \in Nat
      BY <2>8, WindowShape
    <3>2. Temporal("eventually", BuildNode[f.inner], Window(f.unit, f.halves).unit,
                   Window(f.unit, f.halves).amount, Unresolved) \in Built[n + 1]
      BY <2>1, <2>8, <3>1, LevelMakes DEF TemporalOps
    <3> QED BY <2>3, <2>8, <3>2, NodesAre
  <2> QED BY <2>2, <2>4, <2>5, <2>6, <2>7, <2>8 DEF Joint, Clause
<1> HIDE DEF T
<1>5. Nat \subseteq T
  BY <1>3, <1>4, NatSteps
<1> QED BY <1>5 DEF T

\* The formulas of a level that are in normal form.
NormalAt(n) == {f \in Built[n] : InNormalForm[f]}

\* What a formula in normal form is made of.
LEMMA NormalParts ==
  ASSUME NEW n \in Nat, n < Top, NEW f \in NormalAt(n + 1)
  PROVE  \/ f.op \in {"pure", "thunk"} /\ Leaf(f)
         \/ f.op = "not" /\ f.inner.op = "thunk" /\ f.inner \in Formula
         \/ f.op \in {"now", "next"} /\ f.inner \in NormalAt(n)
         \/ f.op \in {"and", "or"} /\ f.left \in NormalAt(n) /\ f.right \in NormalAt(n)
         \/ Timed(f, NormalAt(n))
<1>0. n + 1 \in Nat /\ n + 1 <= Top /\ n <= Top /\ n + 1 - 1 = n
  BY TopIs
<1>1. f \in Built[n + 1] /\ Built[n + 1] \subseteq Formula /\ Built[n] \subseteq Formula
  BY <1>0, LevelsGrow, TopIs DEF NormalAt
<1>2. Leaf(f) \/ Joint(f, Built[n]) \/ Timed(f, Built[n])
  BY <1>0, <1>1, LevelParts
<1>3. NormalNode(f, InNormalForm)
  BY <1>1, InNormalFormIs DEF NormalAt
<1>4. CASE Leaf(f)
  BY <1>4 DEF Leaf
<1>5. CASE f.op \in UnaryOps /\ f.inner \in Built[n]
  BY <1>1, <1>3, <1>5, NormalNodesAre DEF UnaryOps, NormalAt
<1>6. CASE f.op \in BinaryOps /\ f.left \in Built[n] /\ f.right \in Built[n]
  BY <1>3, <1>6, NormalNodesAre DEF BinaryOps, NormalAt
<1>7. CASE Timed(f, Built[n])
  <2>1. InNormalForm[f.inner]
    BY <1>3, <1>7, NormalNodesAre DEF Timed
  <2> QED BY <1>7, <2>1 DEF Timed, NormalAt
<1> QED BY <1>2, <1>4, <1>5, <1>6, <1>7 DEF Joint

\* What keeps a formula in normal form.
LEMMA NormalMakes ==
  ASSUME NEW n \in Nat, n <= Top
  PROVE  /\ \A f \in Built[n] : f.op \in {"pure", "thunk"} => f \in NormalAt(n)
         /\ \A b \in BOOLEAN : Pure(b) \in NormalAt(n)
         /\ n < Top =>
            /\ NormalAt(n) \subseteq NormalAt(n + 1)
            /\ \A f \in NormalAt(n) : f.op = "thunk" => Unary("not", f) \in NormalAt(n + 1)
            /\ \A op \in {"now", "next"}, f \in NormalAt(n) : Unary(op, f) \in NormalAt(n + 1)
            /\ \A op \in {"and", "or"}, f, g \in NormalAt(n) : Binary(op, f, g) \in NormalAt(n + 1)
            /\ \A op \in TemporalOps, f \in NormalAt(n), unit \in Units, amount \in Nat,
                  closes \in Nat \cup {Unresolved} :
                 Temporal(op, f, unit, amount, closes) \in NormalAt(n + 1)
<1>1. \A m \in Nat : m <= Top => \A f \in Built[m] : InNormalForm[f] = NormalNode(f, InNormalForm)
  BY InNormalFormIs, LevelsGrow, TopIs
<1>2. \A m \in Nat : m <= Top => \A f \in Built[m] : f.op \in {"pure", "thunk"} => f \in NormalAt(m)
  BY <1>1, NormalNodesAre DEF NormalAt
<1>3. \A b \in BOOLEAN : Pure(b) \in NormalAt(n)
  <2>1. \A b \in BOOLEAN : Pure(b) \in Built[n]
    BY LevelMakes
  <2>2. \A b : Pure(b).op = "pure"
    BY DEF Pure
  <2> QED BY <1>2, <2>1, <2>2
<1>4. ASSUME n < Top
      PROVE  /\ NormalAt(n) \subseteq NormalAt(n + 1)
             /\ \A f \in NormalAt(n) : f.op = "thunk" => Unary("not", f) \in NormalAt(n + 1)
             /\ \A op \in {"now", "next"}, f \in NormalAt(n) : Unary(op, f) \in NormalAt(n + 1)
             /\ \A op \in {"and", "or"}, f, g \in NormalAt(n) : Binary(op, f, g) \in NormalAt(n + 1)
             /\ \A op \in TemporalOps, f \in NormalAt(n), unit \in Units, amount \in Nat,
                   closes \in Nat \cup {Unresolved} :
                  Temporal(op, f, unit, amount, closes) \in NormalAt(n + 1)
  <2>0. n + 1 \in Nat /\ n + 1 <= Top
    BY <1>4, TopIs
  <2>1. \A f \in Built[n + 1] : NormalNode(f, InNormalForm) => f \in NormalAt(n + 1)
    BY <1>1, <2>0 DEF NormalAt
  <2>2. NormalAt(n) \subseteq NormalAt(n + 1)
    BY LevelsRise DEF NormalAt
  <2>3. ASSUME NEW f \in NormalAt(n), f.op = "thunk" PROVE Unary("not", f) \in NormalAt(n + 1)
    <3>1. Unary("not", f) \in Built[n + 1]
      BY LevelMakes DEF NormalAt, UnaryOps
    <3>2. Unary("not", f).op = "not" /\ Unary("not", f).inner = f
      BY DEF Unary
    <3> QED BY <2>1, <2>3, <3>1, <3>2, NormalNodesAre
  <2>4. ASSUME NEW op \in {"now", "next"}, NEW f \in NormalAt(n) PROVE Unary(op, f) \in NormalAt(n + 1)
    <3>1. Unary(op, f) \in Built[n + 1] /\ InNormalForm[f]
      BY LevelMakes DEF NormalAt, UnaryOps
    <3>2. Unary(op, f).op = op /\ Unary(op, f).inner = f
      BY DEF Unary
    <3> QED BY <2>1, <2>4, <3>1, <3>2, NormalNodesAre
  <2>5. ASSUME NEW op \in {"and", "or"}, NEW f \in NormalAt(n), NEW g \in NormalAt(n)
        PROVE  Binary(op, f, g) \in NormalAt(n + 1)
    <3>1. Binary(op, f, g) \in Built[n + 1] /\ InNormalForm[f] /\ InNormalForm[g]
      BY LevelMakes DEF NormalAt, BinaryOps
    <3>2. Binary(op, f, g).op = op /\ Binary(op, f, g).left = f /\ Binary(op, f, g).right = g
      BY DEF Binary
    <3> QED BY <2>1, <2>5, <3>1, <3>2, NormalNodesAre
  <2>6. ASSUME NEW op \in TemporalOps, NEW f \in NormalAt(n), NEW unit \in Units, NEW amount \in Nat,
               NEW closes \in Nat \cup {Unresolved}
        PROVE  Temporal(op, f, unit, amount, closes) \in NormalAt(n + 1)
    <3> DEFINE t == Temporal(op, f, unit, amount, closes)
    <3>1. t \in Built[n + 1] /\ InNormalForm[f]
      BY LevelMakes DEF NormalAt
    <3>2. t.op = op /\ t.inner = f
      BY DEF Temporal
    <3> HIDE DEF t
    <3>3. t \in NormalAt(n + 1)
      BY <2>1, <2>6, <3>1, <3>2, NormalNodesAre
    <3> QED BY <3>3 DEF t
  <2> QED BY <2>2, <2>3, <2>4, <2>5, <2>6
<1> QED BY <1>2, <1>3, <1>4

\* nnf puts a formula in normal form, and adds one level at most: a negation around a predicate.
LEMMA NormalLevels ==
  \A n \in Nat : n < Top => \A f \in Built[n] :
    Normal[f].nnf \in NormalAt(n + 1) /\ Normal[f].pushNot \in NormalAt(n + 1)
<1> DEFINE In(f, n) == Normal[f].nnf \in NormalAt(n) /\ Normal[f].pushNot \in NormalAt(n)
           T == {n \in Nat : n < Top => \A f \in Built[n] : In(f, n + 1)}
<1>1. ASSUME NEW n \in Nat, n < Top, NEW f \in Built[n]
      PROVE  f \in Formula /\ Normal[f] = Forms(f, Normal)
  <2>1. f \in Formula
    BY <1>1, LevelsGrow, TopIs
  <2> QED BY <2>1, NormalIs
<1>2. ASSUME NEW n \in Nat, n < Top, NEW f \in Built[n], Leaf(f)
      PROVE  In(f, n + 1)
  <2>0. Normal[f] = Forms(f, Normal) /\ f \in Built[n + 1] /\ n + 1 \in Nat /\ n + 1 <= Top /\ n <= Top
    BY <1>1, <1>2, LevelsRise, TopIs
  <2>1. CASE f.op = "pure"
    <3>1. Pure(~ f.value) \in NormalAt(n + 1)
      <4>1. (~ f.value) \in BOOLEAN
        OBVIOUS
      <4>2. \A b \in BOOLEAN : Pure(b) \in NormalAt(n + 1)
        BY <2>0, NormalMakes
      <4> QED BY <4>1, <4>2
    <3>2. f \in NormalAt(n + 1)
      BY <2>0, <2>1, NormalMakes
    <3> QED BY <2>0, <2>1, <3>1, <3>2, FormsAre
  <2>2. CASE f.op = "thunk"
    <3>1. Unary("not", f) \in NormalAt(n + 1)
      BY <1>2, <2>0, <2>2, NormalMakes
    <3>2. f \in NormalAt(n + 1)
      BY <2>0, <2>2, NormalMakes
    <3> QED BY <2>0, <2>2, <3>1, <3>2, FormsAre
  <2> QED BY <1>2, <2>1, <2>2 DEF Leaf
<1>3. 0 \in T
  BY <1>2, LevelParts
<1>4. ASSUME NEW n \in Nat, n \in T PROVE n + 1 \in T
  <2> SUFFICES ASSUME n + 1 < Top, NEW f \in Built[n + 1] PROVE In(f, n + 2)
    OBVIOUS
  <2>0. /\ n < Top /\ n + 1 \in Nat /\ n + 1 - 1 = n /\ n + 1 + 1 = n + 2 /\ n + 1 <= Top
        /\ n <= Top
    BY TopIs
  <2>1. \A x \in Built[n] : In(x, n + 1)
    BY <1>4, <2>0
  <2>2. Leaf(f) \/ Joint(f, Built[n]) \/ Timed(f, Built[n])
    BY <2>0, LevelParts
  <2>3. Normal[f] = Forms(f, Normal)
    BY <1>1, <2>0
  <2>m. /\ NormalAt(n + 1) \subseteq NormalAt(n + 2)
        /\ \A op \in {"now", "next"}, x \in NormalAt(n + 1) : Unary(op, x) \in NormalAt(n + 2)
        /\ \A op \in {"and", "or"}, x, y \in NormalAt(n + 1) : Binary(op, x, y) \in NormalAt(n + 2)
        /\ \A op \in TemporalOps, x \in NormalAt(n + 1), unit \in Units, amount \in Nat,
              closes \in Nat \cup {Unresolved} :
             Temporal(op, x, unit, amount, closes) \in NormalAt(n + 2)
    <3>1. /\ NormalAt(n + 1) \subseteq NormalAt(n + 1 + 1)
          /\ \A op \in {"now", "next"}, x \in NormalAt(n + 1) : Unary(op, x) \in NormalAt(n + 1 + 1)
          /\ \A op \in {"and", "or"}, x, y \in NormalAt(n + 1) : Binary(op, x, y) \in NormalAt(n + 1 + 1)
          /\ \A op \in TemporalOps, x \in NormalAt(n + 1), unit \in Units, amount \in Nat,
                closes \in Nat \cup {Unresolved} :
               Temporal(op, x, unit, amount, closes) \in NormalAt(n + 1 + 1)
      BY <2>0, NormalMakes
    <3> QED BY <2>0, <3>1
  <2> HIDE DEF T
  <2>4. CASE Leaf(f)
    <3>1. In(f, n + 1 + 1)
      <4> HIDE DEF In
      <4> QED BY <1>2, <2>0, <2>4
    <3> QED BY <2>0, <3>1
  <2>5. CASE f.op \in UnaryOps /\ f.inner \in Built[n]
    <3>1. In(f.inner, n + 1)
      BY <2>1, <2>5
    <3> QED BY <2>3, <2>5, <2>m, <3>1, FormsAre DEF UnaryOps
  <2>6. CASE f.op \in BinaryOps /\ f.left \in Built[n] /\ f.right \in Built[n]
    <3>1. In(f.left, n + 1) /\ In(f.right, n + 1)
      BY <2>1, <2>6
    <3> QED BY <2>3, <2>6, <2>m, <3>1, FormsAre DEF BinaryOps
  <2>7. CASE Timed(f, Built[n])
    <3>1. In(f.inner, n + 1)
      BY <2>1, <2>7 DEF Timed
    <3>2. /\ f.op \in TemporalOps /\ f.unit \in Units /\ f.amount \in Nat
          /\ f.closes \in Nat \cup {Unresolved}
      BY <2>7 DEF Timed
    <3>3. \A op \in TemporalOps :
            /\ Temporal(op, Normal[f.inner].nnf, f.unit, f.amount, f.closes) \in NormalAt(n + 2)
            /\ Temporal(op, Normal[f.inner].pushNot, f.unit, f.amount, f.closes) \in NormalAt(n + 2)
      BY <2>m, <3>1, <3>2
    <3>4. CASE f.op = "always"
      BY <2>3, <3>3, <3>4, FormsAre DEF TemporalOps
    <3>5. CASE f.op = "eventually"
      BY <2>3, <3>3, <3>5, FormsAre DEF TemporalOps
    <3> QED BY <3>2, <3>4, <3>5 DEF TemporalOps
  <2> QED BY <2>2, <2>4, <2>5, <2>6, <2>7 DEF Joint
<1> HIDE DEF T
<1>5. Nat \subseteq T
  BY <1>3, <1>4, NatSteps
<1> QED BY <1>5 DEF T

\* A reduction keeps a formula in normal form, and adds one level at most.
LEMMA ReduceLevels ==
  ASSUME NEW obs, Observation(obs)
  PROVE  \A n \in Nat : n < Top => \A f \in NormalAt(n) : Reduce(f, obs).formula \in NormalAt(n + 1)
<1> DEFINE R == Reducer(obs)
           T == {n \in Nat : n < Top => \A f \in NormalAt(n) : R[f].formula \in NormalAt(n + 1)}
<1>1. ASSUME NEW n \in Nat, n <= Top, NEW f \in Built[n]
      PROVE  f \in Formula /\ R[f] = Reduction(f, obs, R) /\ R[f] \in Reductions
  <2>1. f \in Formula
    BY <1>1, LevelsGrow, TopIs
  <2> QED BY <2>1, ReducerIs
<1> HIDE DEF R
<1>p. \A n \in Nat : n <= Top => \A w : Done(w).formula \in NormalAt(n)
  BY NormalMakes DEF Done
<1>2. ASSUME NEW n \in Nat, n < Top, NEW f \in Built[n], Leaf(f)
      PROVE  R[f].formula \in NormalAt(n + 1)
  <2>1. f.op \in {"pure", "thunk"}
    BY <1>2 DEF Leaf
  <2>2. R[f] = Reduction(f, obs, R) /\ n + 1 \in Nat /\ n + 1 <= Top
    BY <1>1, <1>2, TopIs
  <2> QED BY <1>p, <2>1, <2>2, ReductionsAre
<1>3. 0 \in T
  BY <1>2, LevelParts DEF NormalAt
<1>4. ASSUME NEW n \in Nat, n \in T PROVE n + 1 \in T
  <2> SUFFICES ASSUME n + 1 < Top, NEW f \in NormalAt(n + 1) PROVE R[f].formula \in NormalAt(n + 2)
    OBVIOUS
  <2>0. /\ n < Top /\ n <= Top /\ n + 1 \in Nat /\ n + 1 - 1 = n /\ n + 1 + 1 = n + 2 /\ n + 2 \in Nat
        /\ n + 1 <= Top /\ n + 2 <= Top
    BY TopIs
  <2>1. \A x \in NormalAt(n) : R[x].formula \in NormalAt(n + 1) /\ R[x] \in Reductions
    BY <1>1, <1>4, <2>0 DEF NormalAt
  <2>2. \/ f.op \in {"pure", "thunk"} /\ Leaf(f)
        \/ f.op = "not" /\ f.inner.op = "thunk" /\ f.inner \in Formula
        \/ f.op \in {"now", "next"} /\ f.inner \in NormalAt(n)
        \/ f.op \in {"and", "or"} /\ f.left \in NormalAt(n) /\ f.right \in NormalAt(n)
        \/ Timed(f, NormalAt(n))
    BY <2>0, NormalParts
  <2>3. R[f] = Reduction(f, obs, R) /\ f \in Built[n + 1]
    BY <1>1, <2>0 DEF NormalAt
  <2>m. \A op \in {"and", "or"}, x, y \in NormalAt(n + 1) : Binary(op, x, y) \in NormalAt(n + 2)
    <3>1. \A op \in {"and", "or"}, x, y \in NormalAt(n + 1) : Binary(op, x, y) \in NormalAt(n + 1 + 1)
      BY <2>0, NormalMakes
    <3> QED BY <2>0, <3>1
  <2>r. NormalAt(n + 1) \subseteq NormalAt(n + 2) /\ NormalAt(n) \subseteq NormalAt(n + 1)
    <3>1. NormalAt(n + 1) \subseteq NormalAt(n + 1 + 1) /\ NormalAt(n) \subseteq NormalAt(n + 1)
      BY <2>0, NormalMakes
    <3> QED BY <2>0, <3>1
  <2>d. \A w : Done(w).formula \in NormalAt(n + 2)
    BY <1>p, <2>0
  <2>j. \A l, r \in Reductions : l.formula \in NormalAt(n + 1) /\ r.formula \in NormalAt(n + 1) =>
          JoinOr(l, r).formula \in NormalAt(n + 2) /\ JoinAnd(l, r).formula \in NormalAt(n + 2)
    <3> SUFFICES ASSUME NEW l \in Reductions, NEW r \in Reductions,
                        l.formula \in NormalAt(n + 1), r.formula \in NormalAt(n + 1)
                 PROVE  JoinOr(l, r).formula \in NormalAt(n + 2) /\ JoinAnd(l, r).formula \in NormalAt(n + 2)
      OBVIOUS
    <3>1. /\ Binary("or", l.formula, r.formula) \in NormalAt(n + 2)
          /\ Binary("and", l.formula, r.formula) \in NormalAt(n + 2)
      BY <2>m
    <3>2. \A x : Pending(x).formula = x
      BY DEF Pending
    <3>3. /\ l.formula \in NormalAt(n + 2) /\ r.formula \in NormalAt(n + 2)
          /\ l.status \in Words /\ r.status \in Words
      BY <2>r DEF Reductions
    <3> QED BY <2>d, <3>1, <3>2, <3>3, JoinsAre DEF Words
  <2> HIDE DEF T
  <2>4. CASE Leaf(f)
    <3>1. R[f].formula \in NormalAt(n + 1 + 1)
      BY <1>2, <2>0, <2>3, <2>4
    <3> QED BY <2>0, <3>1
  <2>5. CASE f.op \in {"now", "next"} /\ f.inner \in NormalAt(n)
    <3>1. R[f.inner].formula \in NormalAt(n + 2) /\ f.inner \in NormalAt(n + 2)
      BY <2>1, <2>r, <2>5
    <3>2. CASE f.op = "now"
      BY <2>3, <3>1, <3>2, ReductionsAre
    <3>3. CASE f.op = "next"
      <4>1. R[f] = Pending(f.inner)
        BY <2>3, <3>3, ReductionsAre
      <4>2. R[f].formula = f.inner
        BY <4>1 DEF Pending
      <4> QED BY <3>1, <4>2
    <3> QED BY <2>5, <3>2, <3>3
  <2>6. CASE f.op = "not" /\ f.inner.op = "thunk" /\ f.inner \in Formula
    <3>1. R[f.inner] = Reduction(f.inner, obs, R)
      BY <1>1, <2>6, TopIs
    <3>2. \E w : R[f.inner] = Done(w) /\ w \in {"holds", "violated"}
      BY <2>6, <3>1, ReductionsAre
    <3>3. \E w : Negate(R[f.inner]) = Done(w)
      <4>1. /\ Done("holds").status = "holds" /\ Done("violated").status = "violated"
        BY DEF Done
      <4>2. CASE R[f.inner] = Done("holds")
        <5>1. Negate(R[f.inner]) = Done("violated")
          BY <4>1, <4>2 DEF Negate
        <5> QED BY <5>1
      <4>3. CASE R[f.inner] = Done("violated")
        <5>1. Negate(R[f.inner]) = Done("holds")
          BY <4>1, <4>3 DEF Negate
        <5> QED BY <5>1
      <4> QED BY <3>2, <4>2, <4>3
    <3>4. R[f] = Negate(R[f.inner])
      BY <2>3, <2>6, ReductionsAre
    <3> QED BY <2>d, <3>3, <3>4
  <2>7. CASE f.op \in {"and", "or"} /\ f.left \in NormalAt(n) /\ f.right \in NormalAt(n)
    <3>1. /\ R[f.left].formula \in NormalAt(n + 1) /\ R[f.left] \in Reductions
          /\ R[f.right].formula \in NormalAt(n + 1) /\ R[f.right] \in Reductions
      BY <2>1, <2>7
    <3>2. CASE f.op = "or"
      BY <2>3, <2>j, <3>1, <3>2, ReductionsAre
    <3>3. CASE f.op = "and"
      BY <2>3, <2>j, <3>1, <3>3, ReductionsAre
    <3> QED BY <2>7, <3>2, <3>3
  <2>8. CASE Timed(f, NormalAt(n))
    <3> DEFINE g == Resolve(f, obs)
    <3>1. f.inner \in NormalAt(n) /\ f.op \in TemporalOps /\ f.unit \in Units /\ f.amount \in Nat
      BY <2>8 DEF Timed
    <3>2. g = Temporal(f.op, f.inner, f.unit, f.amount, g.closes) /\ g.closes \in Nat \cup {Unresolved}
      BY <2>8, ResolveIs
    <3> HIDE DEF g
    <3>3. g \in NormalAt(n + 1)
      <4>1. Temporal(f.op, f.inner, f.unit, f.amount, g.closes) \in NormalAt(n + 1)
        BY <2>0, <3>1, <3>2, NormalMakes
      <4> QED BY <3>2, <4>1
    <3>4. R[f.inner].formula \in NormalAt(n + 1) /\ R[f.inner] \in Reductions
      BY <2>1, <3>1
    <3>5. Unroll(g, R[f.inner]).formula \in NormalAt(n + 2)
      <4>1. Binary("or", R[f.inner].formula, g) \in NormalAt(n + 2) /\ g \in NormalAt(n + 2)
        BY <2>m, <2>r, <3>3, <3>4
      <4> QED BY <4>1 DEF Unroll, Pending
    <3>6. JoinAnd(R[f.inner], Pending(g)).formula \in NormalAt(n + 2)
      <4>1. g \in AnyFormula
        BY <2>0, <3>3 DEF AnyFormula, NormalAt
      <4>2. Pending(g) \in Reductions /\ Pending(g).formula = g
        BY <4>1, ReductionShape DEF Pending
      <4> QED BY <2>j, <3>3, <3>4, <4>2
    <3> QED BY <2>3, <2>d, <3>1, <3>5, <3>6, ReductionsAre DEF TemporalOps, g
  <2> QED BY <2>2, <2>4, <2>5, <2>6, <2>7, <2>8
<1> HIDE DEF T
<1>5. Nat \subseteq T
  BY <1>3, <1>4, NatSteps
<1>6. \A f : Reduce(f, obs) = R[f]
  BY ReducerIs DEF R
<1> QED BY <1>5, <1>6 DEF T

----------------------------------------------------------------------------
(* The normal form means what the author wrote.                            *)

\* The windows are of a whole number of the units they are counted in, which is what .within
\* makes of its argument whatever it is (run fractional_window); a duration of zero, which it
\* takes for no bound, is left out (eventuallyWithin, bindings.go:344-368).
WholeWindows ==
  \A b \in Bounds : b.unit # "none" =>
    2 * (b.halves \div 2) = b.halves /\ (b.unit = "seconds" => b.halves > 0)

\* h is a record of observations: each says when it was made.
Clocked(h) == Len(h) \in Nat /\ \A j \in 1 .. Len(h) : h[j].now \in Nat

\* The places of h at which it says what there is to know.
Seen(h) == {p \in Place : 1 <= p.at /\ p.upto <= Len(h)}

\* The places a formula at a seen place looks at are seen.
LEMMA SeenAre ==
  ASSUME NEW h, Clocked(h), NEW p \in Seen(h)
  PROVE  /\ p \in Place
         /\ p.at <= p.upto => Later(p) \in Seen(h)
         /\ \A j \in p.at .. p.upto :
              [p EXCEPT !.at = j] \in Seen(h) /\ [at |-> j, upto |-> j, over |-> FALSE] \in Seen(h)
<1>1. p \in Place /\ p.at \in Nat /\ p.upto \in Nat /\ 1 <= p.at /\ p.upto <= Len(h) /\ Len(h) \in Nat
  BY PlacesAre DEF Seen, Clocked
<1>2. p.at <= p.upto => Later(p) \in Seen(h)
  BY <1>1, PlacesAre DEF Seen
<1>3. ASSUME NEW j \in p.at .. p.upto
      PROVE  [p EXCEPT !.at = j] \in Seen(h) /\ [at |-> j, upto |-> j, over |-> FALSE] \in Seen(h)
  <2>1. j \in Nat /\ 1 <= j /\ j <= Len(h)
    BY <1>1
  <2>2. p = [at |-> p.at, upto |-> p.upto, over |-> p.over] /\ p.over \in BOOLEAN
    BY <1>1, PlacesAre
  <2>3. [p EXCEPT !.at = j] = [at |-> j, upto |-> p.upto, over |-> p.over]
    BY <2>2
  <2>4. [at |-> j, upto |-> p.upto, over |-> p.over] \in Seen(h)
    BY <1>1, <2>1, <2>2 DEF Seen, Place
  <2>5. [at |-> j, upto |-> j, over |-> FALSE] \in Seen(h)
    BY <1>1, <2>1 DEF Seen, Place
  <2> QED BY <2>3, <2>4, <2>5
<1> QED BY <1>1, <1>2, <1>3

\* A promise only depends on the truth of its formula where h says it.
LEMMA PromiseOfLike ==
  ASSUME NEW h, Clocked(h), NEW s, NEW t, \A x \in Seen(h) : s[x] = t[x],
         NEW p \in Seen(h), NEW closed \in SUBSET (p.at .. p.upto)
  PROVE  Promise(s, closed, p) = Promise(t, closed, p)
<1> DEFINE before == {j \in p.at .. p.upto : \A c \in closed : j < c}
           atClose == {j \in closed : \A c \in closed : j <= c}
           end == {IF closed # {} \/ p.over THEN "violated" ELSE "pending"}
           While(u) == {u[[p EXCEPT !.at = j]] : j \in before}
           Closing(u) == {IF u[[at |-> j, upto |-> j, over |-> FALSE]] = "holds" THEN "holds" ELSE "violated"
                            : j \in atClose}
<1>1. \A j \in p.at .. p.upto :
        /\ s[[p EXCEPT !.at = j]] = t[[p EXCEPT !.at = j]]
        /\ s[[at |-> j, upto |-> j, over |-> FALSE]] = t[[at |-> j, upto |-> j, over |-> FALSE]]
  BY SeenAre
<1>2. before \subseteq p.at .. p.upto /\ atClose \subseteq p.at .. p.upto
  OBVIOUS
<1> HIDE DEF before, atClose
<1>3. While(s) = While(t)
  <2> DEFINE On(u, j) == u[[p EXCEPT !.at = j]]
  <2>1. \A j \in before : On(s, j) = On(t, j)
    BY <1>1, <1>2
  <2>2. While(s) = {On(s, j) : j \in before} /\ While(t) = {On(t, j) : j \in before}
    OBVIOUS
  <2> HIDE DEF On, While
  <2> QED BY <2>1, <2>2
<1>4. Closing(s) = Closing(t)
  <2> DEFINE At(u, j) == IF u[[at |-> j, upto |-> j, over |-> FALSE]] = "holds"
                         THEN "holds" ELSE "violated"
  <2>1. \A j \in atClose : At(s, j) = At(t, j)
    BY <1>1, <1>2
  <2>2. Closing(s) = {At(s, j) : j \in atClose} /\ Closing(t) = {At(t, j) : j \in atClose}
    OBVIOUS
  <2> HIDE DEF At, Closing
  <2> QED BY <2>1, <2>2
<1>5. Promise(s, closed, p) = Some(While(s) \cup Closing(s) \cup end)
  BY DEF Promise, before, atClose
<1>6. Promise(t, closed, p) = Some(While(t) \cup Closing(t) \cup end)
  BY DEF Promise, before, atClose
<1> HIDE DEF While, Closing, end
<1> QED BY <1>3, <1>4, <1>5, <1>6

\* A whole window closes where the author says, whichever operator it is put around.
LEMMA WindowsAgree ==
  ASSUME WholeWindows, NEW h, Clocked(h), NEW p \in Seen(h), NEW f,
         f.unit \in Units, f.halves \in Nat, [unit |-> f.unit, halves |-> f.halves] \in Bounds,
         NEW op, NEW g
  PROVE  ClosedBy(h, Temporal(op, g, Window(f.unit, f.halves).unit,
                              Window(f.unit, f.halves).amount, Unresolved), p)
           = ClosedFrom(h, f, p)
<1> DEFINE w == Window(f.unit, f.halves)
           t == Temporal(op, g, w.unit, w.amount, Unresolved)
<1>1. p.at \in Nat /\ p.upto \in Nat /\ 1 <= p.at /\ p.upto <= Len(h) /\ Len(h) \in Nat
  BY PlacesAre DEF Seen, Clocked
<1>2. f.unit # "none" => 2 * (f.halves \div 2) = f.halves /\ (f.unit = "seconds" => f.halves > 0)
  BY DEF WholeWindows
<1>3. t.unit = w.unit /\ t.amount = w.amount /\ t.closes = Unresolved
  BY DEF Temporal
<1>4. \A j \in p.at .. p.upto : j \in Nat /\ h[j].now \in Nat /\ h[p.at].now \in Nat /\ p.at <= j
  BY <1>1 DEF Clocked
<1> DEFINE half == f.halves \div 2
<1>5. half \in Nat
  OBVIOUS
<1>6. ASSUME f.unit = "steps" PROVE ClosedBy(h, t, p) = ClosedFrom(h, f, p)
  <2>1. w.unit = "steps" /\ w.amount = half
    BY <1>6 DEF Window
  <2> HIDE DEF w, half, t
  <2>2. 2 * half = f.halves
    BY <1>2, <1>6 DEF half
  <2>3. ClosedBy(h, t, p) = {j \in p.at .. p.upto : j >= p.at + half - 1}
    BY <1>3, <2>1 DEF ClosedBy, ClosesAt
  <2>4. ClosedFrom(h, f, p) = {j \in p.at .. p.upto : 2 * (j - p.at + 1) >= f.halves}
    BY <1>6 DEF ClosedFrom
  <2>5. \A j \in p.at .. p.upto : 2 * (j - p.at + 1) >= f.halves <=> j >= p.at + half - 1
    BY <1>1, <1>4, <1>5, <2>2
  <2> QED BY <2>3, <2>4, <2>5
<1>7. ASSUME f.unit = "seconds" PROVE ClosedBy(h, t, p) = ClosedFrom(h, f, p)
  <2>1. w.unit = "seconds" /\ w.amount = f.halves
    BY <1>2, <1>7 DEF Window
  <2> HIDE DEF w, half, t
  <2>3. ClosedBy(h, t, p) = {j \in p.at .. p.upto : h[j].now >= h[p.at].now + f.halves}
    BY <1>3, <2>1 DEF ClosedBy, ClosesAt
  <2>4. ClosedFrom(h, f, p) = {j \in p.at .. p.upto : h[j].now - h[p.at].now >= f.halves}
    BY <1>7 DEF ClosedFrom
  <2>5. \A j \in p.at .. p.upto : h[j].now - h[p.at].now >= f.halves <=> h[j].now >= h[p.at].now + f.halves
    BY <1>4
  <2> QED BY <2>3, <2>4, <2>5
<1>8. ASSUME f.unit = "none" PROVE ClosedBy(h, t, p) = ClosedFrom(h, f, p)
  <2>1. w.unit = "none"
    BY <1>8 DEF Window
  <2> HIDE DEF w, t
  <2>3. ClosedBy(h, t, p) = {}
    BY <1>3, <2>1 DEF ClosedBy
  <2>4. ClosedFrom(h, f, p) = {}
    BY <1>8 DEF ClosedFrom
  <2> QED BY <2>3, <2>4
<1> HIDE DEF t
<1>9. ClosedBy(h, t, p) = ClosedFrom(h, f, p)
  BY <1>6, <1>7, <1>8 DEF Units
<1> QED BY <1>9 DEF t, w

\* What de Morgan's laws say of the values of a verdict.
LEMMA DeMorgan ==
  \A v, w \in Words :
    /\ Opposite[v] \in Words /\ Opposite[Opposite[v]] = v
    /\ Opposite[Some({v, w})] = Opposite[Some({Opposite[Opposite[v]], Opposite[Opposite[w]]})]
    /\ Opposite[Opposite[Some({v, w})]] = Some({v, w})
<1> SUFFICES ASSUME NEW v \in Words, NEW w \in Words
             PROVE  /\ Opposite[v] \in Words /\ Opposite[Opposite[v]] = v
                    /\ Opposite[Some({v, w})] = Opposite[Some({Opposite[Opposite[v]], Opposite[Opposite[w]]})]
                    /\ Opposite[Opposite[Some({v, w})]] = Some({v, w})
  OBVIOUS
<1>1. Opposite[v] \in Words /\ Opposite[Opposite[v]] = v /\ Opposite[Opposite[w]] = w
  BY OppositeIs
<1>2. Some({v, w}) \in Words
  BY SomeIsWord
<1> QED BY <1>1, <1>2, OppositeIs

\* The normal form of the formula built from a property, and that of its negation, mean
\* what the property does (nnf.go, worker.go).
THEOREM NormalIsMeant ==
  ASSUME WholeWindows, NEW h, Clocked(h)
  PROVE  \A f \in Property : \A p \in Seen(h) :
           /\ WorthOf(h)[Normal[BuildNode[f]].nnf][p] = Valuer(h)[f][p]
           /\ WorthOf(h)[Normal[BuildNode[f]].pushNot][p] = Opposite[Valuer(h)[f][p]]
<1> DEFINE W == WorthOf(h)
           V == Valuer(h)
           N(f) == Normal[BuildNode[f]]
           Meant(f) == \A p \in Seen(h) : W[N(f).nnf][p] = V[f][p] /\ W[N(f).pushNot][p] = Opposite[V[f][p]]
           T == {f \in Property : Meant(f)}
<1>a. /\ W \in [AnyFormula -> Truths]
      /\ \A f \in AnyFormula : \A p \in Place : W[f][p] = Worth(h, f, W, p)
  BY WorthOfIs
<1>b. /\ V \in [Property -> Truths]
      /\ \A f \in Property : \A p \in Place : V[f][p] = Meaning(h, f, V, p)
  BY ValuerIs
<1> HIDE DEF W, V
<1>c. \A f \in Property : \A p \in Place : V[f][p] \in Words
  BY <1>b DEF Truths
<1>d. \A f \in Property : BuildNode[f] \in Built[Depth] /\ BuildNode[f] \in Formula
  BY BuildLevels, LevelsGrow, TopIs DEF Property, Top
<1>e. \A f \in Property : N(f).nnf \in AnyFormula /\ N(f).pushNot \in AnyFormula
  BY <1>d, NormalIs DEF Shapes
<1>f. \A f \in Property : BuildNode[f] = Node(f, BuildNode) /\ N(f) = Forms(BuildNode[f], Normal)
  BY <1>d, BuildNodeIs, NormalIs
<1>g. \A p \in Seen(h) : p \in Place
  BY DEF Seen
<1>1. ASSUME NEW f \in Property, Leaf(f) PROVE Meant(f)
  <2>1. BuildNode[f] = f
    BY <1>1, <1>f, NodesAre DEF Leaf
  <2> SUFFICES ASSUME NEW p \in Seen(h)
               PROVE  W[N(f).nnf][p] = V[f][p] /\ W[N(f).pushNot][p] = Opposite[V[f][p]]
    OBVIOUS
  <2>2. V[f][p] = Meaning(h, f, V, p) /\ V[f][p] \in Words
    BY <1>b, <1>c, <1>g
  <2>3. \A g \in AnyFormula : W[g][p] = Worth(h, g, W, p)
    BY <1>a, <1>g
  <2>4. MeaningClauses(h, f, V, p) /\ WorthClauses(h, f, W, p)
    BY MeaningsAre, WorthsAre
  <2>5. f \in AnyFormula
    BY <1>1, AnyFormulaIs
  <2>6. CASE f.op = "pure"
    <3> DEFINE g == Pure(~ f.value)
    <3>1. N(f).nnf = f /\ N(f).pushNot = g
      BY <1>f, <2>1, <2>6, FormsAre
    <3>2. g \in AnyFormula
      BY <1>e, <3>1
    <3>3. g.op = "pure" /\ g.value = (~ f.value)
      BY DEF Pure
    <3>4. WorthClauses(h, g, W, p)
      BY WorthsAre
    <3> HIDE DEF g
    <3>5. W[f][p] = OfPure(f, p) /\ W[g][p] = OfPure(g, p) /\ V[f][p] = OfPure(f, p)
      BY <2>2, <2>3, <2>4, <2>5, <2>6, <3>2, <3>3, <3>4 DEF WorthClauses, MeaningClauses
    <3>6. OfPure(g, p) = Opposite[OfPure(f, p)]
      BY <3>3, OppositeIs DEF OfPure
    <3> QED BY <3>1, <3>5, <3>6
  <2>7. CASE f.op = "thunk"
    <3> DEFINE g == Unary("not", f)
    <3>1. N(f).nnf = f /\ N(f).pushNot = g
      BY <1>f, <2>1, <2>7, FormsAre
    <3>2. g \in AnyFormula
      BY <1>e, <3>1
    <3>3. g.op = "not" /\ g.inner = f
      BY DEF Unary
    <3>4. WorthClauses(h, g, W, p)
      BY WorthsAre
    <3> HIDE DEF g
    <3>5. W[f][p] = OfThunk(h, f, p) /\ V[f][p] = OfThunk(h, f, p) /\ W[g][p] = Opposite[W[f][p]]
      BY <2>2, <2>3, <2>4, <2>5, <2>7, <3>2, <3>3, <3>4 DEF WorthClauses, MeaningClauses
    <3> QED BY <3>1, <3>5
  <2> QED BY <1>1, <2>6, <2>7 DEF Leaf
<1>2. ASSUME NEW f \in Property, f.op \in UnaryOps, f.inner \in Property, Meant(f.inner)
      PROVE  Meant(f)
  <2> SUFFICES ASSUME NEW p \in Seen(h)
               PROVE  W[N(f).nnf][p] = V[f][p] /\ W[N(f).pushNot][p] = Opposite[V[f][p]]
    OBVIOUS
  <2> DEFINE x == f.inner
             b == BuildNode[f]
  <2>1. b.op = f.op /\ b.inner = BuildNode[x]
    BY <1>2, <1>f, NodesAre DEF Unary
  <2>2. N(f) = Forms(b, Normal)
    BY <1>f
  <2>3. /\ V[f][p] = Meaning(h, f, V, p) /\ V[f][p] \in Words
        /\ \A y \in Place : V[x][y] \in Words
    BY <1>b, <1>c, <1>g, <1>2
  <2>4. \A g \in AnyFormula : W[g][p] = Worth(h, g, W, p)
    BY <1>a, <1>g
  <2>5. MeaningClauses(h, f, V, p) /\ \A g : WorthClauses(h, g, W, p)
    BY MeaningsAre, WorthsAre
  <2>6. \A y \in Seen(h) : W[N(x).nnf][y] = V[x][y] /\ W[N(x).pushNot][y] = Opposite[V[x][y]]
    BY <1>2
  <2>7. N(f).nnf \in AnyFormula /\ N(f).pushNot \in AnyFormula
    BY <1>e
  <2> HIDE DEF b
  <2>8. CASE f.op = "not"
    <3>1. N(f).nnf = N(x).pushNot /\ N(f).pushNot = N(x).nnf
      BY <2>1, <2>2, <2>8, FormsAre
    <3>2. V[f][p] = Opposite[V[x][p]]
      BY <2>3, <2>5, <2>8 DEF MeaningClauses
    <3>3. V[x][p] \in Words
      BY <2>3, <1>g
    <3> HIDE DEF N
    <3> QED BY <2>6, <3>1, <3>2, <3>3, OppositeIs
  <2>9. CASE f.op \in {"now", "next"}
    <3> DEFINE s == Unary(f.op, N(x).nnf)
               t == Unary(f.op, N(x).pushNot)
    <3>1. N(f).nnf = s /\ N(f).pushNot = t
      BY <2>1, <2>2, <2>9, FormsAre
    <3>2. s.op = f.op /\ s.inner = N(x).nnf /\ t.op = f.op /\ t.inner = N(x).pushNot
      BY DEF Unary
    <3>3. W[s][p] = Worth(h, s, W, p) /\ W[t][p] = Worth(h, t, W, p)
      BY <2>4, <2>7, <3>1
    <3>4. WorthClauses(h, s, W, p) /\ WorthClauses(h, t, W, p)
      BY <2>5
    <3> HIDE DEF s, t, N
    <3>5. CASE f.op = "now"
      BY <2>3, <2>5, <2>6, <3>1, <3>2, <3>3, <3>4, <3>5 DEF WorthClauses, MeaningClauses
    <3>6. CASE f.op = "next"
      <4>1. p.at <= p.upto => Later(p) \in Seen(h)
        BY SeenAre
      <4>2. p.at \in Nat /\ p.upto \in Nat
        BY <1>g, PlacesAre
      <4>3. CASE p.at > p.upto
        <5>1. W[s][p] = "pending" /\ W[t][p] = "pending" /\ V[f][p] = "pending"
          BY <2>3, <2>5, <3>2, <3>3, <3>4, <3>6, <4>3 DEF WorthClauses, MeaningClauses
        <5> QED BY <3>1, <5>1, OppositeIs
      <4>4. CASE p.at <= p.upto
        <5>1. ~ (p.at > p.upto)
          BY <4>2, <4>4
        <5>2. W[s][p] = W[N(x).nnf][Later(p)] /\ W[t][p] = W[N(x).pushNot][Later(p)] /\ V[f][p] = V[x][Later(p)]
          BY <2>3, <2>5, <3>2, <3>3, <3>4, <3>6, <5>1 DEF WorthClauses, MeaningClauses, Later
        <5> QED BY <2>6, <3>1, <4>1, <4>4, <5>2
      <4> QED BY <4>2, <4>3, <4>4
    <3> QED BY <2>9, <3>5, <3>6
  <2> QED BY <1>2, <2>8, <2>9 DEF UnaryOps
<1>3. ASSUME NEW f \in Property, f.op \in BinaryOps, f.left \in Property, Meant(f.left),
             f.right \in Property, Meant(f.right)
      PROVE  Meant(f)
  <2> SUFFICES ASSUME NEW p \in Seen(h)
               PROVE  W[N(f).nnf][p] = V[f][p] /\ W[N(f).pushNot][p] = Opposite[V[f][p]]
    OBVIOUS
  <2> DEFINE x == f.left
             y == f.right
             b == BuildNode[f]
  <2>1. b.op = f.op /\ b.left = BuildNode[x] /\ b.right = BuildNode[y]
    BY <1>3, <1>f, NodesAre DEF Binary
  <2>2. N(f) = Forms(b, Normal)
    BY <1>f
  <2>3. /\ V[f][p] = Meaning(h, f, V, p) /\ V[f][p] \in Words
        /\ V[x][p] \in Words /\ V[y][p] \in Words
    BY <1>b, <1>c, <1>g, <1>3
  <2>4. \A g \in AnyFormula : W[g][p] = Worth(h, g, W, p)
    BY <1>a, <1>g
  <2>5. MeaningClauses(h, f, V, p) /\ \A g : WorthClauses(h, g, W, p)
    BY MeaningsAre, WorthsAre
  <2>6. /\ W[N(x).nnf][p] = V[x][p] /\ W[N(x).pushNot][p] = Opposite[V[x][p]]
        /\ W[N(y).nnf][p] = V[y][p] /\ W[N(y).pushNot][p] = Opposite[V[y][p]]
    BY <1>3
  <2>7. N(f).nnf \in AnyFormula /\ N(f).pushNot \in AnyFormula
    BY <1>e
  <2> HIDE DEF b
  <2>8. \A op, l, r : /\ Binary(op, l, r).op = op /\ Binary(op, l, r).left = l
                      /\ Binary(op, l, r).right = r
    BY DEF Binary
  <2>9. \A l, r :
          /\ Binary("or", l, r) \in AnyFormula => W[Binary("or", l, r)][p] = Some({W[l][p], W[r][p]})
          /\ Binary("and", l, r) \in AnyFormula =>
               W[Binary("and", l, r)][p] = Opposite[Some({Opposite[W[l][p]], Opposite[W[r][p]]})]
    <3> SUFFICES ASSUME NEW l, NEW r
                 PROVE  /\ Binary("or", l, r) \in AnyFormula => W[Binary("or", l, r)][p] = Some({W[l][p], W[r][p]})
                        /\ Binary("and", l, r) \in AnyFormula =>
                             W[Binary("and", l, r)][p] = Opposite[Some({Opposite[W[l][p]], Opposite[W[r][p]]})]
      OBVIOUS
    <3>1. WorthClauses(h, Binary("or", l, r), W, p) /\ WorthClauses(h, Binary("and", l, r), W, p)
      BY <2>5
    <3>2. ASSUME Binary("or", l, r) \in AnyFormula
          PROVE  W[Binary("or", l, r)][p] = Some({W[l][p], W[r][p]})
      <4> DEFINE g == Binary("or", l, r)
      <4>1. g.op = "or" /\ g.left = l /\ g.right = r /\ W[g][p] = Worth(h, g, W, p) /\ WorthClauses(h, g, W, p)
        BY <2>4, <2>8, <3>1, <3>2
      <4> HIDE DEF g
      <4>2. W[g][p] = Some({W[l][p], W[r][p]})
        BY <4>1 DEF WorthClauses
      <4> QED BY <4>2 DEF g
    <3>3. ASSUME Binary("and", l, r) \in AnyFormula
          PROVE  W[Binary("and", l, r)][p] = Opposite[Some({Opposite[W[l][p]], Opposite[W[r][p]]})]
      <4> DEFINE g == Binary("and", l, r)
      <4>1. g.op = "and" /\ g.left = l /\ g.right = r /\ W[g][p] = Worth(h, g, W, p) /\ WorthClauses(h, g, W, p)
        BY <2>4, <2>8, <3>1, <3>3
      <4> HIDE DEF g
      <4>2. W[g][p] = Opposite[Some({Opposite[W[l][p]], Opposite[W[r][p]]})]
        BY <4>1 DEF WorthClauses
      <4> QED BY <4>2 DEF g
    <3> QED BY <3>2, <3>3
  <2>10. /\ N(x).nnf \in AnyFormula /\ N(x).pushNot \in AnyFormula
         /\ N(y).nnf \in AnyFormula /\ N(y).pushNot \in AnyFormula
    BY <1>e, <1>3
  <2> DEFINE v == V[x][p]
             w == V[y][p]
  <2>11. /\ Opposite[v] \in Words /\ Opposite[Opposite[v]] = v
         /\ Opposite[w] \in Words /\ Opposite[Opposite[w]] = w
         /\ Opposite[Opposite[Some({Opposite[v], Opposite[w]})]] = Some({Opposite[v], Opposite[w]})
    BY <2>3, DeMorgan
  <2>12. CASE f.op = "or"
    <3>1. /\ N(f).nnf = Binary("or", N(x).nnf, N(y).nnf)
          /\ N(f).pushNot = Binary("and", N(x).pushNot, N(y).pushNot)
      BY <2>1, <2>2, <2>12, FormsAre
    <3>2. V[f][p] = Some({v, w})
      BY <2>3, <2>5, <2>12 DEF MeaningClauses
    <3> HIDE DEF N, v, w, x, y
    <3>3. W[N(f).nnf][p] = Some({W[N(x).nnf][p], W[N(y).nnf][p]})
      <4>1. Binary("or", N(x).nnf, N(y).nnf) \in AnyFormula
        BY <2>7, <3>1
      <4>2. W[Binary("or", N(x).nnf, N(y).nnf)][p] = Some({W[N(x).nnf][p], W[N(y).nnf][p]})
        BY <2>9, <4>1
      <4> QED BY <3>1, <4>2
    <3>4. W[N(f).pushNot][p] = Opposite[Some({Opposite[W[N(x).pushNot][p]], Opposite[W[N(y).pushNot][p]]})]
      <4>1. Binary("and", N(x).pushNot, N(y).pushNot) \in AnyFormula
        BY <2>7, <3>1
      <4>2. W[Binary("and", N(x).pushNot, N(y).pushNot)][p] = Opposite[Some({Opposite[W[N(x).pushNot][p]], Opposite[W[N(y).pushNot][p]]})]
        BY <2>9, <4>1
      <4> QED BY <3>1, <4>2
    <3> QED BY <2>6, <2>11, <3>2, <3>3, <3>4 DEF v, w
  <2>13. CASE f.op = "and"
    <3>1. /\ N(f).nnf = Binary("and", N(x).nnf, N(y).nnf)
          /\ N(f).pushNot = Binary("or", N(x).pushNot, N(y).pushNot)
      BY <2>1, <2>2, <2>13, FormsAre
    <3>2. V[f][p] = Opposite[Some({Opposite[v], Opposite[w]})]
      BY <2>3, <2>5, <2>13 DEF MeaningClauses
    <3> HIDE DEF N, v, w, x, y
    <3>3. W[N(f).nnf][p] = Opposite[Some({Opposite[W[N(x).nnf][p]], Opposite[W[N(y).nnf][p]]})]
      <4>1. Binary("and", N(x).nnf, N(y).nnf) \in AnyFormula
        BY <2>7, <3>1
      <4>2. W[Binary("and", N(x).nnf, N(y).nnf)][p] = Opposite[Some({Opposite[W[N(x).nnf][p]], Opposite[W[N(y).nnf][p]]})]
        BY <2>9, <4>1
      <4> QED BY <3>1, <4>2
    <3>4. W[N(f).pushNot][p] = Some({W[N(x).pushNot][p], W[N(y).pushNot][p]})
      <4>1. Binary("or", N(x).pushNot, N(y).pushNot) \in AnyFormula
        BY <2>7, <3>1
      <4>2. W[Binary("or", N(x).pushNot, N(y).pushNot)][p] = Some({W[N(x).pushNot][p], W[N(y).pushNot][p]})
        BY <2>9, <4>1
      <4> QED BY <3>1, <4>2
    <3> QED BY <2>6, <2>11, <3>2, <3>3, <3>4 DEF v, w
  <2>14. CASE f.op = "implies"
    <3>1. /\ N(f).nnf = Binary("or", N(x).pushNot, N(y).nnf)
          /\ N(f).pushNot = Binary("and", N(x).nnf, N(y).pushNot)
      BY <2>1, <2>2, <2>14, FormsAre
    <3>2. V[f][p] = Some({Opposite[v], w})
      BY <2>3, <2>5, <2>14 DEF MeaningClauses
    <3> HIDE DEF N, v, w, x, y
    <3>3. W[N(f).nnf][p] = Some({W[N(x).pushNot][p], W[N(y).nnf][p]})
      <4>1. Binary("or", N(x).pushNot, N(y).nnf) \in AnyFormula
        BY <2>7, <3>1
      <4>2. W[Binary("or", N(x).pushNot, N(y).nnf)][p] = Some({W[N(x).pushNot][p], W[N(y).nnf][p]})
        BY <2>9, <4>1
      <4> QED BY <3>1, <4>2
    <3>4. W[N(f).pushNot][p] = Opposite[Some({Opposite[W[N(x).nnf][p]], Opposite[W[N(y).pushNot][p]]})]
      <4>1. Binary("and", N(x).nnf, N(y).pushNot) \in AnyFormula
        BY <2>7, <3>1
      <4>2. W[Binary("and", N(x).nnf, N(y).pushNot)][p] = Opposite[Some({Opposite[W[N(x).nnf][p]], Opposite[W[N(y).pushNot][p]]})]
        BY <2>9, <4>1
      <4> QED BY <3>1, <4>2
    <3> QED BY <2>6, <2>11, <3>2, <3>3, <3>4 DEF v, w
  <2> QED BY <1>3, <2>12, <2>13, <2>14 DEF BinaryOps
<1>4. ASSUME NEW x \in Property, Meant(x), NEW p \in Seen(h), NEW t \in AnyFormula, NEW closed,
             ClosedBy(h, t, p) = closed
      PROVE  /\ t.op = "eventually" /\ t.inner = N(x).nnf => W[t][p] = Promise(V[x], closed, p)
             /\ t.op = "always" /\ t.inner = N(x).pushNot => W[t][p] = Opposite[Promise(V[x], closed, p)]
             /\ t.op = "eventually" /\ t.inner = N(x).pushNot => W[t][p] = Promise(Denied(V[x]), closed, p)
             /\ t.op = "always" /\ t.inner = N(x).nnf => W[t][p] = Opposite[Promise(Denied(V[x]), closed, p)]
  <2>1. closed \in SUBSET (p.at .. p.upto)
    BY <1>4 DEF ClosedBy
  <2>2. W[t][p] = Worth(h, t, W, p)
    BY <1>a, <1>g
  <2>3. WorthClauses(h, t, W, p)
    BY WorthsAre
  <2>4. /\ t.op = "eventually" => W[t][p] = Promise(W[t.inner], closed, p)
        /\ t.op = "always" => W[t][p] = Opposite[Promise(Denied(W[t.inner]), closed, p)]
    BY <1>4, <2>2, <2>3 DEF WorthClauses
  <2>5. \A y \in Seen(h) : /\ W[N(x).nnf][y] = V[x][y] /\ W[N(x).pushNot][y] = Opposite[V[x][y]]
                           /\ V[x][y] \in Words
    BY <1>4, <1>c, <1>g
  <2>6. /\ \A y \in Seen(h) : W[N(x).nnf][y] = V[x][y]
        /\ \A y \in Seen(h) : Denied(W[N(x).pushNot])[y] = V[x][y]
        /\ \A y \in Seen(h) : W[N(x).pushNot][y] = Denied(V[x])[y]
        /\ \A y \in Seen(h) : Denied(W[N(x).nnf])[y] = Denied(V[x])[y]
    <3> HIDE DEF N
    <3> QED BY <2>5, <1>g, OppositeIs DEF Denied
  <2>7. /\ Promise(W[N(x).nnf], closed, p) = Promise(V[x], closed, p)
        /\ Promise(Denied(W[N(x).pushNot]), closed, p) = Promise(V[x], closed, p)
        /\ Promise(W[N(x).pushNot], closed, p) = Promise(Denied(V[x]), closed, p)
        /\ Promise(Denied(W[N(x).nnf]), closed, p) = Promise(Denied(V[x]), closed, p)
    <3>1. \A s, u : (\A y \in Seen(h) : s[y] = u[y]) => Promise(s, closed, p) = Promise(u, closed, p)
      BY <2>1, PromiseOfLike
    <3> HIDE DEF N
    <3> QED BY <2>6, <3>1
  <2> HIDE DEF N
  <2> QED BY <2>4, <2>7
<1>5. ASSUME NEW f \in Property, Clause(f, Property \cap T)
      PROVE  Meant(f)
  <2> SUFFICES ASSUME NEW p \in Seen(h)
               PROVE  W[N(f).nnf][p] = V[f][p] /\ W[N(f).pushNot][p] = Opposite[V[f][p]]
    OBVIOUS
  <2> DEFINE x == f.inner
             b == BuildNode[f]
  <2>0. x \in Property /\ Meant(x) /\ f.op \in TemporalOps
    <3> HIDE DEF Meant
    <3>1. f.op \in TemporalOps /\ f.inner \in Property \cap T
      <4> HIDE DEF T
      <4> QED BY <1>5 DEF Clause, TemporalOps
    <3> QED BY <3>1
  <2>2. N(f) = Forms(b, Normal)
    BY <1>f
  <2>3. /\ V[f][p] = Meaning(h, f, V, p) /\ V[f][p] \in Words
    BY <1>b, <1>c, <1>g
  <2>5. MeaningClauses(h, f, V, p)
    BY MeaningsAre
  <2>7. N(f).nnf \in AnyFormula /\ N(f).pushNot \in AnyFormula
    BY <1>e
  <2>p. \A t, c : Promise(t, c, p) \in Words
    BY PromiseIsWord
  <2>8. CASE f.op = "eventually"
    <3> DEFINE u == Window(f.unit, f.halves).unit
               a == Window(f.unit, f.halves).amount
    <3>0. f.unit \in Units /\ f.halves \in Nat /\ [unit |-> f.unit, halves |-> f.halves] \in Bounds
      BY <1>5, <2>8 DEF Clause
    <3>1. b = Temporal("eventually", BuildNode[x], u, a, Unresolved)
      BY <1>f, <2>8, NodesAre
    <3>2. /\ N(f).nnf = Temporal("eventually", N(x).nnf, u, a, Unresolved)
          /\ N(f).pushNot = Temporal("always", N(x).pushNot, u, a, Unresolved)
      <4> HIDE DEF u, a
      <4>1. /\ b.op = "eventually" /\ b.inner = BuildNode[x] /\ b.unit = u /\ b.amount = a
            /\ b.closes = Unresolved
        BY <3>1 DEF Temporal
      <4> HIDE DEF b
      <4> QED BY <2>2, <4>1, FormsAre
    <3>3. \A op, g : ClosedBy(h, Temporal(op, g, u, a, Unresolved), p) = ClosedFrom(h, f, p)
      BY <3>0, WindowsAgree
    <3>4. /\ N(f).nnf.op = "eventually" /\ N(f).nnf.inner = N(x).nnf
          /\ N(f).pushNot.op = "always" /\ N(f).pushNot.inner = N(x).pushNot
          /\ ClosedBy(h, N(f).nnf, p) = ClosedFrom(h, f, p)
          /\ ClosedBy(h, N(f).pushNot, p) = ClosedFrom(h, f, p)
      <4>1. /\ ClosedBy(h, N(f).nnf, p) = ClosedFrom(h, f, p)
            /\ ClosedBy(h, N(f).pushNot, p) = ClosedFrom(h, f, p)
        <5> HIDE DEF u, a, N, x
        <5> QED BY <3>2, <3>3
      <4> HIDE DEF u, a, x
      <4> QED BY <3>2, <4>1 DEF Temporal
    <3> HIDE DEF u, a, b
    <3>5. /\ W[N(f).nnf][p] = Promise(V[x], ClosedFrom(h, f, p), p)
          /\ W[N(f).pushNot][p] = Opposite[Promise(V[x], ClosedFrom(h, f, p), p)]
      <4> HIDE DEF N, x
      <4> QED BY <1>4, <2>0, <2>7, <3>4
    <3>6. V[f][p] = Promise(V[x], ClosedFrom(h, f, p), p)
      BY <2>3, <2>5, <2>8 DEF MeaningClauses
    <3> QED BY <3>5, <3>6
  <2>9. CASE f.op = "always"
    <3>1. b = Temporal("always", BuildNode[x], "none", 0, Unresolved)
      BY <1>f, <2>9, NodesAre
    <3>2. /\ N(f).nnf = Temporal("always", N(x).nnf, "none", 0, Unresolved)
          /\ N(f).pushNot = Temporal("eventually", N(x).pushNot, "none", 0, Unresolved)
      <4>1. /\ b.op = "always" /\ b.inner = BuildNode[x] /\ b.unit = "none" /\ b.amount = 0
            /\ b.closes = Unresolved
        BY <3>1 DEF Temporal
      <4> HIDE DEF b
      <4> QED BY <2>2, <4>1, FormsAre
    <3>3. \A op, g : ClosedBy(h, Temporal(op, g, "none", 0, Unresolved), p) = {}
      BY DEF ClosedBy, Temporal
    <3> HIDE DEF b
    <3>4. /\ N(f).nnf.op = "always" /\ N(f).nnf.inner = N(x).nnf
          /\ N(f).pushNot.op = "eventually" /\ N(f).pushNot.inner = N(x).pushNot
          /\ ClosedBy(h, N(f).nnf, p) = {}
          /\ ClosedBy(h, N(f).pushNot, p) = {}
      <4>1. /\ ClosedBy(h, N(f).nnf, p) = {}
            /\ ClosedBy(h, N(f).pushNot, p) = {}
        BY <3>2, <3>3
      <4> HIDE DEF x
      <4> QED BY <3>2, <4>1 DEF Temporal
    <3> DEFINE c == {}
    <3>5. /\ W[N(f).nnf][p] = Opposite[Promise(Denied(V[x]), c, p)]
          /\ W[N(f).pushNot][p] = Promise(Denied(V[x]), c, p)
      <4>1. ClosedBy(h, N(f).nnf, p) = c /\ ClosedBy(h, N(f).pushNot, p) = c
        BY <3>4
      <4> HIDE DEF N, x, c
      <4>2. W[N(f).nnf][p] = Opposite[Promise(Denied(V[x]), c, p)]
        BY <1>4, <2>0, <2>7, <3>4, <4>1
      <4>3. W[N(f).pushNot][p] = Promise(Denied(V[x]), c, p)
        BY <1>4, <2>0, <2>7, <3>4, <4>1
      <4> QED BY <4>2, <4>3
    <3>6. V[f][p] = Opposite[Promise(Denied(V[x]), {}, p)]
      BY <2>3, <2>5, <2>9 DEF MeaningClauses
    <3> QED BY <2>p, <3>5, <3>6, OppositeIs
  <2>10. f.op = "eventually" \/ f.op = "always"
    BY <2>0 DEF TemporalOps
  <2> HIDE DEF x, b, N, V, W
  <2> QED BY <2>8, <2>9, <2>10
<1>6. ASSUME NEW f \in Property, Leaf(f) \/ Joint(f, Property \cap T) \/ Clause(f, Property \cap T)
      PROVE  f \in T
  <2> HIDE DEF Meant
  <2>1. \A x \in Property \cap T : x \in Property /\ Meant(x)
    OBVIOUS
  <2>2. \/ Leaf(f) \/ Clause(f, Property \cap T)
        \/ f.op \in UnaryOps /\ f.inner \in Property \cap T
        \/ f.op \in BinaryOps /\ f.left \in Property \cap T /\ f.right \in Property \cap T
    <3> HIDE DEF T
    <3> QED BY <1>6 DEF Joint
  <2> QED BY <1>1, <1>2, <1>3, <1>5, <2>1, <2>2
<1>7. Property \subseteq T
  <2> HIDE DEF T
  <2> QED BY <1>6, PropertySteps
<1> QED BY <1>7 DEF W, V

----------------------------------------------------------------------------
(* The folds over the obligations.                                         *)

\* What stays of a sequence once the decided obligations are out, position by position.
LEMMA StillPendingIs ==
  ASSUME NEW S, NEW obligations \in Seq(S)
  PROVE  \E kept \in [0 .. Len(obligations) -> Seq(S)] :
           /\ kept[0] = <<>>
           /\ \A i \in 1 .. Len(obligations) :
                kept[i] = IF obligations[i].status = "pending"
                          THEN Append(kept[i - 1], obligations[i]) ELSE kept[i - 1]
           /\ StillPending(obligations) = kept[Len(obligations)]
<1> DEFINE n == Len(obligations)
           V == Seq(S)
           Keep(i, kept) == IF obligations[i].status = "pending" THEN Append(kept, obligations[i]) ELSE kept
           G == [i \in 1 .. n |-> [kept \in V |-> Keep(i, kept)]]
           Folds(iter) == iter = [s \in SUBSET (1 .. n) |->
                             IF s = {} THEN <<>> ELSE Keep(Max(s), iter[s \ {Max(s)}])]
           iter == CHOOSE f : Folds(f)
<1>1. n \in Nat /\ DOMAIN obligations = 1 .. n /\ \A i \in 1 .. n : obligations[i] \in S
  OBVIOUS
<1>2. <<>> \in V /\ G \in [1 .. n -> [V -> V]]
  OBVIOUS
<1>3. PICK f \in [SUBSET (1 .. n) -> V] :
        f = [s \in SUBSET (1 .. n) |-> IF s = {} THEN <<>> ELSE G[Max(s)][f[s \ {Max(s)}]]]
  <2> DEFINE base == <<>>
  <2>1. n \in Nat /\ base \in V /\ G \in [1 .. n -> [V -> V]]
    BY <1>1, <1>2
  <2> HIDE DEF n, V, G, base
  <2>2. \E f \in [SUBSET (1 .. n) -> V] : Folded(n, base, G, f)
    BY <2>1, FoldExists
  <2> QED BY <2>2 DEF base, Folded
<1>4. Folds(f)
  <2>1. ASSUME NEW s \in SUBSET (1 .. n), s # {}
        PROVE  G[Max(s)][f[s \ {Max(s)}]] = Keep(Max(s), f[s \ {Max(s)}])
    <3>1. Max(s) \in 1 .. n
      BY <1>1, <2>1, MaxIs
    <3>2. f[s \ {Max(s)}] \in V
      BY <1>3
    <3> QED BY <3>1, <3>2
  <2> HIDE DEF G, Keep
  <2> QED BY <1>3, <2>1
<1>5. Folds(iter)
  <2> HIDE DEF Folds
  <2> QED BY <1>4
<1>6. StillPending(obligations) = iter[1 .. n]
  BY <1>1 DEF StillPending, FoldLeft, MapThenFoldSet
<1> HIDE DEF iter
<1>7. iter[{}] = <<>>
  BY <1>5
<1>8. ASSUME NEW i \in 1 .. n PROVE iter[1 .. i] = Keep(i, iter[1 .. (i - 1)])
  <2> DEFINE s == 1 .. i
  <2>1. s \in SUBSET (1 .. n) /\ s # {} /\ i \in s /\ \A y \in s : y <= i
    BY <1>1
  <2>2. Max(s) \in s /\ \A y \in s : y <= Max(s)
    BY <1>1, <2>1, MaxIs
  <2>3. Max(s) = i
    BY <2>1, <2>2
  <2>4. s \ {i} = 1 .. (i - 1)
    BY <1>1
  <2> HIDE DEF s, Keep
  <2>5. iter[s] = Keep(Max(s), iter[s \ {Max(s)}])
    BY <1>5, <2>1
  <2> QED BY <2>3, <2>4, <2>5 DEF s
<1> DEFINE kept == [i \in 0 .. n |-> iter[1 .. i]]
           T == {i \in Nat : i <= n => iter[1 .. i] \in V}
<1>9. Nat \subseteq T
  <2>1. 0 \in T
    <3>1. 1 .. 0 = {}
      OBVIOUS
    <3> QED BY <1>2, <1>7, <3>1
  <2>2. ASSUME NEW i \in Nat, i \in T PROVE i + 1 \in T
    <3> SUFFICES ASSUME i + 1 <= n PROVE iter[1 .. (i + 1)] \in V
      OBVIOUS
    <3>1. i + 1 \in 1 .. n /\ i + 1 - 1 = i /\ i <= n
      BY <1>1
    <3>2. iter[1 .. (i + 1)] = Keep(i + 1, iter[1 .. i]) /\ iter[1 .. i] \in V
      BY <1>8, <2>2, <3>1
    <3> QED BY <1>1, <3>1, <3>2
  <2> HIDE DEF T
  <2> QED BY <2>1, <2>2, NatSteps
<1>10. kept \in [0 .. n -> V]
  BY <1>9
<1>11. kept[0] = <<>>
  <2>1. 1 .. 0 = {} /\ 0 \in 0 .. n
    BY <1>1
  <2> QED BY <1>7, <2>1
<1>12. \A i \in 1 .. n : kept[i] = Keep(i, kept[i - 1])
  <2> SUFFICES ASSUME NEW i \in 1 .. n PROVE kept[i] = Keep(i, kept[i - 1])
    OBVIOUS
  <2>1. i \in 0 .. n /\ i - 1 \in 0 .. n
    BY <1>1
  <2> HIDE DEF Keep
  <2> QED BY <1>8, <2>1
<1>13. StillPending(obligations) = kept[n]
  BY <1>1, <1>6
<1> HIDE DEF kept
<1> QED BY <1>10, <1>11, <1>12, <1>13

\* What collapse has kept, position by position.
LEMMA CollapseIs ==
  ASSUME NEW S, NEW obligations \in Seq(S)
  PROVE  \E kept \in [0 .. Len(obligations) -> Seq(S)] :
           /\ kept[0] = <<>>
           /\ \A i \in 1 .. Len(obligations) :
                kept[i] = IF \E k \in Range(kept[i - 1]) : k.formula = obligations[i].formula
                          THEN kept[i - 1] ELSE Append(kept[i - 1], obligations[i])
           /\ Collapse(obligations) = kept[Len(obligations)]
<1> DEFINE n == Len(obligations)
           V == Seq(S)
           Keep(i, kept) == IF \E k \in Range(kept) : k.formula = obligations[i].formula
                            THEN kept ELSE Append(kept, obligations[i])
           G == [i \in 1 .. n |-> [kept \in V |-> Keep(i, kept)]]
           Folds(iter) == iter = [s \in SUBSET (1 .. n) |->
                             IF s = {} THEN <<>> ELSE Keep(Max(s), iter[s \ {Max(s)}])]
           iter == CHOOSE f : Folds(f)
<1>1. n \in Nat /\ DOMAIN obligations = 1 .. n /\ \A i \in 1 .. n : obligations[i] \in S
  OBVIOUS
<1>2. <<>> \in V /\ G \in [1 .. n -> [V -> V]]
  OBVIOUS
<1>3. PICK f \in [SUBSET (1 .. n) -> V] :
        f = [s \in SUBSET (1 .. n) |-> IF s = {} THEN <<>> ELSE G[Max(s)][f[s \ {Max(s)}]]]
  <2> DEFINE base == <<>>
  <2>1. n \in Nat /\ base \in V /\ G \in [1 .. n -> [V -> V]]
    BY <1>1, <1>2
  <2> HIDE DEF n, V, G, base
  <2>2. \E f \in [SUBSET (1 .. n) -> V] : Folded(n, base, G, f)
    BY <2>1, FoldExists
  <2> QED BY <2>2 DEF base, Folded
<1>4. Folds(f)
  <2>1. ASSUME NEW s \in SUBSET (1 .. n), s # {}
        PROVE  G[Max(s)][f[s \ {Max(s)}]] = Keep(Max(s), f[s \ {Max(s)}])
    <3>1. Max(s) \in 1 .. n
      BY <1>1, <2>1, MaxIs
    <3>2. f[s \ {Max(s)}] \in V
      BY <1>3
    <3> QED BY <3>1, <3>2
  <2> HIDE DEF G, Keep
  <2> QED BY <1>3, <2>1
<1>5. Folds(iter)
  <2> HIDE DEF Folds
  <2> QED BY <1>4
<1>6. Collapse(obligations) = iter[1 .. n]
  BY <1>1 DEF Collapse, FoldLeft, MapThenFoldSet
<1> HIDE DEF iter
<1>7. iter[{}] = <<>>
  BY <1>5
<1>8. ASSUME NEW i \in 1 .. n PROVE iter[1 .. i] = Keep(i, iter[1 .. (i - 1)])
  <2> DEFINE s == 1 .. i
  <2>1. s \in SUBSET (1 .. n) /\ s # {} /\ i \in s /\ \A y \in s : y <= i
    BY <1>1
  <2>2. Max(s) \in s /\ \A y \in s : y <= Max(s)
    BY <1>1, <2>1, MaxIs
  <2>3. Max(s) = i
    BY <2>1, <2>2
  <2>4. s \ {i} = 1 .. (i - 1)
    BY <1>1
  <2> HIDE DEF s, Keep
  <2>5. iter[s] = Keep(Max(s), iter[s \ {Max(s)}])
    BY <1>5, <2>1
  <2> QED BY <2>3, <2>4, <2>5 DEF s
<1> DEFINE kept == [i \in 0 .. n |-> iter[1 .. i]]
           T == {i \in Nat : i <= n => iter[1 .. i] \in V}
<1>9. Nat \subseteq T
  <2>1. 0 \in T
    <3>1. 1 .. 0 = {}
      OBVIOUS
    <3> QED BY <1>2, <1>7, <3>1
  <2>2. ASSUME NEW i \in Nat, i \in T PROVE i + 1 \in T
    <3> SUFFICES ASSUME i + 1 <= n PROVE iter[1 .. (i + 1)] \in V
      OBVIOUS
    <3>1. i + 1 \in 1 .. n /\ i + 1 - 1 = i /\ i <= n
      BY <1>1
    <3>2. iter[1 .. (i + 1)] = Keep(i + 1, iter[1 .. i]) /\ iter[1 .. i] \in V
      BY <1>8, <2>2, <3>1
    <3> QED BY <1>1, <3>1, <3>2
  <2> HIDE DEF T
  <2> QED BY <2>1, <2>2, NatSteps
<1>10. kept \in [0 .. n -> V]
  BY <1>9
<1>11. kept[0] = <<>>
  <2>1. 1 .. 0 = {} /\ 0 \in 0 .. n
    BY <1>1
  <2> QED BY <1>7, <2>1
<1>12. \A i \in 1 .. n : kept[i] = Keep(i, kept[i - 1])
  <2> SUFFICES ASSUME NEW i \in 1 .. n PROVE kept[i] = Keep(i, kept[i - 1])
    OBVIOUS
  <2>1. i \in 0 .. n /\ i - 1 \in 0 .. n
    BY <1>1
  <2> HIDE DEF Keep
  <2> QED BY <1>8, <2>1
<1>13. Collapse(obligations) = kept[n]
  BY <1>1, <1>6
<1> HIDE DEF kept
<1> QED BY <1>10, <1>11, <1>12, <1>13

\* What an obligation is, and the order the evaluator carries them in: that of the steps that
\* armed them.
Obligation == [status : Words, formula : AnyFormula, origin : Nat]
Increasing(s) == \A a, b \in 1 .. Len(s) : a < b => s[a].origin < s[b].origin

\* Taking the decided obligations out keeps the others, in order.
LEMMA StillPendingKeeps ==
  ASSUME NEW obligations \in Seq(Obligation), Increasing(obligations)
  PROVE  LET left == StillPending(obligations)
         IN  /\ left \in Seq(Obligation) /\ Increasing(left)
             /\ \A j \in 1 .. Len(left) : \E i \in 1 .. Len(obligations) :
                  left[j] = obligations[i] /\ obligations[i].status = "pending"
             /\ \A i \in 1 .. Len(obligations) : obligations[i].status = "pending" =>
                  \E j \in 1 .. Len(left) : left[j] = obligations[i]
<1> DEFINE n == Len(obligations)
           Good(i, s) ==
             /\ s \in Seq(Obligation) /\ Increasing(s)
             /\ \A j \in 1 .. Len(s) : \E m \in 1 .. i :
                  s[j] = obligations[m] /\ obligations[m].status = "pending"
             /\ \A m \in 1 .. i : obligations[m].status = "pending" =>
                  \E j \in 1 .. Len(s) : s[j] = obligations[m]
<1>1. PICK kept \in [0 .. n -> Seq(Obligation)] :
        /\ kept[0] = <<>>
        /\ \A i \in 1 .. n : kept[i] = IF obligations[i].status = "pending"
                                       THEN Append(kept[i - 1], obligations[i]) ELSE kept[i - 1]
        /\ StillPending(obligations) = kept[n]
  BY StillPendingIs
<1>0. n \in Nat /\ \A i \in 1 .. n : obligations[i] \in Obligation
  OBVIOUS
<1> DEFINE T == {i \in Nat : i <= n => Good(i, kept[i])}
<1>2. 0 \in T
  BY <1>1 DEF Increasing
<1>3. ASSUME NEW i \in Nat, i \in T PROVE i + 1 \in T
  <2> SUFFICES ASSUME i + 1 <= n PROVE Good(i + 1, kept[i + 1])
    OBVIOUS
  <2> DEFINE o == obligations[i + 1]
             s == kept[i]
  <2>1. i + 1 \in 1 .. n /\ i + 1 - 1 = i /\ i <= n
    BY <1>0
  <2>2. kept[i + 1] = IF o.status = "pending" THEN Append(s, o) ELSE s
    BY <1>1, <2>1
  <2>3. Good(i, s)
    BY <1>3, <2>1
  <2>4. o \in Obligation /\ o.origin \in Nat
    BY <1>0, <2>1 DEF Obligation
  <2>5. \A m \in 1 .. i : obligations[m].origin < o.origin
    BY <1>0, <2>1 DEF Increasing
  <2>6. \A m \in 1 .. i + 1 : m \in 1 .. i \/ m = i + 1
    BY <2>1
  <2>7. CASE o.status # "pending"
    <3>1. kept[i + 1] = s
      BY <2>2, <2>7
    <3>2. \A m \in 1 .. i : m \in 1 .. i + 1
      OBVIOUS
    <3> HIDE DEF s
    <3> QED BY <2>3, <2>6, <2>7, <3>1, <3>2
  <2>8. CASE o.status = "pending"
    <3> DEFINE t == Append(s, o)
    <3>0. s \in Seq(Obligation) /\ Len(s) \in Nat
      BY <2>3
    <3> HIDE DEF s
    <3>1. /\ t \in Seq(Obligation) /\ Len(t) = Len(s) + 1 /\ t[Len(s) + 1] = o
          /\ \A j \in 1 .. Len(s) : t[j] = s[j]
      BY <2>4, <3>0
    <3> HIDE DEF t
    <3>2. \A j \in 1 .. Len(t) : j \in 1 .. Len(s) \/ j = Len(s) + 1
      BY <3>0, <3>1
    <3>3. \A j \in 1 .. Len(s) : s[j].origin < o.origin
      BY <2>3, <2>5
    <3>4. Increasing(t)
      <4> SUFFICES ASSUME NEW a \in 1 .. Len(t), NEW b \in 1 .. Len(t), a < b
                   PROVE  t[a].origin < t[b].origin
        BY DEF Increasing
      <4>1. a \in 1 .. Len(s)
        BY <3>0, <3>1
      <4>2. CASE b \in 1 .. Len(s)
        BY <2>3, <3>1, <4>1, <4>2 DEF Increasing
      <4>3. CASE b = Len(s) + 1
        BY <3>1, <3>3, <4>1, <4>3
      <4> QED BY <3>2, <4>2, <4>3
    <3>5. ASSUME NEW j \in 1 .. Len(t)
          PROVE  \E m \in 1 .. i + 1 : t[j] = obligations[m] /\ obligations[m].status = "pending"
      <4>1. CASE j \in 1 .. Len(s)
        <5>1. PICK m \in 1 .. i : s[j] = obligations[m] /\ obligations[m].status = "pending"
          BY <2>3, <4>1
        <5>2. m \in 1 .. i + 1
          OBVIOUS
        <5> QED BY <3>1, <4>1, <5>1, <5>2
      <4>2. CASE j = Len(s) + 1
        <5>1. i + 1 \in 1 .. i + 1
          OBVIOUS
        <5> QED BY <2>8, <3>1, <4>2, <5>1
      <4> QED BY <3>2, <4>1, <4>2
    <3>6. ASSUME NEW m \in 1 .. i + 1, obligations[m].status = "pending"
          PROVE  \E j \in 1 .. Len(t) : t[j] = obligations[m]
      <4>1. CASE m \in 1 .. i
        <5>1. PICK j \in 1 .. Len(s) : s[j] = obligations[m]
          BY <2>3, <3>6, <4>1
        <5>2. j \in 1 .. Len(t)
          BY <3>0, <3>1
        <5> QED BY <3>1, <5>1, <5>2
      <4>2. CASE m = i + 1
        <5>1. Len(s) + 1 \in 1 .. Len(t)
          BY <3>0, <3>1
        <5> QED BY <3>1, <4>2, <5>1
      <4> QED BY <2>6, <4>1, <4>2
    <3>7. kept[i + 1] = t
      BY <2>2, <2>8 DEF t
    <3>8. Good(i + 1, t)
      BY <3>1, <3>4, <3>5, <3>6
    <3> QED BY <3>7, <3>8
  <2> QED BY <2>7, <2>8
<1>4. Nat \subseteq T
  <2> HIDE DEF T
  <2> QED BY <1>2, <1>3, NatSteps
<1>5. Good(n, kept[n])
  <2>1. n \in T
    <3> HIDE DEF T, n
    <3> QED BY <1>0, <1>4
  <2> HIDE DEF Good
  <2> QED BY <1>0, <2>1
<1> QED BY <1>1, <1>5

\* Merging the obligations with equal formulas keeps the earliest of them, in order (collapse).
LEMMA CollapseKeeps ==
  ASSUME NEW obligations \in Seq(Obligation), Increasing(obligations)
  PROVE  LET left == Collapse(obligations)
         IN  /\ left \in Seq(Obligation) /\ Increasing(left)
             /\ \A j \in 1 .. Len(left) : \E i \in 1 .. Len(obligations) : left[j] = obligations[i]
             /\ \A i \in 1 .. Len(obligations) : \E j \in 1 .. Len(left) :
                  left[j].formula = obligations[i].formula /\ left[j].origin <= obligations[i].origin
<1> DEFINE n == Len(obligations)
           Spoken(s, o) == \E j \in 1 .. Len(s) : s[j].formula = o.formula /\ s[j].origin <= o.origin
           Good(i, s) ==
             /\ s \in Seq(Obligation) /\ Increasing(s)
             /\ \A j \in 1 .. Len(s) : \E m \in 1 .. i : s[j] = obligations[m]
             /\ \A m \in 1 .. i : Spoken(s, obligations[m])
<1>1. PICK kept \in [0 .. n -> Seq(Obligation)] :
        /\ kept[0] = <<>>
        /\ \A i \in 1 .. n :
             kept[i] = IF \E k \in Range(kept[i - 1]) : k.formula = obligations[i].formula
                       THEN kept[i - 1] ELSE Append(kept[i - 1], obligations[i])
        /\ Collapse(obligations) = kept[n]
  BY CollapseIs
<1>0. n \in Nat /\ \A i \in 1 .. n : obligations[i] \in Obligation
  OBVIOUS
<1> DEFINE T == {i \in Nat : i <= n => Good(i, kept[i])}
<1>2. 0 \in T
  BY <1>1 DEF Increasing
<1>3. ASSUME NEW i \in Nat, i \in T PROVE i + 1 \in T
  <2> SUFFICES ASSUME i + 1 <= n PROVE Good(i + 1, kept[i + 1])
    OBVIOUS
  <2> DEFINE o == obligations[i + 1]
             s == kept[i]
  <2>1. i + 1 \in 1 .. n /\ i + 1 - 1 = i /\ i <= n
    BY <1>0
  <2>2. kept[i + 1] = IF \E k \in Range(s) : k.formula = o.formula THEN s ELSE Append(s, o)
    BY <1>1, <2>1
  <2>3. Good(i, s)
    BY <1>3, <2>1
  <2>4. o \in Obligation /\ o.origin \in Nat
    BY <1>0, <2>1 DEF Obligation
  <2>5. \A m \in 1 .. i : obligations[m].origin < o.origin
    BY <1>0, <2>1 DEF Increasing
  <2>6. \A m \in 1 .. i + 1 : m \in 1 .. i \/ m = i + 1
    BY <2>1
  <2>9. /\ s \in Seq(Obligation) /\ Len(s) \in Nat /\ DOMAIN s = 1 .. Len(s)
        /\ \A j \in 1 .. Len(s) : s[j].origin \in Nat
    <3>1. s \in Seq(Obligation)
      BY <2>3
    <3> HIDE DEF s
    <3>2. Len(s) \in Nat /\ DOMAIN s = 1 .. Len(s) /\ \A j \in 1 .. Len(s) : s[j] \in Obligation
      BY <3>1
    <3>3. \A x \in Obligation : x.origin \in Nat
      BY DEF Obligation
    <3> QED BY <3>1, <3>2, <3>3
  <2> HIDE DEF s
  <2>10. \A j \in 1 .. Len(s) : s[j].origin < o.origin
    BY <2>3, <2>5
  <2>7. CASE \E k \in Range(s) : k.formula = o.formula
    <3>1. kept[i + 1] = s
      BY <2>2, <2>7
    <3>2. \A m \in 1 .. i : m \in 1 .. i + 1
      OBVIOUS
    <3>3. PICK j \in 1 .. Len(s) : s[j].formula = o.formula
      BY <2>7, <2>9 DEF Range
    <3>4. s[j].origin <= o.origin
      BY <2>4, <2>9, <2>10
    <3>5. Spoken(s, o)
      BY <3>3, <3>4
    <3> HIDE DEF Spoken
    <3>6. \A m \in 1 .. i + 1 : Spoken(s, obligations[m])
      BY <2>3, <2>6, <3>5
    <3>7. \A k \in 1 .. Len(s) : \E m \in 1 .. i + 1 : s[k] = obligations[m]
      BY <2>3, <3>2
    <3> QED BY <2>3, <3>1, <3>6, <3>7
  <2>8. CASE ~ \E k \in Range(s) : k.formula = o.formula
    <3> DEFINE t == Append(s, o)
    <3>1. /\ t \in Seq(Obligation) /\ Len(t) = Len(s) + 1 /\ t[Len(s) + 1] = o
          /\ \A j \in 1 .. Len(s) : t[j] = s[j]
      BY <2>4, <2>9
    <3> HIDE DEF t
    <3>2. \A j \in 1 .. Len(t) : j \in 1 .. Len(s) \/ j = Len(s) + 1
      BY <2>9, <3>1
    <3>4. Increasing(t)
      <4> SUFFICES ASSUME NEW a \in 1 .. Len(t), NEW b \in 1 .. Len(t), a < b
                   PROVE  t[a].origin < t[b].origin
        BY DEF Increasing
      <4>1. a \in 1 .. Len(s)
        BY <2>9, <3>1
      <4>2. CASE b \in 1 .. Len(s)
        BY <2>3, <3>1, <4>1, <4>2 DEF Increasing
      <4>3. CASE b = Len(s) + 1
        BY <3>1, <2>10, <4>1, <4>3
      <4> QED BY <3>2, <4>2, <4>3
    <3>5. ASSUME NEW j \in 1 .. Len(t)
          PROVE  \E m \in 1 .. i + 1 : t[j] = obligations[m]
      <4>1. CASE j \in 1 .. Len(s)
        <5>1. PICK m \in 1 .. i : s[j] = obligations[m]
          BY <2>3, <4>1
        <5>2. m \in 1 .. i + 1
          OBVIOUS
        <5> QED BY <3>1, <4>1, <5>1, <5>2
      <4>2. CASE j = Len(s) + 1
        <5>1. i + 1 \in 1 .. i + 1
          OBVIOUS
        <5> QED BY <3>1, <4>2, <5>1
      <4> QED BY <3>2, <4>1, <4>2
    <3>6. ASSUME NEW m \in 1 .. i + 1
          PROVE  Spoken(t, obligations[m])
      <4>1. CASE m \in 1 .. i
        <5>1. PICK j \in 1 .. Len(s) : s[j].formula = obligations[m].formula /\ s[j].origin <= obligations[m].origin
          BY <2>3, <4>1
        <5>2. j \in 1 .. Len(t)
          BY <2>9, <3>1
        <5> QED BY <3>1, <5>1, <5>2
      <4>2. CASE m = i + 1
        <5>1. Len(s) + 1 \in 1 .. Len(t)
          BY <2>9, <3>1
        <5>2. o.origin <= o.origin
          BY <2>4
        <5> QED BY <3>1, <4>2, <5>1, <5>2
      <4> QED BY <2>6, <4>1, <4>2
    <3>7. kept[i + 1] = t
      BY <2>2, <2>8 DEF t
    <3> HIDE DEF Spoken
    <3>8. Good(i + 1, t)
      BY <3>1, <3>4, <3>5, <3>6
    <3> QED BY <3>7, <3>8
  <2> QED BY <2>7, <2>8
<1>4. Nat \subseteq T
  <2> HIDE DEF T
  <2> QED BY <1>2, <1>3, NatSteps
<1>5. Good(n, kept[n])
  <2>1. n \in T
    <3> HIDE DEF T, n
    <3> QED BY <1>0, <1>4
  <2> HIDE DEF Good
  <2> QED BY <1>0, <2>1
<1> QED BY <1>1, <1>5

----------------------------------------------------------------------------
(* The shapes of the evaluator's state.                                    *)

\* The first violated obligation of some, if there is one.
LEMMA FirstViolatedIs ==
  ASSUME NEW S, NEW obligations \in Seq(S)
  PROVE  LET i == FirstViolated(obligations)
         IN  \/ i = 0 /\ \A j \in 1 .. Len(obligations) : obligations[j].status # "violated"
             \/ /\ i \in 1 .. Len(obligations) /\ obligations[i].status = "violated"
                /\ \A j \in 1 .. Len(obligations) : j < i => obligations[j].status # "violated"
<1> DEFINE I == {i \in 1 .. Len(obligations) : obligations[i].status = "violated"}
<1>1. FirstViolated(obligations) = IF I # {} THEN Min(I) ELSE 0
  BY DEF FirstViolated, SelectInSeq
<1>2. CASE I = {}
  BY <1>1, <1>2
<1>3. CASE I # {}
  <2>1. Len(obligations) \in Nat /\ I \in SUBSET (1 .. Len(obligations))
    OBVIOUS
  <2>2. Min(I) \in I /\ \A y \in I : Min(I) <= y
    BY <1>3, <2>1, MaxIs
  <2>3. \A j \in 1 .. Len(obligations) : j < Min(I) => j \notin I
    BY <2>1, <2>2
  <2> QED BY <1>1, <1>3, <2>2, <2>3
<1> QED BY <1>2, <1>3

\* The first residual that the end of the run violates, if there is one.
FinallyViolated(obligations) ==
  SelectInSeq(obligations, LAMBDA o : FinalStatus[o.formula] = "violated")

\* It is 0 when there is none, and the first position otherwise.
LEMMA FinallyViolatedIs ==
  ASSUME NEW S, NEW obligations \in Seq(S)
  PROVE  LET i == FinallyViolated(obligations)
             Broken(j) == FinalStatus[obligations[j].formula] = "violated"
         IN  \/ i = 0 /\ \A j \in 1 .. Len(obligations) : ~ Broken(j)
             \/ /\ i \in 1 .. Len(obligations) /\ Broken(i)
                /\ \A j \in 1 .. Len(obligations) : j < i => ~ Broken(j)
<1> DEFINE I == {i \in 1 .. Len(obligations) : FinalStatus[obligations[i].formula] = "violated"}
<1>1. FinallyViolated(obligations) = IF I # {} THEN Min(I) ELSE 0
  BY DEF FinallyViolated, SelectInSeq
<1>2. CASE I = {}
  BY <1>1, <1>2
<1>3. CASE I # {}
  <2>1. Len(obligations) \in Nat /\ I \in SUBSET (1 .. Len(obligations))
    OBVIOUS
  <2>2. Min(I) \in I /\ \A y \in I : Min(I) <= y
    BY <1>3, <2>1, MaxIs
  <2>3. \A j \in 1 .. Len(obligations) : j < Min(I) => j \notin I
    BY <2>1, <2>2
  <2> QED BY <1>1, <1>3, <2>2, <2>3
<1> QED BY <1>2, <1>3

\* The formula the evaluator arms is the normal form of the one the property asserts: at every
\* observation, or at the first one only when it is an eventually (worker.go, armsOnce).
LEMMA RootIs ==
  ASSUME NEW a \in Roots
  PROVE  LET r == Normal[Build(a)].nnf
             asserted == IF a.op = "always" THEN a.inner ELSE a
         IN  /\ asserted \in Property
             /\ OneShot(r) <=> a.op = "eventually"
             /\ Instance(r) = Normal[BuildNode[asserted]].nnf
             /\ Instance(r) \in NormalAt(Depth + 1)
<1> DEFINE asserted == IF a.op = "always" THEN a.inner ELSE a
           r == Normal[Build(a)].nnf
<1>0. a \in Property /\ Depth \in Nat /\ Depth + 1 \in Nat /\ Depth < Top /\ Depth + 1 < Top /\ Depth + 1 <= Top
  BY RootsAssumption, TopIs DEF Top
<1>1. asserted \in Property
  <2>1. a.op = "always" => a.inner \in Property
    <3>1. Leaf(a) \/ Joint(a, Smaller(Authored, Property, a)) \/ Clause(a, Smaller(Authored, Property, a))
      BY <1>0, PropertyParts
    <3> QED BY <3>1 DEF Leaf, Joint, Clause, UnaryOps, BinaryOps, Smaller
  <2> QED BY <1>0, <2>1
<1>2. \A f \in Property : BuildNode[f] \in Built[Depth] /\ BuildNode[f] = Node(f, BuildNode)
  BY BuildLevels, BuildNodeIs, <1>0 DEF Property
<1>3. \A f \in Property : Normal[BuildNode[f]].nnf \in NormalAt(Depth + 1)
  BY <1>0, <1>2, NormalLevels
<1>4. \A f \in Built[Depth + 1] : Normal[f] = Forms(f, Normal)
  BY <1>0, NormalIs, LevelsGrow, TopIs
<1>5. CASE a.op = "eventually"
  <2>1. a \in Property /\ BuildNode[a].op = "eventually"
    BY <1>0, <1>2, <1>5, NodesAre DEF Temporal
  <2>2. Build(a) = BuildNode[a]
    BY <1>5 DEF Build, TemporalOps
  <2>3. BuildNode[a] \in Built[Depth + 1]
    BY <1>0, <1>2, LevelsRise
  <2>4. r.op = "eventually"
    BY <1>4, <2>1, <2>2, <2>3, FormsAre DEF Temporal
  <2>5. OneShot(r) /\ Instance(r) = r
    BY <2>4 DEF OneShot, Instance
  <2> QED BY <1>0, <1>3, <1>5, <2>2, <2>5
<1>6. CASE a.op # "eventually"
  <2> DEFINE b == BuildNode[asserted]
  <2>1. Build(a) = Temporal("always", b, "none", 0, Unresolved)
    <3>1. CASE a.op = "always"
      BY <1>0, <1>2, <3>1, NodesAre DEF Build, TemporalOps
    <3>2. CASE a.op # "always"
      BY <1>6, <3>2 DEF Build, TemporalOps
    <3> QED BY <3>1, <3>2
  <2>2. b \in Built[Depth]
    BY <1>1, <1>2
  <2> HIDE DEF b, asserted
  <2>3. Build(a) \in Built[Depth + 1]
    <3>1. Temporal("always", b, "none", 0, Unresolved) \in Built[Depth + 1]
      BY <1>0, <2>2, LevelMakes DEF TemporalOps, Units
    <3> QED BY <2>1, <3>1
  <2>4. /\ Build(a).op = "always" /\ Build(a).inner = b /\ Build(a).unit = "none"
        /\ Build(a).amount = 0 /\ Build(a).closes = Unresolved
    BY <2>1 DEF Temporal
  <2>5. r = Temporal("always", Normal[b].nnf, "none", 0, Unresolved)
    BY <1>4, <2>3, <2>4, FormsAre
  <2>6. r.op = "always" /\ r.inner = Normal[b].nnf /\ r.unit = "none"
    BY <2>5 DEF Temporal
  <2> HIDE DEF r
  <2>7. ~ OneShot(r) /\ Instance(r) = Normal[b].nnf
    BY <2>6 DEF OneShot, Instance
  <2>8. Normal[b].nnf \in NormalAt(Depth + 1)
    BY <1>1, <1>3 DEF b
  <2> QED BY <1>1, <1>6, <2>7, <2>8 DEF r, asserted, b
<1> QED BY <1>5, <1>6

\* The parts of an observation, by name (ObserveAtStep).
Moment == [step : Nat, now : Nat, atoms : [AtomsOf[authored] -> {"true", "false", "throws"}]]
Previous == IF history = <<>> THEN [step |-> 0, now |-> 0] ELSE Last(history)
Noted(gap, atoms) ==
  [step |-> Previous.step + gap.steps, now |-> Previous.now + gap.halves, atoms |-> atoms]
Observed(gap, atoms) ==
  [index |-> observations + 1, now |-> Noted(gap, atoms).now, step |-> Noted(gap, atoms).step,
   atoms |-> atoms]
Fresh(step) ==
  IF OneShot(root) /\ armed THEN <<>>
  ELSE <<[status |-> "pending", formula |-> Instance(root), origin |-> step]>>
Owed(step) == pending \o Fresh(step)
Reduced(gap, atoms) ==
  LET obligations == Owed(Noted(gap, atoms).step)
  IN  [i \in DOMAIN obligations |-> Advance(obligations[i], Observed(gap, atoms))]
Left(gap, atoms) == Collapse(StillPending(Reduced(gap, atoms)))
Failed(gap, atoms) == FirstViolated(Reduced(gap, atoms))

\* An observation is numbered one beyond those made.
LEMMA ObservedIs == \A gap, atoms : Observed(gap, atoms).index = observations + 1
BY DEF Observed

\* One observation of an evaluator that is not violated yet.
LEMMA ObserveIs ==
  ASSUME NEW gap, NEW atoms, Observe(gap, atoms)
  PROVE  /\ ~ ended /\ Len(history) < MaxObservations
         /\ history' = Append(history, Noted(gap, atoms))
         /\ verdict = "violated" =>
              UNCHANGED <<armed, pending, verdict, violation, steps, observations>>
         /\ verdict # "violated" =>
              /\ steps' = Noted(gap, atoms).step /\ observations' = observations + 1
              /\ armed' = TRUE
              /\ Failed(gap, atoms) # 0 =>
                   /\ pending' = <<>> /\ verdict' = "violated"
                   /\ violation' = Reduced(gap, atoms)[Failed(gap, atoms)].origin
              /\ Failed(gap, atoms) = 0 =>
                   /\ pending' = Left(gap, atoms) /\ violation' = 0
                   /\ verdict' = IF Left(gap, atoms) # <<>> THEN "pending" ELSE "holds"
         /\ UNCHANGED <<authored, root, ended>>
<1> DEFINE seen == Noted(gap, atoms)
           obs == Observed(gap, atoms)
           reduced == Reduced(gap, atoms)
           failed == Failed(gap, atoms)
           left == Left(gap, atoms)
<1>2. /\ ~ended /\ Len(history) < MaxObservations
      /\ history' = Append(history, seen)
      /\ IF verdict = "violated"
         THEN UNCHANGED <<armed, pending, verdict, violation, steps, observations>>
         ELSE /\ steps' = seen.step
              /\ observations' = obs.index
              /\ armed' = TRUE
              /\ pending' = IF failed # 0 THEN <<>> ELSE left
              /\ verdict' = CASE failed # 0 -> "violated"
                              [] failed = 0 /\ left # <<>> -> "pending"
                              [] OTHER -> "holds"
              /\ violation' = IF failed # 0 THEN reduced[failed].origin ELSE 0
      /\ UNCHANGED <<authored, root, ended>>
  <2> HIDE DEF seen, obs, reduced, failed, left
  <2> QED BY Zenon DEF Observe, seen, obs, reduced, failed, left, Noted, Observed, Previous, Fresh, Owed,
                 Reduced, Left, Failed
<1> HIDE DEF seen, obs, reduced, failed, left
<1>3. /\ verdict # "violated" /\ failed # 0 => verdict' = "violated"
      /\ verdict # "violated" /\ failed = 0 => verdict' = IF left # <<>> THEN "pending" ELSE "holds"
  BY <1>2
<1> QED BY <1>2, <1>3, ObservedIs DEF seen, obs, reduced, failed, left

\* The state has the shapes the code gives it.
TypeInv ==
  /\ authored \in Roots /\ root = Normal[Build(authored)].nnf
  /\ armed \in BOOLEAN /\ ended \in BOOLEAN /\ verdict \in Words
  /\ history \in Seq(Moment) /\ Len(history) <= MaxObservations
  /\ \A i \in 1 .. Len(history) : history[i].step > 0
  /\ \A i, j \in 1 .. Len(history) : i < j => history[i].step < history[j].step
  /\ observations \in 0 .. Len(history)
  /\ verdict # "violated" => observations = Len(history)
  /\ armed <=> observations > 0
  /\ steps = IF observations = 0 THEN 0 ELSE history[observations].step
  /\ violation \in 0 .. steps
  /\ pending \in Seq(Obligation) /\ Increasing(pending)
  /\ \A i \in 1 .. Len(pending) :
       /\ pending[i].formula \in NormalAt(Depth + 1 + observations)
       /\ pending[i].origin \in 1 .. steps

\* The shapes hold of the evaluator as it is made.
LEMMA TypeInit == Init => TypeInv
<1> SUFFICES ASSUME Init PROVE TypeInv
  OBVIOUS
<1>1. history = <<>> /\ pending = <<>> /\ observations = 0 /\ steps = 0 /\ violation = 0
  BY DEF Init
<1>2. MaxObservations \in Nat
  BY TopIs
<1>3. history \in Seq(Moment) /\ pending \in Seq(Obligation) /\ Len(history) = 0 /\ Len(pending) = 0
  BY <1>1
<1>4. verdict \in Words /\ armed \in BOOLEAN /\ ended \in BOOLEAN /\ (armed <=> observations > 0)
  <2>1. verdict = "holds" /\ armed = FALSE /\ ended = FALSE
    BY DEF Init
  <2>2. ~ (observations > 0)
    BY <1>1
  <2> QED BY <2>1, <2>2 DEF Words
<1>5. authored \in Roots /\ root = Normal[Build(authored)].nnf
  BY DEF Init
<1>6. Increasing(pending)
  BY <1>3 DEF Increasing
<1> QED BY <1>1, <1>2, <1>3, <1>4, <1>5, <1>6 DEF TypeInv

\* A level in normal form holds those below it.
LEMMA NormalGrow ==
  \A n, m \in Nat : n <= m => NormalAt(n) \subseteq NormalAt(m)
BY LevelsGrow DEF NormalAt

\* An observation comes after those before it and has the shape of one.
LEMMA NotedIs ==
  ASSUME TypeInv, NEW gap \in Gaps, NEW atoms \in [AtomsOf[authored] -> {"true", "false", "throws"}]
  PROVE  /\ Noted(gap, atoms) \in Moment /\ Noted(gap, atoms).step > 0
         /\ \A i \in 1 .. Len(history) : history[i].step < Noted(gap, atoms).step
         /\ Append(history, Noted(gap, atoms)) \in Seq(Moment)
         /\ Observation(Observed(gap, atoms))
         /\ steps < Noted(gap, atoms).step /\ steps \in Nat
<1> DEFINE seen == Noted(gap, atoms)
           n == Len(history)
<1>1. history \in Seq(Moment) /\ n \in Nat /\ observations \in 0 .. n
  BY DEF TypeInv
<1>2. gap.steps \in Nat /\ gap.steps > 0 /\ gap.halves \in Nat
  BY GapsAssumption
<1>m. \A i \in 1 .. n : history[i].step \in Nat /\ history[i].now \in Nat
  <2>1. \A i \in 1 .. n : history[i] \in Moment
    BY <1>1
  <2>2. \A x \in Moment : x.step \in Nat /\ x.now \in Nat
    BY DEF Moment
  <2> QED BY <2>1, <2>2
<1>3. /\ Previous.step \in Nat /\ Previous.now \in Nat
      /\ \A i \in 1 .. n : history[i].step <= Previous.step
  <2>1. CASE history = <<>>
    <3>1. n = 0 /\ Previous.step = 0 /\ Previous.now = 0
      BY <2>1 DEF Previous
    <3> QED BY <3>1
  <2>2. CASE history # <<>>
    <3>1. n \in 1 .. n
      BY <1>1, <2>2
    <3>2. Previous = history[n]
      BY <2>2 DEF Previous, Last
    <3>3. \A i \in 1 .. n : i < n => history[i].step < history[n].step
      BY <3>1 DEF TypeInv
    <3>4. \A i \in 1 .. n : i < n \/ i = n
      BY <1>1
    <3> QED BY <1>m, <3>1, <3>2, <3>3, <3>4
  <2> QED BY <2>1, <2>2
<1>4. seen = [step |-> Previous.step + gap.steps, now |-> Previous.now + gap.halves, atoms |-> atoms]
  BY DEF Noted
<1> HIDE DEF seen
<1>5. /\ seen.step = Previous.step + gap.steps /\ seen.now = Previous.now + gap.halves
      /\ seen.step \in Nat /\ seen.now \in Nat
  BY <1>2, <1>3, <1>4
<1>6. seen \in Moment
  BY <1>4, <1>5 DEF Moment
<1>7. seen.step > 0 /\ \A i \in 1 .. n : history[i].step < seen.step
  BY <1>m, <1>2, <1>3, <1>5
<1>8. Append(history, seen) \in Seq(Moment)
  BY <1>1, <1>6
<1>9. Observation(Observed(gap, atoms))
  BY <1>1, <1>5 DEF Observation, Observed, seen
<1>10. steps < seen.step /\ steps \in Nat
  <2>1. steps = IF observations = 0 THEN 0 ELSE history[observations].step
    BY DEF TypeInv
  <2>2. CASE observations = 0
    BY <1>5, <1>7, <2>1, <2>2
  <2>3. CASE observations # 0
    <3>1. observations \in 1 .. n
      BY <1>1, <2>3
    <3> QED BY <1>m, <1>5, <1>7, <2>1, <2>3, <3>1
  <2> QED BY <2>2, <2>3
<1> QED BY <1>6, <1>7, <1>8, <1>9, <1>10 DEF seen

\* What is owed at an observation: what was pending, and what is armed there.
LEMMA OwedIs ==
  ASSUME TypeInv, NEW step \in Nat, steps < step, step > 0
  PROVE  /\ Owed(step) \in Seq(Obligation) /\ Increasing(Owed(step))
         /\ Len(Owed(step)) = Len(pending) + Len(Fresh(step))
         /\ Len(Fresh(step)) = IF OneShot(root) /\ armed THEN 0 ELSE 1
         /\ \A i \in 1 .. Len(pending) : Owed(step)[i] = pending[i]
         /\ \A i \in 1 .. Len(Fresh(step)) :
              Owed(step)[Len(pending) + i] =
                [status |-> "pending", formula |-> Instance(root), origin |-> step]
         /\ \A i \in 1 .. Len(Owed(step)) :
              /\ Owed(step)[i].formula \in NormalAt(Depth + 1 + observations)
              /\ Owed(step)[i].origin \in 1 .. step
<1> DEFINE fresh == Fresh(step)
           o == [status |-> "pending", formula |-> Instance(root), origin |-> step]
           s == Owed(step)
           level == Depth + 1 + observations
<1>0. pending \in Seq(Obligation) /\ Len(pending) \in Nat /\ steps \in Nat /\ observations \in Nat
  <2>1. observations \in Nat
    BY DEF TypeInv
  <2>2. pending \in Seq(Obligation)
    BY DEF TypeInv
  <2>3. steps \in Nat
    <3>1. \A x \in Moment : x.step \in Nat
      BY DEF Moment
    <3>2. observations # 0 => history[observations] \in Moment
      BY DEF TypeInv
    <3> QED BY <3>1, <3>2 DEF TypeInv
  <2> QED BY <2>1, <2>2, <2>3
<1>1. Instance(root) \in NormalAt(Depth + 1)
  BY RootIs DEF TypeInv
<1>2. Instance(root) \in NormalAt(level)
  <2>1. Depth + 1 \in Nat /\ level \in Nat /\ Depth + 1 <= level
    BY <1>0, TopIs
  <2> QED BY <1>1, <2>1, NormalGrow
<1>3. o \in Obligation /\ o.formula = Instance(root) /\ o.origin = step
  <2>1. Instance(root) \in AnyFormula
    BY <1>1, TopIs DEF NormalAt, AnyFormula
  <2> QED BY <2>1 DEF Obligation, Words
<1> HIDE DEF o
<1>4. fresh = IF OneShot(root) /\ armed THEN <<>> ELSE <<o>>
  BY DEF Fresh, o
<1>5. /\ fresh \in Seq(Obligation) /\ Len(fresh) = IF OneShot(root) /\ armed THEN 0 ELSE 1
      /\ \A i \in 1 .. Len(fresh) : fresh[i] = o
  BY <1>3, <1>4
<1>6. s = pending \o fresh
  BY DEF Owed
<1> HIDE DEF s, fresh
<1>7. /\ s \in Seq(Obligation) /\ Len(s) = Len(pending) + Len(fresh)
      /\ \A i \in 1 .. Len(pending) : s[i] = pending[i]
      /\ \A i \in 1 .. Len(fresh) : s[Len(pending) + i] = fresh[i]
  BY <1>0, <1>5, <1>6
<1>8. ASSUME NEW i \in 1 .. Len(s)
      PROVE  s[i].formula \in NormalAt(level) /\ s[i].origin \in 1 .. step
  <2>1. CASE i <= Len(pending)
    <3>1. i \in 1 .. Len(pending)
      BY <1>0, <1>7, <2>1
    <3>2. pending[i].formula \in NormalAt(level) /\ pending[i].origin \in 1 .. steps
      BY <3>1 DEF TypeInv
    <3> QED BY <1>0, <1>7, <3>1, <3>2
  <2>2. CASE i > Len(pending)
    <3>1. i - Len(pending) \in 1 .. Len(fresh) /\ Len(pending) + (i - Len(pending)) = i
      BY <1>0, <1>5, <1>7, <2>2
    <3>2. s[i] = o
      BY <1>5, <1>7, <3>1
    <3> QED BY <1>2, <1>3, <3>2
  <2> QED BY <1>0, <2>1, <2>2
<1>9. Increasing(s)
  <2> SUFFICES ASSUME NEW i \in 1 .. Len(s), NEW j \in 1 .. Len(s), i < j
               PROVE  s[i].origin < s[j].origin
    BY DEF Increasing
  <2>1. i \in 1 .. Len(pending)
    BY <1>0, <1>5, <1>7
  <2>2. pending[i].origin \in 1 .. steps
    BY <2>1 DEF TypeInv
  <2>3. CASE j <= Len(pending)
    <3>1. j \in 1 .. Len(pending)
      BY <1>0, <1>7, <2>3
    <3>2. pending[i].origin < pending[j].origin
      BY <2>1, <3>1 DEF TypeInv, Increasing
    <3> QED BY <1>7, <2>1, <3>1, <3>2
  <2>4. CASE j > Len(pending)
    <3>1. j - Len(pending) \in 1 .. Len(fresh) /\ Len(pending) + (j - Len(pending)) = j
      BY <1>0, <1>5, <1>7, <2>4
    <3>2. s[j].origin = step
      BY <1>3, <1>5, <1>7, <3>1
    <3> QED BY <1>0, <1>7, <2>1, <2>2, <3>2
  <2> QED BY <1>0, <1>7, <2>3, <2>4
<1> QED BY <1>5, <1>7, <1>8, <1>9 DEF s, fresh, o

\* What those obligations reduce to.
LEMMA ReducedIs ==
  ASSUME TypeInv, NEW gap \in Gaps, NEW atoms \in [AtomsOf[authored] -> {"true", "false", "throws"}],
         Len(history) < MaxObservations
  PROVE  LET s == Owed(Noted(gap, atoms).step)
             r == Reduced(gap, atoms)
         IN  /\ r \in Seq(Obligation) /\ Len(r) = Len(s) /\ Increasing(r)
             /\ \A i \in 1 .. Len(s) :
                  /\ s[i].formula \in Formula
                  /\ r[i].status = Reduce(s[i].formula, Observed(gap, atoms)).status
                  /\ r[i].formula = Reduce(s[i].formula, Observed(gap, atoms)).formula
                  /\ r[i].formula \in NormalAt(Depth + 1 + (observations + 1))
                  /\ r[i].origin = s[i].origin /\ r[i].origin \in 1 .. Noted(gap, atoms).step
<1> DEFINE step == Noted(gap, atoms).step
           obs == Observed(gap, atoms)
           s == Owed(step)
           r == Reduced(gap, atoms)
           level == Depth + 1 + observations
<1>1. step \in Nat /\ steps < step /\ step > 0 /\ Observation(obs)
  <2>1. Noted(gap, atoms) \in Moment
    BY NotedIs
  <2> QED BY <2>1, NotedIs DEF Moment
<1>2. /\ s \in Seq(Obligation) /\ Increasing(s)
      /\ \A i \in 1 .. Len(s) : s[i].formula \in NormalAt(level) /\ s[i].origin \in 1 .. step
  BY <1>1, OwedIs
<1>3. level \in Nat /\ level < Top /\ level + 1 = Depth + 1 + (observations + 1)
  <2>1. observations \in Nat /\ observations <= Len(history) /\ Len(history) \in Nat
    BY DEF TypeInv
  <2> QED BY <2>1, TopIs DEF Top
<1>4. \A f \in NormalAt(level) : f \in Formula
  BY <1>3, LevelsGrow, TopIs DEF NormalAt
<1>5. r = [i \in DOMAIN s |-> Advance(s[i], obs)]
  BY DEF Reduced
<1> HIDE DEF s, r, obs, step
<1>6. DOMAIN s = 1 .. Len(s) /\ Len(s) \in Nat
  BY <1>2
<1>7. ASSUME NEW i \in 1 .. Len(s)
      PROVE  /\ s[i].formula \in Formula
             /\ r[i].status = Reduce(s[i].formula, obs).status
             /\ r[i].formula = Reduce(s[i].formula, obs).formula
             /\ r[i].formula \in NormalAt(level + 1)
             /\ r[i].origin = s[i].origin /\ r[i].origin \in 1 .. step
             /\ r[i] \in Obligation
  <2>1. s[i].formula \in NormalAt(level) /\ s[i].formula \in Formula /\ s[i].origin \in 1 .. step
    BY <1>2, <1>4
  <2>2. r[i] = Advance(s[i], obs)
    BY <1>5, <1>6
  <2>3. r[i] = [status |-> Reduce(s[i].formula, obs).status,
                formula |-> Reduce(s[i].formula, obs).formula, origin |-> s[i].origin]
    BY <2>2 DEF Advance
  <2>4. Reduce(s[i].formula, obs).formula \in NormalAt(level + 1)
    BY <1>1, <1>3, <2>1, ReduceLevels
  <2>5. Reduce(s[i].formula, obs) \in Reductions
    BY <1>1, <2>1, ReducerIs
  <2>6. Reduce(s[i].formula, obs).status \in Words /\ Reduce(s[i].formula, obs).formula \in AnyFormula
    BY <2>5 DEF Reductions
  <2>7. s[i].origin \in Nat
    BY <1>1, <2>1
  <2>8. r[i] \in Obligation
    BY <2>3, <2>6, <2>7 DEF Obligation
  <2> QED BY <2>1, <2>3, <2>4, <2>8
<1>8. r \in Seq(Obligation) /\ Len(r) = Len(s)
  <2>1. r = [i \in 1 .. Len(s) |-> r[i]] /\ \A i \in 1 .. Len(s) : r[i] \in Obligation
    BY <1>5, <1>6, <1>7
  <2>2. r \in [1 .. Len(s) -> Obligation]
    BY <2>1
  <2>3. r \in Seq(Obligation)
    BY <1>6, <2>2
  <2> QED BY <1>6, <2>2, <2>3
<1>9. Increasing(r)
  BY <1>2, <1>7, <1>8 DEF Increasing
<1> QED BY <1>3, <1>7, <1>8, <1>9 DEF s, r, obs, step

\* What is left of them, where none is violated.
LEMMA LeftIs ==
  ASSUME TypeInv, NEW gap \in Gaps, NEW atoms \in [AtomsOf[authored] -> {"true", "false", "throws"}],
         Len(history) < MaxObservations
  PROVE  LET r == Reduced(gap, atoms)
             left == Left(gap, atoms)
         IN  /\ left \in Seq(Obligation) /\ Increasing(left)
             /\ \A j \in 1 .. Len(left) : \E i \in 1 .. Len(r) :
                  left[j] = r[i] /\ r[i].status = "pending"
             /\ \A i \in 1 .. Len(r) : r[i].status = "pending" =>
                  \E j \in 1 .. Len(left) : left[j].formula = r[i].formula /\ left[j].origin <= r[i].origin
<1> DEFINE r == Reduced(gap, atoms)
           still == StillPending(r)
           left == Collapse(still)
<1>1. r \in Seq(Obligation) /\ Increasing(r)
  BY ReducedIs
<1>2. left = Left(gap, atoms)
  BY DEF Left
<1> HIDE DEF r
<1>3. /\ still \in Seq(Obligation) /\ Increasing(still)
      /\ \A j \in 1 .. Len(still) : \E i \in 1 .. Len(r) : still[j] = r[i] /\ r[i].status = "pending"
      /\ \A i \in 1 .. Len(r) : r[i].status = "pending" => \E j \in 1 .. Len(still) : still[j] = r[i]
  BY <1>1, StillPendingKeeps
<1> HIDE DEF still
<1>4. /\ left \in Seq(Obligation) /\ Increasing(left)
      /\ \A j \in 1 .. Len(left) : \E i \in 1 .. Len(still) : left[j] = still[i]
      /\ \A i \in 1 .. Len(still) : \E j \in 1 .. Len(left) :
           left[j].formula = still[i].formula /\ left[j].origin <= still[i].origin
  BY <1>3, CollapseKeeps
<1> HIDE DEF left
<1>5. ASSUME NEW j \in 1 .. Len(left)
      PROVE  \E i \in 1 .. Len(r) : left[j] = r[i] /\ r[i].status = "pending"
  <2>1. PICK m \in 1 .. Len(still) : left[j] = still[m]
    BY <1>4
  <2> QED BY <1>3, <2>1
<1>6. ASSUME NEW i \in 1 .. Len(r), r[i].status = "pending"
      PROVE  \E j \in 1 .. Len(left) : left[j].formula = r[i].formula /\ left[j].origin <= r[i].origin
  <2>1. PICK m \in 1 .. Len(still) : still[m] = r[i]
    BY <1>3, <1>6
  <2> QED BY <1>4, <2>1
<1>7. left = Left(gap, atoms)
  BY <1>2 DEF left
<1> QED BY <1>4, <1>5, <1>6, <1>7 DEF r

\* The shapes survive every step of the evaluator.
LEMMA TypeStep == TypeInv /\ [Next]_vars => TypeInv'
<1> SUFFICES ASSUME TypeInv, [Next]_vars PROVE TypeInv'
  OBVIOUS
<1>0. /\ history \in Seq(Moment) /\ Len(history) \in Nat /\ observations \in 0 .. Len(history)
      /\ observations \in Nat
  BY DEF TypeInv
<1>1. ASSUME NEW gap \in Gaps, NEW atoms \in [AtomsOf[authored] -> {"true", "false", "throws"}],
             Observe(gap, atoms)
      PROVE  TypeInv'
  <2> DEFINE seen == Noted(gap, atoms)
             n == Len(history)
             r == Reduced(gap, atoms)
             left == Left(gap, atoms)
             failed == Failed(gap, atoms)
  <2>1. /\ n < MaxObservations /\ history' = Append(history, seen)
        /\ verdict = "violated" => UNCHANGED <<armed, pending, verdict, violation, steps, observations>>
        /\ verdict # "violated" =>
             /\ steps' = seen.step /\ observations' = observations + 1 /\ armed' = TRUE
             /\ failed # 0 => pending' = <<>> /\ verdict' = "violated" /\ violation' = r[failed].origin
             /\ failed = 0 => /\ pending' = left /\ violation' = 0
                              /\ verdict' = IF left # <<>> THEN "pending" ELSE "holds"
        /\ UNCHANGED <<authored, root, ended>>
    BY <1>1, ObserveIs
  <2>2. /\ seen \in Moment /\ seen.step > 0 /\ \A i \in 1 .. n : history[i].step < seen.step
        /\ Append(history, seen) \in Seq(Moment)
    BY NotedIs
  <2> HIDE DEF seen
  <2>m. Moment' = Moment
    BY <2>1 DEF Moment
  <2>3. /\ history' \in Seq(Moment) /\ Len(history') = n + 1 /\ history'[n + 1] = seen
        /\ \A i \in 1 .. n : history'[i] = history[i]
    BY <1>0, <2>1, <2>2
  <2>4. Len(history') <= MaxObservations
    BY <1>0, <2>1, <2>3, TopIs
  <2>5. \A i \in 1 .. n + 1 : i \in 1 .. n \/ i = n + 1
    BY <1>0
  <2>6. \A i \in 1 .. Len(history') : history'[i].step > 0
    BY <2>2, <2>3, <2>5 DEF TypeInv
  <2>7. \A i, j \in 1 .. Len(history') : i < j => history'[i].step < history'[j].step
    <3> SUFFICES ASSUME NEW i \in 1 .. n + 1, NEW j \in 1 .. n + 1, i < j
                 PROVE  history'[i].step < history'[j].step
      BY <2>3
    <3>1. i \in 1 .. n
      BY <1>0
    <3>2. CASE j \in 1 .. n
      BY <2>3, <3>1, <3>2 DEF TypeInv
    <3>3. CASE j = n + 1
      BY <2>2, <2>3, <3>1, <3>3
    <3> QED BY <2>5, <3>2, <3>3
  <2>8. authored' \in Roots /\ root' = Normal[Build(authored')].nnf /\ ended' \in BOOLEAN
    BY <2>1 DEF TypeInv
  <2>9. CASE verdict = "violated"
    <3>1. /\ armed' = armed /\ pending' = pending /\ verdict' = verdict /\ violation' = violation
          /\ steps' = steps /\ observations' = observations
      BY <2>1, <2>9
    <3>2. observations \in 0 .. Len(history')
      BY <1>0, <2>3
    <3>3. observations # 0 => history'[observations] = history[observations]
      BY <1>0, <2>3
    <3>4. (steps = IF observations = 0 THEN 0 ELSE history[observations].step)'
      BY <3>1, <3>3 DEF TypeInv
    <3>5. /\ armed \in BOOLEAN /\ verdict \in Words /\ (armed <=> observations > 0)
          /\ violation \in 0 .. steps /\ pending \in Seq(Obligation) /\ Increasing(pending)
          /\ \A i \in 1 .. Len(pending) :
               /\ pending[i].formula \in NormalAt(Depth + 1 + observations)
               /\ pending[i].origin \in 1 .. steps
      BY DEF TypeInv
    <3>6. /\ (armed \in BOOLEAN)' /\ (verdict \in Words)' /\ (armed <=> observations > 0)'
          /\ (violation \in 0 .. steps)' /\ (pending \in Seq(Obligation))' /\ Increasing(pending)'
          /\ (\A i \in 1 .. Len(pending) :
                /\ pending[i].formula \in NormalAt(Depth + 1 + observations)
                /\ pending[i].origin \in 1 .. steps)'
      BY <3>1, <3>5 DEF Increasing
    <3> QED BY <2>3, <2>4, <2>6, <2>7, <2>8, <2>9, <2>m, <3>1, <3>2, <3>4, <3>6 DEF TypeInv
  <2>10. CASE verdict # "violated"
    <3>1. observations = n /\ observations' = n + 1 /\ steps' = seen.step /\ armed' = TRUE
      BY <2>1, <2>10 DEF TypeInv
    <3>2. /\ r \in Seq(Obligation)
          /\ \A i \in 1 .. Len(r) : /\ r[i].formula \in NormalAt(Depth + 1 + observations')
                                    /\ r[i].origin \in 1 .. steps'
      BY <2>1, <3>1, ReducedIs DEF seen
    <3>3. /\ left \in Seq(Obligation) /\ Increasing(left)
          /\ \A j \in 1 .. Len(left) : \E i \in 1 .. Len(r) : left[j] = r[i]
      BY <2>1, LeftIs
    <3>4. failed = 0 \/ failed \in 1 .. Len(r)
      BY <3>2, FirstViolatedIs DEF Failed
    <3>5. (steps = IF observations = 0 THEN 0 ELSE history[observations].step)'
      BY <1>0, <2>3, <3>1
    <3>6. seen.step \in Nat
      BY <2>2 DEF Moment
    <3> HIDE DEF r, left, failed
    <3>7. /\ (armed \in BOOLEAN)' /\ (armed <=> observations > 0)'
          /\ (observations \in 0 .. Len(history))' /\ observations' = Len(history')
      BY <1>0, <2>3, <3>1
    <3>8. CASE failed # 0
      <4>1. pending' = <<>> /\ verdict' = "violated" /\ violation' = r[failed].origin
        BY <2>1, <2>10, <3>8
      <4>2. violation' \in 0 .. steps'
        BY <3>1, <3>2, <3>4, <3>6, <3>8, <4>1
      <4>3. pending' \in Seq(Obligation) /\ Len(pending') = 0 /\ Increasing(pending')
        BY <4>1 DEF Increasing
      <4>4. verdict' \in Words
        BY <4>1 DEF Words
      <4> QED BY <2>3, <2>4, <2>6, <2>7, <2>8, <2>m, <3>5, <3>7, <4>1, <4>2, <4>3, <4>4 DEF TypeInv
    <3>9. CASE failed = 0
      <4>1. pending' = left /\ violation' = 0 /\ verdict' = IF left # <<>> THEN "pending" ELSE "holds"
        BY <2>1, <2>10, <3>9
      <4>2. violation' \in 0 .. steps'
        BY <3>1, <3>6, <4>1
      <4>3. verdict' \in Words
        BY <4>1 DEF Words
      <4>4. \A j \in 1 .. Len(left) : /\ left[j].formula \in NormalAt(Depth + 1 + observations')
                                      /\ left[j].origin \in 1 .. steps'
        BY <3>2, <3>3
      <4>5. (pending \in Seq(Obligation))' /\ Increasing(pending)'
        BY <3>3, <4>1
      <4>6. (\A i \in 1 .. Len(pending) :
               /\ pending[i].formula \in NormalAt(Depth + 1 + observations)
               /\ pending[i].origin \in 1 .. steps)'
        BY <4>1, <4>4
      <4> QED BY <2>3, <2>4, <2>6, <2>7, <2>8, <2>m, <3>5, <3>7, <4>2, <4>3, <4>5, <4>6 DEF TypeInv
    <3> QED BY <3>8, <3>9
  <2> QED BY <2>9, <2>10
<1>2. CASE Finalize
  <2> DEFINE failed == FinallyViolated(pending)
  <2>1. /\ ended' = TRUE
        /\ verdict' = IF verdict = "violated" \/ failed # 0 THEN "violated" ELSE "holds"
        /\ violation' = IF failed # 0 THEN pending[failed].origin ELSE violation
        /\ pending' = IF failed # 0 THEN <<>> ELSE pending
        /\ UNCHANGED <<authored, root, armed, steps, observations, history>>
    BY <1>2 DEF Finalize, FinallyViolated
  <2>2. failed = 0 \/ failed \in 1 .. Len(pending)
    BY FinallyViolatedIs DEF TypeInv
  <2> HIDE DEF failed
  <2>3. violation' \in 0 .. steps'
    <3>1. /\ steps' = steps /\ violation \in 0 .. steps
          /\ \A i \in 1 .. Len(pending) : pending[i].origin \in 1 .. steps
      BY <2>1 DEF TypeInv
    <3> QED BY <2>1, <2>2, <3>1
  <2>4. verdict' \in Words /\ ended' \in BOOLEAN /\ (verdict' # "violated" => verdict # "violated")
    BY <2>1 DEF Words
  <2>5. pending' = <<>> \/ pending' = pending
    BY <2>1
  <2>6. /\ pending' \in Seq(Obligation) /\ Increasing(pending')
        /\ \A i \in 1 .. Len(pending') :
             /\ pending'[i].formula \in NormalAt(Depth + 1 + observations)
             /\ pending'[i].origin \in 1 .. steps
    <3>1. CASE pending' = <<>>
      <4>1. pending' \in Seq(Obligation) /\ Len(pending') = 0
        BY <3>1
      <4> QED BY <4>1 DEF Increasing
    <3>2. CASE pending' = pending
      BY <3>2 DEF TypeInv
    <3> QED BY <2>5, <3>1, <3>2
  <2>7. /\ Moment' = Moment /\ authored' = authored /\ root' = root /\ armed' = armed /\ steps' = steps
        /\ observations' = observations /\ history' = history
    BY <2>1 DEF Moment
  <2> QED BY <2>3, <2>4, <2>6, <2>7 DEF TypeInv
<1>3. CASE UNCHANGED vars
  <2>1. /\ authored' = authored /\ root' = root /\ armed' = armed /\ steps' = steps /\ verdict' = verdict
        /\ observations' = observations /\ history' = history /\ pending' = pending
        /\ violation' = violation /\ ended' = ended /\ Moment' = Moment
    BY <1>3 DEF vars, Moment
  <2> QED BY <2>1 DEF TypeInv, Increasing
<1>4. CASE ObserveAny
  BY <1>1, <1>4 DEF ObserveAny
<1> QED BY <1>2, <1>3, <1>4 DEF Next

\* The evaluator carries nothing but obligations in normal form, blames nothing but steps that
\* were observed, and keeps the shapes the code declares (TypeOK).
THEOREM Shapely == Spec => []TypeOK
<1>1. Spec => []TypeInv
  BY TypeInit, TypeStep, PTL DEF Spec
<1>2. TypeInv => TypeOK
  <2> SUFFICES ASSUME TypeInv PROVE TypeOK
    OBVIOUS
  <2>1. \A o \in Range(pending) : \E i \in 1 .. Len(pending) : o = pending[i]
    BY DEF TypeInv, Range
  <2>2. \A i \in 1 .. Len(pending) : InNormalForm[pending[i].formula] /\ pending[i].origin \in 1 .. steps
    BY DEF TypeInv, NormalAt
  <2>3. \A o \in Range(pending) : InNormalForm[o.formula] /\ o.origin \in 1 .. steps
    BY <2>1, <2>2
  <2> QED BY <2>3 DEF TypeInv, TypeOK, Words
<1> QED BY <1>1, <1>2, PTL

----------------------------------------------------------------------------
(* What is owed of an assertion.                                           *)

\* h goes on where the observations of past end.
Continues(h, past) == Clocked(h) /\ Len(past) <= Len(h) /\ \A j \in 1 .. Len(past) : h[j] = past[j]

\* The value of f at the i-th of the first k observations of h.
Valued(h, f, i, k, over) == Valuer(h)[f][[at |-> i, upto |-> k, over |-> over]]

\* Whatever follows past, the value at i is settled; or it is what g is worth from there on.
Settled(past, f, i, word) ==
  \A h : Continues(h, past) => \A k \in Len(past) .. Len(h), over \in BOOLEAN :
    Valued(h, f, i, k, over) = word
Owes(past, f, i, g) ==
  \A h : Continues(h, past) => \A k \in Len(past) .. Len(h), over \in BOOLEAN :
    Valued(h, f, i, k, over) = WorthOf(h)[g][[at |-> Len(past) + 1, upto |-> k, over |-> over]]

\* What continues a longer record continues a shorter one.
LEMMA ContinuesIs ==
  ASSUME NEW M, NEW past \in Seq(M), NEW seen \in M
  PROVE  \A h : Continues(h, Append(past, seen)) =>
           /\ Continues(h, past) /\ Len(past) + 1 <= Len(h) /\ h[Len(past) + 1] = seen
           /\ Len(h) \in Nat
<1> SUFFICES ASSUME NEW h, Continues(h, Append(past, seen))
             PROVE  /\ Continues(h, past) /\ Len(past) + 1 <= Len(h) /\ h[Len(past) + 1] = seen
                    /\ Len(h) \in Nat
  OBVIOUS
<1> DEFINE next == Append(past, seen)
<1>1. /\ Len(past) \in Nat /\ Len(next) = Len(past) + 1 /\ next[Len(past) + 1] = seen
      /\ \A j \in 1 .. Len(past) : next[j] = past[j]
  OBVIOUS
<1> HIDE DEF next
<1>2. Len(h) \in Nat /\ Clocked(h) /\ Len(next) <= Len(h) /\ \A j \in 1 .. Len(next) : h[j] = next[j]
  BY DEF Continues, Clocked, next
<1>3. \A j \in 1 .. Len(past) : j \in 1 .. Len(next)
  BY <1>1
<1>4. Len(past) + 1 \in 1 .. Len(next)
  BY <1>1
<1> QED BY <1>1, <1>2, <1>3, <1>4 DEF Continues

\* Reducing an obligation carries it over the observation, or settles it.
LEMMA OwesStep ==
  ASSUME NEW M, NEW past \in Seq(M), NEW seen \in M, NEW obs, Observation(obs),
         obs.index = Len(past) + 1, obs.now = seen.now, obs.atoms = seen.atoms,
         NEW f, NEW i, NEW g \in Formula, Owes(past, f, i, g)
  PROVE  /\ Reduce(g, obs).status = "pending" =>
              Owes(Append(past, seen), f, i, Reduce(g, obs).formula)
         /\ Reduce(g, obs).status # "pending" =>
              Settled(Append(past, seen), f, i, Reduce(g, obs).status)
<1> DEFINE next == Append(past, seen)
           r == Reduce(g, obs)
           n == Len(past)
<1>1. n \in Nat /\ Len(next) = n + 1
  OBVIOUS
<1>2. ASSUME NEW h, Continues(h, next), NEW k \in n + 1 .. Len(h), NEW over \in BOOLEAN
      PROVE  /\ r.status = "pending" =>
                  Valued(h, f, i, k, over) = WorthOf(h)[r.formula][[at |-> n + 2, upto |-> k, over |-> over]]
             /\ r.status # "pending" => Valued(h, f, i, k, over) = r.status
  <2> DEFINE p == [at |-> n + 1, upto |-> k, over |-> over]
  <2>1. Continues(h, past) /\ n + 1 <= Len(h) /\ h[n + 1] = seen /\ Len(h) \in Nat
    BY <1>2, ContinuesIs
  <2>2. k \in n .. Len(h) /\ k \in Nat /\ n + 1 <= k
    BY <1>1, <2>1
  <2>3. Valued(h, f, i, k, over) = WorthOf(h)[g][p]
    BY <2>1, <2>2 DEF Owes
  <2>4. p \in Place /\ p.at = n + 1 /\ p.upto = k /\ p.over = over
    BY <1>1, <2>2 DEF Place
  <2>5. ObservedIn(h, obs)
    BY <2>1 DEF ObservedIn
  <2> HIDE DEF p
  <2>6. WorthOf(h)[g][p] = Outcome(h, r, p)
    <3> HIDE DEF r
    <3>1. Reduce(g, obs) = r
      BY DEF r
    <3>2. p.at = obs.index /\ p.at <= p.upto
      BY <2>2, <2>4
    <3> QED BY <2>4, <2>5, <3>1, <3>2, ReduceIsSound
  <2>7. Later(p) = [at |-> n + 2, upto |-> k, over |-> over]
    <3>1. Later(p) = [at |-> p.at + 1, upto |-> p.upto, over |-> p.over]
      BY <2>4, PlacesAre
    <3>2. p.at + 1 = n + 2
      BY <1>1, <2>4
    <3> QED BY <2>4, <3>1, <3>2
  <2> HIDE DEF r
  <2> QED BY <2>3, <2>6, <2>7 DEF Outcome
<1>3. n + 1 + 1 = n + 2
  BY <1>1
<1> HIDE DEF r, next, n
<1>4. r.status = "pending" => Owes(next, f, i, r.formula)
  BY <1>1, <1>2, <1>3 DEF Owes
<1>5. r.status # "pending" => Settled(next, f, i, r.status)
  BY <1>1, <1>2 DEF Settled
<1> QED BY <1>4, <1>5 DEF r, next

\* What is settled stays so.
LEMMA SettledStep ==
  ASSUME NEW M, NEW past \in Seq(M), NEW seen \in M, NEW f, NEW i, NEW word, Settled(past, f, i, word)
  PROVE  Settled(Append(past, seen), f, i, word)
<1> DEFINE next == Append(past, seen)
<1>1. Len(past) \in Nat /\ Len(next) = Len(past) + 1
  OBVIOUS
<1>2. ASSUME NEW h, Continues(h, next), NEW k \in Len(next) .. Len(h), NEW over \in BOOLEAN
      PROVE  Valued(h, f, i, k, over) = word
  <2>1. Continues(h, past) /\ Len(h) \in Nat
    BY <1>2, ContinuesIs
  <2>2. k \in Len(past) .. Len(h)
    BY <1>1, <2>1
  <2> QED BY <2>1, <2>2 DEF Settled
<1> HIDE DEF next
<1>3. Settled(next, f, i, word)
  BY <1>2 DEF Settled
<1> QED BY <1>3 DEF next

\* At the observation that arms it, a property is owed as its normal form.
LEMMA OwesArm ==
  ASSUME WholeWindows, NEW M, NEW past \in Seq(M), NEW f \in Property
  PROVE  Owes(past, f, Len(past) + 1, Normal[BuildNode[f]].nnf)
<1> DEFINE n == Len(past)
           g == Normal[BuildNode[f]].nnf
<1>1. n \in Nat
  OBVIOUS
<1>2. ASSUME NEW h, Continues(h, past), NEW k \in n .. Len(h), NEW over \in BOOLEAN
      PROVE  Valued(h, f, n + 1, k, over) = WorthOf(h)[g][[at |-> n + 1, upto |-> k, over |-> over]]
  <2> DEFINE p == [at |-> n + 1, upto |-> k, over |-> over]
  <2>1. Clocked(h) /\ Len(h) \in Nat
    BY <1>2 DEF Continues, Clocked
  <2>2. k \in Nat /\ k <= Len(h)
    BY <1>1, <2>1
  <2>3. p \in Seen(h)
    BY <1>1, <2>2 DEF Seen, Place
  <2> HIDE DEF p, g
  <2>4. WorthOf(h)[g][p] = Valuer(h)[f][p]
    BY <2>1, <2>3, NormalIsMeant DEF g
  <2> QED BY <2>4 DEF Valued, p
<1> HIDE DEF n, g
<1>3. Owes(past, f, n + 1, g)
  BY <1>2 DEF Owes, n
<1> QED BY <1>3 DEF n, g

\* At the last observation what is owed is still pending, and the end of the run makes of it
\* what Finalize does.
LEMMA OwesNow ==
  ASSUME NEW M, NEW past \in Seq(M), NEW f, NEW i, NEW g \in Formula, Owes(past, f, i, g),
         NEW h, Continues(h, past)
  PROVE  /\ Valued(h, f, i, Len(past), FALSE) = "pending"
         /\ Valued(h, f, i, Len(past), TRUE) = FinalStatus[g]
<1> DEFINE n == Len(past)
           p == [at |-> n + 1, upto |-> n, over |-> FALSE]
           q == [at |-> n + 1, upto |-> n, over |-> TRUE]
<1>1. n \in Nat /\ n \in n .. Len(h)
  BY DEF Continues, Clocked
<1>2. /\ Valued(h, f, i, n, FALSE) = WorthOf(h)[g][p]
      /\ Valued(h, f, i, n, TRUE) = WorthOf(h)[g][q]
  BY <1>1 DEF Owes
<1>3. /\ p \in Place /\ p.at > p.upto /\ ~ p.over
      /\ q \in Place /\ q.at > q.upto /\ q.over
  BY <1>1 DEF Place
<1>4. g \in AnyFormula
  BY TopIs DEF AnyFormula
<1> HIDE DEF p, q
<1>5. WorthOf(h)[g][p] = "pending"
  BY <1>3, <1>4, Unsettled
<1>6. WorthOf(h)[g][q] = FinalStatus[g]
  BY <1>3, FinalIsWorth
<1> QED BY <1>2, <1>5, <1>6

\* What is open after the observations of past: every obligation is what some assertion of the
\* property still owes, under the label of its step, and every assertion holds for good or is
\* owed by an obligation of its step or an earlier one.
Tracked(past, open) ==
  /\ \A j \in 1 .. Len(open) : \E i \in Arms(Len(past)) :
       open[j].origin = past[i].step /\ Owes(past, Asserted, i, open[j].formula)
  /\ \A i \in Arms(Len(past)) :
       \/ Settled(past, Asserted, i, "holds")
       \/ \E j \in 1 .. Len(open) :
            open[j].origin <= past[i].step /\ Owes(past, Asserted, i, open[j].formula)

\* No assertion was violated at any observation of past.
Unbroken(past) ==
  \A h : Continues(h, past) => \A k \in 0 .. Len(past) : \A i \in Arms(k) :
    Valued(h, Asserted, i, k, FALSE) # "violated"

\* The assertion of the i-th observation is violated for good from the k-th on, no earlier one
\* is at the k-th, and none was at the one before.
Broken(past, k, i) ==
  \A h : Continues(h, past) =>
    /\ \A m \in k .. Len(h), over \in BOOLEAN : Valued(h, Asserted, i, m, over) = "violated"
    /\ \A j \in Arms(k) : j < i => Valued(h, Asserted, j, k, FALSE) # "violated"
    /\ \A j \in Arms(k - 1) : Valued(h, Asserted, j, k - 1, FALSE) # "violated"
Convicted(past, step) ==
  \E k \in 1 .. Len(past) : \E i \in Arms(k) : step = past[i].step /\ Broken(past, k, i)

\* A new observation asserts the property anew, unless it is asserted once and was already.
LEMMA ArmsGrow ==
  ASSUME TypeInv, verdict # "violated"
  PROVE  LET n == Len(history)
         IN  /\ n \in Nat
             /\ Arms(n + 1) = Arms(n) \cup (IF OneShot(root) /\ armed THEN {} ELSE {n + 1})
             /\ \A m \in Nat : Arms(m) \subseteq 1 .. m
<1> DEFINE n == Len(history)
<1>1. n \in Nat /\ observations = n /\ (armed <=> n > 0)
  BY DEF TypeInv
<1>2. OneShot(root) <=> authored.op = "eventually"
  BY RootIs DEF TypeInv
<1> HIDE DEF n
<1>3. \A m \in Nat : Arms(m) \subseteq 1 .. m
  BY DEF Arms
<1>4. CASE authored.op = "eventually"
  <2>1. Arms(n + 1) = {1}
    BY <1>1, <1>4 DEF Arms
  <2>2. Arms(n) = IF n > 0 THEN {1} ELSE {}
    BY <1>1, <1>4 DEF Arms
  <2>3. n > 0 \/ n + 1 = 1
    BY <1>1
  <2> QED BY <1>1, <1>2, <1>3, <1>4, <2>1, <2>2, <2>3 DEF n
<1>5. CASE authored.op # "eventually"
  <2>1. Arms(n + 1) = 1 .. n + 1 /\ Arms(n) = 1 .. n
    BY <1>5 DEF Arms
  <2>2. 1 .. n + 1 = (1 .. n) \cup {n + 1}
    BY <1>1
  <2> QED BY <1>1, <1>2, <1>3, <1>5, <2>1, <2>2 DEF n
<1> QED BY <1>4, <1>5

\* What is owed at an observation is what its assertions, the new one among them, owe.
LEMMA OwedTracked ==
  ASSUME WholeWindows, TypeInv, verdict # "violated", Tracked(history, pending),
         NEW gap \in Gaps, NEW atoms \in [AtomsOf[authored] -> {"true", "false", "throws"}]
  PROVE  LET n == Len(history)
             next == Append(history, Noted(gap, atoms))
             s == Owed(Noted(gap, atoms).step)
         IN  /\ \A j \in 1 .. Len(s) : \E i \in Arms(n + 1) :
                  s[j].origin = next[i].step /\ Owes(history, Asserted, i, s[j].formula)
             /\ \A i \in Arms(n + 1) :
                  \/ Settled(history, Asserted, i, "holds")
                  \/ \E j \in 1 .. Len(s) :
                       s[j].origin <= next[i].step /\ Owes(history, Asserted, i, s[j].formula)
<1> DEFINE n == Len(history)
           seen == Noted(gap, atoms)
           next == Append(history, seen)
           step == seen.step
           s == Owed(step)
           fresh == Fresh(step)
           o == [status |-> "pending", formula |-> Instance(root), origin |-> step]
<1>1. seen \in Moment /\ step > 0 /\ steps < step /\ history \in Seq(Moment) /\ step \in Nat
  <2>1. seen \in Moment /\ step > 0 /\ steps < step
    BY NotedIs
  <2>2. step \in Nat
    BY <2>1 DEF Moment
  <2> QED BY <2>1, <2>2 DEF TypeInv
<1>2. /\ n \in Nat
      /\ Arms(n + 1) = Arms(n) \cup (IF OneShot(root) /\ armed THEN {} ELSE {n + 1})
      /\ Arms(n) \subseteq 1 .. n
  BY ArmsGrow
<1>3. /\ Len(s) = Len(pending) + Len(fresh) /\ Len(pending) \in Nat
      /\ Len(fresh) = IF OneShot(root) /\ armed THEN 0 ELSE 1
      /\ \A i \in 1 .. Len(pending) : s[i] = pending[i]
      /\ \A i \in 1 .. Len(fresh) : s[Len(pending) + i] = o
  <2>1. Len(pending) \in Nat
    BY DEF TypeInv
  <2> QED BY <1>1, <2>1, OwedIs
<1>4. next[n + 1] = seen /\ \A i \in 1 .. n : next[i] = history[i]
  <2> HIDE DEF seen
  <2> QED BY <1>1
<1>5. /\ \A j \in 1 .. Len(pending) : \E i \in Arms(n) :
           pending[j].origin = history[i].step /\ Owes(history, Asserted, i, pending[j].formula)
      /\ \A i \in Arms(n) :
           \/ Settled(history, Asserted, i, "holds")
           \/ \E j \in 1 .. Len(pending) :
                pending[j].origin <= history[i].step /\ Owes(history, Asserted, i, pending[j].formula)
  BY DEF Tracked
<1>6. Asserted \in Property /\ Instance(root) = Normal[BuildNode[Asserted]].nnf
  BY RootIs DEF TypeInv, Asserted
<1>7. Owes(history, Asserted, n + 1, Instance(root))
  <2> HIDE DEF seen
  <2> QED BY <1>1, <1>6, OwesArm
<1>8. o.formula = Instance(root) /\ o.origin = step /\ next[n + 1].step = step
  BY <1>4
<1> HIDE DEF n, next, s, fresh, o, seen
<1>9. ASSUME NEW j \in 1 .. Len(s)
      PROVE  \E i \in Arms(n + 1) :
               s[j].origin = next[i].step /\ Owes(history, Asserted, i, s[j].formula)
  <2>1. CASE j <= Len(pending)
    <3>1. j \in 1 .. Len(pending)
      BY <1>3, <2>1
    <3>2. PICK i \in Arms(n) :
            pending[j].origin = history[i].step /\ Owes(history, Asserted, i, pending[j].formula)
      BY <1>5, <3>1
    <3>3. i \in Arms(n + 1) /\ next[i] = history[i] /\ s[j] = pending[j]
      BY <1>2, <1>3, <1>4, <3>1
    <3> QED BY <3>2, <3>3
  <2>2. CASE j > Len(pending)
    <3>1. ~ (OneShot(root) /\ armed) /\ j - Len(pending) \in 1 .. Len(fresh)
          /\ Len(pending) + (j - Len(pending)) = j
      BY <1>3, <2>2
    <3>2. s[j] = o
      BY <1>3, <3>1
    <3>3. n + 1 \in Arms(n + 1)
      BY <1>2, <3>1
    <3> QED BY <1>7, <1>8, <3>2, <3>3
  <2> QED BY <1>3, <2>1, <2>2
<1>10. ASSUME NEW i \in Arms(n + 1)
       PROVE  \/ Settled(history, Asserted, i, "holds")
              \/ \E j \in 1 .. Len(s) :
                   s[j].origin <= next[i].step /\ Owes(history, Asserted, i, s[j].formula)
  <2>1. CASE i \in Arms(n)
    <3>1. next[i] = history[i]
      BY <1>2, <1>4, <2>1
    <3>2. ASSUME NEW j \in 1 .. Len(pending), pending[j].origin <= history[i].step,
                 Owes(history, Asserted, i, pending[j].formula)
          PROVE  j \in 1 .. Len(s) /\ s[j].origin <= next[i].step
                 /\ Owes(history, Asserted, i, s[j].formula)
      <4>1. s[j] = pending[j] /\ j \in 1 .. Len(s)
        BY <1>3
      <4> QED BY <3>1, <3>2, <4>1
    <3> QED BY <1>5, <2>1, <3>2
  <2>2. CASE i \notin Arms(n)
    <3>1. i = n + 1 /\ ~ (OneShot(root) /\ armed)
      BY <1>2, <2>2
    <3>2. Len(pending) + 1 \in 1 .. Len(s) /\ s[Len(pending) + 1] = o
      BY <1>3, <3>1
    <3>3. s[Len(pending) + 1].origin <= next[i].step
      BY <1>1, <1>8, <3>1, <3>2
    <3> QED BY <1>7, <1>8, <3>1, <3>2, <3>3
  <2> QED BY <2>1, <2>2
<1> QED BY <1>9, <1>10 DEF n, next, s, seen

\* Reducing what is owed carries it over the observation.
LEMMA ReducedTracked ==
  ASSUME WholeWindows, TypeInv, verdict # "violated", Tracked(history, pending),
         NEW gap \in Gaps, NEW atoms \in [AtomsOf[authored] -> {"true", "false", "throws"}],
         Len(history) < MaxObservations
  PROVE  LET n == Len(history)
             next == Append(history, Noted(gap, atoms))
             r == Reduced(gap, atoms)
         IN  /\ \A j \in 1 .. Len(r) : \E i \in Arms(n + 1) :
                  /\ r[j].origin = next[i].step
                  /\ r[j].status = "pending" => Owes(next, Asserted, i, r[j].formula)
                  /\ r[j].status # "pending" => Settled(next, Asserted, i, r[j].status)
             /\ \A i \in Arms(n + 1) :
                  \/ Settled(next, Asserted, i, "holds")
                  \/ \E j \in 1 .. Len(r) :
                       /\ r[j].origin <= next[i].step
                       /\ r[j].status = "pending" => Owes(next, Asserted, i, r[j].formula)
                       /\ r[j].status # "pending" => Settled(next, Asserted, i, r[j].status)
<1> DEFINE n == Len(history)
           seen == Noted(gap, atoms)
           next == Append(history, seen)
           s == Owed(seen.step)
           r == Reduced(gap, atoms)
           obs == Observed(gap, atoms)
<1>1. /\ \A j \in 1 .. Len(s) : \E i \in Arms(n + 1) :
           s[j].origin = next[i].step /\ Owes(history, Asserted, i, s[j].formula)
      /\ \A i \in Arms(n + 1) :
           \/ Settled(history, Asserted, i, "holds")
           \/ \E j \in 1 .. Len(s) :
                s[j].origin <= next[i].step /\ Owes(history, Asserted, i, s[j].formula)
  BY OwedTracked
<1>2. /\ Len(r) = Len(s)
      /\ \A j \in 1 .. Len(s) :
           /\ s[j].formula \in Formula /\ r[j].origin = s[j].origin
           /\ r[j].status = Reduce(s[j].formula, obs).status
           /\ r[j].formula = Reduce(s[j].formula, obs).formula
  BY ReducedIs
<1>3. Observation(obs) /\ seen \in Moment /\ history \in Seq(Moment)
  BY NotedIs DEF TypeInv
<1>4. obs.index = n + 1 /\ obs.now = seen.now /\ obs.atoms = seen.atoms
  BY DEF Observed, Noted, TypeInv
<1> HIDE DEF n, seen, s, r, obs
<1>5. \A f \in Formula : \A i : Owes(history, Asserted, i, f) =>
        /\ Reduce(f, obs).status = "pending" => Owes(next, Asserted, i, Reduce(f, obs).formula)
        /\ Reduce(f, obs).status # "pending" => Settled(next, Asserted, i, Reduce(f, obs).status)
  <2> TAKE f \in Formula
  <2> TAKE i
  <2> HAVE Owes(history, Asserted, i, f)
  <2> QED BY <1>3, <1>4, OwesStep DEF n
<1>6. \A i : Settled(history, Asserted, i, "holds") => Settled(next, Asserted, i, "holds")
  BY <1>3, SettledStep
<1> HIDE DEF next
<1>7. ASSUME NEW j \in 1 .. Len(r), NEW i, Owes(history, Asserted, i, s[j].formula)
      PROVE  /\ r[j].status = "pending" => Owes(next, Asserted, i, r[j].formula)
             /\ r[j].status # "pending" => Settled(next, Asserted, i, r[j].status)
  BY <1>2, <1>5, <1>7
<1>8. ASSUME NEW j \in 1 .. Len(r)
      PROVE  \E i \in Arms(n + 1) :
               /\ r[j].origin = next[i].step
               /\ r[j].status = "pending" => Owes(next, Asserted, i, r[j].formula)
               /\ r[j].status # "pending" => Settled(next, Asserted, i, r[j].status)
  <2>1. PICK i \in Arms(n + 1) : s[j].origin = next[i].step /\ Owes(history, Asserted, i, s[j].formula)
    BY <1>1, <1>2
  <2> QED BY <1>2, <1>7, <2>1
<1>9. ASSUME NEW i \in Arms(n + 1)
      PROVE  \/ Settled(next, Asserted, i, "holds")
             \/ \E j \in 1 .. Len(r) :
                  /\ r[j].origin <= next[i].step
                  /\ r[j].status = "pending" => Owes(next, Asserted, i, r[j].formula)
                  /\ r[j].status # "pending" => Settled(next, Asserted, i, r[j].status)
  <2>1. CASE Settled(history, Asserted, i, "holds")
    BY <1>6, <2>1
  <2>2. CASE \E j \in 1 .. Len(s) : s[j].origin <= next[i].step /\ Owes(history, Asserted, i, s[j].formula)
    <3>1. PICK j \in 1 .. Len(s) : s[j].origin <= next[i].step /\ Owes(history, Asserted, i, s[j].formula)
      BY <2>2
    <3>2. j \in 1 .. Len(r) /\ r[j].origin <= next[i].step
      BY <1>2, <3>1
    <3> QED BY <1>7, <3>1, <3>2
  <2> QED BY <1>1, <2>1, <2>2
<1> QED BY <1>8, <1>9 DEF n, next, seen, r

\* A settled value, and one that is owed, at the last observation.
LEMMA SettledNow ==
  ASSUME NEW M, NEW past \in Seq(M), NEW h, Continues(h, past)
  PROVE  /\ Len(past) \in Nat /\ Len(past) \in Len(past) .. Len(h)
         /\ \A f, i, word : Settled(past, f, i, word) =>
              \A over \in BOOLEAN : Valued(h, f, i, Len(past), over) = word
<1>1. Len(past) \in Nat /\ Len(past) \in Len(past) .. Len(h)
  BY DEF Continues, Clocked
<1> QED BY <1>1 DEF Settled

\* Where no obligation is violated, what is left of them tracks the property.
LEMMA LeftTracked ==
  ASSUME WholeWindows, TypeInv, verdict # "violated", Tracked(history, pending),
         NEW gap \in Gaps, NEW atoms \in [AtomsOf[authored] -> {"true", "false", "throws"}],
         Len(history) < MaxObservations, Failed(gap, atoms) = 0
  PROVE  Tracked(Append(history, Noted(gap, atoms)), Left(gap, atoms))
<1> DEFINE n == Len(history)
           next == Append(history, Noted(gap, atoms))
           r == Reduced(gap, atoms)
           left == Left(gap, atoms)
<1>1. /\ \A j \in 1 .. Len(r) : \E i \in Arms(n + 1) :
           /\ r[j].origin = next[i].step
           /\ r[j].status = "pending" => Owes(next, Asserted, i, r[j].formula)
           /\ r[j].status # "pending" => Settled(next, Asserted, i, r[j].status)
      /\ \A i \in Arms(n + 1) :
           \/ Settled(next, Asserted, i, "holds")
           \/ \E j \in 1 .. Len(r) :
                /\ r[j].origin <= next[i].step
                /\ r[j].status = "pending" => Owes(next, Asserted, i, r[j].formula)
                /\ r[j].status # "pending" => Settled(next, Asserted, i, r[j].status)
  BY ReducedTracked
<1>2. r \in Seq(Obligation)
  BY ReducedIs
<1>3. \A j \in 1 .. Len(r) : r[j].status # "violated"
  <2>1. Failed(gap, atoms) = FirstViolated(r)
    BY DEF Failed
  <2>2. FirstViolated(r) = 0
    BY <2>1
  <2> HIDE DEF r
  <2>3. FirstViolated(r) \notin 1 .. Len(r)
    BY <1>2, <2>2
  <2> QED BY <1>2, <2>3, FirstViolatedIs
<1>4. /\ left \in Seq(Obligation)
      /\ \A j \in 1 .. Len(left) : \E i \in 1 .. Len(r) : left[j] = r[i] /\ r[i].status = "pending"
      /\ \A i \in 1 .. Len(r) : r[i].status = "pending" =>
           \E j \in 1 .. Len(left) : left[j].formula = r[i].formula /\ left[j].origin <= r[i].origin
  BY LeftIs
<1>5. Len(next) = n + 1 /\ \A i \in Arms(n + 1) : next[i].step \in Nat
  <2>1. Noted(gap, atoms) \in Moment /\ history \in Seq(Moment)
    BY NotedIs DEF TypeInv
  <2>2. next \in Seq(Moment) /\ Len(next) = n + 1 /\ Arms(n + 1) \subseteq 1 .. n + 1
    BY <2>1, ArmsGrow
  <2>3. \A x \in Moment : x.step \in Nat
    BY DEF Moment
  <2> HIDE DEF next
  <2> QED BY <2>2, <2>3
<1> HIDE DEF r, left, next, n
<1>6. ASSUME NEW j \in 1 .. Len(left)
      PROVE  \E i \in Arms(n + 1) : left[j].origin = next[i].step /\ Owes(next, Asserted, i, left[j].formula)
  <2>1. PICK m \in 1 .. Len(r) : left[j] = r[m] /\ r[m].status = "pending"
    BY <1>4
  <2> QED BY <1>1, <2>1
<1>7. ASSUME NEW i \in Arms(n + 1)
      PROVE  \/ Settled(next, Asserted, i, "holds")
             \/ \E j \in 1 .. Len(left) :
                  left[j].origin <= next[i].step /\ Owes(next, Asserted, i, left[j].formula)
  <2>1. CASE Settled(next, Asserted, i, "holds")
    BY <2>1
  <2>2. ASSUME NEW m \in 1 .. Len(r), r[m].origin <= next[i].step,
               r[m].status = "pending" => Owes(next, Asserted, i, r[m].formula),
               r[m].status # "pending" => Settled(next, Asserted, i, r[m].status)
        PROVE  \/ Settled(next, Asserted, i, "holds")
               \/ \E j \in 1 .. Len(left) :
                    left[j].origin <= next[i].step /\ Owes(next, Asserted, i, left[j].formula)
    <3>1. r[m] \in Obligation
      BY <1>2
    <3>2. r[m].status \in {"pending", "holds"} /\ r[m].origin \in Nat
      BY <1>3, <3>1 DEF Obligation, Words
    <3>3. CASE r[m].status = "holds"
      BY <2>2, <3>3
    <3>4. CASE r[m].status = "pending"
      <4>1. PICK j \in 1 .. Len(left) : left[j].formula = r[m].formula /\ left[j].origin <= r[m].origin
        BY <1>4, <3>4
      <4>2. left[j].origin \in Nat
        <5>1. left[j] \in Obligation
          BY <1>4
        <5> QED BY <5>1 DEF Obligation
      <4>3. left[j].origin <= next[i].step
        BY <1>5, <2>2, <3>2, <4>1, <4>2
      <4> QED BY <2>2, <3>4, <4>1, <4>3
    <3> QED BY <3>2, <3>3, <3>4
  <2> QED BY <1>1, <2>1, <2>2
<1> QED BY <1>5, <1>6, <1>7 DEF Tracked, next, left

\* What is tracked is not violated.
LEMMA TrackedHolds ==
  ASSUME NEW M, NEW past \in Seq(M), NEW open,
         \A j \in 1 .. Len(open) : open[j].formula \in Formula, Tracked(past, open)
  PROVE  \A h : Continues(h, past) => \A i \in Arms(Len(past)) :
           Valued(h, Asserted, i, Len(past), FALSE) # "violated"
<1> SUFFICES ASSUME NEW h, Continues(h, past), NEW i \in Arms(Len(past))
             PROVE  Valued(h, Asserted, i, Len(past), FALSE) # "violated"
  OBVIOUS
<1>1. CASE Settled(past, Asserted, i, "holds")
  <2>1. Len(past) \in Len(past) .. Len(h) /\ FALSE \in BOOLEAN
    BY SettledNow
  <2>2. Valued(h, Asserted, i, Len(past), FALSE) = "holds"
    BY <1>1, <2>1 DEF Settled
  <2> QED BY <2>2
<1>2. ASSUME NEW j \in 1 .. Len(open), Owes(past, Asserted, i, open[j].formula)
      PROVE  Valued(h, Asserted, i, Len(past), FALSE) # "violated"
  BY <1>2, OwesNow
<1> QED BY <1>1, <1>2 DEF Tracked

\* Where the obligations left track the property, it is not broken by the last observation.
LEMMA UnbrokenGrows ==
  ASSUME NEW M, NEW past \in Seq(M), NEW seen \in M, Unbroken(past), NEW open,
         \A j \in 1 .. Len(open) : open[j].formula \in Formula, Tracked(Append(past, seen), open)
  PROVE  Unbroken(Append(past, seen))
<1> DEFINE next == Append(past, seen)
<1>1. Len(past) \in Nat /\ Len(next) = Len(past) + 1 /\ next \in Seq(M)
  OBVIOUS
<1>2. ASSUME NEW h, Continues(h, next), NEW k \in 0 .. Len(next), NEW i \in Arms(k)
      PROVE  Valued(h, Asserted, i, k, FALSE) # "violated"
  <2>1. Continues(h, past)
    BY <1>2, ContinuesIs
  <2>2. CASE k = Len(next)
    <3> HIDE DEF next
    <3>1. Tracked(next, open)
      BY DEF next
    <3> QED BY <1>1, <1>2, <2>2, <3>1, TrackedHolds
  <2>3. CASE k # Len(next)
    <3>1. k \in 0 .. Len(past)
      BY <1>1, <2>3
    <3> QED BY <2>1, <3>1 DEF Unbroken
  <2> QED BY <2>2, <2>3
<1> HIDE DEF next
<1>3. Unbroken(next)
  BY <1>2 DEF Unbroken
<1> QED BY <1>3 DEF next

\* What is owed is pending at the last observation, whatever it is.
LEMMA OwedNow ==
  ASSUME NEW M, NEW past \in Seq(M), NEW h, Continues(h, past)
  PROVE  \A j : \A f \in Formula : Owes(past, Asserted, j, f) =>
           Valued(h, Asserted, j, Len(past), FALSE) = "pending"
BY OwesNow

\* Where an obligation is violated, the first one convicts the step that armed it.
LEMMA FailedConvicts ==
  ASSUME WholeWindows, TypeInv, verdict # "violated", Tracked(history, pending), Unbroken(history),
         NEW gap \in Gaps, NEW atoms \in [AtomsOf[authored] -> {"true", "false", "throws"}],
         Len(history) < MaxObservations, Failed(gap, atoms) # 0
  PROVE  Convicted(Append(history, Noted(gap, atoms)), Reduced(gap, atoms)[Failed(gap, atoms)].origin)
<1> DEFINE n == Len(history)
           seen == Noted(gap, atoms)
           next == Append(history, seen)
           r == Reduced(gap, atoms)
           failed == Failed(gap, atoms)
<1>1. /\ \A j \in 1 .. Len(r) : \E i \in Arms(n + 1) :
           /\ r[j].origin = next[i].step
           /\ r[j].status = "pending" => Owes(next, Asserted, i, r[j].formula)
           /\ r[j].status # "pending" => Settled(next, Asserted, i, r[j].status)
      /\ \A i \in Arms(n + 1) :
           \/ Settled(next, Asserted, i, "holds")
           \/ \E j \in 1 .. Len(r) :
                /\ r[j].origin <= next[i].step
                /\ r[j].status = "pending" => Owes(next, Asserted, i, r[j].formula)
                /\ r[j].status # "pending" => Settled(next, Asserted, i, r[j].status)
  BY ReducedTracked
<1>2. /\ r \in Seq(Obligation) /\ Increasing(r) /\ Len(r) \in Nat
      /\ \A j \in 1 .. Len(r) : r[j].formula \in Formula
  <2>1. r \in Seq(Obligation) /\ Increasing(r)
        /\ \A j \in 1 .. Len(r) : r[j].formula \in NormalAt(Depth + 1 + (observations + 1))
    BY ReducedIs
  <2>2. NormalAt(Depth + 1 + (observations + 1)) \subseteq Formula
    <3>1. observations \in Nat /\ observations + 1 <= MaxObservations
      BY TopIs DEF TypeInv
    <3>2. Depth + 1 + (observations + 1) \in Nat /\ Depth + 1 + (observations + 1) <= Top
      BY <3>1, TopIs DEF Top
    <3> QED BY <3>2, LevelsGrow, TopIs DEF NormalAt
  <2> QED BY <2>1, <2>2
<1>3. /\ failed \in 1 .. Len(r) /\ r[failed].status = "violated"
      /\ \A j \in 1 .. Len(r) : j < failed => r[j].status # "violated"
  <2>1. failed = FirstViolated(r) /\ failed # 0
    BY DEF Failed
  <2> HIDE DEF r, failed
  <2> QED BY <1>2, <2>1, FirstViolatedIs
<1>4. seen \in Moment /\ history \in Seq(Moment) /\ n \in Nat
      /\ \A i \in 1 .. n : history[i].step < seen.step
  BY NotedIs DEF TypeInv
<1>5. /\ Len(next) = n + 1 /\ next \in Seq(Moment) /\ next[n + 1] = seen
      /\ \A i \in 1 .. n : next[i] = history[i]
  <2> HIDE DEF seen
  <2> QED BY <1>4
<1>6. \A i \in 1 .. n + 1 : next[i].step \in Nat
  <2>1. \A i \in 1 .. n + 1 : next[i] \in Moment
    <3> HIDE DEF next, n
    <3> QED BY <1>4, <1>5
  <2>2. \A x \in Moment : x.step \in Nat
    BY DEF Moment
  <2> QED BY <2>1, <2>2
<1>7. Arms(n + 1) \subseteq 1 .. n + 1 /\ n + 1 - 1 = n
  BY <1>4, ArmsGrow
<1> HIDE DEF n, seen, next, r, failed
<1>8. \A i, j \in 1 .. n + 1 : j < i => next[j].step < next[i].step
  <2> SUFFICES ASSUME NEW i \in 1 .. n + 1, NEW j \in 1 .. n + 1, j < i
               PROVE  next[j].step < next[i].step
    OBVIOUS
  <2>1. j \in 1 .. n
    BY <1>4
  <2>2. CASE i = n + 1
    BY <1>4, <1>5, <2>1, <2>2
  <2>3. CASE i # n + 1
    <3>1. i \in 1 .. n
      BY <1>4, <2>3
    <3>2. history[j].step < history[i].step
      BY <2>1, <3>1 DEF TypeInv, n
    <3> QED BY <1>5, <2>1, <3>1, <3>2
  <2> QED BY <2>2, <2>3
<1>9. PICK i \in Arms(n + 1) : r[failed].origin = next[i].step /\ Settled(next, Asserted, i, "violated")
  <2>1. PICK i \in Arms(n + 1) :
          /\ r[failed].origin = next[i].step
          /\ r[failed].status # "pending" => Settled(next, Asserted, i, r[failed].status)
    BY <1>1, <1>3
  <2> QED BY <1>3, <2>1
<1>10. ASSUME NEW h, Continues(h, next)
       PROVE  /\ \A m \in n + 1 .. Len(h), over \in BOOLEAN : Valued(h, Asserted, i, m, over) = "violated"
              /\ \A j \in Arms(n + 1) : j < i => Valued(h, Asserted, j, n + 1, FALSE) # "violated"
              /\ \A j \in Arms(n) : Valued(h, Asserted, j, n, FALSE) # "violated"
  <2>1. \A m \in n + 1 .. Len(h), over \in BOOLEAN : Valued(h, Asserted, i, m, over) = "violated"
    BY <1>5, <1>9, <1>10 DEF Settled
  <2>2. Continues(h, history)
    BY <1>4, <1>10, ContinuesIs DEF next
  <2>3. \A j \in Arms(n) : Valued(h, Asserted, j, n, FALSE) # "violated"
    <3>1. n \in 0 .. Len(history)
      BY <1>4 DEF n
    <3> QED BY <2>2, <3>1 DEF Unbroken
  <2>4. \A j, word : Settled(next, Asserted, j, word) => Valued(h, Asserted, j, n + 1, FALSE) = word
    <3>1. n + 1 \in Len(next) .. Len(h) /\ FALSE \in BOOLEAN
      BY <1>5, <1>10, SettledNow
    <3> QED BY <1>10, <3>1 DEF Settled
  <2>5. \A j : \A f \in Formula : Owes(next, Asserted, j, f) => Valued(h, Asserted, j, Len(next), FALSE) = "pending"
    BY <1>5, <1>10, OwedNow
  <2>6. ASSUME NEW j \in Arms(n + 1), j < i
        PROVE  Valued(h, Asserted, j, n + 1, FALSE) # "violated"
    <3>1. CASE Settled(next, Asserted, j, "holds")
      <4>1. Valued(h, Asserted, j, n + 1, FALSE) = "holds"
        BY <2>4, <3>1
      <4> QED BY <4>1
    <3>2. ASSUME NEW m \in 1 .. Len(r), r[m].origin <= next[j].step,
                 r[m].status = "pending" => Owes(next, Asserted, j, r[m].formula),
                 r[m].status # "pending" => Settled(next, Asserted, j, r[m].status)
          PROVE  Valued(h, Asserted, j, n + 1, FALSE) # "violated"
      <4>1. next[j].step < next[i].step /\ next[j].step \in Nat /\ next[i].step \in Nat
        BY <1>6, <1>7, <1>8, <2>6
      <4>2. r[m] \in Obligation
        BY <1>2
      <4>3. r[m].status \in {"pending", "holds", "violated"} /\ r[m].origin \in Nat
        BY <4>2 DEF Obligation, Words
      <4>4. r[m].origin < r[failed].origin
        BY <1>9, <3>2, <4>1, <4>3
      <4>5. m < failed
        <5>1. m # failed
          BY <4>3, <4>4
        <5>2. ~ (failed < m)
          <6> SUFFICES ASSUME failed < m PROVE FALSE
            OBVIOUS
          <6>1. r[failed].origin < r[m].origin
            BY <1>2, <1>3 DEF Increasing
          <6>2. r[failed].origin \in Nat
            BY <1>9, <4>1
          <6> QED BY <4>3, <4>4, <6>1, <6>2
        <5> QED BY <1>2, <1>3, <5>1, <5>2
      <4>6. r[m].status # "violated"
        BY <1>3, <4>5
      <4>7. CASE r[m].status = "pending"
        <5>1. Valued(h, Asserted, j, n + 1, FALSE) = "pending"
          BY <1>2, <1>5, <2>5, <3>2, <4>7
        <5> QED BY <5>1
      <4>8. CASE r[m].status = "holds"
        <5>1. Settled(next, Asserted, j, "holds")
          BY <3>2, <4>8
        <5>2. Valued(h, Asserted, j, n + 1, FALSE) = "holds"
          BY <2>4, <5>1
        <5> QED BY <5>2
      <4> QED BY <4>3, <4>6, <4>7, <4>8
    <3> QED BY <1>1, <3>1, <3>2
  <2> QED BY <2>1, <2>3, <2>6
<1>11. Broken(next, n + 1, i)
  <2> DEFINE k == n + 1
  <2>1. k - 1 = n
    BY <1>4
  <2>2. ASSUME NEW h, Continues(h, next)
        PROVE  /\ \A m \in k .. Len(h), over \in BOOLEAN : Valued(h, Asserted, i, m, over) = "violated"
               /\ \A j \in Arms(k) : j < i => Valued(h, Asserted, j, k, FALSE) # "violated"
               /\ \A j \in Arms(k - 1) : Valued(h, Asserted, j, k - 1, FALSE) # "violated"
    BY <1>10, <2>1, <2>2
  <2> HIDE DEF k
  <2>3. Broken(next, k, i)
    BY <2>2 DEF Broken
  <2> QED BY <2>3 DEF k
<1>12. Convicted(next, r[failed].origin)
  <2>1. n + 1 \in 1 .. Len(next)
    BY <1>4, <1>5
  <2> QED BY <1>9, <1>11, <2>1 DEF Convicted
<1> QED BY <1>12 DEF next, r, failed, seen

\* A conviction stands.
LEMMA ConvictedStands ==
  ASSUME NEW M, NEW past \in Seq(M), NEW seen \in M, NEW step, Convicted(past, step)
  PROVE  Convicted(Append(past, seen), step)
<1> DEFINE next == Append(past, seen)
<1>1. Len(past) \in Nat /\ Len(next) = Len(past) + 1 /\ \A j \in 1 .. Len(past) : next[j] = past[j]
  OBVIOUS
<1>2. PICK k \in 1 .. Len(past) : \E i \in Arms(k) : step = past[i].step /\ Broken(past, k, i)
  BY DEF Convicted
<1>3. PICK i \in Arms(k) : step = past[i].step /\ Broken(past, k, i)
  BY <1>2
<1>4. i \in 1 .. Len(past) /\ k \in 1 .. Len(next)
  BY <1>1 DEF Arms
<1>5. \A h : Continues(h, next) => Continues(h, past)
  BY ContinuesIs
<1> HIDE DEF next
<1>6. Broken(next, k, i)
  BY <1>3, <1>5 DEF Broken
<1>7. Convicted(next, step)
  BY <1>1, <1>3, <1>4, <1>6 DEF Convicted
<1> QED BY <1>7 DEF next

----------------------------------------------------------------------------
(* The verdict and the blame.                                              *)

\* What the evaluator's state says of the observations made: while the verdict is open its
\* obligations track the property, a violation convicts the earliest step there is to blame,
\* and the end of the run leaves the verdict and the blame that the properties below ask for.
TrackInv ==
  /\ ~ ended /\ verdict # "violated" =>
       /\ Tracked(history, pending) /\ Unbroken(history)
       /\ verdict = IF pending = <<>> THEN "holds" ELSE "pending"
  /\ ~ ended /\ verdict = "violated" => pending = <<>> /\ Convicted(history, violation)
  /\ ended => FinalVerdictIsTruth /\ BlamesArmingStep

\* The value of a property on the observations made.
LEMMA ValueIs ==
  /\ \A f, i, k, over : Value(f, i, k, over) = Valued(history, f, i, k, over)
  /\ TypeInv => Continues(history, history)
<1>1. \A f, i, k, over : Value(f, i, k, over) = Valued(history, f, i, k, over)
  BY ValuerIs DEF Value, Valued
<1>2. ASSUME TypeInv PROVE Continues(history, history)
  <2>1. history \in Seq(Moment) /\ Len(history) \in Nat
    BY <1>2 DEF TypeInv
  <2>2. \A x \in Moment : x.now \in Nat
    BY DEF Moment
  <2>3. \A j \in 1 .. Len(history) : history[j] \in Moment
    BY <2>1
  <2> QED BY <2>1, <2>2, <2>3 DEF Continues, Clocked
<1> QED BY <1>1, <1>2

\* What is pending are formulas of the evaluator.
LEMMA PendingFormulas ==
  ASSUME TypeInv
  PROVE  /\ pending \in Seq(Obligation) /\ Len(pending) \in Nat
         /\ \A j \in 1 .. Len(pending) : pending[j].formula \in Formula
<1>1. pending \in Seq(Obligation) /\ Len(pending) \in Nat
  BY DEF TypeInv
<1>2. NormalAt(Depth + 1 + observations) \subseteq Formula
  <2>1. observations \in Nat /\ observations <= MaxObservations
    BY TopIs DEF TypeInv
  <2>2. Depth + 1 + observations \in Nat /\ Depth + 1 + observations <= Top
    BY <2>1, TopIs DEF Top
  <2> QED BY <2>2, LevelsGrow, TopIs DEF NormalAt
<1> QED BY <1>1, <1>2 DEF TypeInv

\* What is owed at the end of the run is judged as Finalize does.
LEMMA OwedFinally ==
  ASSUME NEW M, NEW past \in Seq(M), NEW h, Continues(h, past)
  PROVE  \A j : \A f \in Formula : Owes(past, Asserted, j, f) =>
           Valued(h, Asserted, j, Len(past), TRUE) = FinalStatus[f]
BY OwesNow

\* The assertions violated at the k-th observation, and what it is to blame the step of the
\* first of them.
Violated(k, over) == {i \in Arms(k) : Value(Asserted, i, k, over) = "violated"}
Blames(k, over, step) ==
  LET online == Violated(k, FALSE)
      blamed == IF online = {} /\ over THEN Violated(k, TRUE) ELSE online
  IN  /\ Violated(k - 1, FALSE) = {} /\ blamed # {}
      /\ \E i \in blamed : (\A j \in blamed : i <= j) /\ step = history[i].step

\* A conviction blames its step, and the property is violated from then on.
LEMMA ConvictedBlames ==
  ASSUME TypeInv, NEW step, Convicted(history, step)
  PROVE  /\ \E k \in 1 .. Len(history) : \A over : Blames(k, over, step)
         /\ \A over \in BOOLEAN : "violated" \in ValuesAt(Len(history), over)
<1> DEFINE n == Len(history)
<1>1. Continues(history, history) /\ n \in Nat
  BY ValueIs DEF TypeInv
<1>2. PICK k \in 1 .. n : \E i \in Arms(k) : step = history[i].step /\ Broken(history, k, i)
  BY DEF Convicted
<1>3. PICK i \in Arms(k) : step = history[i].step /\ Broken(history, k, i)
  BY <1>2
<1>4. /\ \A m \in k .. n, over \in BOOLEAN : Value(Asserted, i, m, over) = "violated"
      /\ \A j \in Arms(k) : j < i => Value(Asserted, j, k, FALSE) # "violated"
      /\ \A j \in Arms(k - 1) : Value(Asserted, j, k - 1, FALSE) # "violated"
  BY <1>1, <1>3, ValueIs DEF Broken
<1>5. k \in k .. n /\ n \in k .. n /\ k \in Nat /\ i \in Nat /\ i \in Arms(n)
  BY <1>1, <1>2 DEF Arms
<1>6. \A over \in BOOLEAN : "violated" \in ValuesAt(n, over)
  BY <1>4, <1>5 DEF ValuesAt
<1>7. i \in Violated(k, FALSE) /\ Violated(k - 1, FALSE) = {}
  BY <1>4, <1>5 DEF Violated
<1>8. \A j \in Violated(k, FALSE) : i <= j
  <2>1. Arms(k) \subseteq Nat
    BY DEF Arms
  <2>2. \A j \in Arms(k) : j < i \/ i <= j
    BY <1>5, <2>1
  <2>3. \A j \in Violated(k, FALSE) : j \in Arms(k) /\ Value(Asserted, j, k, FALSE) = "violated"
    BY DEF Violated
  <2> QED BY <1>4, <2>2, <2>3
<1>9. \A over : Blames(k, over, step)
  BY <1>3, <1>7, <1>8 DEF Blames
<1> QED BY <1>2, <1>6, <1>9

\* The end of a run that was not violated violates it where an obligation is judged so, and
\* blames the step of the first of them.
LEMMA Closing ==
  ASSUME TypeInv, TrackInv, ~ ended, verdict # "violated"
  PROVE  LET failed == FinallyViolated(pending)
         IN  /\ failed # 0 <=> "violated" \in ValuesAt(Len(history), TRUE)
             /\ failed # 0 => /\ Len(history) \in 1 .. Len(history)
                              /\ Blames(Len(history), TRUE, pending[failed].origin)
<1> DEFINE n == Len(history)
           failed == FinallyViolated(pending)
<1>1. Continues(history, history) /\ n \in Nat /\ history \in Seq(Moment)
  BY ValueIs DEF TypeInv
<1>2. /\ Unbroken(history)
      /\ \A j \in 1 .. Len(pending) : \E i \in Arms(n) :
           pending[j].origin = history[i].step /\ Owes(history, Asserted, i, pending[j].formula)
      /\ \A i \in Arms(n) :
           \/ Settled(history, Asserted, i, "holds")
           \/ \E j \in 1 .. Len(pending) :
                pending[j].origin <= history[i].step /\ Owes(history, Asserted, i, pending[j].formula)
  BY DEF TrackInv, Tracked
<1>3. /\ pending \in Seq(Obligation) /\ Len(pending) \in Nat
      /\ \A j \in 1 .. Len(pending) : pending[j].formula \in Formula
  BY PendingFormulas
<1>4. \/ failed = 0 /\ \A j \in 1 .. Len(pending) : FinalStatus[pending[j].formula] # "violated"
      \/ /\ failed \in 1 .. Len(pending) /\ FinalStatus[pending[failed].formula] = "violated"
         /\ \A j \in 1 .. Len(pending) : j < failed => FinalStatus[pending[j].formula] # "violated"
  BY <1>3, FinallyViolatedIs
<1>5. \A i : Settled(history, Asserted, i, "holds") => Value(Asserted, i, n, TRUE) = "holds"
  <2>1. n \in n .. Len(history) /\ TRUE \in BOOLEAN
    BY <1>1
  <2>2. \A i, word : Settled(history, Asserted, i, word) => Valued(history, Asserted, i, n, TRUE) = word
    BY <1>1, <2>1 DEF Settled
  <2> QED BY <2>2, ValueIs
<1>6. \A i : \A f \in Formula : Owes(history, Asserted, i, f) =>
        Value(Asserted, i, n, TRUE) = FinalStatus[f]
  <2>1. \A i : \A f \in Formula : Owes(history, Asserted, i, f) =>
          Valued(history, Asserted, i, n, TRUE) = FinalStatus[f]
    BY <1>1, OwedFinally
  <2> QED BY <2>1, ValueIs
<1>7. \A m \in 0 .. n : Violated(m, FALSE) = {}
  <2>1. \A m \in 0 .. n : \A i \in Arms(m) : Value(Asserted, i, m, FALSE) # "violated"
    BY <1>1, <1>2, ValueIs DEF Unbroken
  <2> QED BY <2>1 DEF Violated
<1>8. \A i, j \in 1 .. n : j < i => history[j].step < history[i].step
  BY DEF TypeInv
<1>9. Arms(n) \subseteq 1 .. n /\ Increasing(pending)
  BY DEF Arms, TypeInv
<1>10. \A i \in 1 .. n : history[i].step \in Nat
  <2>1. \A i \in 1 .. n : history[i] \in Moment
    BY <1>1
  <2>2. \A x \in Moment : x.step \in Nat
    BY DEF Moment
  <2> QED BY <2>1, <2>2
<1> HIDE DEF n, failed
<1>11. CASE failed = 0
  <2>1. \A j \in 1 .. Len(pending) : FinalStatus[pending[j].formula] # "violated"
    BY <1>4, <1>11
  <2>2. \A i \in Arms(n) : Value(Asserted, i, n, TRUE) # "violated"
    <3> TAKE i \in Arms(n)
    <3>1. CASE Settled(history, Asserted, i, "holds")
      <4>1. Value(Asserted, i, n, TRUE) = "holds"
        BY <1>5, <3>1
      <4> QED BY <4>1
    <3>2. ASSUME NEW j \in 1 .. Len(pending), Owes(history, Asserted, i, pending[j].formula)
          PROVE  Value(Asserted, i, n, TRUE) # "violated"
      BY <1>3, <1>6, <2>1, <3>2
    <3> QED BY <1>2, <3>1, <3>2
  <2>3. "violated" \notin ValuesAt(n, TRUE)
    BY <2>2 DEF ValuesAt
  <2> QED BY <1>11, <2>3 DEF n, failed
<1>12. CASE failed # 0
  <2>1. /\ failed \in 1 .. Len(pending) /\ FinalStatus[pending[failed].formula] = "violated"
        /\ \A j \in 1 .. Len(pending) : j < failed => FinalStatus[pending[j].formula] # "violated"
    BY <1>4, <1>12
  <2>2. PICK i \in Arms(n) : pending[failed].origin = history[i].step
                             /\ Owes(history, Asserted, i, pending[failed].formula)
    BY <1>2, <2>1
  <2>3. Value(Asserted, i, n, TRUE) = "violated"
    BY <1>3, <1>6, <2>1, <2>2
  <2>4. "violated" \in ValuesAt(n, TRUE) /\ i \in Violated(n, TRUE)
    BY <2>3 DEF ValuesAt, Violated
  <2>5. i \in 1 .. n /\ n \in 1 .. n /\ n - 1 \in 0 .. n /\ n \in 0 .. n
    BY <1>1, <1>9 DEF n
  <2>6. ASSUME NEW j \in Arms(n), j < i
        PROVE  Value(Asserted, j, n, TRUE) # "violated"
    <3>1. CASE Settled(history, Asserted, j, "holds")
      <4>1. Value(Asserted, j, n, TRUE) = "holds"
        BY <1>5, <3>1
      <4> QED BY <4>1
    <3>2. ASSUME NEW m \in 1 .. Len(pending), pending[m].origin <= history[j].step,
                 Owes(history, Asserted, j, pending[m].formula)
          PROVE  Value(Asserted, j, n, TRUE) # "violated"
      <4>1. history[j].step < history[i].step /\ history[j].step \in Nat /\ history[i].step \in Nat
        BY <1>8, <1>9, <1>10, <2>5, <2>6
      <4>2. pending[m] \in Obligation
        BY <1>3
      <4>3. pending[m].origin \in Nat
        BY <4>2 DEF Obligation
      <4>4. pending[m].origin < pending[failed].origin
        BY <2>2, <3>2, <4>1, <4>3
      <4>5. m # failed
        BY <4>3, <4>4
      <4>6. ~ (failed < m)
        <5> SUFFICES ASSUME failed < m PROVE FALSE
          OBVIOUS
        <5>1. pending[failed].origin < pending[m].origin
          BY <1>9, <2>1 DEF Increasing
        <5> QED BY <2>2, <4>1, <4>3, <4>4, <5>1
      <4>7. m < failed
        BY <1>3, <2>1, <4>5, <4>6
      <4> QED BY <1>3, <1>6, <2>1, <3>2, <4>7
    <3> QED BY <1>2, <3>1, <3>2
  <2>7. \A j \in Violated(n, TRUE) : i <= j
    <3>1. \A j \in Arms(n) : j < i \/ i <= j
      BY <1>9, <2>5
    <3>2. \A j \in Violated(n, TRUE) : j \in Arms(n) /\ Value(Asserted, j, n, TRUE) = "violated"
      BY DEF Violated
    <3> QED BY <2>6, <3>1, <3>2
  <2>8. Blames(n, TRUE, pending[failed].origin)
    BY <1>7, <2>2, <2>4, <2>5, <2>7 DEF Blames
  <2> QED BY <1>12, <2>4, <2>5, <2>8 DEF n, failed
<1> QED BY <1>11, <1>12 DEF failed

\* While the run goes on, the invariant says what the verdict is and whom it blames.
LEMMA OpenVerdict ==
  ASSUME TypeInv, TrackInv, ~ ended
  PROVE  VerdictIsTruth /\ BlamesArmingStep
<1> DEFINE n == Len(history)
<1>1. Continues(history, history) /\ n \in Nat /\ history \in Seq(Moment)
  BY ValueIs DEF TypeInv
<1>2. CASE verdict # "violated"
  <2>1. /\ Tracked(history, pending) /\ Unbroken(history)
        /\ verdict = IF pending = <<>> THEN "holds" ELSE "pending"
    BY <1>2 DEF TrackInv
  <2>2. \A i : Settled(history, Asserted, i, "holds") => Value(Asserted, i, n, FALSE) = "holds"
    <3>1. \A i, word : Settled(history, Asserted, i, word) => Valued(history, Asserted, i, n, FALSE) = word
      <4>1. n \in n .. Len(history) /\ FALSE \in BOOLEAN
        BY <1>1
      <4> QED BY <1>1, <4>1 DEF Settled
    <3> QED BY <3>1, ValueIs
  <2>3. \A i : \A f \in Formula : Owes(history, Asserted, i, f) => Value(Asserted, i, n, FALSE) = "pending"
    <3>1. \A i : \A f \in Formula : Owes(history, Asserted, i, f) =>
            Valued(history, Asserted, i, n, FALSE) = "pending"
      BY <1>1, OwedNow
    <3> QED BY <3>1, ValueIs
  <2>4. \A i \in Arms(n) : \/ Value(Asserted, i, n, FALSE) = "holds"
                           \/ pending # <<>> /\ Value(Asserted, i, n, FALSE) = "pending"
    <3> TAKE i \in Arms(n)
    <3>1. CASE Settled(history, Asserted, i, "holds")
      BY <2>2, <3>1
    <3>2. ASSUME NEW j \in 1 .. Len(pending), Owes(history, Asserted, i, pending[j].formula)
          PROVE  pending # <<>> /\ Value(Asserted, i, n, FALSE) = "pending"
      <4>1. pending # <<>> /\ pending[j].formula \in Formula
        BY PendingFormulas
      <4> QED BY <2>3, <3>2, <4>1
    <3> QED BY <2>1, <3>1, <3>2 DEF Tracked
  <2>5. pending # <<>> => \E i \in Arms(n) : Value(Asserted, i, n, FALSE) = "pending"
    <3> SUFFICES ASSUME pending # <<>> PROVE \E i \in Arms(n) : Value(Asserted, i, n, FALSE) = "pending"
      OBVIOUS
    <3>1. 1 \in 1 .. Len(pending)
      BY PendingFormulas
    <3>2. PICK i \in Arms(n) : Owes(history, Asserted, i, pending[1].formula)
      BY <2>1, <3>1 DEF Tracked
    <3> QED BY <2>3, <3>1, <3>2, PendingFormulas
  <2> DEFINE values == ValuesAt(n, FALSE)
  <2>6. /\ \A v \in values : v = "holds" \/ (pending # <<>> /\ v = "pending")
        /\ pending # <<>> => "pending" \in values
    <3> DEFINE value(i) == Value(Asserted, i, n, FALSE)
    <3>1. values = {value(i) : i \in Arms(n)}
      BY DEF ValuesAt
    <3>2. \A i \in Arms(n) : value(i) = "holds" \/ (pending # <<>> /\ value(i) = "pending")
      BY <2>4
    <3>3. pending # <<>> => \E i \in Arms(n) : value(i) = "pending"
      BY <2>5
    <3> HIDE DEF value, values
    <3> QED BY <3>1, <3>2, <3>3
  <2> HIDE DEF values
  <2>7. "violated" \notin values
    BY <2>6
  <2>8. "pending" \in values <=> pending # <<>>
    BY <2>6
  <2>9. verdict = CASE "violated" \in values -> "violated"
                    [] "violated" \notin values /\ "pending" \in values -> "pending"
                    [] OTHER -> "holds"
    BY <2>1, <2>7, <2>8
  <2> QED BY <1>2, <2>9 DEF VerdictIsTruth, BlamesArmingStep, values, n
<1>3. CASE verdict = "violated"
  <2>1. Convicted(history, violation)
    BY <1>3 DEF TrackInv
  <2>2. VerdictIsTruth
    <3>1. "violated" \in ValuesAt(n, FALSE)
      BY <2>1, ConvictedBlames
    <3> QED BY <1>3, <3>1 DEF VerdictIsTruth
  <2>3. BlamesArmingStep
    <3>1. PICK k \in 1 .. Len(history) : \A over : Blames(k, over, violation)
      BY <2>1, ConvictedBlames
    <3>2. Blames(k, ended /\ k = Len(history), violation)
      BY <3>1
    <3> QED BY <3>2 DEF BlamesArmingStep, Blames, Violated
  <2> QED BY <2>2, <2>3
<1> QED BY <1>2, <1>3

\* What is owed reduces to formulas of the evaluator.
LEMMA ReducedFormulas ==
  ASSUME TypeInv, verdict # "violated", NEW gap \in Gaps,
         NEW atoms \in [AtomsOf[authored] -> {"true", "false", "throws"}],
         Len(history) < MaxObservations
  PROVE  \A j \in 1 .. Len(Reduced(gap, atoms)) : Reduced(gap, atoms)[j].formula \in Formula
<1> DEFINE r == Reduced(gap, atoms)
<1>1. \A j \in 1 .. Len(r) : r[j].formula \in NormalAt(Depth + 1 + (observations + 1))
  BY ReducedIs
<1>2. NormalAt(Depth + 1 + (observations + 1)) \subseteq Formula
  <2>1. observations \in Nat /\ observations + 1 <= MaxObservations
    BY TopIs DEF TypeInv
  <2>2. Depth + 1 + (observations + 1) \in Nat /\ Depth + 1 + (observations + 1) <= Top
    BY <2>1, TopIs DEF Top
  <2> QED BY <2>2, LevelsGrow, TopIs DEF NormalAt
<1> QED BY <1>1, <1>2

\* Nothing is asserted before the first observation.
LEMMA TrackInit == Init => TrackInv
<1> SUFFICES ASSUME Init PROVE TrackInv
  OBVIOUS
<1>1. history = <<>> /\ pending = <<>> /\ verdict = "holds" /\ ended = FALSE
  BY DEF Init
<1>2. Len(history) = 0 /\ Len(pending) = 0
  BY <1>1
<1>3. Arms(0) = {}
  BY DEF Arms
<1>4. Tracked(history, pending)
  BY <1>2, <1>3 DEF Tracked
<1>5. Unbroken(history)
  <2>1. \A k \in 0 .. 0 : k = 0
    OBVIOUS
  <2> QED BY <1>2, <1>3, <2>1 DEF Unbroken
<1> QED BY <1>1, <1>4, <1>5 DEF TrackInv

\* What is convicted is so of the property the evaluator was made for.
LEMMA ConvictedNext ==
  ASSUME NEW next, NEW step, Convicted(next, step),
         authored' = authored, history' = next, violation' = step
  PROVE  Convicted(history, violation)'
<1>1. PICK k \in 1 .. Len(next) : \E i \in Arms(k) : step = next[i].step /\ Broken(next, k, i)
  BY DEF Convicted
<1>2. PICK i \in Arms(k) : step = next[i].step /\ Broken(next, k, i)
  BY <1>1
<1>3. Asserted' = Asserted /\ (\A m : Arms(m)' = Arms(m))
  BY DEF Asserted, Arms
<1>4. Broken(history, k, i)'
  <2>1. ASSUME NEW h, Continues(h, next)
        PROVE  /\ \A m \in k .. Len(h), over \in BOOLEAN : Valued(h, Asserted', i, m, over) = "violated"
               /\ \A j \in Arms(k)' : j < i => Valued(h, Asserted', j, k, FALSE) # "violated"
               /\ \A j \in Arms(k - 1)' : Valued(h, Asserted', j, k - 1, FALSE) # "violated"
    BY <1>2, <1>3, <2>1 DEF Broken
  <2> QED BY <2>1 DEF Broken
<1>5. i \in Arms(k)' /\ violation' = history'[i].step /\ k \in 1 .. Len(history')
  BY <1>1, <1>2, <1>3
<1> QED BY <1>4, <1>5 DEF Convicted

\* The invariant survives an observation of an evaluator that is not violated yet.
LEMMA TrackObserved ==
  ASSUME WholeWindows, TypeInv, TrackInv,
         NEW gap \in Gaps, NEW atoms \in [AtomsOf[authored] -> {"true", "false", "throws"}],
         Observe(gap, atoms)
  PROVE  TrackInv'
<1> DEFINE seen == Noted(gap, atoms)
           next == Append(history, seen)
           failed == Failed(gap, atoms)
           r == Reduced(gap, atoms)
           left == Left(gap, atoms)
<1>1. /\ ~ ended /\ Len(history) < MaxObservations /\ history' = next
      /\ verdict = "violated" =>
           UNCHANGED <<armed, pending, verdict, violation, steps, observations>>
      /\ verdict # "violated" =>
           /\ failed # 0 => /\ pending' = <<>> /\ verdict' = "violated"
                            /\ violation' = r[failed].origin
           /\ failed = 0 => /\ pending' = left
                            /\ verdict' = IF left # <<>> THEN "pending" ELSE "holds"
      /\ authored' = authored /\ ended' = ended
  BY ObserveIs
<1>2. seen \in Moment /\ history \in Seq(Moment)
  BY NotedIs DEF TypeInv
<1>3. CASE verdict = "violated"
  <2>1. Convicted(history, violation) /\ pending = <<>>
    BY <1>1, <1>3 DEF TrackInv
  <2>2. Convicted(next, violation)
    BY <1>2, <2>1, ConvictedStands
  <2>3. verdict' = "violated" /\ pending' = <<>> /\ violation' = violation /\ ~ ended'
    BY <1>1, <1>3, <2>1
  <2> HIDE DEF next
  <2>4. Convicted(history, violation)'
    BY <1>1, <2>2, <2>3, ConvictedNext
  <2> QED BY <2>3, <2>4 DEF TrackInv
<1>4. CASE verdict # "violated"
  <2>1. Tracked(history, pending) /\ Unbroken(history)
    BY <1>1, <1>4 DEF TrackInv
  <2>2. CASE failed # 0
    <3>1. Convicted(next, r[failed].origin)
      BY <1>1, <1>4, <2>1, <2>2, FailedConvicts
    <3>2. pending' = <<>> /\ verdict' = "violated" /\ violation' = r[failed].origin /\ ~ ended'
      BY <1>1, <1>4, <2>2
    <3> HIDE DEF next, r, failed
    <3>3. Convicted(history, violation)'
      BY <1>1, <3>1, <3>2, ConvictedNext
    <3> QED BY <3>2, <3>3 DEF TrackInv
  <2>3. CASE failed = 0
    <3>1. Tracked(next, left)
      BY <1>1, <1>4, <2>1, <2>3, LeftTracked
    <3>2. \A j \in 1 .. Len(left) : left[j].formula \in Formula
      <4>1. /\ left \in Seq(Obligation)
            /\ \A j \in 1 .. Len(left) : \E i \in 1 .. Len(r) : left[j] = r[i]
        BY <1>1, LeftIs
      <4>2. \A j \in 1 .. Len(r) : r[j].formula \in Formula
        BY <1>1, <1>4, ReducedFormulas
      <4> HIDE DEF left, r
      <4> QED BY <4>1, <4>2
    <3>3. Unbroken(next)
      BY <1>2, <2>1, <3>1, <3>2, UnbrokenGrows
    <3>4. pending' = left /\ verdict' = (IF left # <<>> THEN "pending" ELSE "holds") /\ ~ ended'
      BY <1>1, <1>4, <2>3
    <3> HIDE DEF next, left, failed, r
    <3>5. Tracked(history, pending)'
      BY <1>1, <3>1, <3>4 DEF Tracked, Arms, Asserted
    <3>6. Unbroken(history)'
      BY <1>1, <3>3 DEF Unbroken, Arms, Asserted
    <3>7. verdict' = (IF pending' = <<>> THEN "holds" ELSE "pending") /\ verdict' # "violated"
      BY <3>4
    <3> QED BY <3>4, <3>5, <3>6, <3>7 DEF TrackInv
  <2> QED BY <2>2, <2>3
<1> QED BY <1>3, <1>4

\* The last step of a run changes neither the property nor what was observed: what is blamed
\* before it is blamed after it.
LEMMA EndIs ==
  ASSUME authored' = authored, history' = history
  PROVE  /\ \A k, over : ValuesAt(k, over)' = ValuesAt(k, over)
         /\ \A k \in 1 .. Len(history) : \A step :
              ended' /\ Blames(k, k = Len(history), step) /\ violation' = step => BlamesArmingStep'
<1>1. Asserted' = Asserted /\ (\A k : Arms(k)' = Arms(k))
  BY DEF Asserted, Arms
<1>2. \A f, i, k, over : Value(f, i, k, over)' = Value(f, i, k, over)
  BY DEF Value
<1>3. \A k, over : ValuesAt(k, over)' = ValuesAt(k, over)
  <2> TAKE k, over
  <2>1. ValuesAt(k, over)' = {Value(Asserted, i, k, over)' : i \in Arms(k)'}
    BY DEF ValuesAt
  <2>2. \A i : Value(Asserted, i, k, over)' = Value(Asserted, i, k, over)
    BY <1>1 DEF Value
  <2> QED BY <1>1, <2>1, <2>2 DEF ValuesAt
<1>4. ASSUME NEW k \in 1 .. Len(history), NEW step, ended', Blames(k, k = Len(history), step),
             violation' = step
      PROVE  BlamesArmingStep'
  <2> DEFINE last == k = Len(history)
             online == Violated(k, FALSE)
             final == Violated(k, TRUE)
             blamed == IF online = {} /\ last THEN final ELSE online
  <2>1. \A m, over : {i \in Arms(m)' : Value(Asserted, i, m, over)' = "violated"} = Violated(m, over)
    <3> TAKE m, over
    <3>1. \A i : Value(Asserted, i, m, over)' = Value(Asserted, i, m, over)
      BY <1>1 DEF Value
    <3> QED BY <1>1, <3>1 DEF Violated
  <2>2. /\ Violated(k - 1, FALSE) = {} /\ blamed # {}
        /\ \E i \in blamed : (\A j \in blamed : i <= j) /\ step = history[i].step
    BY <1>4 DEF Blames
  <2>3. (ended' /\ k = Len(history')) <=> last
    BY <1>4
  <2> HIDE DEF last
  <2>4. QED BY <1>4, <2>1, <2>2, <2>3 DEF BlamesArmingStep
<1> QED BY <1>3, <1>4

\* The end of the run leaves the verdict and the blame the properties ask for.
LEMMA TrackFinalized ==
  ASSUME TypeInv, TrackInv, Finalize
  PROVE  TrackInv'
<1> DEFINE n == Len(history)
           failed == FinallyViolated(pending)
<1>1. /\ ~ ended /\ ended' = TRUE
      /\ verdict' = IF verdict = "violated" \/ failed # 0 THEN "violated" ELSE "holds"
      /\ violation' = IF failed # 0 THEN pending[failed].origin ELSE violation
      /\ authored' = authored /\ history' = history
  BY DEF Finalize, FinallyViolated
<1>2. ValuesAt(Len(history), TRUE)' = ValuesAt(n, TRUE)
  BY <1>1, EndIs
<1>3. FinalVerdictIsTruth' <=> (verdict' = "violated" <=> "violated" \in ValuesAt(n, TRUE))
  BY <1>1, <1>2 DEF FinalVerdictIsTruth
<1>4. CASE verdict = "violated"
  <2>1. pending = <<>> /\ Convicted(history, violation)
    BY <1>1, <1>4 DEF TrackInv
  <2>2. failed = 0
    <3>1. Len(pending) = 0 /\ pending \in Seq(Obligation)
      BY <2>1
    <3>2. failed = 0 \/ failed \in 1 .. Len(pending)
      BY <3>1, FinallyViolatedIs
    <3> HIDE DEF failed
    <3> QED BY <3>1, <3>2
  <2> HIDE DEF failed
  <2>3. verdict' = "violated" /\ violation' = violation
    BY <1>1, <1>4, <2>2
  <2>4. "violated" \in ValuesAt(n, TRUE)
    BY <2>1, ConvictedBlames
  <2>5. PICK k \in 1 .. n : \A over : Blames(k, over, violation)
    BY <2>1, ConvictedBlames
  <2>6. Blames(k, k = n, violation)
    BY <2>5
  <2>7. BlamesArmingStep'
    BY <1>1, <2>3, <2>6, EndIs
  <2> QED BY <1>1, <1>3, <2>3, <2>4, <2>7 DEF TrackInv
<1>5. CASE verdict # "violated"
  <2>1. /\ failed # 0 <=> "violated" \in ValuesAt(n, TRUE)
        /\ failed # 0 => n \in 1 .. n /\ Blames(n, TRUE, pending[failed].origin)
    BY <1>1, <1>5, Closing
  <2> HIDE DEF failed
  <2>2. FinalVerdictIsTruth'
    BY <1>1, <1>3, <1>5, <2>1
  <2>3. BlamesArmingStep'
    <3>1. CASE failed = 0
      <4>1. verdict' = "holds"
        BY <1>1, <1>5, <3>1
      <4> QED BY <4>1 DEF BlamesArmingStep
    <3>2. CASE failed # 0
      <4>1. n \in 1 .. n /\ Blames(n, n = Len(history), pending[failed].origin)
        <5>1. (n = Len(history)) = TRUE
          OBVIOUS
        <5> QED BY <2>1, <3>2, <5>1
      <4>2. violation' = pending[failed].origin
        BY <1>1, <3>2
      <4> QED BY <1>1, <4>1, <4>2, EndIs
    <3> QED BY <3>1, <3>2
  <2> QED BY <1>1, <2>2, <2>3 DEF TrackInv
<1> QED BY <1>4, <1>5

\* The invariant survives every step.
LEMMA TrackStep ==
  ASSUME WholeWindows
  PROVE  TypeInv /\ TrackInv /\ [Next]_vars => TrackInv'
<1> SUFFICES ASSUME TypeInv, TrackInv, [Next]_vars PROVE TrackInv'
  OBVIOUS
<1>1. CASE ObserveAny
  <2>1. PICK gap \in Gaps, atoms \in [AtomsOf[authored] -> {"true", "false", "throws"}] :
          Observe(gap, atoms)
    BY <1>1 DEF ObserveAny
  <2> QED BY <2>1, TrackObserved
<1>2. CASE Finalize
  BY <1>2, TrackFinalized
<1>3. CASE UNCHANGED vars
  <2>1. /\ authored' = authored /\ history' = history /\ pending' = pending /\ verdict' = verdict
        /\ violation' = violation /\ ended' = ended
    BY <1>3 DEF vars
  <2>2. CASE ~ ended
    <3>1. Tracked(history, pending) => Tracked(history, pending)'
      BY <2>1 DEF Tracked, Arms, Asserted
    <3>2. Unbroken(history) => Unbroken(history)'
      BY <2>1 DEF Unbroken, Arms, Asserted
    <3>3. Convicted(history, violation) => Convicted(history, violation)'
      BY <2>1, ConvictedNext
    <3> QED BY <2>1, <2>2, <3>1, <3>2, <3>3 DEF TrackInv
  <2>3. CASE ended
    <3>1. FinalVerdictIsTruth /\ BlamesArmingStep
      BY <2>3 DEF TrackInv
    <3>2. FinalVerdictIsTruth'
      <4>1. ValuesAt(Len(history), TRUE)' = ValuesAt(Len(history), TRUE)
        BY <2>1, EndIs
      <4> QED BY <2>1, <3>1, <4>1 DEF FinalVerdictIsTruth
    <3>3. BlamesArmingStep'
      <4>1. verdict = "violated" => \E k \in 1 .. Len(history) : Blames(k, k = Len(history), violation)
        BY <2>3, <3>1 DEF BlamesArmingStep, Blames, Violated
      <4>2. CASE verdict = "violated"
        <5>1. PICK k \in 1 .. Len(history) : Blames(k, k = Len(history), violation)
          BY <4>1, <4>2
        <5> QED BY <2>1, <2>3, <5>1, EndIs
      <4>3. CASE verdict # "violated"
        BY <2>1, <4>3 DEF BlamesArmingStep
      <4> QED BY <4>2, <4>3
    <3> QED BY <2>1, <2>3, <3>2, <3>3 DEF TrackInv
  <2> QED BY <2>2, <2>3 DEF TypeInv
<1> QED BY <1>1, <1>2, <1>3 DEF Next

\* The two invariants hold of every behaviour.
THEOREM EvaluatorInvariant ==
  ASSUME WholeWindows
  PROVE  Spec => [](TypeInv /\ TrackInv)
<1>1. Init => TypeInv /\ TrackInv
  BY TypeInit, TrackInit
<1>2. TypeInv /\ TrackInv /\ [Next]_vars => (TypeInv /\ TrackInv)'
  BY TypeStep, TrackStep
<1> QED BY <1>1, <1>2, PTL DEF Spec

\* Reducing step by step, merging equal residuals and forgetting decided ones, reports at each
\* observation exactly what the observations so far decide, for any properties, windows of a
\* whole number of steps or seconds, outcomes and timings (ObserveAtStep).
THEOREM ReportsTheTruth ==
  ASSUME WholeWindows
  PROVE  Spec => []VerdictIsTruth
<1>1. TypeInv /\ TrackInv => VerdictIsTruth
  <2>1. ended => VerdictIsTruth
    BY DEF VerdictIsTruth
  <2> QED BY <2>1, OpenVerdict
<1> QED BY <1>1, EvaluatorInvariant, PTL

\* The end of a run violates exactly the properties that no continuation could keep (Finalize).
THEOREM EndsWithTheTruth ==
  ASSUME WholeWindows
  PROVE  Spec => []FinalVerdictIsTruth
<1>1. TypeInv /\ TrackInv => FinalVerdictIsTruth
  BY DEF TrackInv, FinalVerdictIsTruth
<1> QED BY <1>1, EvaluatorInvariant, PTL

\* The witness of a violation is the earliest step whose own obligation failed first, however
\* many later steps owed the same and were merged with it (collapse, Violation).
THEOREM BlamesTheFirst ==
  ASSUME WholeWindows
  PROVE  Spec => []BlamesArmingStep
<1>1. TypeInv /\ TrackInv => BlamesArmingStep
  <2>1. TrackInv /\ ended => BlamesArmingStep
    BY DEF TrackInv
  <2> QED BY <2>1, OpenVerdict
<1> QED BY <1>1, EvaluatorInvariant, PTL
=============================================================================
