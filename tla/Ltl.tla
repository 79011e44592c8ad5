-------------------------------- MODULE Ltl --------------------------------
(***************************************************************************)
(* The evaluator of one property: internal/ltl (evaluator.go, nnf.go), and *)
(* the building of its formula from the one a spec's author wrote          *)
(* (internal/verifier).                                                    *)
(*                                                                         *)
(* A formula is a record; a predicate is an atom whose outcome each        *)
(* observation chooses, so every sequence of app states is considered.     *)
(* Time is counted in half seconds, which is fine enough for an author to  *)
(* write a window that is not a whole number of seconds.                   *)
(***************************************************************************)
EXTENDS Integers, Sequences, SequencesExt

CONSTANTS
  Roots,           \* the properties considered, as authored
  Depth,           \* bound on how deep they nest
  Bounds,          \* what .within is called with: a unit, and an amount in its halves
  Outcomes,        \* per atom, what its predicate may do: "true", "false", "throws"
  Gaps,            \* how far the step label and the clock may move between observations
  MaxObservations  \* bound on the observations of a run

VARIABLES
  authored,   \* the property as the spec's author wrote it
  root, armed, pending, verdict,
  violation,  \* Violation().Step, 0 when there is none
  steps,      \* the label of the last observation
  observations,
  history,    \* history: the observations made, [step, now, atoms]
  ended       \* Finalize has been called

vars == <<authored, root, armed, pending, verdict, violation, steps,
          observations, history, ended>>

----------------------------------------------------------------------------
(* Formulas.  An authored eventually carries the window of .within as a unit*)
(* and an amount in halves of that unit; a built one carries the bound the  *)
(* evaluator keeps, and once reduced the observation or instant it closes.  *)

Thunk(a) == [op |-> "thunk", atom |-> a]
Pure(b) == [op |-> "pure", value |-> b]
Unary(op, f) == [op |-> op, inner |-> f]
Binary(op, f, g) == [op |-> op, left |-> f, right |-> g]
Eventually(f, unit, halves) ==
  [op |-> "eventually", inner |-> f, unit |-> unit, halves |-> halves]

Unresolved == -1
Temporal(op, f, unit, amount, closes) ==
  [op |-> op, inner |-> f, unit |-> unit, amount |-> amount, closes |-> closes]

UnaryOps == {"not", "now", "next"}
BinaryOps == {"and", "or", "implies"}
TemporalOps == {"eventually", "always"}
Units == {"none", "steps", "seconds"}

\* The formulas one operator away from those of parts: of an author, and of the
\* evaluator.
Leaves == [op : {"thunk"}, atom : DOMAIN Outcomes] \cup [op : {"pure"}, value : BOOLEAN]
Joined(parts) ==
  [op : UnaryOps, inner : parts] \cup [op : BinaryOps, left : parts, right : parts]
Authoring(parts) ==
  Leaves \cup Joined(parts) \cup [op : {"always"}, inner : parts]
         \cup {f \in [op : {"eventually"}, inner : parts, unit : Units, halves : Nat] :
                 [unit |-> f.unit, halves |-> f.halves] \in Bounds}
Building(parts) ==
  Leaves \cup Joined(parts)
         \cup [op : TemporalOps, inner : parts, unit : Units, amount : Nat,
               closes : Nat \cup {Unresolved}]

Authored[depth \in Nat] == IF depth = 0 THEN Leaves ELSE Authoring(Authored[depth - 1])
Built[depth \in Nat] == IF depth = 0 THEN Leaves ELSE Building(Built[depth - 1])

\* One operator is put around a property that is not temporal, and an observation
\* adds one at most to a residual.
Property == Authored[Depth]
Formula == Built[Depth + MaxObservations + 3]

ASSUME DepthAssumption == Depth \in Nat /\ MaxObservations \in Nat
ASSUME BoundsAssumption == Bounds \subseteq [unit : Units, halves : Nat]
ASSUME RootsAssumption == Roots \subseteq Property
ASSUME GapsAssumption == Gaps \subseteq [steps : Nat \ {0}, halves : Nat]

\* .within(amount, unit) takes the integer part of its argument, and a duration
\* of zero is no bound at all.
Window(unit, halves) ==
  CASE unit = "seconds" -> LET duration == 2 * (halves \div 2)
                           IN  [unit |-> IF duration > 0 THEN "seconds" ELSE "none",
                                amount |-> duration]
    [] unit = "steps" -> [unit |-> "steps", amount |-> halves \div 2]
    [] unit = "none" -> [unit |-> "none", amount |-> 0]

\* A recursion over formulas is a function, and what it does with one formula an
\* operator on that function.
Node(f, build) ==
  CASE f.op \in {"thunk", "pure"} -> f
    [] f.op \in UnaryOps -> Unary(f.op, build[f.inner])
    [] f.op \in BinaryOps -> Binary(f.op, build[f.left], build[f.right])
    [] f.op = "always" -> Temporal("always", build[f.inner], "none", 0, Unresolved)
    [] f.op = "eventually" ->
         LET w == Window(f.unit, f.halves)
         IN  Temporal("eventually", build[f.inner], w.unit, w.amount, Unresolved)
BuildNode[f \in Property] == Node(f, BuildNode)

\* A property that is not already temporal is meant at every step.
Build(f) == IF f.op \in TemporalOps THEN BuildNode[f]
            ELSE Temporal("always", BuildNode[f], "none", 0, Unresolved)

----------------------------------------------------------------------------
(* Negation normal form.                                                   *)

Dual == [and |-> "or", or |-> "and", always |-> "eventually", eventually |-> "always"]

\* nnf and pushNot: the normal form of f, and that of its negation, worked out from
\* those of its parts.  A bound survives the dualization.
ImpliesDeferred(f, left, right) == Binary("or", Unary("not", f.left), right.nnf)
ImpliesRewritten(f, left, right) == Binary("or", left.pushNot, right.nnf)
Forms(f, normal) ==
  LET inner == normal[f.inner]
      left == normal[f.left]
      right == normal[f.right]
      Around(op, g) == Temporal(op, g, f.unit, f.amount, f.closes)
  IN CASE f.op = "pure" -> [nnf |-> f, pushNot |-> Pure(~f.value)]
       [] f.op = "thunk" -> [nnf |-> f, pushNot |-> Unary("not", f)]
       [] f.op = "not" -> [nnf |-> inner.pushNot, pushNot |-> inner.nnf]
       [] f.op = "implies" -> [nnf |-> ImpliesRewritten(f, left, right),
                               pushNot |-> Binary("and", left.nnf, right.pushNot)]
       [] f.op \in {"and", "or"} -> [nnf |-> Binary(f.op, left.nnf, right.nnf),
                                     pushNot |-> Binary(Dual[f.op], left.pushNot, right.pushNot)]
       [] f.op \in {"now", "next"} -> [nnf |-> Unary(f.op, inner.nnf),
                                       pushNot |-> Unary(f.op, inner.pushNot)]
       [] f.op \in TemporalOps -> [nnf |-> Around(f.op, inner.nnf),
                                   pushNot |-> Around(Dual[f.op], inner.pushNot)]
Normal[f \in Formula] == Forms(f, Normal)

----------------------------------------------------------------------------
(* Reduction of one obligation against one observation.                    *)

Done(status) == [status |-> status, formula |-> Pure(TRUE)]
Pending(f) == [status |-> "pending", formula |-> f]

\* Both sides pending stay joined; otherwise the side that decides, or the one left.
JoinOr(l, r) ==
  CASE "holds" \in {l.status, r.status} -> Done("holds")
    [] l.status = "violated" /\ r.status # "holds" -> r
    [] l.status = "pending" /\ r.status = "violated" -> l
    [] l.status = "pending" /\ r.status = "pending" -> Pending(Binary("or", l.formula, r.formula))
JoinAnd(l, r) ==
  CASE "violated" \in {l.status, r.status} -> Done("violated")
    [] l.status = "holds" /\ r.status # "violated" -> r
    [] l.status = "pending" /\ r.status = "holds" -> l
    [] l.status = "pending" /\ r.status = "pending" -> Pending(Binary("and", l.formula, r.formula))
Negate(r) ==
  CASE r.status = "holds" -> Done("violated")
    [] r.status = "violated" -> Done("holds")
    [] OTHER -> Pending(Unary("not", r.formula))

\* Where an unresolved window closes, counted from the observation that reduces it
\* first: the index of an observation, or an instant.
ClosesInLabels(f, obs) == obs.step + f.amount - 1
ClosesInObservations(f, obs) == obs.index + f.amount - 1
Resolve(f, obs) ==
  IF f.closes # Unresolved \/ f.unit = "none" THEN f
  ELSE [f EXCEPT !.closes = IF f.unit = "steps" THEN ClosesInObservations(f, obs)
                            ELSE obs.now + f.amount]
HasClosed(f, obs) ==
  \/ f.unit = "steps" /\ obs.index >= f.closes
  \/ f.unit = "seconds" /\ obs.now >= f.closes

\* What an open eventually leaves behind: a pending inner is a deferred way of
\* keeping the promise.
Unroll(f, inner) ==
  IF inner.status = "pending" THEN Pending(Binary("or", inner.formula, f)) ELSE Pending(f)

\* The normal form has no implication; one reduces as the disjunction it stands for.
Reduction(f, obs, reduce) ==
  CASE f.op = "pure" -> Done(IF f.value THEN "holds" ELSE "violated")
    [] f.op = "thunk" -> Done(IF obs.atoms[f.atom] = "true" THEN "holds" ELSE "violated")
    [] f.op = "now" -> reduce[f.inner]
    [] f.op = "next" -> Pending(f.inner)
    [] f.op = "not" -> Negate(reduce[f.inner])
    [] f.op = "or" -> JoinOr(reduce[f.left], reduce[f.right])
    [] f.op = "and" -> JoinAnd(reduce[f.left], reduce[f.right])
    [] f.op = "implies" -> JoinOr(Negate(reduce[f.left]), reduce[f.right])
    [] f.op = "eventually" ->
         LET g == Resolve(f, obs)
             inner == reduce[f.inner]
         IN  CASE inner.status = "holds" -> Done("holds")
               [] inner.status # "holds" /\ HasClosed(g, obs) -> Done("violated")
               [] OTHER -> Unroll(g, inner)
    [] f.op = "always" ->
         LET g == Resolve(f, obs)
             inner == reduce[f.inner]
         IN  CASE inner.status = "violated" -> Done("violated")
               [] inner.status # "violated" /\ HasClosed(g, obs) -> Done("holds")
               [] OTHER -> JoinAnd(inner, Pending(g))
Reduce(f, obs) ==
  LET reduce[g \in Formula] == Reduction(g, obs, reduce)
  IN  reduce[f]

\* What a residual is worth when no observation follows.  A predicate or a next has
\* no state left to be checked against, which breaks nothing.
Opposite == [holds |-> "violated", violated |-> "holds", pending |-> "pending"]
DeferralBroken == "violated"
DeferredCheck == "pending"
Finality(f, final) ==
  CASE f.op = "pure" -> IF f.value THEN "holds" ELSE "violated"
    [] f.op \in {"thunk", "next"} -> DeferredCheck
    [] f.op = "eventually" -> "violated"
    [] f.op = "always" -> "holds"
    [] f.op = "now" -> final[f.inner]
    [] f.op = "not" -> Opposite[final[f.inner]]
    [] f.op \in BinaryOps ->
         LET left == IF f.op = "implies" THEN Opposite[final[f.left]] ELSE final[f.left]
             sides == {left, final[f.right]}
             decides == IF f.op = "and" THEN "violated" ELSE "holds"
         IN  CASE decides \in sides -> decides
               [] decides \notin sides /\ "pending" \in sides -> "pending"
               [] OTHER -> Opposite[decides]
FinalStatus[f \in Formula] == Finality(f, FinalStatus)

----------------------------------------------------------------------------
(* The evaluator.                                                          *)

StillPending(obligations) ==
  FoldLeft(LAMBDA kept, o : IF o.status = "pending" THEN Append(kept, o) ELSE kept,
           <<>>, obligations)

\* Equal residuals reduce alike for ever, so the earliest speaks for all of them.
LatestSpeaks(obligations) ==
  FoldLeft(LAMBDA kept, o : Append(SelectSeq(kept, LAMBDA k : k.formula # o.formula), o),
           <<>>, obligations)
Collapse(obligations) ==
  FoldLeft(LAMBDA kept, o : IF \E k \in Range(kept) : k.formula = o.formula
                            THEN kept ELSE Append(kept, o),
           <<>>, obligations)

\* A root with a horizon of its own is armed once, any other at each observation.
OneShot(f) == f.op = "eventually" \/ (f.op = "always" /\ f.unit # "none")
Instance(f) == IF f.op = "always" /\ ~OneShot(f) THEN f.inner ELSE f

Init ==
  /\ authored \in Roots
  /\ root = Normal[Build(authored)].nnf
  /\ armed = FALSE
  /\ pending = <<>>
  /\ verdict = "holds"
  /\ violation = 0
  /\ steps = 0
  /\ observations = 0
  /\ history = <<>>
  /\ ended = FALSE

Advance(o, obs) == LET r == Reduce(o.formula, obs)
                   IN  [status |-> r.status, formula |-> r.formula, origin |-> o.origin]

\* The first violated obligation is the witness.
FirstViolated(obligations) == SelectInSeq(obligations, LAMBDA o : o.status = "violated")

\* ObserveAtStep.  A violated evaluator looks at nothing any more.
Observe(gap, atoms) ==
  LET previous == IF history = <<>> THEN [step |-> 0, now |-> 0] ELSE Last(history)
      seen == [step |-> previous.step + gap.steps, now |-> previous.now + gap.halves,
               atoms |-> atoms]
      obs == [index |-> observations + 1, now |-> seen.now, step |-> seen.step, atoms |-> atoms]
      fresh == IF OneShot(root) /\ armed THEN <<>>
               ELSE <<[status |-> "pending", formula |-> Instance(root), origin |-> seen.step]>>
      reduced == LET obligations == pending \o fresh
                 IN  [i \in DOMAIN obligations |-> Advance(obligations[i], obs)]
      failed == FirstViolated(reduced)
      left == Collapse(StillPending(reduced))
  IN  /\ ~ended /\ Len(history) < MaxObservations
      /\ history' = Append(history, seen)
      /\ IF verdict = "violated"
         THEN UNCHANGED <<armed, pending, verdict, violation, steps, observations>>
         ELSE /\ steps' = seen.step
              /\ observations' = obs.index
              /\ armed' = TRUE
              /\ pending' = IF failed # 0 THEN <<>> ELSE left
              /\ verdict' = CASE failed # 0 -> "violated"
                              [] failed = 0 /\ left # <<>> -> "pending"
                              [] OTHER -> "holds"
              /\ violation' = IF failed # 0 THEN reduced[failed].origin ELSE 0
      /\ UNCHANGED <<authored, root, ended>>

\* The verdict of the run: what is still open is judged as if nothing followed.
Finalize ==
  LET failed == SelectInSeq(pending, LAMBDA o : FinalStatus[o.formula] = "violated")
  IN  /\ ~ended
      /\ ended' = TRUE
      /\ verdict' = IF verdict = "violated" \/ failed # 0 THEN "violated" ELSE "holds"
      /\ violation' = IF failed # 0 THEN pending[failed].origin ELSE violation
      /\ pending' = IF failed # 0 THEN <<>> ELSE pending
      /\ UNCHANGED <<authored, root, armed, steps, observations, history>>

\* The atoms of a property, so that an observation chooses no outcome it ignores.
AtomsOf[f \in Property] ==
  CASE f.op = "thunk" -> {f.atom}
    [] f.op = "pure" -> {}
    [] f.op \in BinaryOps -> AtomsOf[f.left] \cup AtomsOf[f.right]
    [] OTHER -> AtomsOf[f.inner]

ObserveAny ==
  \E gap \in Gaps :
    \E atoms \in [AtomsOf[authored] -> {"true", "false", "throws"}] :
      /\ \A x \in DOMAIN atoms : atoms[x] \in Outcomes[x]
      /\ Observe(gap, atoms)

Next == ObserveAny \/ Finalize

Spec == Init /\ [][Next]_vars
=============================================================================
