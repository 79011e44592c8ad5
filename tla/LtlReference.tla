---------------------------- MODULE LtlReference ----------------------------
(***************************************************************************)
(* What a verdict means, said without residuals: the three-valued value of *)
(* a formula on the observations made so far, and the properties that hold *)
(* the evaluator of Ltl to it.  The values are the words of a verdict.     *)
(***************************************************************************)
EXTENDS Ltl

Some(values) == CASE "holds" \in values -> "holds"
                  [] "holds" \notin values /\ "pending" \in values -> "pending"
                  [] OTHER -> "violated"

\* The places a formula is judged at: an observation, the last one known, and whether
\* no other follows.
Place == [at : Nat, upto : Nat, over : BOOLEAN]

\* The observations of h, from place p on, at which the window of f is closed.
ClosedFrom(h, f, p) ==
  {j \in p.at .. p.upto :
     \/ f.unit = "steps" /\ 2 * (j - p.at + 1) >= f.halves
     \/ f.unit = "seconds" /\ h[j].now - h[p.at].now >= f.halves}

\* The value at p of a promise, kept at the first place where truth holds; closed are the
\* observations its window is closed at, of which the first asks for what is true there
\* and then.
Promise(truth, closed, p) ==
  LET before == {j \in p.at .. p.upto : \A c \in closed : j < c}
      atClose == {j \in closed : \A c \in closed : j <= c}
      Then(j) == truth[[at |-> j, upto |-> j, over |-> FALSE]]
  IN  Some({truth[[p EXCEPT !.at = j]] : j \in before}
             \cup {IF Then(j) = "holds" THEN "holds" ELSE "violated" : j \in atClose}
             \cup {IF closed # {} \/ p.over THEN "violated" ELSE "pending"})

Denied(truth) == [p \in Place |-> Opposite[truth[p]]]

\* The value of authored formula f at place p of the observations h, from those of its parts.
Meaning(h, f, value, p) ==
  CASE f.op = "now" -> value[f.inner][p]
    [] f.op = "not" -> Opposite[value[f.inner][p]]
    [] f.op = "or" -> Some({value[f.left][p], value[f.right][p]})
    [] f.op = "and" -> Opposite[Some({Opposite[value[f.left][p]], Opposite[value[f.right][p]]})]
    [] f.op = "implies" -> Some({Opposite[value[f.left][p]], value[f.right][p]})
    [] f.op = "eventually" -> Promise(value[f.inner], ClosedFrom(h, f, p), p)
    [] f.op = "always" -> Opposite[Promise(Denied(value[f.inner]), {}, p)]
    [] f.op = "next" -> IF p.at > p.upto THEN "pending"
                        ELSE value[f.inner][[p EXCEPT !.at = @ + 1]]
    [] f.op = "pure" -> CASE p.at > p.upto /\ ~p.over -> "pending"
                          [] ~(p.at > p.upto /\ ~p.over) /\ f.value -> "holds"
                          [] OTHER -> "violated"
    [] f.op = "thunk" -> CASE p.at > p.upto -> "pending"
                           [] p.at <= p.upto /\ h[p.at].atoms[f.atom] = "true" -> "holds"
                           [] OTHER -> "violated"
ValueOf(h, f) ==
  LET value[g \in Property] == [p \in Place |-> Meaning(h, g, value, p)]
  IN  value[f]

Value(f, i, k, over) == ValueOf(history, f)[[at |-> i, upto |-> k, over |-> over]]

\* The observations the property is asserted at, and the formula asserted there.
Arms(k) == IF authored.op = "eventually" THEN {1} \cap 1 .. k ELSE 1 .. k
Asserted == IF authored.op = "always" THEN authored.inner ELSE authored

ValuesAt(k, over) == {Value(Asserted, i, k, over) : i \in Arms(k)}

----------------------------------------------------------------------------
(* Properties.                                                             *)

\* Negation only ever stands before a predicate: the evaluator carries no negated
\* temporal obligation, which it could not reduce step by step (nnf.go:3-7).
NormalNode(f, normal) ==
  CASE f.op \in {"pure", "thunk"} -> TRUE
    [] f.op = "not" -> f.inner.op = "thunk"
    [] f.op \in {"and", "or"} -> normal[f.left] /\ normal[f.right]
    [] f.op \in {"now", "next"} \cup TemporalOps -> normal[f.inner]
    [] f.op = "implies" -> FALSE
InNormalForm[f \in Formula] == NormalNode(f, InNormalForm)

\* The state has the shapes the code gives it: the obligations carried are in normal
\* form and blame a step that was observed (Evaluator, evaluator.go:36-59).
TypeOK ==
  /\ verdict \in {"holds", "pending", "violated"}
  /\ observations \in 0 .. Len(history) /\ armed \in BOOLEAN /\ ended \in BOOLEAN
  /\ violation \in 0 .. steps
  /\ \A o \in Range(pending) : InNormalForm[o.formula] /\ o.origin \in 1 .. steps

\* Reducing step by step with residuals, merging equal ones and forgetting decided ones,
\* reports at each observation exactly what the observations so far decide: a violation
\* as soon as it is certain and never before (ObserveAtStep and reduce, evaluator.go).
VerdictIsTruth ==
  ~ended =>
    LET values == ValuesAt(Len(history), FALSE)
    IN  verdict = CASE "violated" \in values -> "violated"
                    [] "violated" \notin values /\ "pending" \in values -> "pending"
                    [] OTHER -> "holds"

\* The end of the run breaks exactly the promises that no continuation can keep: a goal
\* never reached is violated, a check of a state that never came is not (Finalize).
FinalVerdictIsTruth ==
  ended => (verdict = "violated" <=> "violated" \in ValuesAt(Len(history), TRUE))

\* The witness names the earliest step whose own obligation failed first, in the caller's
\* numbering, however many later steps owed the same and were merged with it (collapse).
BlamesArmingStep ==
  verdict = "violated" =>
    \E k \in 1 .. Len(history) :
      LET over == ended /\ k = Len(history)
          failed(n, o) == {i \in Arms(n) : Value(Asserted, i, n, o) = "violated"}
          online == failed(k, FALSE)
          blamed == IF online = {} /\ over THEN failed(k, TRUE) ELSE online
      IN  /\ failed(k - 1, FALSE) = {} /\ blamed # {}
          /\ \E i \in blamed : (\A j \in blamed : i <= j) /\ violation = history[i].step

\* A predicate that throws is recorded as a violation like any other (ci.md:48), of the
\* step that called it: a property never holds over a predicate that had no value.
ThrowConvicts ==
  (\E obs \in Range(history) : \E x \in DOMAIN obs.atoms : obs.atoms[x] = "throws")
    => verdict = "violated"

\* .within convicts at the observation its window closes (pkg/spec/src/ltl.ts:17-18).
ClosedWindowDecides ==
  (/\ authored.op = "eventually" /\ ~ended
   /\ ClosedFrom(history, authored, [at |-> 1, upto |-> Len(history), over |-> FALSE]) # {})
    => verdict # "pending"
=============================================================================
