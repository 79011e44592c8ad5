------------------------------- MODULE MCLtl -------------------------------
(***************************************************************************)
(* Ltl over the formulas with up to three temporal operators over one      *)
(* predicate, or a connective of two predicates.  Those a spec can write   *)
(* (bindings.go lets now, next and eventually take a predicate only) are   *)
(* among them; the others are what the evaluator's own constructors and its*)
(* tests nest.  A step the verifier skipped moves the label by two and the *)
(* clock by one and a half seconds, any other by one and by half a second. *)
(***************************************************************************)
EXTENDS LtlReference

p == Thunk("p")
q == Thunk("q")

MCBounds == {[unit |-> "none", halves |-> 0], [unit |-> "steps", halves |-> 2],
             [unit |-> "steps", halves |-> 4], [unit |-> "seconds", halves |-> 2]}
FractionalBounds == {[unit |-> "seconds", halves |-> 1], [unit |-> "seconds", halves |-> 2]}
MCOutcomes == [p |-> {"true", "false"}, q |-> {"true", "throws"}]
MCGaps == {[steps |-> 1, halves |-> 1], [steps |-> 2, halves |-> 3]}
OneGap == {[steps |-> 1, halves |-> 1]}

Always(f) == Unary("always", f)
Windows(f) == {Eventually(f, b.unit, b.halves) : b \in MCBounds}
Wrap(f) == {Unary("not", f), Unary("next", f), Always(f)} \cup Windows(f)
WrapAll(S) == UNION {Wrap(f) : f \in S}

Once == WrapAll({p})
Twice == WrapAll(Once)
Thrice == WrapAll({Eventually(Unary("next", p), "steps", 4),
                   Eventually(Unary("next", p), "seconds", 2),
                   Eventually(Unary("not", p), "none", 0),
                   Unary("not", Always(p)), Unary("next", Unary("next", p))})

Left == {p, Unary("now", p), Unary("next", p), Unary("not", p), Always(p),
         Eventually(p, "steps", 4)}
Right == {q, Unary("next", q), Eventually(q, "none", 0), Pure(FALSE)}
Connected == {Binary(op, f, g) : op \in BinaryOps, f \in Left, g \in Right}
Nested == WrapAll({Binary("implies", Unary("next", p), q), Binary("or", Unary("next", p), q),
                   Binary("and", p, Unary("next", q))})

MCRoots == {p, Pure(TRUE)} \cup Once \cup Twice \cup Thrice \cup Connected \cup Nested

FractionalRoots == {Eventually(p, b.unit, b.halves) : b \in FractionalBounds}
NegatedRoots == {q, Unary("not", q)}
=============================================================================
