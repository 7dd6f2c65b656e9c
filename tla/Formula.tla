------------------------------ MODULE Formula ------------------------------
(***************************************************************************)
(* The logic of the analysis (adl-formula/src/lin.rs, formula.rs): linear   *)
(* atoms over quantities, the four-sided Formula with its opaque parts, and *)
(* the two projections that make one of them a superset (Over) or a subset  *)
(* (Under) of the region it encodes.                                        *)
(***************************************************************************)
EXTENDS QFormula, SequencesExt

Unknown == [f |-> "unknown"]
Dual(plus, minus) == [f |-> "dual", plus |-> plus, minus |-> minus]

Single(q, rel, n) == Atom(q :> Int2Rat(1), rel, Int2Rat(n))
Present(q) == [q |-> "present", of |-> q]
IsPresence(f) == /\ f.f = "atom"
                 /\ \E q \in DOMAIN f.terms : DOMAIN f.terms = {q} /\ q.q = "present"

RECURSIVE Negated(_), Project(_, _), IsExact(_), Holds(_, _), Vars(_)

\* Formula::not: negation normal form; the two sides of a Dual change places.
Negated(f) ==
    CASE f.f = "true" -> FalseF
      [] f.f = "false" -> TrueF
      [] f.f = "atom" -> [f EXCEPT !.rel = NegOp(@)]
      [] f.f \in {"and", "or"} ->
           [f |-> IF f.f = "and" THEN "or" ELSE "and",
            parts |-> [i \in DOMAIN f.parts |-> Negated(f.parts[i])]]
      [] f.f = "unknown" -> f
      [] f.f = "dual" -> Dual(Negated(f.minus), Negated(f.plus))

\* Formula::project: what is unknown is true in the superset, false in the subset.
Project(over, f) ==
    CASE f.f \in {"true", "false", "atom"} -> f
      [] f.f \in {"and", "or"} ->
           [f EXCEPT !.parts = [i \in DOMAIN f.parts |-> Project(over, f.parts[i])]]
      [] f.f = "unknown" -> IF over THEN TrueF ELSE FalseF
      [] f.f = "dual" -> Project(over, IF over THEN f.plus ELSE f.minus)

Over(f) == Project(TRUE, f)
Under(f) == Project(FALSE, f)

IsExact(f) == \/ f.f \in {"true", "false", "atom"}
              \/ f.f \in {"and", "or"} /\ \A i \in DOMAIN f.parts : IsExact(f.parts[i])

(***************************************************************************)
(* What a projection says of an event, given the value every quantity takes *)
(* in it: the reading the solver gives it.                                  *)
(***************************************************************************)
Linear(terms, value) == FoldSet(LAMBDA q, sum : RatAdd(RatMul(terms[q], value[q]), sum),
                                Int2Rat(0), DOMAIN terms)

Holds(f, value) ==
    CASE f.f = "true" -> TRUE
      [] f.f = "false" -> FALSE
      [] f.f = "atom" -> CmpRat(f.rel, Linear(f.terms, value), f.k)
      [] f.f = "and" -> \A i \in DOMAIN f.parts : Holds(f.parts[i], value)
      [] f.f = "or" -> \E i \in DOMAIN f.parts : Holds(f.parts[i], value)

\* The quantities a formula mentions.
Vars(f) == CASE f.f = "atom" -> DOMAIN f.terms
             [] f.f \in {"and", "or"} -> UNION {Vars(f.parts[i]) : i \in DOMAIN f.parts}
             [] f.f = "dual" -> Vars(f.plus) \cup Vars(f.minus)
             [] OTHER -> {}
=============================================================================
