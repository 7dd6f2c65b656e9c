------------------------------ MODULE Interval ------------------------------
(***************************************************************************)
(* The interval layer (adl-analysis/src/interval.rs): the bounds that the    *)
(* conjuncts of a region's superset put on single quantities.  Two regions   *)
(* whose bounds on a quantity do not meet have no event in common, which is   *)
(* claimed without a solver and without axioms.                             *)
(***************************************************************************)
EXTENDS Formula

\* IntervalMap::spine: the atoms reached without crossing a disjunction.
RECURSIVE Spine(_)
Spine(f) == IF f.f = "and" THEN UNION {Spine(f.parts[i]) : i \in DOMAIN f.parts}
            ELSE IF f.f \in {"atom", "false"} THEN {f} ELSE {}

\* Mutant: a negative coefficient does not turn the comparison around.
BoundsOfUnflipped(atom) ==
    LET q == CHOOSE x \in DOMAIN atom.terms : TRUE
        side == IF atom.rel \in {"lt", "le"} THEN "hi" ELSE "lo"
    IN  IF atom.rel = "ne" THEN {}
        ELSE {[q |-> q, side |-> side, strict |-> atom.rel \in {"lt", "gt"},
               value |-> RatDiv(atom.k, atom.terms[q])]}

\* One atom c.q rel k as the bounds it sets on q.
BoundsOf(atom) ==
    LET q == CHOOSE x \in DOMAIN atom.terms : TRUE
        c == atom.terms[q]
        rel == IF RatSign(c) < 0 THEN FlipOp(atom.rel) ELSE atom.rel
        b(side, strict) == [q |-> q, side |-> side, strict |-> strict, value |-> RatDiv(atom.k, c)]
    IN  CASE rel \in {"lt", "le"} -> {b("hi", rel = "lt")}
          [] rel \in {"gt", "ge"} -> {b("lo", rel = "gt")}
          [] rel = "eq" -> {b("lo", FALSE), b("hi", FALSE)}
          [] rel = "ne" -> {}

\* IntervalMap: the bounds of a superset, and whether it is constant false.
IntervalMap(over) ==
    LET atoms == {f \in Spine(over) : f.f = "atom"}
    IN  [falsified |-> FalseF \in Spine(over),
         bounds |-> UNION {BoundsOf(a) : a \in {x \in atoms : Cardinality(DOMAIN x.terms) = 1}}]

\* tighten_lo, tighten_hi, tightest: the greatest lower or least upper bound, the
\* strict one of two equal ones.
Tightest(side, bs) ==
    LET mine == {b \in bs : b.side = side}
        tighter(x, y) == \/ IF side = "lo" THEN RatLess(y.value, x.value) ELSE RatLess(x.value, y.value)
                         \/ x.value = y.value /\ x.strict
    IN  {b \in mine : \A o \in mine \ {b} : tighter(b, o)}

\* Iv::refutation: no value satisfies both.
Refuted(q, bs) ==
    LET on == {b \in bs : b.q = q}
    IN  \E lo \in Tightest("lo", on), hi \in Tightest("hi", on) :
            \/ RatLess(hi.value, lo.value)
            \/ hi.value = lo.value /\ (lo.strict \/ hi.strict)

SelfEmpty(map) == map.falsified \/ \E b \in map.bounds : Refuted(b.q, map.bounds)

\* pins_present: the map says that the event has the quantity.
PinsPresent(map, q) == \E b \in Tightest("lo", {x \in map.bounds : x.q = Present(q)}) :
                          RatLeq(Int2Rat(1), b.value)

\* disjoint_with, told by its caller which of them an event may lack.
DisjointWith(m1, m2, absentable) ==
    \E q \in {b.q : b \in m1.bounds} \cap {b.q : b \in m2.bounds} :
        /\ Refuted(q, m1.bounds \cup m2.bounds)
        /\ q \in absentable => PinsPresent(m1, q) /\ PinsPresent(m2, q)
=============================================================================
