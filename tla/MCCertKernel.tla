---------------------------- MODULE MCCertKernel ----------------------------
(***************************************************************************)
(* An instance of Certification over two quantities: bounds that touch, cross    *)
(* or miss, with coefficients of either sign, equations, disjunctions, the     *)
(* empty one, and constraints without variables.                             *)
(***************************************************************************)
EXTENDS Certification

L(a, b, rel, n) == Atom((1 :> Int2Rat(a) @@ 2 :> Int2Rat(b)), rel, Int2Rat(n))
Above == L(1, 0, "gt", 2)
Below == L(1, 0, "le", 2)
Least == L(2, 0, "ge", 3)
Flipped == L(-2, 0, "gt", -3)
Equal == L(1, 0, "eq", 1)
Differ == L(1, 0, "ne", 1)
Joint == L(1, 1, "le", 1)
Up == L(0, 1, "ge", 1)
Either == Or(<<L(1, 0, "lt", 1), L(0, 1, "gt", 0)>>)
Mixed == And(<<Above, Either>>)
Nothing == Or(<<>>)
MCCuts == {Above, Least, Flipped, Equal, Differ, Joint, Up, Either, Mixed, Nothing, L(0, 0, "lt", 0)}
Smaller == L(1, -1, "le", 0)
MCFacts == {Smaller, L(-1, 1, "le", 0)}
MCPremises == {<<Above, Below>>, <<Above, Either>>}
Coordinate == {Ratio(n, 4) : n \in -10..14}
MCPoints == [1..2 -> Coordinate]

\* Every formula above with its parts and the bounds it is split into.
Bounds(f) == IF f.f = "atom" THEN {f} \cup {Retagged(f, r) : r \in Bounding} \cup {AsSplit(f)} ELSE {f}
Within(f) == {f} \cup IF f.f \in {"and", "or"} THEN Range(f.parts) ELSE {}
Asserted == MCCuts \cup MCFacts \cup UNION {Range(p) : p \in MCPremises}
MCFormulas == UNION {Bounds(f) : f \in UNION {Within(g) : g \in UNION {Within(h) : h \in Asserted}}}
=============================================================================
