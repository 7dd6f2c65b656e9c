-------------------------- MODULE MCRegionEncoding --------------------------
(***************************************************************************)
(* Instances of RegionEncoding: statements that reach every branch of the    *)
(* encoder, over events that have, lack or tie on what they read; and those of *)
(* which the docs say what is not so, with an event that shows it.            *)
(***************************************************************************)
EXTENDS RegionEncoding

\* Expressions.
N(n, d) == [n |-> "num", v |-> Ratio(n, d)]
I(n) == N(n, 1)
Q(q) == [n |-> "qty", q |-> q]
Bin(op, l, r) == [n |-> "bin", op |-> op, l |-> l, r |-> r]
C(l, op, r) == [n |-> "cmp", op |-> op, l |-> l, r |-> r]
Not(x) == [n |-> "not", a |-> x]
Abs(x) == [n |-> "abs", a |-> x]
Neg(x) == [n |-> "neg", a |-> x]
Conj(x, y) == [n |-> "and", parts |-> <<x, y>>]
Disj(x, y) == [n |-> "or", parts |-> <<x, y>>]
MinOf(x, y) == [n |-> "minmax", min |-> TRUE, args |-> <<x, y>>]
MaxOf(x, y) == [n |-> "minmax", min |-> FALSE, args |-> <<x, y>>]
Banded(inside, x, lo, hi) == [n |-> "band", inside |-> inside, e |-> x, lo |-> lo.v, hi |-> hi.v]
If(g, t, e) == [n |-> "tern", g |-> g, t |-> t, e |-> e]
Red(kind, coll, body) == [n |-> "reduce", kind |-> kind, coll |-> coll, body |-> body]
TrueN == [n |-> "bool", b |-> TRUE]

\* Collections, quantities and particles.
Jets == [c |-> "base", name |-> "jets"]
Leps == [c |-> "base", name |-> "leps"]
Self(p) == [n |-> "self", prop |-> p]
This(p) == [n |-> "relem", prop |-> p]
Hard10 == [c |-> "filtered", source |-> Jets, pred |-> C(Self("pt"), "ge", I(2))]
Tagged == [c |-> "filtered", source |-> Jets, pred |-> C(Self("tag"), "gt", I(0))]
First2Jets == [c |-> "slice", source |-> Jets, from |-> 0, to |-> 2]
Both == [c |-> "union", parts |-> <<Jets, Leps>>]
Rising == [c |-> "sorted", source |-> Jets, prop |-> "tag", descend |-> FALSE]
Elem(coll, i, p) == Q([q |-> "elem", coll |-> coll, index |-> i, prop |-> p])
Size(coll) == Q(SizeQ(coll))
Met(name) == Q([q |-> "met", name |-> name])
HT == Q([q |-> "scalar", name |-> "HT"])
Trig == Q([q |-> "trigger", name |-> "t"])
At(coll, i) == [p |-> "elem", coll |-> coll, index |-> i]
Whole(coll) == [p |-> "whole", coll |-> coll]
Ang(kind, a, b) == Q([q |-> "ang", kind |-> kind, a |-> a, b |-> b])
Sum(a, b) == [p |-> "sum", parts |-> <<a, b>>]
Bound(name) == [p |-> "binder", name |-> name]
Of1(name, p) == Q([q |-> "ext", name |-> name, arg |-> [a |-> "particle", of |-> p]])
Sqrt(q) == Q([q |-> "ext", name |-> "sqrt", arg |-> [a |-> "quantity", q |-> q.q]])
This1 == [p |-> "reduce"]

JetPt == Elem(Jets, 0, "pt")
LastPt == Elem(Jets, -1, "pt")
Tag0 == Elem(Jets, 0, "tag")
DPhi == Ang("dphi", At(Jets, 0), At(Jets, 1))
Pairs == Ang("dr", Whole(Jets), Whole(Leps))
Comb(cuts, cand) == [c |-> "project", axis |-> "l1",
                     comb |-> [c |-> "comb", parts |-> <<Jets, Jets>>, disjoint |-> TRUE, cand |-> cand, cuts |-> cuts]]
Dijet == Comb(<<C(Ang("dphi", Bound("l1"), Bound("l2")), "gt", N(1, 3))>>, <<>>)
Heavy == Comb(<<C(Of1("pt", Sum(Bound("l1"), Bound("l2"))), "gt", I(3))>>, <<Sum(Bound("l1"), Bound("l2"))>>)

\* Conditions, each with a branch of the encoder of its own.
Conditions ==
  << C(JetPt, "gt", I(2)), C(LastPt, "le", I(1)), C(I(1), "lt", JetPt),
     C(Tag0, "ge", I(0)), C(Tag0, "ne", I(1)), C(HT, "ge", I(1)), C(Met("pt"), "lt", I(2)),
     Trig, C(Size(Jets), "ge", N(3, 2)), C(Size(Hard10), "eq", I(1)), C(Size(Tagged), "lt", N(1, 2)),
     C(Size(Both), "ne", N(5, 2)),
     \* linear arithmetic, cancelled quantities, division by zero
     C(Bin("sub", JetPt, Tag0), "gt", I(0)), C(Bin("sub", Tag0, Tag0), "le", I(0)),
     C(Bin("mul", I(2), JetPt), "ge", Bin("add", HT, I(1))), C(Bin("div", JetPt, I(0)), "gt", I(0)),
     C(Bin("div", JetPt, I(3)), "gt", N(1, 3)), C(Neg(JetPt), "lt", N(-3, 2)),
     \* values the interpreter rounds
     C(DPhi, "gt", N(1, 3)), C(Abs(DPhi), "le", N(2, 3)), C(Bin("mul", DPhi, I(2)), "lt", N(5, 3)),
     C(Bin("add", DPhi, N(1, 3)), "gt", N(1, 3)), C(DPhi, "lt", JetPt),
     C(Of1("pt", Sum(At(Jets, 0), At(Jets, 1))), "ge", N(7, 3)),
     C(Sqrt(JetPt), "gt", N(1, 3)),
     \* ratios, absolute values, products
     C(Bin("div", JetPt, Tag0), "gt", I(1)), C(Bin("div", HT, Size(Jets)), "le", I(1)),
     C(Abs(Bin("sub", JetPt, Tag0)), "ge", I(1)), C(Abs(Tag0), "gt", I(-1)), C(Abs(Tag0), "lt", I(-1)),
     C(Bin("mul", JetPt, Tag0), "gt", I(2)),
     \* minima, maxima, reducers
     C(MinOf(JetPt, Tag0), "lt", I(1)), C(MaxOf(JetPt, HT), "gt", I(2)), C(MinOf(JetPt, DPhi), "gt", I(0)),
     C(MaxOf(JetPt, Bin("mul", Tag0, Tag0)), "ge", I(1)), C(MinOf(JetPt, I(1)), "eq", I(1)),
     C(Red("sum", Jets, This("pt")), "gt", I(3)), C(Red("min", Jets, This("tag")), "le", I(0)),
     C(Red("max", Leps, This("pt")), "lt", JetPt),
     Red("any", Jets, C(This("tag"), "gt", I(0))), Red("all", Jets, C(This("tag"), "gt", I(0))),
     Red("all", Jets, Not(C(This("tag"), "gt", I(0)))), Red("any", First2Jets, C(This("pt"), "gt", I(2))),
     Red("all", First2Jets, C(This("tag"), "le", I(0))),
     Red("any", Leps, C(Ang("dphi", This1, At(Jets, 0)), "gt", N(1, 3))),
     Red("any", Jets, C(Bin("add", This("pt"), HT), "gt", I(3))),
     \* a property of a whole collection, an unindexed separation
     C([n |-> "collprop", coll |-> Jets, prop |-> "pt"], "gt", I(1)),
     C([n |-> "collprop", coll |-> Jets, prop |-> "pt"], "gt", [n |-> "collprop", coll |-> Leps, prop |-> "pt"]),
     C(Pairs, "gt", N(1, 3)), C(Pairs, "lt", I(1)), C(Pairs, "ne", I(1)), C(I(1), "le", Pairs),
     C(Pairs, "gt", JetPt), C(Bin("mul", Pairs, I(2)), "lt", I(1)), Banded(TRUE, Pairs, I(0), I(1)),
     \* bands
     Banded(TRUE, JetPt, I(1), I(2)), Banded(FALSE, Tag0, I(0), I(1)), Banded(TRUE, DPhi, N(1, 3), I(1)),
     Banded(FALSE, Abs(Tag0), I(1), I(2)),
     \* composites
     C(Size(Dijet), "ge", I(1)), C(Size(Heavy), "gt", I(0)), C(Size(Dijet), "eq", I(2)), C(Size(Dijet), "lt", I(1)),
     \* Boolean structure
     Conj(C(HT, "ge", I(1)), C(JetPt, "gt", I(2))), Disj(C(HT, "ge", I(1)), C(Tag0, "gt", I(0))),
     Not(Conj(C(Met("pt"), "ge", I(1)), C(HT, "ge", I(1)))), Not(Not(C(HT, "lt", I(1)))),
     Not(Disj(C(HT, "ge", I(2)), C(Tag0, "gt", I(0)))), Disj(Not(Trig), C(JetPt, "gt", I(2))),
     Not(Red("any", Jets, C(Bin("add", This("pt"), HT), "gt", I(3)))),
     If(C(HT, "gt", I(1)), C(JetPt, "gt", I(2)), TrueN),
     If(C(Tag0, "gt", I(0)), C(Met("pt"), "gt", I(1)), C(JetPt, "gt", I(2))),
     [n |-> "region", i |-> 1], Not([n |-> "region", i |-> 2]), JetPt, I(1), [n |-> "unsup"] >>

\* Conditions on what the axioms speak of: elements of filters of every shape, slices,
\* sorts, products, exchanged separations, tags.
Filter(source, pred) == [c |-> "filtered", source |-> source, pred |-> pred]
SomeLep == Red("any", Leps, C(This("pt"), "gt", I(0)))
Harder == Filter(Jets, C(Self("pt"), "gt", I(2)))
Halved == Filter(Jets, Conj(C(Bin("div", Self("pt"), I(2)), "ge", I(1)), SomeLep))
Either == Filter(Jets, Disj(C(Self("pt"), "ge", I(3)), SomeLep))
Central == Filter(Jets, Conj(C(Abs(Self("tag")), "le", I(1)), Banded(TRUE, Self("pt"), I(1), I(3))))
Untag == Filter(Hard10, C(Self("tag"), "lt", I(1)))
Kept == Filter(Jets, If(C(Self("tag"), "gt", I(0)), C(Self("pt"), "ge", I(2)), TrueN))
Descending == [c |-> "sorted", source |-> First2Jets, prop |-> "pt", descend |-> TRUE]
Product == [c |-> "comb", parts |-> <<Jets, Leps>>, disjoint |-> FALSE, cand |-> <<>>, cuts |-> <<>>]
FilterCuts ==
  << C(Elem(Halved, 0, "pt"), "gt", I(1)), C(Elem(Either, 0, "pt"), "gt", I(1)), C(Elem(Central, 1, "tag"), "lt", I(1)),
     C(Elem(Untag, 0, "pt"), "ge", Elem(Hard10, -1, "pt")), C(Elem(Kept, 0, "tag"), "le", I(0)),
     C(Elem(Descending, 0, "pt"), "gt", Elem(Descending, 1, "pt")), C(Elem(Jets, 1, "pt"), "ge", Elem(Jets, -2, "pt")),
     C(Ang("dphi", At(Jets, 1), At(Jets, 0)), "gt", N(1, 3)), C(Elem(Jets, 0, "btag"), "eq", I(1)),
     C(Size(Product), "ge", I(1)), C(Size(Rising), "ge", Size(Harder)), C(Size(Dijet.comb), "ge", I(1)) >>

\* Separations of a jet from the MET vector, which some events lack; of their negations
\* the docs say what is not so (PromiseStatements).
ToMet == Ang("dphi", At(Jets, 0), [p |-> "met"])
MetCuts == <<C(ToMet, "gt", I(1)), C(Abs(ToMet), "le", N(2, 3)), Conj(C(ToMet, "le", I(1)), C(Met("pt"), "lt", I(2)))>>

Stmts(kind, conditions) == [i \in DOMAIN conditions |-> [s |-> kind, n |-> conditions[i]]]
Twice(conditions) == Stmts("select", conditions) \o Stmts("reject", conditions)
MCStatements == Twice(Conditions)
                \o << [s |-> "inherit", region |-> 1], [s |-> "inherit", region |-> 2], [s |-> "bin"],
                      [s |-> "nonmember", known |-> FALSE], [s |-> "trigger", n |-> Trig] >>
                \o Stmts("select", FilterCuts) \o Stmts("select", MetCuts)
MCRegions == << << [s |-> "select", n |-> C(HT, "ge", I(1))], [s |-> "bin"] >>,
                << [s |-> "inherit", region |-> 1], [s |-> "reject", n |-> C(Tag0, "gt", I(0))] >> >>
MCPartner == {2, 3, 4, 6, 7, 19, 40, 77, 87, 92, 150, 153}

\* Where the docs are wrong: elements of a filter that rejects in two statements (a jet
\* without a tag passes both), cuts on the sum of a reducer's element and a lepton, and
\* the negated separation of a jet from the MET vector.
Neither == Filter(Jets, Conj(Not(C(Self("tag"), "gt", I(0))), Not(C(Self("tag"), "lt", I(1)))))
WithLep == Of1("mass", Sum(This1, At(Leps, 0)))
PromiseStatements ==
  Stmts("select", <<C(Elem(Neither, 0, "pt"), "gt", I(1)), C(Size(Neither), "ge", I(1)), C(Size(Jets), "le", I(3)),
                    Red("any", Jets, C(WithLep, "gt", I(1))), Red("any", Jets, C(WithLep, "lt", I(1)))>>)
  \o Twice(<<C(ToMet, "gt", I(1)), C(Met("pt"), "lt", I(2))>>)
AnyPartner == DOMAIN Statements

\* Events.
Btagged(obj, b) == obj @@ ("btag" :> Int2Rat(b))
J(pt, tag, phi) == [pt |-> Int2Rat(pt), tag |-> Int2Rat(tag), phi |-> phi, eta |-> Int2Rat(0), mass |-> Int2Rat(0)]
Untagged(pt, phi) == [pt |-> Int2Rat(pt), phi |-> phi, eta |-> Int2Rat(1), mass |-> Int2Rat(0)]
Bare(pt) == [pt |-> Int2Rat(pt)]
E(jets, leps, met, ht, trig) ==
  [colls |-> [x \in {"jets", "leps"} |-> IF x = "jets" THEN jets ELSE leps],
   met |-> IF met = 0 THEN <<>> ELSE [pt |-> Int2Rat(met), phi |-> Int2Rat(1)],
   scalars |-> IF ht = 0 THEN <<>> ELSE [x \in {"HT"} |-> Int2Rat(ht)],
   triggers |-> IF trig < 0 THEN <<>> ELSE [x \in {"t"} |-> Int2Rat(trig)]]
Zero == Int2Rat(0)
MCEvents ==
  << E(<<>>, <<>>, 0, 0, -1),
     E(<<Btagged(J(3, 1, Zero), 1)>>, <<>>, 1, 2, 1),
     E(<<J(3, 1, Zero), J(2, 0, <<1, 2>>)>>, <<J(1, 0, Zero)>>, 2, 1, 1),
     E(<<Btagged(Untagged(2, Zero), 0)>>, <<J(2, 1, <<1, 2>>)>>, 0, 2, 0),
     E(<<Untagged(3, Zero), J(1, 2, Int2Rat(1))>>, <<>>, 2, 0, -1),
     E(<<J(3, -1, <<-3, 2>>), J(2, 1, <<3, 2>>), J(1, 0, Zero)>>, <<J(4, 0, <<1, 2>>)>>, 1, 3, 1),
     E(<<Bare(2), Bare(1)>>, <<Bare(1)>>, 0, 1, 1),
     E(<<J(4, 0, Zero), J(3, 0, Zero), J(2, 0, Zero), J(1, 1, Int2Rat(1))>>, <<J(1, 1, Zero)>>, 0, 0, 1) >>
\* Two jets without tags, a heavy and a light one, a lepton and no MET vector.
PromiseEvents == << E(<<[Untagged(2, Zero) EXCEPT !.mass = Int2Rat(2)], Untagged(1, Zero)>>, <<J(1, 0, Zero)>>, 0, 1, 1) >>
MCProbes == {Ratio(n, 2) : n \in -3..9}
MCJunk == {<<-2, 1>>, Zero, <<3, 1>>}
=============================================================================
