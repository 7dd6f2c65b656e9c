------------------------------- MODULE Encode -------------------------------
(***************************************************************************)
(* The encoder (adl-formula/src/encode.rs): a resolved region becomes a      *)
(* Formula whose superset and subset the solver reasons about.              *)
(*                                                                          *)
(* Two things make it hard to get right.  A quantity may have no value in    *)
(* an event: the interpreter then decides the comparison false, or decides   *)
(* nothing, while the solver's variable always has some value.  And the      *)
(* interpreter rounds what is not exact, while the solver's arithmetic is    *)
(* exact.                                                                   *)
(***************************************************************************)
EXTENDS EncodeTerms

\* fand and forr: constants folded, nesting flattened.
Unit(kind) == IF kind = "and" THEN TrueF ELSE FalseF
Opposite(kind) == IF kind = "and" THEN FalseF ELSE TrueF
Spliced(kind, part) == IF part = Unit(kind) THEN <<>> ELSE IF part.f = kind THEN part.parts ELSE <<part>>
Joined(kind, flat) == CASE Len(flat) = 0 -> Unit(kind) [] Len(flat) = 1 -> flat[1]
                        [] OTHER -> [f |-> kind, parts |-> flat]
Join(kind, parts) == IF Opposite(kind) \in Range(parts) THEN Opposite(kind)
                     ELSE Joined(kind, FlattenSeq([i \in DOMAIN parts |-> Spliced(kind, parts[i])]))
FAnd(parts) == Join("and", parts)
FOr(parts) == Join("or", parts)

SizeQ(coll) == [q |-> "size", coll |-> coll]
SizeAtom(coll, rel, n) == Single(SizeQ(coll), rel, n)
PresentAtom(q) == Single(Present(q), "ge", 1)
PresentAtoms(qs) == SetToSeq({PresentAtom(q) : q \in qs})

\* guard_presence: an exact formula over what an event may lack also says that
\* the event has it.
GuardWith(needed, inner) == IF ~IsExact(inner) \/ needed = {} THEN inner ELSE FAnd(Append(PresentAtoms(needed), inner))
GuardPresence(qs, inner) == GuardWith({q \in qs : MayBeAbsent(q)}, inner)

\* needs_guards, guard_existence.
NeedsGuards(pairs) ==
    SetToSeq({SizeAtom(c, "gt", Max({x[2] : x \in {y \in pairs : y[1] = c}})) : c \in {x[1] : x \in pairs}})
Existence(n) == UNION {ExistenceFloor(q) : q \in Quantities(n)}
GuardReads(pairs, inner) == IF ~IsExact(inner) \/ pairs = {} THEN inner ELSE FAnd(Append(NeedsGuards(pairs), inner))
GuardExistence(n, inner) == GuardReads(Existence(n), inner)

(***************************************************************************)
(* Negation.  The interpreter decides neither a comparison over missing      *)
(* event-level data nor its negation.                                       *)
(***************************************************************************)
HardQuantities(f) == {q \in Vars(f) : Absence(q) = "hard"}

\* drop_absent: "q is absent" is false where q is required to be present.
RECURSIVE DropAbsent(_, _), ForcedByFalsity(_)
DropAbsent(f, present) ==
    CASE f.f = "atom" -> IF \E q \in present : f = Negated(PresentAtom(q)) THEN FalseF ELSE f
      [] f.f \in {"and", "or"} ->
           Join(f.f, [i \in DOMAIN f.parts |-> DropAbsent(f.parts[i], present)])
      [] f.f = "dual" -> Dual(DropAbsent(f.plus, present), DropAbsent(f.minus, present))
      [] OTHER -> f

\* forced_by_falsity: the quantities every way for f to be false has read.
ForcedByAll(members) == {q \in UNION {Vars(m) : m \in members} : \A m \in members : q \in ForcedByFalsity(m)}
ForcedByFalsity(f) ==
    CASE f.f = "atom" -> IF \E q \in DOMAIN f.terms : Absence(q) = "soft" THEN {} ELSE DOMAIN f.terms
      [] f.f = "or" -> UNION {ForcedByFalsity(f.parts[i]) : i \in DOMAIN f.parts}
      [] f.f = "and" -> ForcedByAll({f.parts[i] : i \in {j \in DOMAIN f.parts : ~IsPresence(f.parts[j])}})
      [] OTHER -> {}

\* Mutant: absence of event-level data negates like any other literal.
NegateBare(f) == Negated(f)

NegateGuarded(f, qs) == FAnd(Append(PresentAtoms(qs), DropAbsent(Negated(f), qs)))
NegateFrom(f, hard, forced) == IF hard = {} THEN Negated(f)
                               ELSE IF forced = hard THEN NegateGuarded(f, hard)
                               ELSE Dual(NegateGuarded(f, forced), NegateGuarded(f, hard))
Negate(f) == NegateFrom(f, HardQuantities(f), ForcedByFalsity(f) \cap HardQuantities(f))

(***************************************************************************)
(* Bounded expansions (build_dual).                                         *)
(***************************************************************************)
Each(coll, insts) == FAnd([i \in DOMAIN insts |-> FOr(<<SizeAtom(coll, "le", i - 1), insts[i]>>)])
Some(coll, insts) == FOr([i \in DOMAIN insts |-> FAnd(<<SizeAtom(coll, "gt", i - 1), insts[i]>>)])
Bounded(coll, each) == FAnd(<<SizeAtom(coll, "ge", 1), SizeAtom(coll, "le", Open1Bound), each>>)
Longer(coll) == SizeAtom(coll, "gt", Open1Bound)
BuildDual(kind, coll, insts) ==
    CASE kind = "open1" -> Dual(FOr(<<SizeAtom(coll, "eq", 0)>> \o insts \o <<Longer(coll)>>),
                                Bounded(coll, Each(coll, insts)))
      [] kind = "any" -> Dual(FOr(Append(insts, Longer(coll))), Some(coll, insts))
      [] kind = "all" -> Dual(Each(coll, insts),
                              FOr(<<SizeAtom(coll, "eq", 0), Bounded(coll, Each(coll, insts))>>))

(***************************************************************************)
(* The encoder is one recursion over the parts of the program: Form says      *)
(* what is made of a part; its steps follow.                                *)
(***************************************************************************)
RECURSIVE Form(_, _)
Boolean(n) == Form("condition", n)
Leaf(n) == Form("leaf", n)
Pattern(n, rel, c) == Form("pattern", [n |-> n, rel |-> rel, c |-> c])
CmpNodeConst(n, rel, c) == Form("threshold", [n |-> n, rel |-> rel, c |-> c])
EncodeRegion(i) == Form("region", i)
EncodeStmt(s) == Form("statement", s)

\* atom_of: over sizes alone a fractional threshold is moved to an integer.
Ground(rel, k) == IF CmpRat(rel, Int2Rat(0), k) THEN TrueF ELSE FalseF
CountAtom(terms, rel, k) == CASE rel \in {"lt", "le"} -> Atom(terms, "le", Int2Rat(RatFloor(k)))
                              [] rel \in {"gt", "ge"} -> Atom(terms, "ge", Int2Rat(RatCeil(k)))
                              [] rel = "eq" -> FalseF
                              [] rel = "ne" -> TrueF
AtomOf(terms, rel, k) ==
    IF DOMAIN terms = {} THEN Ground(rel, k)
    ELSE IF RatIsInt(k) \/ \E q \in DOMAIN terms : q.q # "size" \/ ~RatIsInt(terms[q])
    THEN Atom(terms, rel, k) ELSE CountAtom(terms, rel, k)

(***************************************************************************)
(* Composites: a lower bound on the number of tuples also says that some     *)
(* pair of members passes the cuts.                                         *)
(***************************************************************************)
\* encode_tuple_cuts: members exist and every cut holds; a cut on the candidate
\* stays opaque.
Slots(comb, idx) == [l1 |-> ElemRef(comb.parts[1], idx[1]), l2 |-> ElemRef(comb.parts[2], idx[2])]
BoundCut(n) == IF HasResidualBinder(n) THEN Unknown ELSE Boolean(n)
TupleCuts(comb, idx) == FAnd([i \in 1..2 |-> SizeAtom(comb.parts[i], "gt", idx[i])]
                             \o [i \in DOMAIN comb.cuts |-> BoundCut(BinderInstance(comb.cuts[i], Slots(comb, idx)))])

\* binder_index_tuples.
IndexTuples(comb) ==
    {t \in (0..(Comb2dBound - 1)) \X (0..(Comb2dBound - 1)) :
        comb.disjoint /\ comb.parts[1] = comb.parts[2] => t[1] < t[2]}

CombOf(coll) == IF coll.c = "comb" THEN coll ELSE coll.comb

\* try_comb_existence, else the plain atom.
Forces(rel, k) == (rel \in {"ge", "eq"} /\ RatLeq(Int2Rat(1), k)) \/ (rel = "gt" /\ RatLeq(Int2Rat(0), k))
CountedCombs(terms) == {CombOf(q.coll) : q \in {x \in DOMAIN terms : /\ DOMAIN terms = {x} /\ terms[x] = Int2Rat(1)
                                                                     /\ x.q = "size" /\ x.coll.c \in {"comb", "project"}
                                                                     /\ CombOf(x.coll).cuts # <<>>}}
BeyondCap(comb) == [i \in 1..2 |-> SizeAtom(comb.parts[i], "gt", Comb2dBound)]
SomePair(plain, comb, tuples) == IF tuples = {} THEN plain
                                 ELSE Dual(FAnd(<<plain, FOr(SetToSeq(tuples) \o BeyondCap(comb))>>), plain)
CombExistence(plain, comb) == SomePair(plain, comb, {TupleCuts(comb, t) : t \in IndexTuples(comb)})
CombFrom(plain, combs, forces) == IF ~forces \/ combs = {} \/ plain = FalseF THEN plain
                                  ELSE CombExistence(plain, CHOOSE c \in combs : TRUE)
CombOrAtom(terms, rel, k) == CombFrom(AtomOf(terms, rel, k), CountedCombs(terms), Forces(rel, k))

(***************************************************************************)
(* Comparisons.                                                             *)
(***************************************************************************)
LinErr(e) == IF e = NonFinite THEN FalseF ELSE Unknown

OpaqueAtom(n, rel, c) == IF ~Renderable(n) THEN Unknown
                         ELSE GuardPresence({Opaque(n)}, AtomOf(Opaque(n) :> Int2Rat(1), rel, c))

\* ratio: the denominator is multiplied out, by cases on its sign.
RatioSide(d, e, sign, rel) == FAnd(<<AtomOf(d.terms, sign, RatNeg(d.k)), AtomOf(e.terms, rel, RatNeg(e.k))>>)
RatioOf(d, e, reads, rel) ==
    IF ~IsConstant(d)
    THEN GuardPresence(reads, FOr(<<RatioSide(d, e, "gt", rel), RatioSide(d, e, "lt", FlipOp(rel))>>))
    ELSE IF d.k[1] = 0 THEN FalseF
    ELSE GuardPresence(reads, AtomOf(e.terms, IF d.k[1] < 0 THEN FlipOp(rel) ELSE rel, RatNeg(e.k)))
RatioLin(l, d, rel, c) == IF ~l.ok THEN LinErr(l) ELSE IF ~d.ok THEN LinErr(d)
                          ELSE RatioOf(d, Minus(l, Scale(d, c)), DOMAIN l.terms \cup DOMAIN d.terms, rel)
RatioCmp(n, rel, c) == IF ~ExactValued(n.l) \/ ~ExactValued(n.r) THEN OpaqueAtom(n, rel, c)
                       ELSE RatioLin(LinOrOpaque(n.l), LinOrOpaque(n.r), rel, c)

\* abs_cmp: |E| rel c as bounds on E.
AbsEnds(e, rel, c) == <<AtomOf(e.terms, rel, RatSub(c, e.k)), AtomOf(e.terms, FlipOp(rel), RatSub(RatNeg(c), e.k))>>
AbsLin(n, e, rel, c) ==
    IF RatSign(c) < 0
    THEN GuardPresence(Quantities(n.a), IF rel \in {"lt", "le", "eq"} THEN FalseF ELSE TrueF)
    ELSE IF e = NonLinear THEN OpaqueAtom(n, rel, c)
    ELSE IF ~e.ok THEN LinErr(e)
    ELSE GuardPresence(DOMAIN e.terms, Join(IF rel \in {"lt", "le", "ne"} THEN "and" ELSE "or", AbsEnds(e, rel, c)))
AbsCmp(n, rel, c) == AbsLin(n, Lin(n.a), rel, c)

\* cmp_node_const.
ThresholdLin(n, e, rel, c, mode) ==
    IF e.ok THEN GuardPresence(DOMAIN e.terms, CombOrAtom(e.terms, rel, AtEdge(mode, RatSub(c, e.k))))
    ELSE IF e = NonFinite THEN FalseF ELSE Pattern(n, rel, c)
ThresholdStep(n, rel, c) == ThresholdLin(n, Lin(n), rel, AtEdge(EdgeMode(n), c), EdgeMode(n))

\* min and max of scalars: every exact argument must exist and be present, and an
\* opaque one leaves the whole opaque.
OrLike(n, rel) == rel \in (IF n.min THEN {"lt", "le"} ELSE {"gt", "ge"})
MinMaxOf(fs, exact, kind) ==
    GuardPresence(UNION {Quantities(a) : a \in exact},
                  FAnd(NeedsGuards(UNION {Existence(a) : a \in exact})
                       \o (IF \A i \in DOMAIN fs : IsExact(fs[i]) THEN <<>> ELSE <<Unknown>>) \o <<Join(kind, fs)>>))
MinMaxArgs(n, fs, kind) == MinMaxOf(fs, {n.args[i] : i \in {j \in DOMAIN fs : IsExact(fs[j])}}, kind)
MinMaxCmp(n, rel, c) ==
    IF rel \in {"eq", "ne"} THEN Unknown
    ELSE IF EdgeMode(n) = "f64" /\ \E i \in DOMAIN n.args : ExactValued(n.args[i]) THEN Unknown
    ELSE MinMaxArgs(n, [i \in DOMAIN n.args |-> CmpNodeConst(n.args[i], rel, c)], IF OrLike(n, rel) THEN "or" ELSE "and")

\* pattern: the non-linear shapes against a constant.
PatternOf(n, rel, c) == CASE n.n = "bin" /\ n.op = "div" -> RatioCmp(n, rel, c)
                          [] n.n = "abs" -> AbsCmp(n, rel, c)
                          [] n.n = "minmax" -> MinMaxCmp(n, rel, c)
                          [] OTHER -> OpaqueAtom(n, rel, c)
PatternStep(n, rel, c) == PatternOf(n, rel, AtEdge(EdgeMode(n), c))

LinearAtom(rel, d, mode) == IF mode = "unmodelable" THEN Unknown
                            ELSE GuardPresence(DOMAIN d.terms, CombOrAtom(d.terms, rel, AtEdge(mode, RatNeg(d.k))))
CmpOf(rel, l, r, x, y) ==
    IF NonFinite \in {x, y} THEN FalseF
    ELSE IF x.ok /\ y.ok THEN LinearAtom(rel, Minus(x, y), EdgeModePair(l, r))
    ELSE IF ~x.ok /\ IsConstant(y) THEN Pattern(l, rel, y.k)
    ELSE IF ~y.ok /\ IsConstant(x) THEN Pattern(r, FlipOp(rel), x.k)
    ELSE Unknown
CmpLinear(rel, l, r) == CmpOf(rel, l, r, Lin(l), Lin(r))

\* empty_product: one of the two collections of an unindexed separation is empty.
EmptyProduct(q) == FOr(SetToSeq({SizeAtom(c, "le", 0) : c \in {q.a.coll, q.b.coll}}))

\* min_pair_cmp: a threshold on an unindexed separation is a statement on every pair;
\* f is the comparison of l and r, of their equality for an inequality.
PairDual(folded, f, empty) == CASE folded = "ne" -> Negated(f)
                                [] folded \in {"gt", "ge"} -> Dual(FOr(<<f, empty>>), empty)
                                [] OTHER -> f
MinPairCmp(rel, l, r, whole, other, folded) ==
    IF MentionsUnindexed(other) \/ (folded \in {"ne", "gt", "ge"} /\ ~IsConstant(Lin(other))) THEN Unknown
    ELSE PairDual(folded, CmpLinear(IF folded = "ne" THEN "eq" ELSE rel, l, r), EmptyProduct(whole.q))

Cmp(rel, l, r) ==
    CASE ~MentionsUnindexed(l) /\ ~MentionsUnindexed(r) -> CmpLinear(rel, l, r)
      [] IsWhole(l) \/ IsWhole(r) -> MinPairCmp(rel, l, r, IF IsWhole(l) THEN l ELSE r, IF IsWhole(l) THEN r ELSE l,
                                                IF IsWhole(l) THEN rel ELSE FlipOp(rel))
      [] OTHER -> Unknown

\* band: E in [lo, hi], or outside it.
BandOf(n, e, lo, hi) ==
    IF e = NonLinear
    THEN GuardPresence(Quantities(n.e), Join(IF n.inside THEN "and" ELSE "or",
                       <<Pattern(n.e, IF n.inside THEN "ge" ELSE "le", lo), Pattern(n.e, IF n.inside THEN "le" ELSE "ge", hi)>>))
    ELSE IF ~e.ok THEN LinErr(e)
    ELSE GuardPresence(DOMAIN e.terms, Join(IF n.inside THEN "and" ELSE "or",
                       <<AtomOf(e.terms, IF n.inside THEN "ge" ELSE "le", RatSub(lo, e.k)),
                         AtomOf(e.terms, IF n.inside THEN "le" ELSE "ge", RatSub(hi, e.k))>>))
Band(n) == IF MentionsUnindexed(n.e) THEN Unknown
           ELSE BandOf(n, Lin(n.e), AtEdge(EdgeMode(n.e), n.lo), AtEdge(EdgeMode(n.e), n.hi))

\* leaf: a property of a whole collection is expanded element by element.
Expanded(n, coll) == BuildDual("open1", coll, [i \in 1..Open1Bound |-> Leaf(CollInstance(n, coll, i - 1))])
LeafOver(n, colls) ==
    IF Unsupported(n) \/ Cardinality(colls) > 1 THEN Unknown
    ELSE IF colls = {} THEN GuardExistence(n, IF n.n = "cmp" THEN Cmp(n.op, n.l, n.r) ELSE Band(n))
    ELSE Expanded(n, CHOOSE x \in colls : TRUE)

\* encode_reduce, encode_static_slice_reduce: a slice of known width is exact.
Instance(n, coll, i) == Boolean(ReducerInstance(n.body, coll, i))
SliceReducer(n, slice, width) ==
    IF width > SliceCap THEN Unknown
    ELSE IF n.kind = "all"
    THEN FAnd([j \in 1..width |-> FOr(<<SizeAtom(slice.source, "le", slice.from + j - 1), Instance(n, slice.source, slice.from + j - 1)>>)])
    ELSE FOr([j \in 1..width |-> FAnd(<<SizeAtom(slice.source, "gt", slice.from + j - 1), Instance(n, slice.source, slice.from + j - 1)>>)])
Reducer(n) == IF n.coll.c = "slice" /\ n.coll.to >= 0
              THEN SliceReducer(n, n.coll, Max({0, n.coll.to - n.coll.from}))
              ELSE BuildDual(n.kind, n.coll, [i \in 1..Open1Bound |-> Instance(n, n.coll, i - 1)])

(***************************************************************************)
(* Conditions, statements and regions.                                      *)
(***************************************************************************)
\* A double negation cancels before it is encoded.
Refusal(n) == IF n.n = "not" THEN Boolean(n.a) ELSE Negate(Boolean(n))
Branches(g, t, e) == FOr(<<FAnd(<<g, t>>), FAnd(<<Negate(g), e>>)>>)
BooleanStep(n) ==
    CASE n.n = "bool" -> IF n.b THEN TrueF ELSE FalseF
      [] n.n \in {"and", "or"} -> Join(n.n, [i \in DOMAIN n.parts |-> Boolean(n.parts[i])])
      [] n.n = "not" -> Refusal(n.a)
      [] n.n \in {"cmp", "band"} -> Leaf(n)
      [] n.n = "tern" -> Branches(Boolean(n.g), Boolean(n.t), Boolean(n.e))
      [] n.n = "qty" /\ n.q.q = "trigger" -> GuardPresence({n.q}, Single(n.q, "eq", 1))
      [] n.n = "region" -> EncodeRegion(n.i)
      [] n.n = "reduce" /\ IsBoolean(n) -> Reducer(n)
      [] OTHER -> Unknown

\* stmt: a statement that filters nothing has no formula.
StatementStep(s) == CASE s.s \in {"select", "trigger"} -> Boolean(s.n)
                      [] s.s = "reject" -> Refusal(s.n)
                      [] s.s = "inherit" -> EncodeRegion(s.region)
                      [] s.s = "nonmember" /\ ~s.known -> Unknown
                      [] Neutral(s) -> TrueF

Form(what, x) ==
    CASE what = "condition" -> BooleanStep(x)
      [] what = "leaf" -> LeafOver(x, CollProps(x))
      [] what = "pattern" -> PatternStep(x.n, x.rel, x.c)
      [] what = "threshold" -> ThresholdStep(x.n, x.rel, x.c)
      [] what = "statement" -> StatementStep(x)
      [] what = "region" -> FAnd([k \in DOMAIN Regions[x] |-> EncodeStmt(Regions[x][k])])
=============================================================================
