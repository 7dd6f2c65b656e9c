------------------------------- MODULE Axioms -------------------------------
(***************************************************************************)
(* The axioms (adl-axioms/src/lib.rs): facts about the quantities of an      *)
(* analysis that the solver is given beside the regions' formulas.  An       *)
(* axiom that is false of one real event makes false proofs, so a fact on    *)
(* an element is stated only where the element and its property exist.      *)
(***************************************************************************)
EXTENDS Encode

ScalarKeys == {"HT"}                    \* EVENT_SCALAR_KEYS, as spelled in the instance
TagProps == {"btag", "ctag", "tautag"}  \* EXACT_NAME_PROPS
MagnitudeProps == {"pt", "e"}           \* nneg_prop_keys
MagnitudeFns == {"pt", "m", "mass", "e", "energy", "dr", "sqrt"}

Difference(x, y) == (x :> Int2Rat(1) @@ y :> Int2Rat(-1))
Leq0(x, y) == Atom(Difference(x, y), "le", Int2Rat(0))       \* derived_size_le: x <= y
Eq0(x, y) == Atom(Difference(x, y), "eq", Int2Rat(0))
Between(q, lo, hi) == And(<<Single(q, "le", hi), Single(q, "ge", lo)>>)
OneOf(parts) == IF Len(parts) = 1 THEN parts[1] ELSE Or(parts)

\* Mutant of Guarded: existence is required, presence is not.
GuardedByExistence(qs, fact) == OneOf(SetToSeq({Negated(g) : g \in Range(NeedsGuards(UNION {ExistenceFloor(q) : q \in qs}))}) \o <<fact>>)

\* guarded_fact: some element is missing, some quantity has no value, or the fact.
Required(qs) == Range(NeedsGuards(UNION {ExistenceFloor(q) : q \in qs}))
                \cup {PresentAtom(q) : q \in {x \in qs : MayBeAbsent(x)}}
Guarded(qs, fact) == OneOf(SetToSeq({Negated(g) : g \in Required(qs)}) \o <<fact>>)

\* pt_ordered: the loader delivers base collections pt-descending, and filters,
\* slices and descending pt sorts keep the order.
RECURSIVE PtOrdered(_)
PtOrdered(coll) == \/ coll.c = "base"
                   \/ coll.c \in {"filtered", "slice"} /\ PtOrdered(coll.source)
                   \/ /\ coll.c = "sorted" /\ coll.descend /\ coll.prop = "pt"
                      /\ PtOrdered(coll.source)

Sizes(qs, kind) == {q \in qs : q.q = "size" /\ q.coll.c = kind}
ElemPts(qs) == {q \in qs : q.q = "elem" /\ q.prop = "pt" /\ PtOrdered(q.coll)}

(***************************************************************************)
(* The families, in the order of emit_round.                                *)
(***************************************************************************)
\* Position i comes no later than j in a collection of any size; -1 is the last.
Before(i, j) == IF (i < 0) = (j < 0) THEN i < j ELSE j < 0 /\ (i = 0 \/ j = -1)

Ord(qs) == {Guarded({p[1], p[2]}, Leq0(p[2], p[1])) :
              p \in {x \in ElemPts(qs) \X ElemPts(qs) : /\ x[1].coll = x[2].coll
                                                        /\ Before(x[1].index, x[2].index)}}

Sz0(qs) == {Single(q, "ge", 0) : q \in {x \in qs : x.q = "size"}}

Sub(qs) == {Leq0(q, SizeQ(q.coll.source)) : q \in Sizes(qs, "filtered")}

SumOfParts(coll) == Combine(LinQty(SizeQ(coll.parts[1])), LinQty(SizeQ(coll.parts[2])))
UniOf(q) == {Leq0(SizeQ(q.coll.parts[i]), q) : i \in 1..2} \cup
            {Atom(Minus(LinQty(q), SumOfParts(q.coll)).terms, "le", Int2Rat(0))}
Uni(qs) == UNION {UniOf(q) : q \in Sizes(qs, "union")}

Magnitude0(q) == CASE q.q = "elem" -> q.prop \in MagnitudeProps
                   [] q.q = "met" -> q.name = "pt"
                   [] q.q = "scalar" -> q.name \in ScalarKeys
                   [] q.q = "ang" -> q.kind = "dr"
                   [] q.q = "ext" -> q.name \in MagnitudeFns
                   [] OTHER -> FALSE
Nneg(qs) == {Guarded({q}, Single(q, "ge", 0)) : q \in {x \in qs : Magnitude0(x)}}

Trig1(qs) == {Guarded({q}, Between(q, -1, 1)) : q \in {x \in qs : x.q = "ext" /\ x.name \in {"cos", "sin"}}}

Dphi(qs) == {Guarded({q}, Between(q, -Pi, Pi)) : q \in {x \in qs : x.q = "ang" /\ x.kind = "dphi"}}

IsTag(q) == (q.q = "elem" /\ q.prop \in TagProps) \/ q.q = "trigger"
Tag(qs) == {Guarded({q}, Or(<<Single(q, "eq", 0), Single(q, "eq", 1)>>)) : q \in {x \in qs : IsTag(x)}}

\* twin_pairs: the same separation with its arguments exchanged.
Twins(qs) == {p \in qs \X qs : /\ p[1].q = "ang" /\ p[1].kind # "dr" /\ p[1].a # p[1].b
                               /\ p[2] = [p[1] EXCEPT !.a = p[1].b, !.b = p[1].a]}
Twin(qs) == {Guarded({p[1], p[2]},
                     Or(<<Eq0(p[1], p[2]), Atom((p[1] :> Int2Rat(1) @@ p[2] :> Int2Rat(1)), "eq", Int2Rat(0))>>)) :
               p \in {x \in Twins(qs) : ~HasUnindexedLeg(x[1])}}

SzSlice(qs) == UNION {{Leq0(q, SizeQ(q.coll.source))} \cup
                      {Single(q, "le", width) : width \in {q.coll.to - q.coll.from} \cap Nat} :
                        q \in Sizes(qs, "slice")}

SzPerm(qs) == {Eq0(q, SizeQ(q.coll.source)) : q \in Sizes(qs, "sorted")}

\* comb_size: no tuple without members; a tuple for sure only where nothing is
\* ever dropped.
EmptyWithout(q, member, n) == Or(<<Single(SizeQ(member), "ge", n), Single(q, "eq", 0)>>)
SameTwice(comb) == comb.disjoint /\ comb.parts[1] = comb.parts[2]
CombSizeOf(q, parts) ==
    (IF SameTwice(q.coll) THEN {EmptyWithout(q, parts[1], 2)} ELSE {EmptyWithout(q, parts[i], 1) : i \in 1..2}) \cup
    (IF q.coll.disjoint \/ q.coll.cuts # <<>> \/ q.coll.cand # <<>> THEN {}
     ELSE {Or(<<SizeAtom(parts[1], "le", 0), SizeAtom(parts[2], "le", 0), Single(q, "ge", 1)>>)})
CombSize(qs) == {Eq0(q, SizeQ(q.coll.comb)) : q \in Sizes(qs, "project")} \cup
                UNION {CombSizeOf(q, q.coll.parts) : q \in Sizes(qs, "comb")}

Indicators(qs) == {q \in qs : q.q = "present"}
Pres(qs) == {Between(q, 0, 1) : q \in Indicators(qs)}

\* pdef: a value implies that every element it reads exists; an unindexed
\* separation reads some element of either collection.
Reads(q) == ExistenceFloor(q) \cup (IF WholePair(q) THEN {<<q.a.coll, 0>>, <<q.b.coll, 0>>} ELSE {})
Pdef(qs) == {Or(<<Negated(PresentAtom(q.of)), FAnd(NeedsGuards(Reads(q.of)))>>) :
               q \in {x \in Indicators(qs) : Reads(x.of) # {}}}

(***************************************************************************)
(* Filter predicates, lowered onto one element: at is <<collection, index>>. *)
(***************************************************************************)
NoFormula == [f |-> "none"]
SelfProps(n) == {x.prop : x \in {y \in Subnodes(n) : y.n = "self"}}   \* collect_self_props

RECURSIVE LinPred(_, _), PredExact(_, _), Absorbing(_), RequiresPresent(_, _), Concrete(_), ElemPredGeneric(_, _)

\* lin_pred: only a constant may be divided, by a constant.
PredBinary(op, l, r) == IF op = "div" /\ ~(IsConstant(l) /\ IsConstant(r)) THEN NonLinear ELSE LinBinary(op, l, r)
LinPred(n, at) ==
    CASE n.n = "num" -> Linear0(n.v)
      [] n.n = "self" -> LinQty(ElemQty(at[1], at[2], n.prop).q)
      [] n.n = "qty" -> LinQty(n.q)
      [] n.n = "neg" -> LinScaled(LinPred(n.a, at), Int2Rat(-1))
      [] n.n = "bin" -> PredBinary(n.op, LinPred(n.l, at), LinPred(n.r, at))
      [] OTHER -> NonLinear

\* lin_atom.
PredAtom(terms, rel, k) == IF DOMAIN terms # {} THEN Atom(terms, rel, k) ELSE Ground(rel, k)

\* clear_ratio: a constant denominator, a power of two, is multiplied out.
Cleared(d, e, rel) == PredAtom(e.terms, IF d.k[1] < 0 THEN FlipOp(rel) ELSE rel, RatNeg(e.k))
ClearedOf(d, l, r, rel) == IF ~IsConstant(d) THEN NoFormula
                           ELSE IF d.k[1] = 0 THEN FalseF
                           ELSE IF ~PowerOfTwo(d.k) \/ ~l.ok \/ ~r.ok THEN NoFormula
                           ELSE Cleared(d, Minus(l, Scale(r, d.k)), rel)
ClearRatio(side, rel, other, at) ==
    IF side.n = "bin" /\ side.op = "div"
    THEN ClearedOf(LinPred(side.r, at), LinPred(side.l, at), LinPred(other, at), rel) ELSE NoFormula

\* abs_pred.
AbsPredEnds(e, rel, c) == <<PredAtom(e.terms, rel, RatSub(c, e.k)), PredAtom(e.terms, FlipOp(rel), RatSub(RatNeg(c), e.k))>>
AbsPredOf(e, rel, c) ==
    IF RatSign(c) < 0 THEN IF rel \in {"lt", "le", "eq"} THEN FalseF ELSE TrueF
    ELSE IF ~e.ok THEN NoFormula
    ELSE [f |-> IF rel \in {"lt", "le", "ne"} THEN "and" ELSE "or", parts |-> AbsPredEnds(e, rel, c)]

\* A comparison neither of whose sides is a ratio, or an absolute value against a constant.
PlainPred(rel, x, y) == IF ~x.ok \/ ~y.ok THEN NoFormula
                        ELSE PredAtom(Minus(x, y).terms, rel, RatNeg(RatSub(x.k, y.k)))
PredCmpOf(rel, l, r, x, y, at) ==
    IF l.n = "abs" /\ IsConstant(y) THEN AbsPredOf(LinPred(l.a, at), rel, y.k)
    ELSE IF r.n = "abs" /\ IsConstant(x) THEN AbsPredOf(LinPred(r.a, at), FlipOp(rel), x.k)
    ELSE PlainPred(rel, x, y)
FirstFormula(f, g, h) == IF f # NoFormula THEN f ELSE IF g # NoFormula THEN g ELSE h
PredCmp(rel, l, r, at) == FirstFormula(ClearRatio(l, rel, r, at), ClearRatio(r, FlipOp(rel), l, at),
                                       PredCmpOf(rel, l, r, LinPred(l, at), LinPred(r, at), at))

PredBandOf(n, e) ==
    IF ~e.ok THEN NoFormula
    ELSE [f |-> IF n.inside THEN "and" ELSE "or",
          parts |-> <<PredAtom(e.terms, IF n.inside THEN "ge" ELSE "le", RatSub(n.lo, e.k)),
                      PredAtom(e.terms, IF n.inside THEN "le" ELSE "ge", RatSub(n.hi, e.k))>>]

\* encode_pred_exact: the whole predicate, or nothing.
AllOrNothing(kind, fs) == IF NoFormula \in Range(fs) THEN NoFormula ELSE [f |-> kind, parts |-> fs]
PredNot(f) == IF f = NoFormula THEN f ELSE Negated(f)
PredExact(n, at) ==
    CASE n.n = "bool" -> IF n.b THEN TrueF ELSE FalseF
      [] n.n \in {"and", "or"} -> AllOrNothing(n.n, [i \in DOMAIN n.parts |-> PredExact(n.parts[i], at)])
      [] n.n = "not" -> PredNot(PredExact(n.a, at))
      [] n.n = "cmp" -> PredCmp(n.op, n.l, n.r, at)
      [] n.n = "band" -> PredBandOf(n, LinPred(n.e, at))
      [] OTHER -> NoFormula

\* encode_elem_pred: of a conjunction, the members that can be encoded.
Encodable(kept) == IF kept = <<>> THEN NoFormula ELSE And(kept)
Predicates(parts, at) == [i \in DOMAIN parts |-> PredExact(parts[i], at)]
ElemPred(n, at) == IF n.n # "and" THEN PredExact(n, at)
                   ELSE Encodable(SelectSeq(Predicates(n.parts, at), LAMBDA f : f # NoFormula))

\* absorbing_arith, requires_present: is the filter false on every element that
\* lacks the property?  A negation and a ternary are not.
Absorbing(n) == \/ n.n \in {"num", "bool", "self"}
                \/ n.n \in {"neg", "abs", "bin"} /\ \A c \in Children(n) : Absorbing(c)
RequiresPresent(n, prop) ==
    CASE n.n = "and" -> \E i \in DOMAIN n.parts : RequiresPresent(n.parts[i], prop)
      [] n.n = "or" -> n.parts # <<>> /\ \A i \in DOMAIN n.parts : RequiresPresent(n.parts[i], prop)
      [] n.n \in {"cmp", "band"} -> prop \in SelfProps(n) /\ \A c \in Children(n) : Absorbing(c)
      [] OTHER -> FALSE

\* The elements of filtered collections that some quantity mentions from the front.
Mentioned(qs) == {<<q.coll, q.index>> : q \in {x \in qs : x.q = "elem" /\ x.index >= 0 /\ x.coll.c = "filtered"}}

EpredFact(at, f) == IF f = NoFormula THEN {} ELSE {Or(<<SizeAtom(at[1], "le", at[2]), f>>)}
Epred(qs) == UNION {EpredFact(at, ElemPred(at[1].pred, at)) : at \in Mentioned(qs)}

Epres(qs) == UNION {{Or(<<SizeAtom(at[1], "le", at[2]), PresentAtom(ElemQty(at[1], at[2], p).q)>>) :
                       p \in {x \in SelfProps(at[1].pred) : RequiresPresent(at[1].pred, x)}} :
                      at \in Mentioned(qs)}

\* The i-th element of a filter is no earlier in its source than position i.
IdomFact(q, p) == Guarded({q, p}, Leq0(q, p))
Idom(qs) == {IdomFact(q, ElemQty(q.coll.source, q.index, "pt").q) :
               q \in {x \in ElemPts(qs) : x.index >= 0 /\ x.coll.c = "filtered"}}

(***************************************************************************)
(* emit_round, and emit_axioms: to a fixpoint, since a fact may mention       *)
(* quantities that have facts of their own.                                 *)
(***************************************************************************)
EmitRound(qs) == UNION {Ord(qs), Sz0(qs), Sub(qs), Uni(qs), Nneg(qs), Trig1(qs), Dphi(qs), Tag(qs), Twin(qs),
                        Epred(qs), Epres(qs), Idom(qs), SzSlice(qs), SzPerm(qs), CombSize(qs), Pres(qs), Pdef(qs)}

RECURSIVE EmitAxioms(_, _)
EmitMore(qs, more, new, rounds) == IF more = qs \/ rounds = 1 THEN new ELSE EmitAxioms(more, rounds - 1)
EmitFrom(qs, new, rounds) == EmitMore(qs, qs \cup UNION {Vars(f) : f \in new}, new, rounds)
EmitAxioms(qs, rounds) == EmitFrom(qs, EmitRound(qs), rounds)

(***************************************************************************)
(* Reconciliation lowers two filters of one base onto one generic element:   *)
(* if the superset of A implies the subset of B, size(A) <= size(B).        *)
(***************************************************************************)
\* references_concrete_peer.
Concrete(q) == q.q \in {"elem", "ang", "size"} \/ (q.q = "present" /\ Concrete(q.of))

\* encode_pred_formula: what cannot be encoded is unknown, never dropped.
OrUnknown(f) == IF f = NoFormula THEN Unknown ELSE f
ElemPredGeneric(n, at) ==
    CASE n.n \in {"and", "or"} -> [f |-> n.n, parts |-> [i \in DOMAIN n.parts |-> ElemPredGeneric(n.parts[i], at)]]
      [] n.n = "not" -> Negated(ElemPredGeneric(n.a, at))
      [] n.n \in {"bool", "cmp", "band"} -> OrUnknown(PredExact(n, at))
      [] OTHER -> Unknown

GenericIndex == 99

\* filter_chain: the conditions of nested filters, outermost last, and what they filter.
RECURSIVE FilterChain(_)
FilterChain(coll) == IF coll.c # "filtered" THEN <<>> ELSE Append(FilterChain(coll.source), coll.pred)
RECURSIVE Root(_)
Root(coll) == IF coll.c = "filtered" THEN Root(coll.source) ELSE coll

\* references_binder_or_reduce: a function of a bound element grounds onto nothing.
RECURSIVE BoundParticle(_)
BoundParticle(p) == p.p \in {"binder", "reduce", "this"} \/ (p.p = "sum" /\ \E i \in DOMAIN p.parts : BoundParticle(p.parts[i]))
OfBound(q) == q.q = "ext" /\ q.arg.a = "particle" /\ BoundParticle(q.arg.of)
Groundable(n) == ~\E q \in Quantities(n) : Concrete(q) \/ OfBound(q)

\* The derived facts, where a solver over the rationals would find each
\* implication: no assignment of a probe value to every property refutes it.
Lowered(coll) == FAnd([i \in DOMAIN FilterChain(coll) |->
                        ElemPredGeneric(FilterChain(coll)[i], <<Root(coll), GenericIndex>>)])
Implies(over, under, probes) == \A v \in [Vars(over) \cup Vars(under) -> probes] : Holds(over, v) => Holds(under, v)
Candidates(qs) == {c \in {q.coll : q \in Sizes(qs, "filtered")} :
                     Root(c).c = "base" /\ \A n \in Range(FilterChain(c)) : Groundable(n)}
Refining(candidates, low, probes) ==
    {p \in candidates \X candidates : /\ p[1] # p[2] /\ Root(p[1]) = Root(p[2])
                                      /\ Implies(Over(low[p[1]]), Under(low[p[2]]), probes)}
DerivedOf(candidates, low, probes) == {Leq0(SizeQ(p[1]), SizeQ(p[2])) : p \in Refining(candidates, low, probes)}
DerivedFacts(qs, probes) == DerivedOf(Candidates(qs), [c \in Candidates(qs) |-> Lowered(c)], probes)
=============================================================================
