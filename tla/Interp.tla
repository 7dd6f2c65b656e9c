------------------------------- MODULE Interp -------------------------------
(***************************************************************************)
(* The reference interpreter (adl-interp/src/eval.rs) over the resolved     *)
(* program (adl-sema/src/hir.rs, quantity.rs): what an event makes of a      *)
(* quantity, an expression and a region.                                    *)
(*                                                                          *)
(* A numeric result is a value, a SOFT non-value (a missing element or       *)
(* property, a division by zero, an empty reduction), which decides the      *)
(* enclosing comparison FALSE, or a HARD error (missing event-level data, an *)
(* unsupported construct), which decides nothing.  A predicate is "T", "F"   *)
(* or "U".  Truth and Num short-circuit, as the event loop does; Truth3 and  *)
(* Num3 are the Kleene readings used to validate witnesses.                  *)
(*                                                                          *)
(* Interned identities are structural: a collection, a quantity or a node is *)
(* its own record.  An object is a function from the properties it carries;  *)
(* an event has collections, the MET vector, scalars and trigger flags.      *)
(* A context c is the event, the implicit element, the reducer stack and the *)
(* binder environment.  Trigonometry is abstract: dR is the larger of        *)
(* |dEta| and |dPhi|, a 4-vector sum adds componentwise.                     *)
(***************************************************************************)
EXTENDS AdlNum, Sequences, SequencesExt

CONSTANTS Regions,  \* the program: a sequence of regions, each a sequence of statements
          Pi        \* half a turn, in the units of phi

Soft == [k |-> "soft"]
Hard == [k |-> "hard"]
Val(v) == IF v = NoVal THEN Soft ELSE [k |-> "val", v |-> v]
BoolVal(t) == IF t = "U" THEN Hard ELSE Val(Exact(Int2Rat(IF t = "T" THEN 1 ELSE 0)))
TriOf(b) == IF b THEN "T" ELSE "F"
TriNot(t) == CASE t = "T" -> "F" [] t = "F" -> "T" [] t = "U" -> "U"

Context(event) == [ev |-> event, this |-> <<>>, stack |-> <<>>, bind |-> <<>>]

\* Mutant: an unknown member hides a decisive one.
KleenePoisoned(all, ts) == IF "U" \in ts THEN "U"
                           ELSE IF (IF all THEN "F" ELSE "T") \in ts THEN IF all THEN "F" ELSE "T"
                           ELSE IF all THEN "T" ELSE "F"

\* Kleene conjunction and disjunction: a decisive value wins over an unknown.
Kleene(all, ts) == LET stop == IF all THEN "F" ELSE "T"
                   IN  IF stop \in ts THEN stop
                       ELSE IF "U" \in ts THEN "U" ELSE TriNot(stop)

\* Short-circuit conjunction and disjunction: the first value that is not neutral.
InOrder(all, ts) == LET go == IF all THEN "T" ELSE "F"
                        at == {i \in DOMAIN ts : ts[i] # go}
                    IN  IF at = {} THEN go ELSE ts[Min(at)]

\* elem_position: from the front (0, 1, ...) or the back (-1, -2, ...); 0 if outside.
ElemPosition(index, len) == LET p == IF index >= 0 THEN index + 1 ELSE len + index + 1
                            IN  IF p \in 1..len THEN p ELSE 0

Prop(obj, prop) == IF prop \in DOMAIN obj THEN Val(Exact(obj[prop])) ELSE Soft

\* kinematic_eq: a component missing on one must be missing on the other.
KinematicEq(a, b) == \A p \in {"pt", "eta", "phi", "mass"} :
                        /\ p \in DOMAIN a <=> p \in DOMAIN b
                        /\ p \in DOMAIN a => a[p] = b[p]

\* A stable sort by a property; `descend' reverses the whole comparison, the
\* place of the objects without the property included.
SortedBy(objs, prop, descend) ==
    LET has(i) == prop \in DOMAIN objs[i]
        less(i, j) == \/ has(i) /\ ~has(j)
                      \/ has(i) /\ has(j) /\ RatLess(objs[i][prop], objs[j][prop])
        first(i, j) == IF descend THEN less(j, i) ELSE less(i, j)
    IN  SetToSortSeq(DOMAIN objs, LAMBDA i, j : first(i, j) \/ (~first(j, i) /\ i < j))

\* enumerate_index_tuples for two slots, in row-major order.
IndexPairs(m, n, increasing) ==
    SetToSortSeq({p \in (1..m) \X (1..n) : increasing => p[1] < p[2]},
                 LAMBDA p, q : p[1] < q[1] \/ (p[1] = q[1] /\ p[2] < q[2]))

\* assign_bin: [b1,b2), ..., [bn, infinity); 0 below the first edge.
AssignBin(v, edges) == Max({0} \cup {i \in DOMAIN edges : RatLeq(edges[i], v)})

Within(inside, r, lo, hi) == IF inside THEN RatLeq(lo, r) /\ RatLeq(r, hi)
                             ELSE RatLeq(r, lo) \/ RatLeq(hi, r)
BandHolds(inside, v, lo, hi) == IF v.exact THEN Within(inside, v.r, lo, hi) ELSE Within(inside, v.r, Fl(lo), Fl(hi))

WrapDPhi(d) == RatSub(Ratio((d[1] + Pi * d[2]) % (2 * Pi * d[2]), d[2]), Int2Rat(Pi))

Getters == {"mass", "pt", "eta", "phi"}      \* lv_getter
RealFns == {"sqrt"}                          \* unary_real_fn: undefined below 0
RealFn(v) == IF RatSign(v) < 0 THEN NoVal ELSE ApproxOf(v)

(***************************************************************************)
(* The evaluator is one recursion over the parts of the program: Eval says   *)
(* what is asked of a part, and each of the operators below, one per function *)
(* of eval.rs, asks Eval.  Its steps follow.                                 *)
(***************************************************************************)
RECURSIVE Eval(_, _, _)
Materialize(coll, c) == Eval("objects", coll, c)
Tuples(comb, c) == Eval("tuples", comb, c)
Particle(p, c) == Eval("particle", p, c)
Lorentz(p, c) == Eval("vector", p, c)
WholeSeps(q, c) == Eval("separations", q, c)
Quantity(q, c) == Eval("quantity", q, c)
Truth(n, c) == Eval("truth", n, c)
Num(n, c) == Eval("number", n, c)
Truth3(n, c) == Eval("truth3", n, c)
Num3(n, c) == Eval("number3", n, c)
Stmt(s, c) == Eval("statement", s, c)
Stmt3(s, c) == Eval("statement3", s, c)
Region(i, c) == Eval("region", i, c)
Region3(i, c) == Eval("region3", i, c)

(***************************************************************************)
(* Collections.                                                             *)
(***************************************************************************)
Objs(s) == [k |-> "objs", objs |-> s]

Filtered(objs, t) ==
    LET keep == SelectSeq([i \in DOMAIN objs |-> i], LAMBDA i : t[i] = "T")
    IN  IF \E i \in DOMAIN t : t[i] = "U" THEN Hard ELSE Objs([i \in DOMAIN keep |-> objs[keep[i]]])
Concat(a, b) == IF Hard \in {a, b} THEN Hard ELSE Objs(a.objs \o b.objs)
InOrderOf(objs, order) == Objs([i \in DOMAIN order |-> objs[order[i]]])
Sliced(objs, from, to) == Objs(SubSeq(objs, from + 1, IF to < 0 THEN Len(objs) ELSE Min({to, Len(objs)})))
Member(ts, axis) == IF ts.k = "hard" THEN Hard ELSE Objs([i \in DOMAIN ts.objs |-> ts.objs[i][axis]])

\* What a derived collection makes of its source.
Derived(coll, src, c) ==
    CASE src.k = "hard" -> Hard
      [] coll.c = "filtered" -> Filtered(src.objs, [i \in DOMAIN src.objs |-> Truth(coll.pred, [c EXCEPT !.this = <<src.objs[i]>>])])
      [] coll.c = "sorted" -> InOrderOf(src.objs, SortedBy(src.objs, coll.prop, coll.descend))
      [] coll.c = "slice" -> Sliced(src.objs, coll.from, coll.to)

\* materialize_uncached.  A predicate that decides nothing on one element makes
\* the whole collection an error.
MaterializeStep(coll, c) ==
    CASE coll.c = "base" ->
           Objs(IF coll.name \in DOMAIN c.ev.colls THEN c.ev.colls[coll.name] ELSE <<>>)
      [] coll.c \in {"filtered", "sorted", "slice"} -> Derived(coll, Materialize(coll.source, c), c)
      [] coll.c = "union" -> Concat(Materialize(coll.parts[1], c), Materialize(coll.parts[2], c))
      [] coll.c = "project" -> Member(Tuples(coll.comb, c), coll.axis)
      [] coll.c = "comb" -> Member(Tuples(coll, c), "cand")

\* The fate of one tuple: an error ("U"), dropped ("F") or kept.  A disjoint composite
\* drops a pair of kinematically equal members; a tuple whose candidate has no value goes.
CutsOf(comb, env, c) == InOrder(TRUE, [i \in DOMAIN comb.cuts |-> Truth(comb.cuts[i], [c EXCEPT !.bind = env, !.this = <<>>])])
CandidateOf(comb, env, c) == IF comb.cand = <<>> THEN [k |-> "lv", lv |-> <<>>] ELSE Lorentz(comb.cand[1], [c EXCEPT !.bind = env])
Fate(comb, env, c) ==
    IF comb.disjoint /\ KinematicEq(env.l1, env.l2) THEN "F"
    ELSE [hard |-> "U", soft |-> "F", lv |-> CutsOf(comb, env, c)][CandidateOf(comb, env, c).k]
WithCandidate(env, cand) == env @@ ("cand" :> [x \in DOMAIN cand |-> cand[x].r])

\* comb_tuples: the tuples of a composite that survive, in row-major order.  A tuple is its
\* binder environment, the candidate (an object without properties if none is declared)
\* under the name "cand".
Surviving(comb, envs, fates, c) ==
    LET kept == SelectSeq([i \in DOMAIN envs |-> i], LAMBDA i : fates[i] = "T")
    IN  IF "U" \in ToSet(fates) THEN Hard
        ELSE Objs([n \in DOMAIN kept |-> WithCandidate(envs[kept[n]], CandidateOf(comb, envs[kept[n]], c).lv)])
AllFates(comb, envs, c) == Surviving(comb, envs, [i \in DOMAIN envs |-> Fate(comb, envs[i], c)], c)
Envs(a, b, pairs) == [i \in DOMAIN pairs |-> [l1 |-> a[pairs[i][1]], l2 |-> b[pairs[i][2]]]]
TuplesOf(comb, a, b, c) ==
    IF Hard \in {a, b} THEN Hard
    ELSE AllFates(comb, Envs(a.objs, b.objs, IndexPairs(Len(a.objs), Len(b.objs), comb.disjoint /\ comb.parts[1] = comb.parts[2])), c)
TuplesStep(comb, c) == TuplesOf(comb, Materialize(comb.parts[1], c), Materialize(comb.parts[2], c), c)

(***************************************************************************)
(* Particles: the object or vector a reference denotes.                     *)
(***************************************************************************)
MetVector(c) == IF DOMAIN c.ev.met = {} THEN Hard ELSE [k |-> "obj", obj |-> c.ev.met]

ElementOf(objs, at) == IF at = 0 THEN Soft ELSE [k |-> "obj", obj |-> objs[at]]
Element(src, index) == IF src.k = "hard" THEN Hard ELSE ElementOf(src.objs, ElemPosition(index, Len(src.objs)))

ParticleStep(p, c) ==
    CASE p.p = "elem" -> Element(Materialize(p.coll, c), p.index)
      [] p.p = "met" -> MetVector(c)
      [] p.p = "this" -> IF c.this = <<>> THEN Hard ELSE [k |-> "obj", obj |-> c.this[1]]
      [] p.p = "reduce" -> IF c.stack = <<>> THEN Hard ELSE [k |-> "obj", obj |-> Last(c.stack)]
      [] p.p = "binder" -> IF p.name \in DOMAIN c.bind
                           THEN [k |-> "obj", obj |-> c.bind[p.name]] ELSE Hard
      [] p.p = "whole" -> Hard

\* lorentz: every component must be there, and a missing mass is not massless;
\* the MET summand has neither eta nor mass.
VectorOf(one, need) ==
    IF one.k # "obj" THEN one
    ELSE IF ~(need \subseteq DOMAIN one.obj) THEN Soft
    ELSE [k |-> "lv", lv |-> [x \in Getters |-> IF x \in need THEN ApproxOf(one.obj[x]) ELSE Exact(Int2Rat(0))]]
Finite(lv) == IF NoVal \in {lv[x] : x \in Getters} THEN Soft ELSE [k |-> "lv", lv |-> lv]
VectorSum(a, b) ==
    IF a.k # "lv" THEN [k |-> a.k] ELSE IF b.k # "lv" THEN [k |-> b.k]
    ELSE Finite([x \in Getters |-> ApproxOf(RatAdd(a.lv[x].r, b.lv[x].r))])
LorentzStep(p, c) ==
    IF p.p = "sum" THEN VectorSum(Lorentz(p.parts[1], c), Lorentz(p.parts[2], c))
    ELSE VectorOf(Particle(p, c), IF p.p = "met" THEN {"pt", "phi"} ELSE Getters)

\* angles: the eta and phi a reference has, either of which may be absent.
Direction(lv) == IF lv.k # "lv" THEN lv ELSE [k |-> "obj", obj |-> [x \in {"eta", "phi"} |-> lv.lv[x].r]]
Angles(p, c) == IF p.p # "sum" THEN Particle(p, c) ELSE Direction(Lorentz(p, c))

Diff(x, a, b) == RatSub(Fl(a[x]), Fl(b[x]))
Larger(e, f) == IF RatLess(e, f) THEN f ELSE e
NeededFor == [dphi |-> {"phi"}, deta |-> {"eta"}, dr |-> {"phi", "eta"}]
\* The separation of two directions; the MET vector has no eta.
Separation(kind, a, b, metEta) ==
    CASE ~(NeededFor[kind] \subseteq DOMAIN a \cap DOMAIN b) \/ (metEta /\ "eta" \in NeededFor[kind]) -> Soft
      [] kind = "dphi" -> Val(ApproxOf(WrapDPhi(Diff("phi", a, b))))
      [] kind = "deta" -> Val(ApproxOf(Diff("eta", a, b)))
      [] kind = "dr" -> Val(ApproxOf(Larger(RatAbs(Diff("eta", a, b)), RatAbs(WrapDPhi(Diff("phi", a, b))))))
AngleOf(kind, pa, pb, metEta) ==
    IF pa.k # "obj" THEN pa ELSE IF pb.k # "obj" THEN pb ELSE Separation(kind, pa.obj, pb.obj, metEta)
Angular(kind, a, b, c) == AngleOf(kind, Angles(a, c), Angles(b, c), "met" \in {a.p, b.p})

\* The separations of a product of collections (OPEN-1), in any order.
PairSeps(q, a, b, c) ==
    IF Hard \in {a, b} THEN {Hard}
    ELSE {Angular(q.kind, [p |-> "elem", coll |-> q.a.coll, index |-> i],
                          [p |-> "elem", coll |-> q.b.coll, index |-> j], c) :
             i \in 0..(Len(a.objs) - 1), j \in 0..(Len(b.objs) - 1)}
WholeSepsStep(q, c) == PairSeps(q, Materialize(q.a.coll, c), Materialize(q.b.coll, c), c)

WholePair(q) == q.q = "ang" /\ q.a.p = "whole" /\ q.b.p = "whole"

\* whole_angular_min: the least separation of the pairs that have one.
LeastOf(vals) == IF vals = {} THEN NoVal ELSE [exact |-> FALSE, r |-> CHOOSE x \in vals : \A y \in vals : RatLeq(x, y)]
MinSep(seps) == LeastOf({s.v.r : s \in {x \in seps : x.k = "val"}})

(***************************************************************************)
(* Quantities.                                                              *)
(***************************************************************************)
\* event_scalar: a datum the event does not carry is an error, never a value.
EventPart(q, c) == CASE q.q = "met" -> c.ev.met [] q.q = "scalar" -> c.ev.scalars [] q.q = "trigger" -> c.ev.triggers
Datum(part, name) == IF name \in DOMAIN part THEN Val(Exact(part[name])) ELSE Hard
EventScalar(q, c) == Datum(EventPart(q, c), q.name)

Component(lv, name) == IF lv.k = "lv" THEN Val(lv.lv[name]) ELSE lv
RealOf(v) == IF v.k = "val" THEN Val(RealFn(ToF64(v.v))) ELSE v
External(q, c) ==
    IF q.arg.a = "particle" /\ q.name \in Getters THEN Component(Lorentz(q.arg.of, c), q.name)
    ELSE IF q.arg.a = "quantity" /\ q.name \in RealFns THEN RealOf(Quantity(q.arg.q, c))
    ELSE Hard

SizeOf(src) == IF src.k = "hard" THEN Hard ELSE Val(Exact(Int2Rat(Len(src.objs))))
PropOf(one, prop) == IF one.k = "obj" THEN Prop(one.obj, prop) ELSE one
LeastSep(seps) == IF Hard \in seps THEN Hard ELSE Val(MinSep(seps))

QuantityStep(q, c) ==
    CASE q.q \in {"met", "scalar", "trigger"} -> EventScalar(q, c)
      [] q.q = "size" -> SizeOf(Materialize(q.coll, c))
      [] q.q = "elem" -> PropOf(Particle([p |-> "elem", coll |-> q.coll, index |-> q.index], c), q.prop)
      [] q.q = "ang" -> IF WholePair(q) THEN LeastSep(WholeSeps(q, c)) ELSE Angular(q.kind, q.a, q.b, c)
      [] q.q = "ext" -> External(q, c)
      [] q.q = "present" -> BoolVal(TriOf(Quantity(q.of, c).k = "val"))

(***************************************************************************)
(* Shared steps of the two evaluators.                                      *)
(***************************************************************************)
\* The operand that decides a two-operand step: by order of evaluation a hard
\* error aborts first; in the Kleene reading a soft non-value is absorbing.
First2(a, b) == IF "hard" \in {a.k, b.k} THEN "hard" ELSE IF "soft" \in {a.k, b.k} THEN "soft" ELSE "val"
First3(a, b) == IF "soft" \in {a.k, b.k} THEN "soft" ELSE IF "hard" \in {a.k, b.k} THEN "hard" ELSE "val"

Compared(what, op, a, b) == CASE what = "hard" -> "U" [] what = "soft" -> "F"
                              [] what = "val" -> TriOf(CompareNum(op, a.v, b.v))
Computed(what, op, a, b) == IF what = "val" THEN Val(BinArith(op, a.v, b.v)) ELSE [k |-> what]

\* A numeric value used as a predicate: nonzero is true.
AsPredicate(v) == CASE v.k = "hard" -> "U" [] v.k = "soft" -> "F"
                    [] v.k = "val" -> TriOf(NonZero(v.v))

\* min and max of scalar arguments; an argument without a value decides it.
Picked(min, vs) == FoldLeft(LAMBDA acc, v : IF acc = NoVal THEN v.v ELSE NumPick(min, acc, v.v), NoVal, vs)
ScalarMinMax(min, vs) ==
    LET bad == {i \in DOMAIN vs : vs[i].k # "val"}
    IN  IF bad # {} THEN vs[Min(bad)] ELSE Val(Picked(min, vs))

IsWhole(n) == n.n = "qty" /\ WholePair(n.q)

\* angular_whole_cmp: every pair for > and >=, some pair for < and <=, the least
\* separation for = and #; a pair without a value counts as false.
LeastCmp(op, least, limit) == IF least = NoVal THEN TriOf(op = "ne") ELSE TriOf(CompareNum(op, least, limit))
Decides(op, s, limit) == s.k = "val" /\ CompareNum(op, s.v, limit)
SepsCmp(op, seps, limit) ==
    IF Hard \in seps THEN "U"
    ELSE IF op \in {"gt", "ge"} THEN TriOf(\A s \in seps : Decides(op, s, limit))
    ELSE IF op \in {"lt", "le"} THEN TriOf(\E s \in seps : Decides(op, s, limit))
    ELSE LeastCmp(op, MinSep(seps), limit)
WholeCmp(op, q, limit, c) == IF limit.k = "hard" THEN "U" ELSE IF limit.k = "soft" THEN "F"
                             ELSE SepsCmp(op, WholeSeps(q, c), limit.v)

\* reduce_bool: any and all, always in the Kleene reading.
InElement(c, obj) == [c EXCEPT !.stack = Append(@, obj)]
ReduceBoolOver(n, src, c) ==
    IF src.k = "hard" THEN "U"
    ELSE Kleene(n.kind = "all", {Truth3(n.body, InElement(c, src.objs[i])) : i \in DOMAIN src.objs})
ReduceBool(n, c) == ReduceBoolOver(n, Materialize(n.coll, c), c)

\* reduce_num: the first element without a value decides; an empty sum is 0, an
\* empty minimum or maximum has no value.
AddNext(acc, v) == IF acc.k # "val" THEN acc ELSE IF v.k # "val" THEN v ELSE Val(BinArith("add", acc.v, v.v))
Reduced(kind, vs) ==
    CASE kind = "sum" -> FoldLeft(AddNext, Val(Exact(Int2Rat(0))), vs)
      [] kind # "sum" /\ vs = <<>> -> Soft
      [] OTHER -> ScalarMinMax(kind = "min", vs)
ReduceNumOver(n, src, c) ==
    IF src.k = "hard" THEN Hard
    ELSE Reduced(n.kind, [i \in DOMAIN src.objs |-> Num3(n.body, InElement(c, src.objs[i]))])
ReduceNum(n, c) == ReduceNumOver(n, Materialize(n.coll, c), c)

IsBoolean(n) == \/ n.n \in {"bool", "not", "and", "or", "cmp", "band", "region"}
                \/ n.n = "reduce" /\ n.kind \in {"any", "all"}

(***************************************************************************)
(* The short-circuiting evaluator (truth, num).                             *)
(***************************************************************************)
Cmp2(op, a, b) == Compared(First2(a, b), op, a, b)
Bin2(op, a, b) == Computed(First2(a, b), op, a, b)
InBand(n, v) == IF v.k = "val" THEN TriOf(BandHolds(n.inside, v.v, n.lo, n.hi)) ELSE AsPredicate(v)
Mapped(v, F(_)) == IF v.k = "val" THEN Val(F(v.v)) ELSE v

TruthStep(n, c) ==
    CASE n.n = "bool" -> TriOf(n.b)
      [] n.n = "not" -> TriNot(Truth(n.a, c))
      [] n.n \in {"and", "or"} -> InOrder(n.n = "and", [i \in DOMAIN n.parts |-> Truth(n.parts[i], c)])
      [] n.n = "cmp" ->
           IF IsWhole(n.l) \/ IsWhole(n.r)
           THEN WholeCmp(IF IsWhole(n.l) THEN n.op ELSE FlipOp(n.op), IF IsWhole(n.l) THEN n.l.q ELSE n.r.q,
                         Num(IF IsWhole(n.l) THEN n.r ELSE n.l, c), c)
           ELSE Cmp2(n.op, Num(n.l, c), Num(n.r, c))
      [] n.n = "band" -> InBand(n, Num(n.e, c))
      [] n.n = "tern" -> [T |-> Truth(n.t, c), F |-> Truth(n.e, c), U |-> "U"][Truth(n.g, c)]
      [] n.n = "region" -> Region(n.i, c)
      [] n.n = "reduce" /\ IsBoolean(n) -> ReduceBool(n, c)
      [] n.n \in {"collprop", "unsup"} -> "U"
      [] OTHER -> AsPredicate(Num(n, c))

NumStep(n, c) ==
    CASE n.n = "num" -> Val(Exact(n.v))
      [] n.n = "qty" -> Quantity(n.q, c)
      [] n.n = "self" -> IF c.this = <<>> THEN Hard ELSE Prop(c.this[1], n.prop)
      [] n.n = "relem" -> IF c.stack = <<>> THEN Hard ELSE Prop(Last(c.stack), n.prop)
      [] n.n = "reduce" /\ ~IsBoolean(n) -> ReduceNum(n, c)
      [] n.n = "neg" -> Mapped(Num(n.a, c), NumNeg)
      [] n.n = "abs" -> Mapped(Num(n.a, c), NumAbs)
      [] n.n = "bin" -> Bin2(n.op, Num(n.l, c), Num(n.r, c))
      [] n.n = "minmax" -> ScalarMinMax(n.min, [i \in DOMAIN n.args |-> Num(n.args[i], c)])
      [] n.n = "tern" -> [T |-> Num(n.t, c), F |-> Num(n.e, c), U |-> Hard][Truth(n.g, c)]
      [] n.n \in {"collprop", "unsup"} -> Hard
      [] IsBoolean(n) -> BoolVal(Truth(n, c))

(***************************************************************************)
(* The Kleene evaluator (truth3, num3).                                     *)
(***************************************************************************)
Cmp3(op, a, b) == Compared(First3(a, b), op, a, b)
Bin3(op, a, b) == Computed(First3(a, b), op, a, b)
\* A ternary whose guard is unknown has the value its branches share.
Branch3(g, t, e, unknown) == IF g = "T" \/ t = e THEN t ELSE IF g = "F" THEN e ELSE unknown

Truth3Step(n, c) ==
    CASE n.n = "not" -> TriNot(Truth3(n.a, c))
      [] n.n \in {"and", "or"} -> Kleene(n.n = "and", {Truth3(n.parts[i], c) : i \in DOMAIN n.parts})
      [] n.n = "cmp" -> IF IsWhole(n.l) \/ IsWhole(n.r) THEN Truth(n, c) ELSE Cmp3(n.op, Num3(n.l, c), Num3(n.r, c))
      [] n.n = "band" -> InBand(n, Num3(n.e, c))
      [] n.n = "tern" -> Branch3(Truth3(n.g, c), Truth3(n.t, c), Truth3(n.e, c), "U")
      [] n.n = "region" -> Region3(n.i, c)
      [] n.n \in {"qty", "num", "self", "relem", "neg", "abs", "bin", "minmax"}
         \/ (n.n = "reduce" /\ ~IsBoolean(n)) -> AsPredicate(Num3(n, c))
      [] OTHER -> Truth(n, c)

Num3Step(n, c) ==
    CASE n.n = "neg" -> Mapped(Num3(n.a, c), NumNeg)
      [] n.n = "abs" -> Mapped(Num3(n.a, c), NumAbs)
      [] n.n = "bin" -> Bin3(n.op, Num3(n.l, c), Num3(n.r, c))
      [] n.n = "minmax" -> ScalarMinMax(n.min, [i \in DOMAIN n.args |-> Num3(n.args[i], c)])
      [] n.n = "tern" -> Branch3(Truth3(n.g, c), Num3(n.t, c), Num3(n.e, c), Hard)
      [] n.n \in {"not", "and", "or", "cmp", "band", "region"} \/ (n.n = "reduce" /\ IsBoolean(n)) ->
           BoolVal(Truth3(n, c))
      [] OTHER -> Num(n, c)

(***************************************************************************)
(* Regions.                                                                 *)
(***************************************************************************)
Neutral(s) == s.s \in {"bin", "bincond"} \/ (s.s = "nonmember" /\ s.known)

\* A statement's verdict, given its condition's, or that of the region it inherits.
Judged(s, t) == IF s.s = "reject" THEN TriNot(t) ELSE t
StmtStep(s, c) == CASE s.s \in {"select", "trigger", "reject"} -> Judged(s, Truth(s.n, c))
                    [] s.s = "inherit" -> Region(s.region, c)
                    [] s.s = "nonmember" /\ ~s.known -> "U"
                    [] Neutral(s) -> "T"

Stmt3Step(s, c) == CASE s.s \in {"select", "trigger", "reject"} -> Judged(s, Truth3(s.n, c))
                     [] s.s = "inherit" -> Region3(s.region, c)
                     [] s.s = "nonmember" /\ ~s.known -> "U"
                     [] Neutral(s) -> "T"

\* region_walk: the first statement that does not pass decides.
RegionStep(i, c) == InOrder(TRUE, [k \in DOMAIN Regions[i] |-> Stmt(Regions[i][k], c)])

\* region3: a rejection anywhere wins over whatever is unknown.
Region3Step(i, c) == Kleene(TRUE, {Stmt3(Regions[i][k], c) : k \in DOMAIN Regions[i]})

(***************************************************************************)
(* The recursion.                                                           *)
(***************************************************************************)
Eval(what, x, c) ==
    CASE what = "objects" -> MaterializeStep(x, c)
      [] what = "tuples" -> TuplesStep(x, c)
      [] what = "particle" -> ParticleStep(x, c)
      [] what = "vector" -> LorentzStep(x, c)
      [] what = "separations" -> WholeSepsStep(x, c)
      [] what = "quantity" -> QuantityStep(x, c)
      [] what = "truth" -> TruthStep(x, c)
      [] what = "number" -> NumStep(x, c)
      [] what = "truth3" -> Truth3Step(x, c)
      [] what = "number3" -> Num3Step(x, c)
      [] what = "statement" -> StmtStep(x, c)
      [] what = "statement3" -> Stmt3Step(x, c)
      [] what = "region" -> RegionStep(x, c)
      [] what = "region3" -> Region3Step(x, c)
=============================================================================
