---------------------------- MODULE EncodeTerms ----------------------------
(***************************************************************************)
(* What the encoder (adl-formula/src/encode.rs) knows of a quantity and of   *)
(* an expression before it builds a formula: which may have no value, which  *)
(* the interpreter computes exactly, and which flatten to a linear           *)
(* expression without changing what the interpreter would have computed.     *)
(***************************************************************************)
EXTENDS Formula, Interp

CONSTANTS Open1Bound,   \* instances of an unbounded expansion over a collection
          Comb2dBound,  \* indices tried per binder of a composite
          SliceCap      \* widest static slice expanded exactly

(***************************************************************************)
(* The quantity table.                                                      *)
(***************************************************************************)
\* QuantityTable::absence: what the interpreter makes of a quantity it cannot read.
Absence(q) == CASE q.q \in {"size", "present"} -> "never"
                [] q.q \in {"met", "scalar", "trigger"} -> "hard"
                [] q.q \in {"elem", "ang", "ext"} -> "soft"
MayBeAbsent(q) == Absence(q) # "never"

HasUnindexedLeg(q) == q.q = "ang" /\ "whole" \in {q.a.p, q.b.p}

\* existence_floor: the elements a quantity reads, as <<collection, last index>>.
Floor(index) == IF index >= 0 THEN index ELSE -index - 1
RECURSIVE ExistenceFloor(_)
ExistenceFloor(q) ==
    CASE q.q = "elem" -> {<<q.coll, Floor(q.index)>>}
      [] q.q = "ang" -> {<<p.coll, Floor(p.index)>> : p \in {x \in {q.a, q.b} : x.p = "elem"}}
      [] q.q = "present" -> ExistenceFloor(q.of)
      [] OTHER -> {}

(***************************************************************************)
(* Trees.                                                                   *)
(***************************************************************************)
\* hnode_children: the body of a reducer is not a child.
Children(n) == CASE n.n \in {"neg", "not", "abs"} -> {n.a}
                 [] n.n \in {"bin", "cmp"} -> {n.l, n.r}
                 [] n.n \in {"and", "or"} -> Range(n.parts)
                 [] n.n = "band" -> {n.e}
                 [] n.n = "minmax" -> Range(n.args)
                 [] n.n = "tern" -> {n.g, n.t, n.e}
                 [] OTHER -> {}

RECURSIVE Subnodes(_), IsConstTree(_), ConstTreeNum(_), Renderable(_), ExactValued(_), F64ExactApprox(_),
          Subst(_, _), Lin(_)
Subnodes(n) == {n} \cup UNION {Subnodes(c) : c \in Children(n)}

Unsupported(n) == \E x \in Subnodes(n) : x.n = "unsup"                   \* first_unsupported
CollProps(n) == {x.coll : x \in {y \in Subnodes(n) : y.n = "collprop"}}  \* collect_collprops
Quantities(n) == {x.q : x \in {y \in Subnodes(n) : y.n = "qty"}}         \* collect_quantities
MentionsUnindexed(n) == \E q \in Quantities(n) : HasUnindexedLeg(q)

\* reduce_body_key: the trees that have an injective key, so that an opaque
\* quantity may stand for their value.
Renderable(n) == CASE n.n \in {"num", "qty", "relem", "collprop"} -> TRUE
                   [] n.n \in {"neg", "abs", "bin", "minmax"} -> \A c \in Children(n) : Renderable(c)
                   [] n.n = "reduce" -> Renderable(n.body)
                   [] OTHER -> FALSE
Opaque(n) == [q |-> "ext", name |-> "opaque", arg |-> [a |-> "node", node |-> n]]

IsConstTree(n) == \/ n.n = "num"
                  \/ n.n \in {"neg", "abs", "bin", "minmax"} /\ \A c \in Children(n) : IsConstTree(c)

\* const_tree_num, with the arithmetic the interpreter uses; NoVal for a
\* division by zero.
ConstStep(n, v) == CASE n.n = "neg" -> NumNeg(v[n.a])
                     [] n.n = "abs" -> NumAbs(v[n.a])
                     [] n.n = "bin" -> BinArith(n.op, v[n.l], v[n.r])
                     [] n.n = "minmax" -> FoldLeft(LAMBDA acc, a : NumPick(n.min, acc, v[a]), v[n.args[1]], n.args)
ConstOf(n, v) == IF \E c \in DOMAIN v : v[c] = NoVal THEN NoVal ELSE ConstStep(n, v)
ConstTreeNum(n) == IF n.n = "num" THEN Exact(n.v) ELSE ConstOf(n, [c \in Children(n) |-> ConstTreeNum(c)])

PowerOfTwo(r) == \E e \in 0..8 : <<Magnitude(r[1]), r[2]>> \in {<<2^e, 1>>, <<1, 2^e>>}

\* is_exact_valued: the interpreter computes this on exact rationals throughout.
ExactValued(n) ==
    CASE n.n = "qty" -> n.q.q \in {"met", "scalar", "trigger", "size", "elem"}
      [] n.n \in {"num", "self", "relem", "collprop"} -> TRUE
      [] n.n = "reduce" -> IsBoolean(n) \/ ExactValued(n.body)
      [] IsBoolean(n) -> TRUE
      [] n.n \in {"neg", "abs", "bin", "minmax"} -> \A c \in Children(n) : ExactValued(c)
      [] n.n = "tern" -> ExactValued(n.t) /\ ExactValued(n.e)
      [] OTHER -> FALSE

\* is_f64_exact_approx: approximate, but no step of it rounds.
ScalesExactly(side, other) == IsConstTree(side) /\ PowerOfTwo(ConstTreeNum(side).r) /\ F64ExactApprox(other)
Factors(n) == CASE n.op = "mul" -> {<<n.l, n.r>>, <<n.r, n.l>>} [] n.op = "div" -> {<<n.r, n.l>>} [] OTHER -> {}
F64ExactApprox(n) == \/ n.n = "qty"
                     \/ n.n = "reduce" /\ ~IsBoolean(n)
                     \/ n.n \in {"neg", "abs"} /\ F64ExactApprox(n.a)
                     \/ n.n = "bin" /\ \E p \in Factors(n) : ScalesExactly(p[1], p[2])
FlattensFaithfully(n) == ExactValued(n) \/ F64ExactApprox(n)

\* edge_mode_pair: how the interpreter compares the two sides.
EdgeMode(n) == IF ExactValued(n) THEN "exact" ELSE "f64"
SharedMode(x, y, exact) == IF x = y THEN x ELSE IF IsConstTree(exact) THEN "f64" ELSE "unmodelable"
EdgeModePair(l, r) == SharedMode(EdgeMode(l), EdgeMode(r), IF ExactValued(l) THEN l ELSE r)

\* Mutant: the exact threshold against a rounded value.
AtEdgeExact(mode, k) == k

AtEdge(mode, k) == IF mode = "f64" THEN Fl(k) ELSE k

(***************************************************************************)
(* Substitution of an element for a collection (subst), for the element of   *)
(* a reducer (subst_reduce) or for the binders of a composite.              *)
(***************************************************************************)
ElemRef(coll, index) == [p |-> "elem", coll |-> coll, index |-> index]
ElemQty(coll, index, prop) == [n |-> "qty", q |-> [q |-> "elem", coll |-> coll, index |-> index, prop |-> prop]]

SubstParticle(p, s) ==
    IF s.to = "reduce" /\ p.p = "reduce" THEN ElemRef(s.coll, s.index)
    ELSE IF s.to = "binders" /\ p.p = "binder" /\ p.name \in DOMAIN s.slots THEN s.slots[p.name]
    ELSE p

SubstQuantity(q, s) ==
    CASE q.q = "ang" -> [q EXCEPT !.a = SubstParticle(@, s), !.b = SubstParticle(@, s)]
      [] q.q = "ext" /\ q.arg.a = "particle" -> [q EXCEPT !.arg.of = SubstParticle(@, s)]
      [] OTHER -> q

Subst(n, s) ==
    CASE n.n = "collprop" /\ s.to = "coll" /\ n.coll = s.coll -> ElemQty(s.coll, s.index, n.prop)
      [] n.n = "relem" /\ s.to = "reduce" -> ElemQty(s.coll, s.index, n.prop)
      [] n.n = "qty" -> [n EXCEPT !.q = SubstQuantity(@, s)]
      [] n.n \in {"neg", "not", "abs"} -> [n EXCEPT !.a = Subst(@, s)]
      [] n.n \in {"bin", "cmp"} -> [n EXCEPT !.l = Subst(@, s), !.r = Subst(@, s)]
      [] n.n \in {"and", "or"} -> [n EXCEPT !.parts = [i \in DOMAIN @ |-> Subst(@[i], s)]]
      [] n.n = "minmax" -> [n EXCEPT !.args = [i \in DOMAIN @ |-> Subst(@[i], s)]]
      [] n.n = "band" -> [n EXCEPT !.e = Subst(@, s)]
      [] n.n = "tern" -> [n EXCEPT !.g = Subst(@, s), !.t = Subst(@, s), !.e = Subst(@, s)]
      [] OTHER -> n

CollInstance(n, coll, i) == Subst(n, [to |-> "coll", coll |-> coll, index |-> i])        \* subst
ReducerInstance(n, coll, i) == Subst(n, [to |-> "reduce", coll |-> coll, index |-> i])  \* subst_reduce
BinderInstance(n, slots) == Subst(n, [to |-> "binders", slots |-> slots])               \* subst_binders

\* has_residual_binder: a binder no slot stands for, the candidate of a composite.
RECURSIVE HasBinder(_)
HasBinder(p) == p.p = "binder" \/ (p.p = "sum" /\ \E i \in DOMAIN p.parts : HasBinder(p.parts[i]))
HasResidualBinder(n) ==
    \E q \in Quantities(n) : \/ q.q = "ang" /\ (HasBinder(q.a) \/ HasBinder(q.b))
                             \/ q.q = "ext" /\ q.arg.a = "particle" /\ HasBinder(q.arg.of)

(***************************************************************************)
(* Linear expressions: terms . quantities + k, or why there is none.        *)
(***************************************************************************)
Linear0(k) == [ok |-> TRUE, terms |-> <<>>, k |-> k]
LinQty(q) == [ok |-> TRUE, terms |-> q :> Int2Rat(1), k |-> Int2Rat(0)]
NonLinear == [ok |-> FALSE, why |-> "nonlinear"]
NonFinite == [ok |-> FALSE, why |-> "nonfinite"]
IsConstant(e) == e.ok /\ DOMAIN e.terms = {}

Coef(e, q) == IF q \in DOMAIN e.terms THEN e.terms[q] ELSE Int2Rat(0)
Scale(e, c) == [e EXCEPT !.k = RatMul(@, c), !.terms = [q \in DOMAIN @ |-> RatMul(@[q], c)]]
\* LinExpr::combine: a coefficient that cancels stays, so that the quantity is
\* still known to be read.
Combine(x, y) == [ok |-> TRUE, k |-> RatAdd(x.k, y.k),
                  terms |-> [q \in DOMAIN x.terms \cup DOMAIN y.terms |-> RatAdd(Coef(x, q), Coef(y, q))]]
Minus(x, y) == Combine(x, Scale(y, Int2Rat(-1)))

\* lin_binary.
LinBinary(op, l, r) ==
    CASE op \in {"add", "sub"} ->
           IF ~l.ok THEN l ELSE IF ~r.ok THEN r ELSE IF op = "add" THEN Combine(l, r) ELSE Minus(l, r)
      [] op = "mul" ->
           IF ~l.ok THEN l ELSE IF ~r.ok THEN r
           ELSE IF IsConstant(l) THEN Scale(r, l.k)
           ELSE IF IsConstant(r) THEN Scale(l, r.k) ELSE NonLinear
      [] op = "div" ->
           IF ~r.ok THEN r ELSE IF ~IsConstant(r) THEN NonLinear
           ELSE IF r.k[1] = 0 THEN NonFinite
           ELSE IF ~l.ok THEN l ELSE Scale(l, RatDiv(Int2Rat(1), r.k))

LinConst(v) == IF v = NoVal THEN NonFinite ELSE Linear0(v.r)
LinScaled(e, c) == IF e.ok THEN Scale(e, c) ELSE e
LinParts(n) == CASE n.n = "neg" -> LinScaled(Lin(n.a), Int2Rat(-1))
                 [] n.n = "bin" -> LinBinary(n.op, Lin(n.l), Lin(n.r))
Lin(n) == IF IsConstTree(n) THEN LinConst(ConstTreeNum(n))
          ELSE CASE n.n = "qty" -> LinQty(n.q)
                 [] n.n \in {"neg", "bin"} -> IF FlattensFaithfully(n) THEN LinParts(n) ELSE NonLinear
                 [] n.n = "reduce" /\ ~IsBoolean(n) /\ Renderable(n.body) -> LinQty(Opaque(n))
                 [] OTHER -> NonLinear

\* lin_or_opaque.
OrOpaque(e, n) == IF e = NonLinear /\ Renderable(n) THEN LinQty(Opaque(n)) ELSE e
LinOrOpaque(n) == OrOpaque(Lin(n), n)
=============================================================================
