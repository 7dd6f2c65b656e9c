------------------------------- MODULE Kernel -------------------------------
(***************************************************************************)
(* The trusted part of the certificate kernel (adl-certify: saturate.rs,      *)
(* constraint.rs, certificate.rs).  A conjunction of formulas is refuted by a  *)
(* tree: a case split on the leftmost disjunction, and at each leaf Farkas     *)
(* multipliers that add its linear constraints up to a contradiction.        *)
(* `Replay' adds up again; who wrote the tree down does not matter.           *)
(*                                                                           *)
(* The formulas and what they say of a point are parameters, of which only     *)
(* what a conjunction, a disjunction and a bound mean is assumed.             *)
(***************************************************************************)
EXTENDS QFormula, SequencesExt

CONSTANTS MaxDepth,    \* MAX_DEPTH: nesting of case splits
          MaxPops,     \* bound: formulas taken off the stack of one saturation
          Quantities,  \* the quantities are 1..Quantities
          Formulas,    \* the formulas, with their parts and the bounds they are split into
          Points,      \* the valuations of the quantities
          Sat(_, _)    \* what a formula says of a point

Bounding == {"lt", "le", "gt", "ge"}
Zero == Int2Rat(0)
One == Int2Rat(1)
CoefOf(row, q) == IF q \in DOMAIN row THEN row[q] ELSE Zero

\* The value of a linear form at a point.
ValueAt(row, v) ==
    LET sum[n \in 0..Quantities] ==
            IF n = 0 THEN Zero ELSE RatAdd(RatMul(CoefOf(row, n), v[n]), sum[n - 1])
    IN  sum[Quantities]

(***************************************************************************)
(* saturate.rs: the conjunction as a sequence of bounds and disjunctions.  The *)
(* stack of formulas to look at holds the next one first.                    *)
(***************************************************************************)
Retagged(atom, rel) == Atom(atom.terms, rel, atom.k)
AsBounds(atom) == <<Retagged(atom, "le"), Retagged(atom, "ge")>>
AsSplit(atom) == Or(<<Retagged(atom, "lt"), Retagged(atom, "gt")>>)

ASSUME SizesAssumption == MaxDepth \in Nat /\ MaxPops \in Nat /\ Quantities \in Nat
ASSUME PointsAssumption == Points \subseteq [1..Quantities -> Rats]
ASSUME FormulasAssumption ==
    \A f \in Formulas :
        \/ f \in {TrueF, FalseF}
        \/ f.f \in {"and", "or"} /\ f.parts \in Seq(Formulas)
        \/ /\ f.f = "atom" /\ f.k \in Rats /\ f.rel \in Bounding \cup {"eq", "ne"}
           /\ DOMAIN f.terms \subseteq 1..Quantities /\ f.terms \in [DOMAIN f.terms -> Rats]
           /\ f.rel = "eq" => AsBounds(f) \in Seq(Formulas)
           /\ f.rel = "ne" => AsSplit(f) \in Formulas
ASSUME ReadingAssumption ==
    \A v \in Points :
        /\ ~Sat(FalseF, v)
        /\ \A f \in Formulas :
             /\ f.f = "and" => (Sat(f, v) <=> \A i \in DOMAIN f.parts : Sat(f.parts[i], v))
             /\ f.f = "or" => (Sat(f, v) <=> \E i \in DOMAIN f.parts : Sat(f.parts[i], v))
             /\ f.f = "atom" /\ f.rel \in Bounding => (Sat(f, v) <=> CmpRat(f.rel, ValueAt(f.terms, v), f.k))
             /\ f.f = "atom" /\ f.rel = "eq" => (Sat(f, v) <=> \A i \in {1, 2} : Sat(AsBounds(f)[i], v))
             /\ f.f = "atom" /\ f.rel = "ne" => (Sat(f, v) <=> Sat(AsSplit(f), v))

\* No point satisfies all of them.
Conflict(conj) == ~\E v \in Points : \A i \in DOMAIN conj : Sat(conj[i], v)

\* The formula on top leaves the stack.
Sorted(f, rest, w) ==
    CASE f.f = "true" -> [w EXCEPT !.stack = rest]
      [] f.f = "false" -> [w EXCEPT !.stack = rest, !.hasFalse = TRUE]
      [] f.f = "and" -> [w EXCEPT !.stack = f.parts \o rest]
      [] f.f = "atom" /\ f.rel = "eq" -> [w EXCEPT !.stack = rest, !.items = @ \o AsBounds(f)]
      [] f.f = "atom" /\ f.rel = "ne" -> [w EXCEPT !.stack = rest, !.items = Append(@, AsSplit(f))]
      [] OTHER -> [w EXCEPT !.stack = rest, !.items = Append(@, f)]
Popped(w) == IF w.stack = <<>> THEN w ELSE Sorted(Head(w.stack), Tail(w.stack), w)

\* The loop of `saturate'; it has ended when the stack is empty.
Unsorted(conj) == [stack |-> conj, items |-> <<>>, hasFalse |-> FALSE]
Saturation(conj) ==
    LET turn[n \in 0..MaxPops] == IF n = 0 THEN Unsorted(conj) ELSE Popped(turn[n - 1])
    IN  turn[MaxPops]

Splits(items) == {i \in DOMAIN items : items[i].f = "or"}
Leftmost(items) == CHOOSE i \in Splits(items) : \A j \in Splits(items) : i <= j
Disjuncts(items) == items[Leftmost(items)].parts
BuildChild(items, j, chosen) == Append(RemoveAt(items, j), chosen)

(***************************************************************************)
(* constraint.rs: every bound as row <= b or row < b; a sum of constraints   *)
(* with multipliers that are not negative refutes if it says 0 <= s < 0.     *)
(***************************************************************************)
Row(terms) == [q \in {x \in DOMAIN terms : terms[x][1] # 0} |-> terms[q]]
Upward(atom) == [row |-> atom.terms, b |-> atom.k, strict |-> atom.rel = "lt"]
Downward(atom) == [row |-> [q \in DOMAIN atom.terms |-> RatNeg(atom.terms[q])],
                   b |-> RatNeg(atom.k), strict |-> atom.rel = "gt"]
Canonical(atom) == IF atom.rel \in {"ge", "gt"} THEN Downward(atom) ELSE Upward(atom)
Constraints(items) == [i \in DOMAIN items |-> Canonical(items[i])]    \* of a leaf

Scaled(m, x) == [q \in DOMAIN x |-> RatMul(m, x[q])]
Plus(r, s) == Row([q \in DOMAIN r \cup DOMAIN s |-> RatAdd(CoefOf(r, q), CoefOf(s, q))])

\* A constraint without a row that no point satisfies.
Contradicts(con) == DOMAIN con.row = {} /\ IF con.strict THEN RatLeq(con.b, Zero) ELSE RatLess(con.b, Zero)

\* A multiplier that is zero adds nothing, and makes nothing strict.
Added(con, lambda, sum) ==
    IF RatSign(lambda) = 0 THEN sum
    ELSE [row |-> Plus(Scaled(lambda, con.row), sum.row), b |-> RatAdd(RatMul(lambda, con.b), sum.b),
          strict |-> con.strict \/ sum.strict]
NoSum == [row |-> <<>>, b |-> Zero, strict |-> FALSE]
Combination(cons, lambdas) ==
    LET sum[n \in 0..Len(cons)] == IF n = 0 THEN NoSum ELSE Added(cons[n], lambdas[n], sum[n - 1])
    IN  sum[Len(cons)]
FarkasRefutes(cons, lambdas) ==
    /\ DOMAIN lambdas = DOMAIN cons
    /\ \A i \in DOMAIN lambdas : lambdas[i] \in Rats /\ RatLeq(Zero, lambdas[i])
    /\ Contradicts(Combination(cons, lambdas))

(***************************************************************************)
(* certificate.rs.  `replay_node' calls itself for every branch of a split:   *)
(* the calls of one depth after those of the depth above.                     *)
(***************************************************************************)
Contradiction == [node |-> "contradiction"]
Farkas(lambdas) == [node |-> "farkas", multipliers |-> lambdas]
Split(branches) == [node |-> "split", branches |-> branches]

\* Mutant of Covers: a split need not cover every disjunct.
CoversSome(branches, disjuncts) == DOMAIN branches \subseteq DOMAIN disjuncts
Covers(branches, disjuncts) == DOMAIN branches = DOMAIN disjuncts

\* What one call checks before it calls itself.
Fits(cert, sat) ==
    IF sat.hasFalse THEN cert = Contradiction
    ELSE IF Splits(sat.items) = {}
    THEN cert.node = "farkas" /\ FarkasRefutes(Constraints(sat.items), cert.multipliers)
    ELSE cert.node = "split" /\ Covers(cert.branches, Disjuncts(sat.items))
Verifies(call) == LET sat == Saturation(call.conj) IN sat.stack = <<>> /\ Fits(call.cert, sat)

Branches(cert, items) ==
    {[cert |-> cert.branches[i], conj |-> BuildChild(items, Leftmost(items), Disjuncts(items)[i])] :
        i \in DOMAIN cert.branches}
SubCalls(call) == LET sat == Saturation(call.conj)
                  IN  IF ~sat.hasFalse /\ Splits(sat.items) # {} THEN Branches(call.cert, sat.items) ELSE {}
Descended(l) == IF \A call \in l.calls : Verifies(call)
                THEN [ok |-> l.ok, calls |-> UNION {SubCalls(call) : call \in l.calls}]
                ELSE [ok |-> FALSE, calls |-> {}]

\* Certificate::replay: every call is in order, and none is deeper than MaxDepth.
Outermost(cert, conj) == [ok |-> TRUE, calls |-> {[cert |-> cert, conj |-> conj]}]
Replay(cert, conj) ==
    LET level[d \in 0..(MaxDepth + 1)] == IF d = 0 THEN Outermost(cert, conj) ELSE Descended(level[d - 1])
    IN  level[MaxDepth + 1] = [ok |-> TRUE, calls |-> {}]
=============================================================================
