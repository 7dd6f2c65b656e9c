------------------------------- MODULE Certify -------------------------------
(***************************************************************************)
(* Where certificates come from (adl-certify: search.rs, fm.rs, direct.rs).   *)
(* The search finds the tree by Fourier-Motzkin elimination within a budget,   *)
(* `direct' writes it down for two bounds that cross; what the kernel does not  *)
(* accept is not handed out.                                                 *)
(***************************************************************************)
EXTENDS Kernel, Interval

CONSTANTS MaxBranches,  \* Budget::max_branches: disjuncts entered in one search
          MaxAtoms,     \* Budget::max_atoms: constraints of one leaf
          FillSlack,    \* rows an elimination may hold beyond the square of MaxAtoms
          MaxDirect     \* MAX_CONSTRAINTS: constraints `direct' looks at

(***************************************************************************)
(* fm.rs: elimination, each row with the multipliers it came from.           *)
(***************************************************************************)
Unit(n, i) == [k \in 1..n |-> IF k = i THEN One ELSE Zero]
Eliminand(rows) == Min(UNION {DOMAIN rows[i].row : i \in DOMAIN rows})   \* pick_var

Weighted(p, n, mp, mn) ==
    [row |-> Plus(Scaled(mp, p.row), Scaled(mn, n.row)),
     b |-> RatAdd(RatMul(mp, p.b), RatMul(mn, n.b)), strict |-> p.strict \/ n.strict,
     prov |-> [k \in DOMAIN p.prov |-> RatAdd(RatMul(mp, p.prov[k]), RatMul(mn, n.prov[k]))]]

\* Mutant of CombineRows: the multipliers are swapped.
CombineRowsSwapped(p, n, v) == Weighted(p, n, p.row[v], RatNeg(n.row[v]))

\* combine: v cancels between an upper bound p and a lower bound n.
CombineRows(p, n, v) == Weighted(p, n, RatNeg(n.row[v]), p.row[v])

Open(row) == DOMAIN row.row # {}
Refuted1(rows) == {i \in DOMAIN rows : Contradicts(rows[i])}

\* The rows in which v has a coefficient of sign s, and every pair of them.
Signed(rows, v, s) == SelectSeq(rows, LAMBDA r : RatSign(CoefOf(r.row, v)) = s)
Combined(pos, neg, v) == [k \in 1..(Len(pos) * Len(neg)) |->
                            CombineRows(pos[((k - 1) \div Len(neg)) + 1], neg[((k - 1) % Len(neg)) + 1], v)]
\* The new rows that do not fit any more.
Overfull(rest, new) == {k \in DOMAIN new : Open(new[k]) /\
    Len(rest) + Cardinality({i \in 1..k : Open(new[i])}) > MaxAtoms * MaxAtoms + FillSlack}

RECURSIVE Eliminate(_)
EliminateStep(rest, new, dead, full) ==
    IF dead # {} /\ \A k \in full : Min(dead) < k THEN [out |-> "refuted", prov |-> new[Min(dead)].prov]
    ELSE IF full # {} THEN [out |-> "fill", prov |-> <<>>]
    ELSE Eliminate(rest \o SelectSeq(new, Open))
EliminateNew(rest, new) == EliminateStep(rest, new, Refuted1(new), Overfull(rest, new))
EliminateVar(rows, v) == EliminateNew(Signed(rows, v, 0), Combined(Signed(rows, v, 1), Signed(rows, v, -1), v))
Eliminate(rows) == IF rows = <<>> THEN [out |-> "feasible", prov |-> <<>>]
                   ELSE EliminateVar(rows, Eliminand(rows))

RowsOf(cons) == [i \in DOMAIN cons |-> [row |-> cons[i].row, b |-> cons[i].b, strict |-> cons[i].strict,
                                        prov |-> Unit(Len(cons), i)]]
SolveRows(rows, dead) == IF dead # {} THEN [out |-> "refuted", prov |-> rows[Min(dead)].prov]
                         ELSE Eliminate(SelectSeq(rows, Open))
SolveFrom(rows) == SolveRows(rows, Refuted1(rows))
SolveLeaf(cons) == SolveFrom(RowsOf(cons))

(***************************************************************************)
(* search.rs.  `spent' counts the branches entered so far in the whole tree. *)
(***************************************************************************)
Failure(why, spent) == [ok |-> FALSE, why |-> why, spent |-> spent]
Success(cert, spent) == [ok |-> TRUE, cert |-> cert, spent |-> spent]
LeafResult(leaf, spent) == IF leaf.out = "refuted" THEN Success(Farkas(leaf.prov), spent)
                           ELSE Failure(leaf.out, spent)
RefuteLeaf(cons, spent) == IF Len(cons) > MaxAtoms THEN Failure("atoms", spent)
                           ELSE LeafResult(SolveLeaf(cons), spent)

\* `done' holds the certificates of the disjuncts of items[j] entered before.
RECURSIVE Refute(_, _, _), RefuteFrom(_, _, _, _, _)
RefuteNext(items, done, depth, j, branch) ==
    IF ~branch.ok THEN branch ELSE RefuteFrom(items, Append(done, branch.cert), depth, branch.spent, j)
RefuteFrom(items, done, depth, spent, j) ==
    IF Len(done) = Len(items[j].parts) THEN Success(Split(done), spent)
    ELSE IF spent + 1 > MaxBranches THEN Failure("branches", spent + 1)
    ELSE RefuteNext(items, done, depth, j,
                    Refute(BuildChild(items, j, items[j].parts[Len(done) + 1]), depth + 1, spent + 1))
RefuteItems(sat, depth, spent) ==
    IF depth > MaxDepth THEN Failure("depth", spent)
    ELSE IF sat.hasFalse THEN Success(Contradiction, spent)
    ELSE IF Splits(sat.items) # {} THEN RefuteFrom(sat.items, <<>>, depth, spent, Leftmost(sat.items))
    ELSE RefuteLeaf(Constraints(sat.items), spent)
Refute(conj, depth, spent) == RefuteItems(Saturation(conj), depth, spent)

\* certify_unsat: a certificate the kernel would not accept is never handed out.
Confirmed(r, conj) == IF r.ok /\ ~Replay(r.cert, conj) THEN Failure("shape", r.spent) ELSE r
CertifyUnsat(conj) == Confirmed(Refute(conj, 0, 0), conj)

(***************************************************************************)
(* direct.rs: a constraint without variables, or two bounds that cross.       *)
(***************************************************************************)
Sole(con, q) == DOMAIN con.row = {q}

\* Mutant of Crossing: the multipliers are 1, whatever the coefficients.
CrossingUnscaled(cons, i, j) ==
    [k \in DOMAIN cons |-> IF k \in {i, j} THEN One ELSE Zero]

\* The multipliers that cancel two bounds on one quantity: 1/|a| each.
Crossing(cons, i, j) ==
    [k \in DOMAIN cons |-> IF k \notin {i, j} THEN Zero
                           ELSE RatDiv(One, RatAbs(cons[k].row[CHOOSE q \in DOMAIN cons[k].row : TRUE]))]

Opposed(x, y) == \E q \in DOMAIN x.row : /\ Sole(x, q) /\ Sole(y, q)
                                         /\ RatSign(x.row[q]) # RatSign(y.row[q])
Multipliers(cons) ==
    {Unit(Len(cons), i) : i \in {k \in DOMAIN cons : DOMAIN cons[k].row = {}}} \cup
    {Crossing(cons, p[1], p[2]) :
        p \in {x \in (1..Len(cons)) \X (1..Len(cons)) : x[1] < x[2] /\ Opposed(cons[x[1]], cons[x[2]])}}
ConstructLeaf(cons) == IF cons = <<>> \/ Len(cons) > MaxDirect THEN {}
                       ELSE {Farkas(l) : l \in {x \in Multipliers(cons) : FarkasRefutes(cons, x)}}
ConstructFrom(sat) == IF sat.hasFalse THEN {Contradiction}
                      ELSE IF Splits(sat.items) # {} THEN {} ELSE ConstructLeaf(Constraints(sat.items))
Construct(conj) == ConstructFrom(Saturation(conj))

\* certify_bounds: any of these, the first in order in the code.
CertifyBounds(conj) == {c \in Construct(conj) : Replay(c, conj)}
=============================================================================
