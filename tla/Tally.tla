------------------------------- MODULE Tally -------------------------------
(***************************************************************************)
(* What `smash2 run' counts (adl-interp: weights.rs, cutflow.rs, histo.rs,  *)
(* the bins of eval.rs): per selection region a cutflow of the membership   *)
(* statements, an appendix of its bins, and the histograms that fill when    *)
(* the region accepts the event.  Each accumulator has an empty form, one    *)
(* step per event, and a merge of two of the same shape.                     *)
(*                                                                           *)
(* An event carries its weight.  Sums are exact: the order of the additions, *)
(* which rounding makes visible, is the subject of OrderedRun.  Entries are  *)
(* keyed by the statement they belong to.                                    *)
(***************************************************************************)
EXTENDS Interp

CONSTANTS HistoLists,  \* the regions that are histogram template blocks
          NameOf       \* their display names; two may share one

Selections == DOMAIN Regions \ HistoLists

\* The members of 1..n with a property, in order.
Positions(n, P(_)) == SelectSeq([k \in 1..n |-> k], P)

(***************************************************************************)
(* Weights.                                                                 *)
(***************************************************************************)
Marker(s, kind) == s.s = "nonmember" /\ s.kind = kind

\* stmt_weights: the product of the numeric weights before statement k; one that
\* is not numeric leaves everything after it incomplete.
Weight(i, k) ==
    LET ws == SelectSeq(SubSeq(Regions[i], 1, k - 1), LAMBDA s : Marker(s, "weight"))
    IN  [factor |-> FoldLeft(LAMBDA f, s : IF s.numeric THEN f * s.value ELSE f, 1, ws),
         incomplete |-> \E j \in DOMAIN ws : ~ws[j].numeric]

NoCount == [raw |-> 0, w |-> 0, w2 |-> 0]
AddCount(c, w) == [raw |-> c.raw + 1, w |-> c.w + w, w2 |-> c.w2 + w * w]
MergeCount(a, b) == [raw |-> a.raw + b.raw, w |-> a.w + b.w, w2 |-> a.w2 + b.w2]

(***************************************************************************)
(* Cutflows.                                                                *)
(***************************************************************************)
Evaluable(i) == \A k \in DOMAIN Regions[i] :
                   Regions[i][k].s = "nonmember" => Regions[i][k].known

\* CutflowSet::new: template blocks have no cutflow, nor have regions with a
\* statement that cannot be evaluated.
FlowRegions == {i \in Selections : Evaluable(i)}

IsStep(s) == \/ s.s \in {"select", "reject", "trigger"}
             \/ s.s = "inherit" /\ s.region \notin HistoLists
StepsOf(i) == {k \in DOMAIN Regions[i] : IsStep(Regions[i][k])}
BinsOf(i) == {k \in DOMAIN Regions[i] : Regions[i][k].s \in {"bin", "bincond"}}

Cells(s) == IF s.s = "bin" THEN DOMAIN s.edges ELSE {1, 2}
NoBin(s) == [cells |-> [x \in Cells(s) |-> NoCount], out |-> NoCount, failed |-> 0]
NoFlow(i) == [all |-> NoCount,
              steps |-> [k \in StepsOf(i) |-> [counts |-> NoCount, errors |-> 0]],
              bins |-> [k \in BinsOf(i) |-> NoBin(Regions[i][k])]]
NoFlows == [i \in FlowRegions |-> NoFlow(i)]

\* What an event makes of the statements of a region, in order; the walk reaches those whose
\* predecessors passed, and its result is the first that did not.
Trace(i, c) == [k \in DOMAIN Regions[i] |-> Stmt(Regions[i][k], c)]
Reached(trace, k) == \A j \in 1..(k - 1) : trace[j] = "T"
Result(trace) == InOrder(TRUE, trace)

\* region_bins, boundary_bin: the cell; 0 below the first edge or without a value,
\* -1 on an error.  A boolean bin has the cells 1, where it holds, and 2.
Boundary(v, edges) == IF v.k = "hard" THEN -1 ELSE IF v.k = "soft" THEN 0 ELSE AssignBin(ToF64(v.v), edges)
BinOutcome(s, c) == IF s.s = "bincond" THEN [T |-> 1, F |-> 2, U |-> -1][Truth(s.cond, c)]
                    ELSE Boundary(Num(s.var, c), s.edges)

RecordBin(b, where, w) ==
    CASE where = -1 -> [b EXCEPT !.failed = @ + 1]
      [] where = 0 -> [b EXCEPT !.out = AddCount(@, w)]
      [] OTHER -> [b EXCEPT !.cells[where] = AddCount(@, w)]

RecordStep(st, t, w) == CASE t = "T" -> [st EXCEPT !.counts = AddCount(@, w)]
                          [] t = "U" -> [st EXCEPT !.errors = @ + 1]
                          [] t = "F" -> st

\* record_event, for one region.
Factor(i, k) == Weight(i, k).factor
RecordFlow(i, flow, trace, c, weight) ==
    [all |-> AddCount(flow.all, weight),
     steps |-> [k \in DOMAIN flow.steps |->
                  IF Reached(trace, k) THEN RecordStep(flow.steps[k], trace[k], weight * Factor(i, k)) ELSE flow.steps[k]],
     bins |-> [k \in DOMAIN flow.bins |->
                 IF Result(trace) = "T" THEN RecordBin(flow.bins[k], BinOutcome(Regions[i][k], c), weight * Factor(i, k))
                 ELSE flow.bins[k]]]

MergeBin(a, b) == [cells |-> [x \in DOMAIN a.cells |-> MergeCount(a.cells[x], b.cells[x])],
                   out |-> MergeCount(a.out, b.out), failed |-> a.failed + b.failed]

MergeFlow(a, b) ==
    [all |-> MergeCount(a.all, b.all),
     steps |-> [k \in DOMAIN a.steps |->
                  [counts |-> MergeCount(a.steps[k].counts, b.steps[k].counts),
                   errors |-> a.steps[k].errors + b.steps[k].errors]],
     bins |-> [k \in DOMAIN a.bins |-> MergeBin(a.bins[k], b.bins[k])]]

(***************************************************************************)
(* Histograms.  A spec is uniform ("h1"), of variable bins ("h1var") or two- *)
(* dimensional ("h2"); its axes are [n, lo, hi] or a list of edges.          *)
(***************************************************************************)
Increasing(edges) == \A j \in 1..(Len(edges) - 1) : RatLess(edges[j], edges[j + 1])
AxisOk(form, a) == IF form = "h1var" THEN Len(a.edges) >= 2 /\ Increasing(a.edges)
                   ELSE RatLess(a.lo, a.hi)

\* instantiate: outside the fragment, or on an empty axis, there is no histogram.
Fillable(h) == h.checked /\ \A j \in DOMAIN h.axes : AxisOk(h.form, h.axes[j])

DeclaresHistos == \E i \in DOMAIN Regions : \E k \in DOMAIN Regions[i] : Marker(Regions[i][k], "histo")

\* The fill points of statements: each histogram, and the statement whose weight it takes.
OwnHistos(i) ==
    LET order == Positions(Len(Regions[i]), LAMBDA k : Marker(Regions[i][k], "histo"))
    IN  [n \in DOMAIN order |-> [h |-> Regions[i][order[n]].histo, region |-> i, at |-> order[n]]]

\* The first reference to each histoList is its fill point.
ListRefs(i) ==
    {k \in DOMAIN Regions[i] :
        /\ Regions[i][k].s = "inherit" /\ Regions[i][k].region \in HistoLists
        /\ \A j \in 1..(k - 1) : Regions[i][j].s = "inherit" => Regions[i][j].region # Regions[i][k].region}

FilledAt(fills, i, k) == [n \in DOMAIN fills |-> [fills[n] EXCEPT !.region = i, !.at = k]]
Candidates(i) ==
    LET refs == Positions(Len(Regions[i]), LAMBDA k : k \in ListRefs(i))
    IN  OwnHistos(i) \o FlattenSeq([n \in DOMAIN refs |-> FilledAt(OwnHistos(Regions[i][refs[n]].region), i, refs[n])])

\* HistoSet::new, for one region: of the candidates whose names differ only in case the first that
\* can be filled is kept.
FillPoints(i) ==
    FoldLeft(LAMBDA kept, f :
                IF Fillable(f.h) /\ \A n \in DOMAIN kept : kept[n].h.fold # f.h.fold
                THEN Append(kept, f) ELSE kept,
             <<>>, Candidates(i))

BinCount(a) == IF "edges" \in DOMAIN a THEN Len(a.edges) - 1 ELSE a.n
LowEdge(a) == IF "edges" \in DOMAIN a THEN a.edges[1] ELSE a.lo
HighEdge(a) == IF "edges" \in DOMAIN a THEN Last(a.edges) ELSE a.hi

\* Mutant: the upper edge belongs to the last bin.
CellClosedAbove(a, x) ==
    IF RatLess(x, LowEdge(a)) THEN 0
    ELSE IF RatLess(HighEdge(a), x) THEN BinCount(a) + 1
    ELSE IF "edges" \in DOMAIN a THEN Max({j \in 1..(Len(a.edges) - 1) : RatLeq(a.edges[j], x)})
    ELSE Min({a.n, 1 + RatFloor(RatDiv(RatMul(RatSub(x, a.lo), Int2Rat(a.n)), RatSub(a.hi, a.lo)))})

\* The cell a value falls in: 0 below the axis, one past the last bin at or above
\* its end (Hist1D::fill, Hist1DVar::fill, Hist2D::axis_cell).
Cell(a, x) ==
    IF RatLess(x, LowEdge(a)) THEN 0
    ELSE IF RatLeq(HighEdge(a), x) THEN BinCount(a) + 1
    ELSE IF "edges" \in DOMAIN a THEN Max({j \in DOMAIN a.edges : RatLeq(a.edges[j], x)})
    ELSE Min({a.n, 1 + RatFloor(RatDiv(RatMul(RatSub(x, a.lo), Int2Rat(a.n)), RatSub(a.hi, a.lo)))})

\* Hist2D numbers its cells by rows, x fastest; one axis has one row.
GlobalBin(h, cs) == IF Len(cs) = 1 THEN cs[1] ELSE cs[1] + (BinCount(h.axes[1]) + 2) * cs[2]
CellsOf(h) == 0..(IF Len(h.axes) = 1 THEN BinCount(h.axes[1]) + 1
                  ELSE (BinCount(h.axes[1]) + 2) * (BinCount(h.axes[2]) + 2) - 1)

Zero == Int2Rat(0)
NoSums == [w |-> 0, w2 |-> 0]
NoHist(f) == [fill |-> f, cells |-> [b \in CellsOf(f.h) |-> NoSums], entries |-> 0, stats |-> NoSums,
              moments |-> [j \in DOMAIN f.h.axes |-> Zero], noValue |-> 0, errors |-> 0]
NoHistsOf(fills) == [n \in DOMAIN fills |-> NoHist(fills[n])]

\* Every histogram of the program, region by region.
NoHists == FlattenSeq([i \in DOMAIN Regions |-> IF i \in Selections THEN NoHistsOf(FillPoints(i)) ELSE <<>>])

AddSums(s, w) == [w |-> s.w + w, w2 |-> s.w2 + w * w]

\* One fill, in the cells cs; the statistics take the fills in range on every axis.
InRange(h, cs) == \A j \in DOMAIN cs : cs[j] \in 1..BinCount(h.axes[j])
Moved(moments, xs, w) == [j \in DOMAIN xs |-> RatAdd(moments[j], RatMul(Int2Rat(w), xs[j]))]
Fill(acc, cs, xs, w) ==
    [acc EXCEPT !.entries = @ + 1,
                !.cells[GlobalBin(acc.fill.h, cs)] = AddSums(@, w),
                !.stats = IF InRange(acc.fill.h, cs) THEN AddSums(@, w) ELSE @,
                !.moments = IF InRange(acc.fill.h, cs) THEN Moved(@, xs, w) ELSE @]
FillAt(acc, xs, w) == Fill(acc, [j \in DOMAIN xs |-> Cell(acc.fill.h.axes[j], xs[j])], xs, w)
FillWeight(f) == Weight(f.region, f.at).factor

\* fill_from: the coordinates in order; the first without a value skips the fill.
FillFrom(acc, vs, weight) ==
    LET bad == {j \in DOMAIN vs : vs[j].k # "val"}
    IN  IF bad = {} THEN FillAt(acc, [j \in DOMAIN vs |-> ToF64(vs[j].v)], weight * FillWeight(acc.fill))
        ELSE IF vs[Min(bad)].k = "soft" THEN [acc EXCEPT !.noValue = @ + 1]
        ELSE [acc EXCEPT !.errors = @ + 1]

FillEvent(acc, result, c, weight) ==
    IF result = "T" THEN FillFrom(acc, [j \in DOMAIN acc.fill.h.exprs |-> Num(acc.fill.h.exprs[j], c)], weight) ELSE acc

MergeSums(a, b) == [w |-> a.w + b.w, w2 |-> a.w2 + b.w2]
MergeHist(a, b) ==
    [fill |-> a.fill, cells |-> [c \in DOMAIN a.cells |-> MergeSums(a.cells[c], b.cells[c])],
     entries |-> a.entries + b.entries, stats |-> MergeSums(a.stats, b.stats),
     moments |-> [j \in DOMAIN a.moments |-> RatAdd(a.moments[j], b.moments[j])],
     noValue |-> a.noValue + b.noValue, errors |-> a.errors + b.errors]

(***************************************************************************)
(* All of a program's accumulators.                                         *)
(***************************************************************************)
Names == {NameOf[i] : i \in DOMAIN Regions}
Empty == [total |-> NoCount, flows |-> NoFlows, hists |-> NoHists,
          passes |-> [n \in Names |-> 0], events |-> 0]

\* The regions of one name share a pass count (bump looks the name up).
Passing(name, traces) == {i \in DOMAIN Regions : NameOf[i] = name /\ Result(traces[i]) = "T"}
RecordTraces(t, c, weight, traces) ==
    [total |-> AddCount(t.total, weight),
     flows |-> [i \in DOMAIN t.flows |-> RecordFlow(i, t.flows[i], traces[i], c, weight)],
     hists |-> [n \in DOMAIN t.hists |-> FillEvent(t.hists[n], Result(traces[t.hists[n].fill.region]), c, weight)],
     passes |-> [n \in Names |-> t.passes[n] + Cardinality(Passing(n, traces))],
     events |-> t.events + 1]
RecordIn(t, c, weight) == RecordTraces(t, c, weight, [i \in DOMAIN Regions |-> Trace(i, c)])
Record(t, e) == RecordIn(t, Context(e), e.weight)

Merge(a, b) ==
    [total |-> MergeCount(a.total, b.total),
     flows |-> [i \in DOMAIN a.flows |-> MergeFlow(a.flows[i], b.flows[i])],
     hists |-> [n \in DOMAIN a.hists |-> MergeHist(a.hists[n], b.hists[n])],
     passes |-> [n \in Names |-> a.passes[n] + b.passes[n]],
     events |-> a.events + b.events]

\* What a worker makes of one chunk.
Partial(chunk) == FoldLeft(Record, Empty, chunk)
=============================================================================
