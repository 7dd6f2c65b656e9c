----------------------------- MODULE RunCommand -----------------------------
(***************************************************************************)
(* `smash2 run': the control of RunPhases with the ingest of Ingest, the      *)
(* accumulators of Tally and the output files of RunOutput.  A configuration  *)
(* gives the operators RunPhases leaves open the definitions made here.       *)
(***************************************************************************)
EXTENDS RunPhases

CONSTANTS Pi, MaxKeyLen, MaxFile

G == INSTANCE Ingest
R == INSTANCE RootFile
Tallies(h) == INSTANCE Tally WITH Regions <- h.regions, HistoLists <- h.lists, NameOf <- h.names
Output(i, h, s, n, t) == INSTANCE RunOutput WITH input <- i, hir <- h, sha <- s, events <- n, tally <- t

\* For IngestTree, Passes, HasHistos, HasCutflow, NoTally, MergePartial, HistNamesOf and BodyOf.
TreeRead(c, profile) == G!ReadTree(c.tree, G!Profiles[profile])
FirstPasses(h, ev) == Tallies(h)!Region(1, Tallies(h)!Context(ev)) = "T"
AnyHisto(h) == Tallies(h)!DeclaresHistos
AnyFlow(h) == Tallies(h)!FlowRegions # {}
EmptyTally(h) == Tallies(h)!Empty
MergedTally(h, t, chunk) == Tallies(h)!Merge(t, Tallies(h)!Partial(chunk))
DeclaredNames(h) == Output(<<>>, h, <<>>, 0, <<>>)!HistNames
FileBody(what, n, r) == Output(r.input, r.hir, r.sha, r.events, r.tally)!Body(what, n)

\* Of the run as it stands.
T == INSTANCE Tally WITH Regions <- hir.regions, HistoLists <- hir.lists, NameOf <- hir.names
Files == INSTANCE RunOutput WITH events <- Len(out)
-----------------------------------------------------------------------------
(* Properties. *)

\* The events whose lines were printed, in order.
Seen == LET at == T!Positions(Len(kinds), LAMBDA i : i \in Loop!EventLines(kinds) /\ Loop!Ordinal(kinds, i) < Len(out))
        IN  [n \in DOMAIN at |-> lines[at[n]].ev]

\* The lines are what the ROOT file tells, and without a branch that is neither reported
\* nor dropped by the profile they would be others, or the file refused.
EventsTold ==
    LET p == G!Profiles[input.profile]
        t == content.tree
        without(b) == G!ReadTree([t EXCEPT !.branches = [x \in DOMAIN t.branches \ {b} |-> t.branches[x]]], p)
        dropped(b) == b[1] \in p.knownDrop \/ b[2] \in p.met.dropped \cup {"fUniqueID", "fBits"}
    IN  /\ content.tells # <<>>
        /\ [i \in DOMAIN lines |-> lines[i].ev] = content.tells[1]
        /\ \A b \in DOMAIN t.branches \ noted[1].reported :
               dropped(b) \/ ~without(b).ok \/ without(b).v.lines # IngestTree(content, input.profile).v.lines

\* The events of a ROOT file reach the loop as they were written: every entry in order, a
\* leaf's values cut by the counter of its collection, the first of a one-element branch;
\* a file of which this cannot be said is refused.  And nothing is dropped in silence
\* (reader.rs:274-277).
IngestTells == phase \in {"loop", "report"} /\ input.profile # "none" => EventsTold

SumOver(es, P(_), W(_)) == FoldLeft(LAMBDA n, e : IF P(e) THEN n + W(e) ELSE n, 0, es)
CountOf(es, P(_)) == Cardinality({n \in DOMAIN es : P(es[n])})

\* What an event says of each region: its verdict on every statement, whether it is accepted,
\* and the values its bins and histograms ask for.
Facts(i, c) == [verdicts |-> [k \in DOMAIN hir.regions[i] |-> T!Stmt(hir.regions[i][k], c)],
                accepted |-> T!Region(i, c) = "T",
                bin |-> [k \in T!BinsOf(i) |-> T!BinOutcome(hir.regions[i][k], c)]]
Values(f, c) == [j \in DOMAIN f.h.exprs |-> T!Num(f.h.exprs[j], c)]
Told(e, c) == [weight |-> e.weight, on |-> [i \in DOMAIN hir.regions |-> Facts(i, c)],
               values |-> [n \in DOMAIN tally.hists |-> Values(tally.hists[n].fill, c)]]

Verdict(i, k, e) == e.on[i].verdicts[k]
Accepts(i, e) == e.on[i].accepted

\* The statement of region i that stops an event; one past the last if none does.
Stopping(i, e) == {k \in DOMAIN hir.regions[i] : Verdict(i, k, e) # "T"} \cup {Len(hir.regions[i]) + 1}
StopsAt(i, e) == CHOOSE k \in Stopping(i, e) : \A j \in Stopping(i, e) : k <= j

\* The product of the weights before statement k.
FactorBefore(i, k) ==
    FoldLeft(LAMBDA f, s : IF s.s = "nonmember" /\ s.kind = "weight" /\ s.numeric THEN f * s.value ELSE f,
             1, SubSeq(hir.regions[i], 1, k - 1))

CountIs(c, es, P(_), factor) ==
    /\ c.raw = CountOf(es, P)
    /\ c.w = SumOver(es, P, LAMBDA e : e.weight * factor)
    /\ c.w2 = SumOver(es, P, LAMBDA e : e.weight * factor * e.weight * factor)

StepAgrees(i, k, step, es) ==
    /\ CountIs(step.counts, es, LAMBDA e : StopsAt(i, e) > k, FactorBefore(i, k))
    /\ step.errors = CountOf(es, LAMBDA e : StopsAt(i, e) = k /\ Verdict(i, k, e) = "U")

BinAgrees(i, k, bin, es) ==
    /\ \A x \in DOMAIN bin.cells :
          CountIs(bin.cells[x], es, LAMBDA e : Accepts(i, e) /\ e.on[i].bin[k] = x, FactorBefore(i, k))
    /\ CountOf(es, LAMBDA e : Accepts(i, e))
         = bin.failed + bin.out.raw + FoldSet(LAMBDA x, n : n + bin.cells[x].raw, 0, DOMAIN bin.cells)

\* The edges of an axis, as edges_of prints them.
EdgeOf(a, b) == IF "edges" \in DOMAIN a THEN a.edges[b]
                ELSE T!RatAdd(a.lo, T!RatMul(T!RatSub(a.hi, a.lo), T!Ratio(b - 1, a.n)))
InCell(a, b, x) == /\ b > 0 => T!RatLeq(EdgeOf(a, b), x)
                   /\ b <= T!BinCount(a) => T!RatLess(x, EdgeOf(a, b + 1))

\* The events that fill histogram n, and those of them that fall in its cell b.
Axis(s, b, j) == IF Len(s.axes) = 1 THEN b
                 ELSE IF j = 1 THEN b % (T!BinCount(s.axes[1]) + 2) ELSE b \div (T!BinCount(s.axes[1]) + 2)
Filled(f, n, e) == Accepts(f.region, e) /\ \A j \in DOMAIN e.values[n] : e.values[n][j].k = "val"
FallsIn(f, n, e, b) == /\ Filled(f, n, e)
                       /\ \A j \in DOMAIN f.h.axes : InCell(f.h.axes[j], Axis(f.h, b, j), T!ToF64(e.values[n][j].v))

HistAgrees(h, f, n, es) ==
    /\ h.entries = CountOf(es, LAMBDA e : Filled(f, n, e))
    /\ h.entries + h.noValue + h.errors = CountOf(es, LAMBDA e : Accepts(f.region, e))
    /\ \A b \in DOMAIN h.cells :
          h.cells[b].w = SumOver(es, LAMBDA e : FallsIn(f, n, e, b), LAMBDA e : e.weight * FactorBefore(f.region, f.at))

FlowAgrees(i, flow, es) ==
    /\ CountIs(flow.all, es, LAMBDA e : TRUE, 1)
    /\ \A k \in DOMAIN flow.steps : StepAgrees(i, k, flow.steps[k], es)
    /\ \A k \in DOMAIN flow.bins : BinAgrees(i, k, flow.bins[k], es)
PassesAgree(name, n, es) ==
    n = FoldSet(LAMBDA i, m : m + CountOf(es, LAMBDA e : Accepts(i, e)), 0, {i \in DOMAIN hir.names : hir.names[i] = name})
TallyAgrees(es) ==
    /\ \A i \in DOMAIN tally.flows : FlowAgrees(i, tally.flows[i], es)
    /\ \A n \in DOMAIN tally.hists : HistAgrees(tally.hists[n], tally.hists[n].fill, n, es)
    /\ \A name \in DOMAIN tally.passes : PassesAgree(name, tally.passes[name], es)
ToldBy(es) == [n \in DOMAIN es |-> Told(es[n], T!Context(es[n]))]

\* Whatever the chunks, every count of a cutflow, a bin and a histogram is the one
\* the printed events give: a step counts the events no statement up to it stopped,
\* weighted by the weights before it, an event stopped by an error is in no other
\* count, the cells of a bin and its three ways out share the events the region
\* accepted, and so do a histogram's cells and its skips (cutflow.rs, histo.rs).
TalliesAgree == phase \in {"loop", "report"} => TallyAgrees(ToldBy(Seen))

In(g, held) == \A o \in ToSet(g.objs) : <<g.path, o>> \in ToSet(held)
Clashes(g, held) ==
    \E o \in ToSet(g.objs) :
      \/ \E p \in ToSet(held) : \/ p[1] = g.path /\ p[2].name = o.name
                                \/ g.path = <<>> /\ p[1] = <<o.name>>
      \/ R!KeyLen(o.class, o.name, o.title) > MaxKeyLen
GroupsWhole(groups, taken, held) ==
    /\ \A n \in DOMAIN groups : IF taken[n] THEN In(groups[n], held) ELSE Clashes(groups[n], held)
    /\ Len(held) = FoldLeft(LAMBDA m, n : IF taken[n] THEN m + Len(groups[n].objs) ELSE m, 0, [n \in DOMAIN groups |-> n])
ReadsBack(img, held) == img # <<>> => R!Parse(img[1]) = <<held>>
BuiltTells(groups, built, held) == GroupsWhole(groups, built.taken, held) /\ ReadsBack(R!Build("out.root", built.dir), held)
TreeTells(groups, built) == BuiltTells(groups, built, R!AllObjects(built.dir, <<>>))
GroupsTell(groups) == TreeTells(groups, Files!Built(groups))

\* out.root read back (reader.rs) is what was built, every record reachable; a group of
\* objects is there whole, or it was refused because a name it needs was taken in its
\* directory, or for the length of a key, and then none of it was added.
RootTells == phase = "write" /\ written = 0 => GroupsTell(Files!Offered)

\* Of four things the docs say of a run that exits with 0, one at least is so: no branch of
\* a ROOT file is dropped in silence (reader.rs:274-277), every histogram has files of its
\* own (run.rs:59-62), the hash is of the events counted (provenance.rs:4-7), and the
\* cutflow.json in the directory is of this run (run.rs:25-26).  Where it fails, all do.
SomePromiseKept ==
    exit = "0" => \/ input.profile # "none" => EventsTold
                  \/ OwnFiles \/ HashTells \/ CutflowTells
=============================================================================
