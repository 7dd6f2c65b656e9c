----------------------------- MODULE RunOutput -----------------------------
(***************************************************************************)
(* What `smash2 run' puts into its output files (adl-cli/src/cmd/run.rs and  *)
(* bridges.rs), as a function of the command line, the program and what the  *)
(* event loop left.                                                          *)
(***************************************************************************)
EXTENDS Integers, FiniteSets, Sequences, SequencesExt

CONSTANTS input, hir, sha, events, tally,    \* as in RunPhases; events is their number
          Grid, MaxF, Pi, MaxKeyLen, MaxFile

T == INSTANCE Tally WITH Regions <- hir.regions, HistoLists <- hir.lists, NameOf <- hir.names
R == INSTANCE RootFile

FlowOrder == T!Positions(Len(hir.regions), LAMBDA i : i \in DOMAIN tally.flows)
RegionName(i) == hir.names[i]

\* root_name, file_stem (region and histogram names are identifiers), object_path.
RootName(f) == RegionName(f.region) \o "_" \o f.h.name
RootPath(i) == IF input.flat THEN <<>> ELSE <<RegionName(i)>>
ObjectName(f) == IF input.flat THEN RootName(f) ELSE f.h.name

\* A histogram's members in ROOT order.
HistBody(h) ==
    [labels |-> <<>>,
     members |-> <<h.entries, h.stats, h.moments>> \o [b \in 1..Cardinality(DOMAIN h.cells) |-> h.cells[b - 1]]]
HistObject(h) == R!Object(IF h.fill.h.form = "h2" THEN "TH2D" ELSE "TH1D", ObjectName(h.fill), h.fill.h.name, HistBody(h))

\* add_cutflow_at: the raw counts and the weighted sums, labelled by step.
FlowCounts(flow, steps) == <<flow.all>> \o [n \in DOMAIN steps |-> flow.steps[steps[n]].counts]
CutflowPair(name, counts) ==
    LET object(suffix, cells) == R!Object("TH1D", name \o suffix, name,
                                          [labels |-> [n \in DOMAIN counts |-> n], members |-> <<counts[1].raw>> \o cells])
    IN  << object("__cutflow_raw", [n \in DOMAIN counts |-> counts[n].raw]),
           object("__cutflow_wt", [n \in DOMAIN counts |-> <<counts[n].w, counts[n].w2>>]) >>
Cutflows(i) == CutflowPair(RegionName(i), FlowCounts(tally.flows[i], T!Positions(Len(hir.regions[i]), LAMBDA k : k \in DOMAIN tally.flows[i].steps)))

Provenance == [adl |-> input.adl, sha |-> sha, events |-> events, profile |-> input.profile]
ProvenanceObject == R!Object("TNamed", "smash2_provenance", "provenance", [labels |-> <<>>, members |-> <<Provenance>>])

\* The objects offered to the ROOT file: groups added whole or not at all.
Group(path, objs) == [path |-> path, objs |-> objs]
HistGroup(h) == Group(RootPath(h.fill.region), <<HistObject(h)>>)
Offered == [n \in DOMAIN tally.hists |-> HistGroup(tally.hists[n])]
           \o [n \in DOMAIN FlowOrder |-> Group(RootPath(FlowOrder[n]), Cutflows(FlowOrder[n]))]
           \o <<Group(<<>>, <<ProvenanceObject>>)>>

\* write_root_file: the builder after every group, and which were taken.
Offer(b, path, r) == [dir |-> r.dir, taken |-> Append(b.taken, r.ok)]
Built(groups) == FoldLeft(LAMBDA b, g : Offer(b, g.path, R!AddAll(b.dir, g.path, g.objs)),
                          [dir |-> R!NewDir(""), taken |-> <<>>], groups)
RootImage == R!Build("out.root", Built(Offered).dir)

\* The cells on the visible axes of a histogram.
Visible(s) == LET nx == T!BinCount(s.axes[1]) + 2
                  x(b) == IF Len(s.axes) = 1 THEN b ELSE b % nx
                  y(b) == IF Len(s.axes) = 1 THEN 1 ELSE b \div nx
              IN  {c \in T!CellsOf(s) : x(c) \in 1..(nx - 2) /\ y(c) \in 1..T!BinCount(Last(s.axes))}

\* csv_files: the visible cells.  svg_files: their contents drawn, and in the
\* caption the entries and what fell off the axes.
CsvBody(h) == [b \in Visible(h.fill.h) |-> h.cells[b]]
SvgBody(h, seen) == [drawn |-> [b \in seen |-> h.cells[b].w], entries |-> h.entries,
                     flow |-> FoldSet(LAMBDA b, n : n + h.cells[b].w, 0, DOMAIN h.cells \ seen)]

\* make_histos.C and to_root.py: one object per fill, at the path of out.root.
Macro == [n \in DOMAIN tally.hists |-> HistGroup(tally.hists[n])]
Script == Macro

\* The histograms of the program, under the names of their files.
HistNames == [n \in DOMAIN T!NoHists |-> RootName(T!NoHists[n].fill)]

\* The body of one file; n is the histogram of a file that has one.
Body(what, n) ==
    CASE what = "histos.json" -> <<tally.hists, Provenance>>
      [] what = "cutflow.json" -> <<tally.flows, Provenance>>
      [] what = "make_histos.C" -> Macro
      [] what = "to_root.py" -> Script
      [] what = "out.root" -> RootImage
      [] what = ".csv" -> CsvBody(tally.hists[n])
      [] what = ".svg" -> SvgBody(tally.hists[n], Visible(tally.hists[n].fill.h))
=============================================================================
