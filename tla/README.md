# Verification project for smash2 (ADL2)

`src/reimplementation/adl2` is the Rust workspace of `smash2`, a compiler,
verifier and event processor for ADL, the Analysis Description Language of
collider physics. An ADL file defines objects (collections of particles) and
regions (conjunctions of cuts). `smash2 verify` decides, for every region,
whether it is empty and, for every pair, whether the two are disjoint, nested or
overlapping. `smash2 run` evaluates the regions over a file of events and writes
cutflows and histograms.

This directory holds TLA+ models of the parts where an answer can silently be
wrong, the TLC configurations that check them, and TLAPS proofs about them.
Paths below are relative to `src/reimplementation/adl2/crates` unless they start
with `src/`.

1 Inventory, 2 Modules, 3 Runs, 4 Fairness, 5 Proofs, 6 Where the code and its
documentation disagree, 7 Not modelled, 8 What is left.

## 1. Inventory

| Component | State it keeps | Operations | What is hard |
|---|---|---|---|
| Parallel event loop, `adl-cli/src/cmd/parallel.rs` | reader mutex, first-error mutex, result channel, reorder buffer, master accumulators | pull, parse, evaluate, send; receive, merge, return | any number of threads, results out of order, errors racing, gaps in the sequence |
| Event loader and reader, `adl-interp/src/event.rs` | line iterator, next index, next ordinal, done | `RawChunkReader::next`, `RawChunk::parse`, `event_from_line` | a read that fails with a chunk half full; what it accepts is a premise of the axioms |
| Solver interface, `adl-solver/src/lib.rs` | (interface) | declare, push, pop, assert, check, model, unsat_core | an answer that outlives the assertions it was about |
| SMT-LIB backend, `adl-solver/src/subprocess.rs` | frames, last answer, sync counter, child handle, pipes, stderr buffer | the seven above; spawn, transact, recycle | child death, deadlines, late lines, a second reader thread, partial answers |
| z3 backend, `adl-solver/src/native.rs` | z3 context | as above, one library call each | - |
| Verdict engine, `adl-analysis/src/engine.rs`, `report.rs` | solver stack, failure account, diagnostics, bundles, report in progress | region emptiness, pair verdicts, reconcile, bins, certification, gates | one session shared by all queries, early returns, untrusted solver, retraction of what was already recorded |
| Reconciliation and bin checks, `reconcile.rs`, `Engine::reconcile`, `Engine::bin_check` | derived facts, ledger, the same session | candidate pairs, frame check, two subset queries, assert at the base; bin pairs, coverage | a fact stays under every later query; the same spelling may name different inputs |
| Interval layer, `interval.rs` | bounds per quantity | add bounds, self-empty, disjoint | quantities an event may lack |
| Formulas and encoder, `adl-formula` | expansion budgets | region to formula; over- and under-projections; negate, guard, tighten | polarity, opaque parts, values an event lacks, rounding |
| Axioms, `adl-axioms` | list of instances | generate for the mentioned quantities, round by round | each is a claim about every event |
| Certificate kernel, `adl-certify` | search budget | certify, direct certificate, replay, bundles | exact arithmetic; independence from the search; files edited afterwards |
| Witness, refute and sampling gates, `witness.rs`, `refute.rs`, `adl-interp/src/sample.rs` | event batteries | build event, run interpreter | a model need not be realizable |
| Semantic analysis, `adl-sema` | interning tables, HIR | resolve, intern, merge units | identity of quantities |
| Lexer and parser, `adl-syntax` | cursor | parse with resynchronisation | error recovery |
| Interpreter, `adl-interp/src/eval.rs` | - | evaluate objects, cuts, regions, two ways | absent values, three-valued cuts |
| Weights, cutflow, histograms, `weights.rs`, `cutflow.rs`, `histo.rs` | counts, sums of weights, cells | record, fill, merge | positional weights, three ways out of a bin, merge of parts |
| Ingest, `adl-ingest` | column map | ROOT tree to JSON lines | a column cut at the wrong event; silent drops |
| ROOT files, `rootfile` | buffers, offsets | build, lay out, emit, re-read | offsets, name clashes, size limits |
| Command line, `adl-cli` | - | run, verify, check, ingest, dot | order of hashing, reading and writing; failures half way |
| Others: `adl-viz`, `adl-difftest`, provenance and hashes, `src/cpp` (C++ port), `src/legacy_parser`, examples | - | - | - |

**How they interact.** `verify`: parser -> sema -> encoder -> engine. The engine
owns one `Solver` for the whole run, pushes a frame per query, asks the interval
layer first, the certificate kernel after each UNSAT, and the interpreter (witness
validation, sampling gate, refute gate) before a claim is reported. `run`: parser
-> sema -> ingest or loader -> interpreter; worker threads share the reader and
send partial accumulators to the main thread, which merges them and hands them to
the histogram, cutflow and ROOT writers.

**What makes each correct.**

* Event loop: the outcome is a function of the file, not of the schedule; an event
  is printed and counted once or the run fails; the run ends.
* Loader and ingest: only events in the domain of the axioms get in; nothing of an
  input is cut at the wrong place or dropped in silence.
* Solver backend: a verdict is about the assertions on the stack; an assertion the
  child drops costs the verdict; every call returns; no process is leaked.
* Verdict engine: no reported claim is false when the projections are right; the
  gates keep out what an event contradicts; a retracted claim leaves no proof
  behind; failures are accounted for.
* Reconciliation and bins: a fact asserted about two collections holds in every
  event; the session holds nothing else between queries; what the ledger says of a
  pair is what later queries can use; bins counted as disjoint or covering are.
* Encoder, axioms, interval layer: the superset of a region holds every event the
  interpreter accepts, the subset none that it does not, no axiom is false of an
  event, bounds refute no common event.
* Kernel: what replays is a contradiction, its derived facts are derived.
* Accumulators and outputs: every count is the one the printed events give; the
  files hold what the run says, also after a failure.

`PROJECT.json` lists the hazards at their lines and the property that covers each.

## 2. Modules

```
OrderedRun     <--implements--  RunStreaming  <-EXTENDS-  RunStreamingProofs  <-EXTENDS-  RunOrderedProofs
SolverSession  <--implements, but for two lapses--  SubprocessSolver  <-EXTENDS-  SubprocessProofs
VerdictEngine  <-EXTENDS-  VerdictEngineProofs
Reconcile  <-EXTENDS-  BinChecks  <-EXTENDS-  BinChecksProofs
EventLoad  <-EXTENDS-  RunPhases  <-EXTENDS-  RunPhasesProofs
Kernel  <-EXTENDS-  CertKernel  <-EXTENDS-  KernelProofs
CommonLemmas: numbers, finite sets and sequences, for all the proofs

AdlNum <- Interp  \
AdlNum <- QFormula <- Formula -> EncodeTerms <- Encode <- Axioms  \
                      Formula <- Interval  --------------------->  RegionEncoding
          QFormula <- Kernel <- Certify (with Interval)  \
                      Kernel <- CertKernel  ---------------------> Certification
AdlNum <- EventLoad <- RunPhases (with OrderedRun)  \
          EventLoad <- Ingest                        \
          Interp <- Tally  \                           -> RunCommand
                            -> RunOutput             /
                    RootFile                        /
MC*: finite instances
```

The parts compose through interfaces. `SolverSession` states what the
`Solver` trait promises; `VerdictEngine` is a client of that promise (its solver
is an oracle over the stack of formulas, truthful or not), and so are `Reconcile`
and `BinChecks`. In the code one session serves all three in the order
reconciliation, regions and pairs, bins. `BinChecks` composes the first and the
last; that the regions and pairs between them leave the base frame as they
found it is what `Framed` says of `VerdictEngine` (section 5), whose axioms `Ax` stand
for the axioms and the derived facts together.

`VerdictEngine` takes for granted that the projections of a region are right, that no
axiom is false, that the interval layer refutes only what is refutable and that the
kernel accepts no satisfiable set. The first three are what `RegionEncoding` checks
(`OverSound`, `UnderSound`, `FactsHold`, `IntervalSound`), the last is
`AcceptedIsRefuted` of `CertKernel`, which `KernelProofs` proves. `RunPhases` uses `OrderedRun` for its event
loop, which `RunStreaming` implements for any number of threads, so what
`RunCommand` finds of the sequential fold holds of the parallel one.

### OrderedRun and RunStreaming

`OrderedRun` is the contract in the doc comment of `run_streaming`: the file, cut
into chunks of `ChunkEvents` events, is folded in order until the first chunk that
cannot be folded, and the outcome depends on the file alone. An accumulator is the
sequence of the partials merged into it, because floating-point sums are
not associative: two accumulators are equal exactly when the additions were made
in the same order. What a partial holds is the subject of `Tally`. The contract says
what may be returned; that the loop returns is `Termination` of `RunStreaming`, and the
two together are the contract with weak fairness, since nothing is enabled
once the outcome is set.

`RunStreaming` is the code. A line is `pass`, `fail`, `blank`, `bad` or `ioerr`.

| Model | Code |
|---|---|
| `reader` (`pos`, `nextIndex`, `nextOrdinal`, `done`) | `RawChunkReader` |
| `pc[w]`, `held[w]` | where worker `w` is in its loop, its `RawChunk` |
| `firstErr`, `RecordErr` | `Mutex<Option<(usize, StreamError)>>`, `record_err` |
| `chan`, `reorder`, `next` | the mpsc channel, the `HashMap`, the next index |
| `acc`, `out`, `passed`, `outcome` | master accumulators, lines written, `pass_counts`, return value |
| `PullChunk`, `PullReadError`, `PullEnd` | the three results of `guard.next()` under the lock |
| `EvaluateAndSend`, `RejectChunk` | the unlocked half of the loop body |
| `Receive`, `MergeNext`, `Return` | the fold |

One call of `next()` is one action because it runs under the reader's mutex; the
error of a failed read is recorded while that lock is still held, so it is part of
the same action. The send never fails: the receiver lives until every sender has
gone, so the `is_err` branch of the send is not reachable without a panic. Panics,
and a failing `writeln!`, are not modelled.

### SolverSession and SubprocessSolver

A formula is the set of points that satisfy it. `SolverSession` has the frames
(the state of record), the name counter, the declarations, the last answer and
what the latest call returned; `Check` may answer Unknown at any time, and a
model or a core must fit the assertions.

`SubprocessSolver` keeps that state and adds the process: commands not yet read
(`stdin`), what the process holds since its last `(check-sat)` (`held`), its output
(`lines`), what the round trip has read (`reply`), error text not yet read by the
stderr thread (`errPipe`) and in its buffer (`errBuf`). A call is several
steps: `CallCheck` or `CallGetter` begins to write its batch and `WriteReturns` or `WriteFails`
ends the write; then `ReadLine` consumes, and one of
`CheckAnswered`, `RerunAnswered`, `GetterAnswered`, `DeadlinePasses`,
`Disconnected` ends the wait. The write has no deadline (`subprocess.rs:299-303` comes before 312): it is
`Blocked` while the process lives, has not begun to read its script and the script is longer than the pipe
holds, `PipeRoom` assertions. Only the child can end that, by `ChildReadsOn` or by dying. Meanwhile the child solves, prints, echoes, dies, or
does nothing. The sentinel `(echo ...)` carries the trip's number, and a sentinel
of another number is skipped. `Recycle` is `shutdown`: kill, reap, drop the
pipes, join the readers. `spawn` may fail. What the text of the script looks
like, and how values and cores are parsed, is abstracted: the mapped parser
lines turn a reply into a value or nothing.

The child is external. It is assumed to answer the assertions it accepted
correctly, or to give up; to say so when it drops one (on stdout as an error, as
an `unsupported` line, or on stderr); and, with `Candidates`, to print values
after an unknown answer as z3 does.

The backend does not implement the trait for every such child. `LapsesOnly` says exactly how far it
does: each step is one `SolverSession` allows, or `StaleModel` (a getter
re-ran the query, the process answered otherwise and was kept, and the next `model()` takes its candidate
values for those of the sat that stands), or `LateSat` (the text about a refused assertion came to
the stderr buffer after `take_stderr` had looked). An unsat, and a core, are never wrong.
`ImplementsSession` is the plain refinement; it fails (run `subprocess_solver_rerun`).

### VerdictEngine

A formula is again a set of valuations, so UNSAT is the empty intersection. Of a
region the engine sees `over` and `under`; `real` is what the interpreter would
select. An item of work is a region (`<<i, 0>>`) or a pair (`<<i, j>>`), taken in
the order of `Engine::run`.

| Model | Code |
|---|---|
| `stack`, `Push`, `Pop`, `AssertHere` | the assertions of the one session |
| `IntervalEmpty`, `AskEmpty`, `AnswerEmpty`, `GateEmpty` | `region_empty`, `gate_empty`, `refute_empty` |
| `IntervalDisjoint`, `AskDisjoint`, `DisjointProven`, `DisjointNotProven` | the disjointness half of `pair` |
| `AskSubset`, `AnswerSubset` | `subset`, `subset_proof`, both ways round |
| `TwinCap`, `AskOverlap`, `OverlapCapped`, `OverlapSat`, `OverlapNotSat` | the overlap half and its early returns |
| `WitnessSettled`, `WitnessRejected`, `RetryAnswered` | the bounded witness loop |
| `Certified`, `Bundle` | `certify_*`, `push_bundle` |
| `GatePair`, `Retracted`, `Withdrawn` | `gate_pair` |
| `Report` | the end of `run`: which bundles are kept |
| `Note`, `failures` | `note_check_result`; `sick` is a history variable |

Abstracted: axioms are one set `Ax`; `core` names only; the reason and
diagnostic texts; `refined_model`'s layers, which push, check and pop on their own,
appear as their (at most one a turn) failed check; the interval layer refutes only
what is refutable, and the kernel accepts no satisfiable set and may reject any.
Those two promises are stated here and checked on models of their own (`IntervalSound`
of `RegionEncoding`, `AcceptedIsRefuted` of `CertKernel`). How `validate_witness` builds and judges an event is not
modelled: PROVEN OVERLAPPING is stored under the guard `Selected`, the validator's word for the event
it stores, so no property here is about it; that validator and event loop give an event the
same verdict is `LoopAgrees` of `RegionEncoding`. Which
projections are right is part of the initial state (`EncSound`); `VerdictsSound` asks for true verdicts
wherever they are, provided the solver is truthful or claims are certified (`Trusted`). What the sampling and the refute gate try are two sets of events.

### Reconcile and BinChecks

Two analyses may filter the same detector collection. A candidate is a pair of
filtered collections of one base symbol; each one's cuts are lowered onto one generic
element, and a proven refinement becomes the fact `size(sub) <= size(sup)`, which
is asserted in the persistent frame. A valuation is therefore an element and a size
for each collection. An event gives each collection the content of its base: one
content for all who name a known detector base, and possibly different ones for
two analyses that happen to spell a private base alike. A cut that names a peer
element is not a property of the element alone (the model's peer cut lets no lone
element through), which is why such chains must not be lowered.

| Model | Code |
|---|---|
| `Enumerated`, `Groundable`, `Build` | `reconcile::build`: which pairs are candidates, which are dropped, the `Skipped` rows |
| `AskFrame`, `AnswerFrame` | `frame_sat`: the two cut sets together must be SAT |
| `AskSubset`, `AnswerSubset`, `SubsetQuery` | `prove_pred_implies`, each direction |
| `Outcome`, `Wanted`, `Emitted`, `Emit` | ledger row; facts XR0, XR1, ..., XSUB or XEQ, unless a SUB axiom says so already |
| `Certified` | `certify_named_formulas_chain` |
| `BinsByInterval`, `AskBins`, `AnswerBins` | `bins_disjoint` with and without a solver |
| `CoverageUnknown`, `AskCoverage`, `AnswerCoverage` | the coverage half of `bin_check` |

A session runs without a solver, with a truthful one, or with one that answers at
will under `--certify`. Whatever core the solver names, the kernel can accept only
if the query together with the base is unsatisfiable, so `Certified` says that and
leaves the core out. Regions and bins are sets of size vectors, which is the part of
an event the facts are about, and a unit has one region with bins. Left out: the
near-miss search (suggestions in the report, on frames of its own) and the premises a
certified chain lists for its facts.

### AdlNum and Interp

`AdlNum` has the two kinds of number of the language. A rational is exact; everything
irrational is rounded, here to a grid of multiples of `1/Grid` of magnitude at most
`MaxF`, beyond which a value is infinite, i.e. no value. The grid is coarse on purpose:
a threshold between two floats differs from its rounded form, and that difference is
what the encoder's edge handling is about.

`Interp` is the interpreter over the resolved program. A numeric result is a value, a
soft non-value or a hard error; a predicate is `"T"`, `"F"` or `"U"`.

| Model | Code |
|---|---|
| `MaterializeStep` | collections: base, filter, union, sort, slice, composite projection |
| `TuplesStep`, `Surviving` | composites: binders, disjointness, cuts, candidate |
| `ParticleStep`, `LorentzStep`, `Separation` | particles, 4-vector sums, angular separations |
| `QuantityStep`, `External` | quantities of the event, elements, sizes, functions |
| `TruthStep`, `NumStep` | `eval_pred`, `eval_num`: short circuit, as the event loop does |
| `Truth3Step`, `Num3Step` | the three-valued reading of the witness validator |
| `StmtStep`, `RegionStep`; `Stmt3Step`, `Region3Step` | `region_walk`; `region3` |
| `Eval` | the mutual recursion of all of these |

Interned identities are structural: two quantities are equal when their records are.
dR is the larger of |dEta| and |dPhi|, a 4-vector sum adds componentwise and a square
root is any rounded function that is undefined below zero: the properties only compare
the encoder with the interpreter, and neither looks inside. Composites have two slots.

### Formula, EncodeTerms, Encode, Axioms, Interval and RegionEncoding

`Formula` has linear atoms, conjunctions, disjunctions, opaque parts and duals, and the two
projections. `EncodeTerms` says which quantities may be absent (`Absence`,
`ExistenceFloor`), which expressions flatten to a linear one (`Flatten`) and where a rounded value
can sit (`AtEdge`). `Encode` has a branch for each construct of a region: comparisons in
either order, products and ratios, absolute values, minima, bands, ternaries, sizes, reducers expanded
over their instances within `Open1Bound`, `Comb2dBound` and `SliceCap`, unindexed separations, composites,
references to other regions, and negation. Guards are added where the code adds them. `Axioms`
has every family of `emit_round` as a set comprehension (`Ord`, `Sub`, `Uni`, `Nneg`, `Epred`,
...), the rounds of `emit_axioms`, and the derived size facts of `reconcile` over lowered
filter chains. `Interval` has the bounds of a superset, self-emptiness and disjointness.

`RegionEncoding` composes them with `Interp`. Its state is one event and two regions that grow by a
statement at a time; `walk` is what the event loop has decided of each, `kleene` what the validator
has. A property then speaks of an event, of the two interpreters, of the formulas and of every value
(`Junk`) that a solver may give to what the event lacks. The language leaves open whether a
cut on a property of a whole collection asks every element or some (OPEN-1); `reading` chooses, and
the encoder has to be right either way.

| Property | Says |
|---|---|
| `LoopAgrees` | the validator, which looks further, never contradicts the event loop |
| `OverSound`, `UnderSound` | the projections of a region against what the interpreter selects |
| `FactsHold` | no axiom or derived fact is false of an event |
| `IntervalSound` | bounds never separate two regions that share an event |
| `SomePromiseHolds` | one at least of `FreeTogether`, `FactsTrue` and `UnderSound` holds, over statements that the passing run leaves out; it fails |

The three parts of `SomePromiseHolds` are sentences of the documentation that the code does not keep (section
6). It is a disjunction because a property is refuted by one state: the
state TLC finds refutes each of the three.

Two guards of the encoder are not reached: the cycle guard of region references
(`encode.rs:955`), because resolved programs have no cycle, and the nesting of composites.

### Kernel, CertKernel, Certify and Certification

`Kernel` is the trusted part: saturation of a conjunction into bounds and disjunctions, a case
split, the sum of a leaf's constraints with its multipliers, and `Replay`, which goes through the
calls of `replay_node` depth by depth. The formulas and what they say of a point (`Formulas`,
`Sat`) are parameters, of which `FormulasAssumption` and `ReadingAssumption` say only what the
code relies on: a conjunction, a disjunction and a bound mean what they say, `=` is two bounds and
`!=` either of two. Loops are recursive functions on the number of turns, so that they can be proved
about; `MaxPops` bounds the turns of one saturation, which the code does not, and a replay that
needs more is rejected.

`CertKernel` follows a
refutation: formulas are asserted under names, a size fact is derived and keeps its
proof, the query is certified by search or from the interval layer's two bounds, and the bundle that
replays is written. A fact of a bundle has a name, a formula and a list of derivations, each a set of premises
with its certificate; replay wants one at least and all of them to replay, and no two facts of
one name (`bundle.rs:381-384`, `537-550`). The engine gives a fact one derivation; a fact of more comes from an
edit. The file may be edited in any of these ways: a formula, the name or the link of
an assert, an assert left out; a fact removed, renamed, changed or written twice; a
derivation removed, added or given other premises; and in the certificate multipliers changed, a
branch dropped, a node replaced. `recon` records, outside the bundle, which asserts the engine wrote for a
derived fact. Where certificates come from is a parameter too: the kernel must
be right whatever the search hands it.

`Certify` is that search: case splits and Fourier-Motzkin elimination within its budget (`Eliminate`,
`CertifyUnsat`), and the certificate written directly from two bounds (`CertifyBounds`).
`Certification` puts it, and the bounds the interval layer refutes on (`Parts`), in place of the
parameters and asks what only the two together can answer.

Left out: the text of a bundle, its fixed fields, and the dictionary that names its quantities.

### EventLoad and Ingest

`EventLoad` is `event_from_line` over a parsed JSON object: spellings folded to canonical
names and refused when two fold alike, the domain of tags and magnitudes, the
order of `pt` within a collection, MET in its two forms, triggers, the weight. `IsRecord` is what
the JSON parser may hand over, and `Legal` what the loader owes to the axioms. `Ingest` is the mapping of a ROOT
tree under a profile: which branches a collection needs and of which type, counters that cut the flat values,
one-element branches, tag bits, scalars, the refusals in the order of the code, and the diagnostics
about what was not mapped. Both profiles are there in an abridged form that keeps one
branch of every kind. Reading a tree is external.

### Tally

What a run counts, per region: the cutflow with positional weights, bins with their three ways out, histograms
in one dimension, with variable edges and in two, with moments, under- and overflow and skips. Every
accumulator has an empty form, a step per event and a merge. Entries are keyed by the
statement they belong to. Sums are exact; that additions happen in file order is what
`OrderedRun` keeps.

### RootFile

The builder of `out.root` (directories, groups of objects added whole or not at all, name clashes, the limit on
keys), `Layout` and `Build` (the offsets a record states about itself), and `Parse`, the reader, which
follows the offsets. Where a record really is, is the sum of the lengths before it (`Places`), so an
offset computed wrongly is visible. A member is one byte: only lengths matter.

### RunPhases, RunOutput and RunCommand

`smash2 run` as a sequential program with an environment. `RunPhases` is its control; what an ingest, an
accumulator or an output file holds are operator constants there (`IngestTree`, `MergePartial`, `BodyOf` and so
on). `RunOutput` says what each output file holds, as a function of the command line, the program and the
tallies. `RunCommand` extends `RunPhases`, defines the operators from `Ingest`, `Tally` and `RunOutput`, and
`RunCommand.cfg` gives them to the constants.

| Model | Code |
|---|---|
| `Analyze` | read the ADL file, front end, exit on errors |
| `Identify` | hash of the input |
| `Open` | the loop or the ingest opens the file, again |
| `Fold`, `Finish` | the event loop, which is `OrderedRun`'s with `Tally` as partials, and its return |
| `Report` | summary on stdout |
| `MakeDir`, `Truncate`, `Complete`, `WriteFails`, `Success` | the output files, in the order of `FilesToWrite` |
| `Replace` (environment) | the event file is replaced by another, once |
| `Kill` (environment) | the process is killed at any point |

`OutputTells` is about the directory: nothing changes before all events of one file are counted; however the
run ends, the files before the one being written are whole and each is the one of its entry of the plan; after exit
0 all are there (`OwnFiles`). `HashTells` (the hash is of the file counted) and `CutflowTells`
(`cutflow.json` is of this run) fail, and so does `OwnFiles` where two histograms share a file stem.
`SomePromiseKept` is the disjunction of these three and of `EventsTold` of a ROOT file; its
counterexample is one run that breaks all four (section 6). In `run_command` no two files of the
plan have one name and every MET has both branches, so there `OwnFiles` and `IngestTells` hold without exception.

A write may fail at any file and leaves what was truncated. The front end is taken by its result: a program is
a member of `Programs`, or has errors, or the ADL file is missing.

## 3. Runs

| Run | Question | Bounds |
|---|---|---|
| `run_streaming` | does every schedule implement the ordered fold, and end? | 2 workers, `ChunkEvents` = 2, every file of <= 5 lines of the 5 kinds |
| `subprocess_solver` | is every verdict about the stack, and is what the backend returns what the trait allows, but for the named lapses? | 2 points, 4 formulas (one refused with an error, one skipped), 2 frames, 2 assertions, 4 round trips, `PipeRoom` = 1, errors on stdout, values after unknown |
| `subprocess_solver_live` | does a call that can write return, and does nothing outlive its handle? | 3 formulas (one refused), 1 assertion, `PipeRoom` = 0, errors on stderr, values after unknown |
| `subprocess_solver_rerun` | *violation*: does the backend implement the trait? | 3 formulas (none refused), 1 assertion, values after unknown |
| `verdict_engine` | are verdicts true with a truthful solver? | 3 regions, 1 point, every right projection |
| `verdict_engine_gates` | are they true with a lying one under `--certify`; what survives wrong projections; is every failed check accounted for? | 2 regions, 1 point, every projection, right or wrong, both failure kinds, every battery, `MaxAttempts` = 2 |
| `bin_checks` | is every derived fact true, the session clean, the ledger backed, every bin claim true? | 3 collections, 2 elements, 6 filter chains, at most one SUB axiom, 3 bin sets, all session modes |
| `region_encoding` | is what the encoder, the axioms and the bounds say true of what the interpreter does? | 174 statements, any one with any of 12 partners (`MaxLen` = 2), 8 events, 3 junk values, both readings of OPEN-1; `Grid` = 2, `Open1Bound` = 3, `Comb2dBound` = 2, `SliceCap` = 4 |
| `region_encoding_promises` | *violation*: does one at least of three promises of the encoder's docs hold? | 9 statements, 1 event, `MaxLen` = 3 |
| `certificates` | does what replays refute, are its facts derived, does the search decide, does the kernel confirm the bounds? | 11 cuts and 2 facts over 2 quantities, `MaxAsserts` = 3, `MaxFacts` = 1, `MaxEdits` = 1, `MaxDepth` = 2, `MaxBranches` = 5, `MaxAtoms` = 4, `MaxDirect` = 3, `MaxPops` = 16, `Quantities` = 2 |
| `run_command` | is every count, file and diagnostic what the events say, whatever fails? | 5 programs, 11 command lines, 26 event files, 4 of which may replace the input; `ChunkEvents` = 2, `MaxKeyLen` = 80, `MaxFile` = 3000 |
| `run_command_promises` | *violation*: does one at least of four promises of the docs of `run` hold? | 1 program, 1 command line, 2 event files |

**Why the bounds are enough.**

*Streaming.* Five lines with two a chunk give three chunks: one
merged, one parked or in flight, one being read, with a bad line or a failing read
before, in or after a chunk boundary; with two workers one can hold the oldest
chunk while the other runs through the rest of the file, and the proofs take any
number of workers.

*Solver.* Two points and their subsets
give a satisfiable and an unsatisfiable stack, four round trips give a query,
its getter, a death, a re-run and one more call, and two frames a pop that removes
an assertion. `PipeRoom` is one less than `MaxAsserts`, so that a script may fit the pipe or not; a
getter always fits. `MaxSync`, `MaxFrames`, `MaxNames` and `MaxAsserts` guard the
beginning of calls, never their end.

*Engine.* Three regions
give pairs that share a region in either position, and the reversed name order
makes every pair swap. Claims over sets of valuations have counterexamples on one
point: a claim that is false is false of some event, and what the sets say of the other points only
narrows the answers a solver may give, which one that lies gives anyway. In the run with a lying solver a core may leave
any formula out, on one point as on several. Two attempts give the witness loop a retry that is
followed by another.

*Reconciliation.* Two elements tell apart
equal, nested and opaque cut sets; the six chains include a peer cut and a private
base; three collections give three candidate pairs, so that facts of
one pair are under the queries of the next and the numbering runs across pairs.
Two of the bin sets hold only thanks to a derived fact, the third has an opaque bin.

*Encoding.* A projection is right for a region if it is right for each statement, and negation
is inside a statement, so statements alone show most; pairs add what two statements share, a region
that stops early, and the intervals of two regions. The statements reach every branch of
the encoder, each selected and rejected. The events are empty, full, lack an element, a property or all event-level data, and
tie on `pt` and in the angles. The grid has two steps to a unit and the thresholds are thirds, so there is a value on
either side of every rounded threshold. Junk is below, at and above every threshold.
The passing run takes separations from the MET vector, each not negated; a `not` of one, two cuts
on a sum with a reducer's element, and a filter with two negated cuts on one tag are in
`region_encoding_promises`, which needs three statements for its two regions.

*Certificates.* The points are quarters from -10/4 to 14/4 in two dimensions. Each cut set has its
coefficients and bounds in that range, so a system without a solution among the
points has none. The bounds of the budget are reached: three asserts can hold more atoms than
`MaxAtoms`, more disjuncts than `MaxBranches` and nest deeper than `MaxDepth`. `FillSlack` = 0 makes an elimination run out of room.
`MaxPops` = 16 is more than any of these saturations needs: the search does not look at it, so a tree it finds
over a stack cut short would not replay and break `SearchDecides`. One fact with one edit suffices to strip,
rename, duplicate or change what a fact rests on; the proofs take any number of both.

*Run.* The programs have weights between fills, bins of both kinds, histograms of every form,
a template referenced twice, a template with a cut in it, ROOT objects whose names collide (no two files do) and an opaque statement; the files are empty, one chunk, three chunks, have a malformed or an
unreadable line, or are trees with every column defect the ingest refuses. One replacement is enough to
fall between any two of the reads. `MaxKeyLen` and `MaxFile` are small so that a long name and a full directory exceed them.

**Violation runs** check what the documentation says and the code does not do: one sentence, or, in the two
runs named `..._promises`, several that one counterexample refutes together, each quoted under `findings`
in `PROJECT.json`. Section 6 lists
them with the others that reading brought up.

**Mutants.** Every property of a passing run has a mutant in its module (defined
just above the definition it replaces) that it kills: a dropped guard, an off by
one, a missing pop, a missing reset.

## 4. Fairness

`RunStreaming`: weak fairness of each worker and of the main thread. The threads
are operating-system threads inside `thread::scope`, and every action is enabled
until taken once its guard holds, except that two workers contend for the reader
lock; each pull makes the other's pull smaller, so weak fairness is enough.
`SubprocessSolver`: weak fairness of `RoundTrip`, the calling thread: a write that can return does, and its
`recv_timeout` deadlines expire. Nothing is assumed of the child, which need not read another byte, or of the
stderr reader; a blocked write enables no step of the thread, so `ReturnsUnlessBlocked` is about all other states of a call.
The other modules have no liveness property: they are sequential programs over
finite work lists, and `RunCommand` may be killed at any point.

## 5. Proofs

TLAPS proves for every value of the constants what the runs check on small ones.

`RunStreamingProofs`, from `WorkersAssumption`, `ChunkEventsAssumption` and
`FilesAssumption`:

* `TypeCorrect`: `Spec => []TypeOK`.
* `ChunksInOnePlace`: `OnePlace` says that in-flight, sent, parked and merged chunks are
  pairwise disjoint and within the indices handed out; a pull adds the new index
  to in-flight, so it must be known that no place holds it yet, which is the last
  conjunct. With it goes `GoneReported`, what is nowhere left a bad line on
  record, which needs `ErrorShape`: once a bad line is on record only an earlier
  bad line can replace it, because the key of a read error is above every line.
* `ErrorsImprove`: the action property `ErrorsOnlyImprove`, from the same invariant.
* `SuccessPrintsAll`: `SuccessIsComplete`. The invariant `Complete` speaks of runs
  with no error on record: every chunk but the last holds `ChunkEvents` events, so
  chunk k starts at ordinal k times `ChunkEvents` (`Chunked`); what is printed are
  the ordinals below the start of the chunk whose turn it is (`Printed`); the reader
  has counted the lines it passed, and a malformed one is in the hands of a worker
  (`Counted`). At the end `GoneReported` leaves every chunk merged, and nobody
  holds a line.

`RunOrderedProofs`, from the same assumptions:

* `ChunksAreNotLost`: `NothingVanishes`. A chunk that is nowhere has a malformed
  line (`Carried`), and the error on record is a malformed line's and not later
  than the first one of that chunk (`Earliest`, with `GoneReported` to exclude
  the read error).
* `RunsInOrder`: `ImplementsOrdered`, the refinement of the single-threaded loop. A merge is the
  abstract fold, the return is the abstract finish, every other step of the
  workers and of the channel stutters. The contract reads a file whole, by
  cardinalities of sets of lines; the code reads it line by line. `Cut` ties the
  two: the ordinal of a line is the reader's count when it passes the line, so
  the chunk of a line is its ordinal divided by `ChunkEvents`, and the chunks cut so far
  are exactly those quotients. `Carried` says that whatever is held, sent or parked under an index is the
  abstract chunk of that index, ordinals and passes; `Earliest`
  that a chunk not among the well-formed ones leaves its first bad line, or an earlier one, on record. At
  the return every worker has ended, so no chunk is under way; the error on
  record is then the earliest of the complete chunks, which is the outcome
  that the contract names by a CHOOSE over the whole file.

`SubprocessProofs`, from the assumptions of the module:

* `NeverAnOrphan`, `AlwaysInStep`: `NoOrphan` and `InStep`, also for a child that
  reports its errors on stderr. `InTrip` says in which of four stages a round trip
  is (unread, being answered, answered, cut off by the child's death), so the commands
  and lines under way belong to the trip in progress.
* `VerdictsSound`, `NoVerdictOnPart`: `VerdictSound` and `NoPartialAnswer`, for a child that
  reports errors on stdout. What has been said of a query names everything the
  process dropped and the answer it holds, which fits what it took (`Said`); a reply
  that classifies as a verdict names nothing dropped. On stderr the second is not
  so: the text may arrive after the answer was read (section 6).
* `BackendLapsesOnly`: `LapsesOnly`, without a hypothesis about the child. The identity maps
  the variables to those of `SolverSession`; a call's last step is the abstract call, all others stutter. A value
  or core in the reply belongs to what the process holds, which is an answer to the whole script unless a
  formula was refused on stderr, and an answer other than the standing one only after a re-run that was kept.
* `BackendImplementsTrait`: `ImplementsSession` itself follows under two hypotheses, that
  the child reports errors on stdout and gives values only after `sat`, which exclude the lapses. Without the second it
  is false (run `subprocess_solver_rerun`), without the first because of `LateSat`.

`VerdictEngineProofs`, from the assumptions of the module:

* `TypeCorrect` from the invariant `Typed`.
* `VerdictsAreSound` along three layers. `Framed` says what the stack holds at each
  control point (the base alone between queries, the base and exactly the formulas
  of the query in hand otherwise); it is what a forgotten `pop` breaks. From it an
  UNSAT answer (truthful, or certified by its core) means that an intersection of
  sets is empty, and `Justified` carries that to the report in hand and to every
  verdict already reported. The swap of the two regions into name order and back
  is a lemma of its own. That the projections are right is a hypothesis on the
  run's own choice of them (`EncSound`), not on a constant.
* `RetractionsAreClean`, `GatesHold`:
  `RetractedKeepsNothing` and `NoClaimAgainstAnEvent`, each over all regions,
  projections, solver answers and batteries.
* `BundlesAreBacked`: `BundlesBacked`. A bundle is of the pair at the gates or of one
  earlier in the order of the run, which is visited once, and the verdict of such a pair
  keeps its certificate unless a gate takes the claim. A certificate exists only
  under `--certify`, so `VerdictsSound` applies whether or not the solver is truthful.
* `FailuresAreNamed`: `FirstFailureNamed`.

`BinChecksProofs`, from the assumptions of `Reconcile` and `BinChecks`:

* `TypeCorrect` from the invariant `Typed`, which adds to the types that the pair in
  hand is a groundable candidate while it is compared.
* `BaseIsRestored`: `OnlyBaseBetweenQueries`, from `Framed`: the stack is the base
  frame, and above it exactly the query in hand.
* `FactsAreSound`, `BinsAreSound`: `FactsSound` and `BinsSound`, from `Justified`. Facts
  are asserted under the proofs of further facts, so soundness must not be circular.
  The way out is that the base says nothing of the generic element: sizes all
  zero satisfy every axiom and fact, whatever the element. A refuted subset
  query is therefore refuted by the two cut sets alone, and over one shared input,
  without peers, a refined cut set selects no more elements. The bin claims then
  use the facts: the size vector of an event satisfies the base.

* `LedgerIsBacked`: `LedgerBacked`. `Ledgered` adds that a pair still to be compared has neither a
  row nor a fact, that the pair in hand is such a pair until its row is written, and that under
  `--certify` nothing counts as proved without a certificate. The row and the facts of a
  comparison are written by different code from the same answers; an equality that
  comes from two refinements, one of them a subset already in the axioms, is
  where they could part.

`RunPhasesProofs`, first of any one record (`IsRecord`, what serde_json hands over):

* `LoadIsLegal`: an event `Load` accepts is `Legal`. Keys that fold to one name are
  refused, so an entry of the event has the value that was checked, of which `NNEG`
  and `TAG` hold, and there are as many collections as lists. The loader compares
  a `pt` only with the last one before it, over objects without one; that no `pt`
  exceeds any earlier one follows by taking the first offender, and needs <= on
  rationals to be transitive for any denominators.

Then, from `ChunkEventsAssumption`, `TextAssumption` (what is read is lists of
lines, and a text is a JSON record) and `NamesAssumption` (the histograms of a program
have names). TLC evaluates all three with the definitions of `RunCommand`.

* `EventsAreLegal`: `LoadedIsLegal`, from `Reading` (the lines are those of the input as
  it is, though it may be replaced until it is opened) and `LoadIsLegal`.
* `DirectoryTells`: `OutputTells` where `NamesDiffer`, and `HashTells` unless the input was `replaced`, from three layers. Both
  hypotheses are needed: two histograms of one stem overwrite each other's files, and a file that takes
  the input's name after it was hashed is counted under the hash of the other (run `run_command_promises`). `Reading`; `Counting`: the loop has
  the ordinals of the events of the chunks folded, which for the last chunk needs its size
  (a chunk is a difference of two initial segments of the event lines by rank), and it returns
  `Done` only when these are all; `Writing`: each file that changed is the whole of an
  entry written, no earlier than the last of that name, or is torn and the one
  being written; names that differ make that its own entry. The directory is touched only after `Done`.

`KernelProofs`, of every set of formulas, points and quantities, every depth limit and every
certificate, from the assumptions of `Kernel` and `CertKernel`; TLC evaluates them with the formulas
of `MCCertKernel`, the reading `Holds` and the parts `Certification` finds:

* `ReplaySound`: what replays has no solution. From below: Euclid's algorithm returns a divisor of
  both numbers, so `Ratio` keeps the value and the operations on rationals are those of any
  fractions for them (`RatioIs`, `AddIs`, `MulIs`, `LeqIs`). A linear form's value at a point is a
  sum, by induction on the quantities; so the value of a sum of constraints is the sum of their values
  (`ValueOfSum`), and a point that meets every constraint meets their combination (`AddedMeets`),
  whose row is empty: 0 <= s < 0 is impossible (`FarkasSound`). Every turn of saturation keeps what
  a point satisfies (`SaturationSound`). A call in order that is a split passes the point on
  to the branch of a disjunct it satisfies (`CallPassesOn`). By induction on the depth,
  every level has such a call or has failed; a replay that succeeds ends with a level
  that has neither.
* `BundlesRefute`, `BundlesDerive`: `AcceptedIsRefuted` and `AcceptedIsDerived`. The invariant
  `IInv` says what a query and a bundle are made of, through every edit: formulas the assumptions speak
  of, and facts with premises. That a used fact was derived (`Known`) is needed when a bundle is
  packed, since its facts are looked up in `chains`. The rest is `ReplaySound`, of the
  bundle's own certificate and of every derivation of each fact. `AcceptedIsDerived` says of an assert that names a
  fact, by its link or by the prefix of its name, that the bundle has exactly one entry of that name,
  that the entry has the formula of the assert and at least one derivation, and that the premises of each derivation have no
  common solution. An assert that lost both, its link and its name, is a given (section 6).

The unrollings of the loops (`ValueSteps`, `CombinationSteps`, `SaturationSteps`, `ReplaySteps`) and `GcdStep` are
inductions over numbers in the form of a set that contains 0 and with each its successor (`Climb`).

`CommonLemmas` holds what several proofs need: least and greatest naturals, how many
elements of a finite set have a rank below a bound, quotients, and the solver's stack as a sequence.

**Only model-checked.** The liveness properties `Termination` and `ReturnsUnlessBlocked`, since liveness
under fairness and ENABLED are out of the prover's reach; all properties of `RegionEncoding` (`LoopAgrees`, `OverSound`,
`UnderSound`, `FactsHold`, `IntervalSound`), since induction over data and RECURSIVE operators are too, and
expressions and formulas are trees; of `Certification` `SearchDecides` and `BoundsConfirmed`, whose
elimination and search are recursive operators (neither is a premise of soundness: what the search
hands out is replayed); and of `RunCommand` `TalliesAgree`
and `RootTells`, which rest on the interpreter and on the walk over a file, also recursive, and `IngestTells`, whose
lines are folds over branches and leaves.

## 6. Where the code and its documentation disagree

Found while translating; those with a run are in `findings` of `PROJECT.json`.

Encoder and axioms:

* `encode.rs:1448` substitutes a reducer's element in separations and single particles but
  leaves a 4-vector sum, which then is one variable for all instances; the doc
  (1443-1447) says it stays opaque. Two regions an event passes have
  supersets that exclude each other (`FreeTogether`, run `region_encoding_promises`).
* `adl-axioms/src/lib.rs:1709` lowers `not p` without the case that the element lacks the
  property. An EPRED instance is false of an event with an untagged
  jet, against lib.rs:233 and 678-681 (`FactsTrue`, the same run).
* The generic lowering (lib.rs:1594-1636) models no presence either, and
  the predicate atoms of EPRED take no account of rounding at their edges; no run reaches a filter on a
  rounded quantity.
* The catalog entry of COMBSIZE (lib.rs:267-275) claims for every cross-source product
  that it is non-empty when its factors are; lib.rs:1370-1383 rightly emits that for
  Cartesian products only, because a disjoint one may drop its sole pair.
* `quantity.rs:508-509` calls any absent leg of a separation soft, but without a MET vector
  `eval.rs:1933` makes it a hard error. The encoder follows the table: `reject dphi(jets[0], MET) > 4` holds in
  the subset of every region for an event without MET, which the interpreter cannot decide. With the axiom that a present dphi is
  at most pi, `size(jets) >= 1` would be proved a subset of itself with that cut added; the doc
  (517-532) tells of the same false claim for HT and MET scalars, for which the absence was
  made hard. `UnderSound` fails on it (`region_encoding_promises`); `region_encoding`, where it holds, has separations from the MET
  vector in statements without a `not`.
* `eval.rs:2036` says missing values sort last; a descending sort reverses the whole
  comparison and puts them first.

Certificates: the module doc of `bundle.rs` says that replay shows every reconciliation fact to be
derived; `chain_is_complete` (537-550) knows a fact without a link by the prefix of its
name only, so an assert that has lost both is a given like any other. `AcceptedIsDerived` leaves such
an assert out by name, and no run shows it.

Front end:

* `parser.rs:980-1018`: when the speculative branch of `parse_bin_stmt` meets an
  over-deep postfix, position and diagnostics are rolled back but `aborted` stays set; the second
  attempt stops without a diagnostic, and the rest of the file is dropped with exit code 0, against
  `parser.rs:97-99` and the test `over_deep_input_reports_once`.
* `parser.rs:51-57` bounds the depth of a tree by `MAX_EXPR_DEPTH`; productions that wrap
  on the way out make it about twice that.
* `parser.rs:295-300` says that dropping a statement in recovery can weaken a verdict
  but never fabricate one; a dropped cut makes a region larger and can fabricate a subset claim.
* `resolve.rs:279-301` resolves fill expressions in a default context, which ignores a preceding
  region-level `sort`, against the doc of `Ctx` (64-75).

Running:

* A read error can hide an earlier malformed line of the same chunk; the reorder buffer has no bound
  (`parallel.rs:170`).
* `cutflow.rs:361-362` says that references to histogram lists always pass; a
  list with a cut in it does not (one program of `run_command` has such a list).
* Histogram files of one stem overwrite each other (`bridges.rs:69`) although the option promises one file per
  histogram (`run.rs:59-62`): run `run_command_promises`, as are the next two and the half MET below.
* The input is hashed before it is opened for its events (`run.rs:149-151`): a file put in its place in between is
  counted under the hash of the other, against `provenance.rs:4-7`.
* A run into a used directory leaves an earlier `cutflow.json` when the new program
  has none (`run.rs:334`).
* A region named `smash2_provenance` displaces the provenance object under `out.root`; with
  duplicate names the outputs do not agree on object names, against `bridges.rs:43-47`.
* `pass_counts` is keyed by the region's name, so a region declared twice has one
  count.
* `adl-ingest/src/reader.rs:274-276` says nothing is silently dropped; half of a flat MET is
  (`load_met`, 809-817).

Solver:

* With a solver that prints candidate values after unknown, after a re-run that answered otherwise
  (`subprocess.rs:443`) the next `model()` speaks for the wrong query, against 422-425: run `subprocess_solver_rerun`; elsewhere
  the named lapse `StaleModel`.
* An error on stderr races the sentinel (`subprocess.rs:165-175, 340`), against 27-29; with z3, which reports on stdout, the
  case does not arise (187). It is the named lapse `LateSat`, which `subprocess_solver_live` reaches and no violation run shows.
* `transact` writes the batch before it sets the deadline (299-303, 312): a child that lives and does not
  read blocks the call for good. The doc (42-45) bounds the reads and says that a solver "cannot wedge the analysis". The
  state is `Blocked`, which `ReturnsUnlessBlocked` excepts by name.
* The getter does not notice a child that died by itself.

## 7. Not modelled

* **Text**: lexing, parsing, rendering, wording, JSON and SMT-LIB syntax, the layout of CSV, SVG
  and macros. Pure functions of one input; models start from the result.
* **Semantic analysis**: a translation without state of its own; the models start from
  resolved programs with structural identities.
* **Realizing a model as an event** (`witness.rs`, `refute.rs`, `sample.rs`): what the engine
  does with the events is modelled, how they are built is not.
* **Numbers**: trigonometry, and floats as such (a coarse grid stands for
  them); sums in the tallies are exact.
* **Bytes**: streamed objects are sequences of one-byte members, the hash is the content itself. `Layout` and the
  emission of `RootFile` share `StringLen`, so a length function that disagreed with its own writer would not show, and
  the long form of a string, from 255 bytes on, is not reached.
* **Near misses**, derivation texts and axiom names in the report: output only.
* Panics and poisoned locks; a failing `writeln!` of an event line, which the code ignores.
* `native.rs`, `adl-viz`, `adl-difftest`, the C++ port, the legacy parser, examples.

`PROJECT.json` gives the reason for each component.

## 8. What is left

1. The parser's recovery and depth limit (`parser.rs`), as a machine over a token
   sequence: one diagnostic per abort, progress, and the bound on depth.
2. How a model becomes an event (`witness.rs`): which quantities can be set independently.
3. Proofs, in the order of section 5's last paragraph.
