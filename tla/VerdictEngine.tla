---------------------------- MODULE VerdictEngine ----------------------------
(***************************************************************************)
(* The verdict engine of `smash2 verify` (adl-analysis/src/engine.rs): for *)
(* every region an emptiness verdict, for every pair of regions a          *)
(* disjointness, subset or overlap verdict, each obtained from queries to  *)
(* one incremental solver session and then put to the sampling and refute  *)
(* gates.                                                                  *)
(*                                                                         *)
(* A formula is the set of valuations (Points) that satisfy it, so a       *)
(* conjunction is an intersection and UNSAT is the empty set.  Of a region *)
(* the engine sees its over- and its under-projection; `real` is what the  *)
(* region selects, which only the reference interpreter knows.  The solver *)
(* is an oracle that answers truthfully or, with SolverLies, at will.      *)
(***************************************************************************)
EXTENDS Naturals, Sequences, FiniteSets

CONSTANTS Points,        \* the valuations of the mentioned quantities
          Ax,            \* the valuations the asserted axioms allow
          NRegions,      \* regions 1..NRegions, in declaration order
          NameRank,      \* the rank of each region's name in name order
          SolverLies,    \* may the solver answer at will?
          Certify,       \* --certify
          EncoderErrs,   \* may projections and axioms be wrong about events?
          Events,        \* what the two gates may run; {} when they are off
          FailureKinds,  \* how a check may fail: "process", "error"
          MaxAttempts,   \* MAX_WITNESS_ATTEMPTS
          NoPoint        \* "no model", "no witness"

ASSUME PointsAssumption == Ax \subseteq Points /\ NoPoint \notin Points
ASSUME RegionsAssumption == /\ NRegions \in Nat \ {0}
                            /\ NameRank \in [1..NRegions -> Nat]
ASSUME FlagsAssumption == {SolverLies, Certify, EncoderErrs} \subseteq BOOLEAN
ASSUME EventsAssumption == Events \subseteq Points
ASSUME FailureAssumption == FailureKinds \subseteq {"process", "error"}
ASSUME AttemptsAssumption == MaxAttempts \in Nat \ {0}

Regions == 1..NRegions
Pairs == {p \in Regions \X Regions : p[1] < p[2]}

VARIABLES
    enc,        \* region -> its projections and what it really selects
    sampled,    \* the events of the sampling gate's battery
    probes,     \* the refute gate's adversarial events
    solver,     \* is there a solver?
    cur,        \* the item in hand: <<i, 0>> emptiness, <<i, j>> a pair, Done
    step,       \* how far the engine is with that item
    stack,      \* the solver's assertion stack, a set of named formulas a frame
    disjoint,   \* what the pair's disjointness check answered
    attempts,   \* witness models tried for the pair
    report,     \* the verdict in hand
    empties,    \* region -> emptiness verdict, once reported
    pairwise,   \* pair -> verdict, once reported
    bundles,    \* pairs a portable certificate bundle was built for
    published,  \* the bundles of the final report
    failures,   \* the engine's account of failed checks
    sick        \* the solver's first failed check (a history variable)

data == <<enc, sampled, probes, solver>>
ledger == <<empties, pairwise, bundles, published>>
vars == <<data, cur, step, stack, disjoint, attempts, report, ledger,
          failures, sick>>
-----------------------------------------------------------------------------
(* Formulas and the assertion stack. *)

Names == ({"cut"} \X Regions) \cup ({"AX", "QSUB", "QSUBNEG", "unnamed", "stray"} \X {0})
Named(tag, pts) == [name |-> <<tag, 0>>, pts |-> pts]
Cut(r) == [name |-> <<"cut", r>>, pts |-> enc[r].over]
Base == {Named("AX", Ax)}

\* The valuations that satisfy every formula of F, and of the whole stack.
Meet(F) == {p \in Points : \A f \in F : p \in f.pts}
Live == {p \in Points : \A d \in DOMAIN stack : \A f \in stack[d] : p \in f.pts}

Push(F) == stack' = Append(stack, F)
Pop == stack' = SubSeq(stack, 1, Len(stack) - 1)
AssertHere(f) == stack' = [stack EXCEPT ![Len(stack)] = @ \cup {f}]

(***************************************************************************)
(* The oracle.  A check may always fail: `unknown` is a hard query,        *)
(* `process` and `error` are the failures Engine::note_check_result        *)
(* counts.  A core is a set of assertion names; {} stands for none.        *)
(***************************************************************************)
Failed == {"process", "error"}
Answers == {"unknown"} \cup FailureKinds \cup
    (IF SolverLies THEN {"sat", "unsat"}
     ELSE IF Live = {} THEN {"unsat"} ELSE {"sat"})

Models == {NoPoint} \cup (IF SolverLies THEN Points ELSE Live)

Asserted == UNION {stack[d] : d \in DOMAIN stack}
NamesOf(F) == {f.name : f \in F}
OfNames(F, core) == {f \in F : f.name \in core}
Cores ==
    LET unnamed == {f \in Asserted : f.name = <<"unnamed", 0>>}
        named   == NamesOf(Asserted \ unnamed)
    IN IF SolverLies THEN SUBSET (named \cup {<<"stray", 0>>})
       ELSE {{}} \cup {c \in SUBSET named :
                         Meet(unnamed \cup OfNames(Asserted, c)) = {}}

(* Engine::note_check_result: the first failure is kept by its reason. *)
Note(answer) ==
    /\ failures' = IF answer \notin Failed THEN failures
                   ELSE [failures EXCEPT ![answer] = TRUE,
                            !.first = IF @ = "none" THEN answer ELSE @]
    /\ sick' = IF answer \in Failed /\ sick = "none" THEN answer ELSE sick

\* Mutant of Certified: a missing core falls back to trusting the solver.
CertifiedOnTrust(core, F) ==
    IF ~Certify \/ core = {} THEN {"off"}
    ELSE IF core \subseteq NamesOf(F) /\ Meet(OfNames(F, core)) = {} THEN {"yes", "no"}
         ELSE {"no"}

(***************************************************************************)
(* certify_named_formulas_inner: only the formulas the core names are      *)
(* certified; a missing core or a name the engine did not assert fails     *)
(* closed.  The kernel accepts no satisfiable set and may reject any.      *)
(***************************************************************************)
Certified(core, F) ==
    IF ~Certify THEN {"off"}
    ELSE IF /\ core # {}
            /\ core \subseteq NamesOf(F)
            /\ Meet(OfNames(F, core)) = {}
         THEN {"yes", "no"}
         ELSE {"no"}
-----------------------------------------------------------------------------
(* Verdicts. *)

Kinds == {"ProvenDisjoint", "CandidateDisjoint", "ProvenOverlapping",
          "CandidateOverlapping", "PossiblyOverlapping", "Unknown"}
EmptyKinds == {"Proven", "Candidate", "NotProven", "Unknown"}

\* A verdict that carries no proof, and a disjointness verdict that does.  A
\* certificate has a size only if there is one.
Plain(kind, within, witness) ==
    [kind |-> kind, certified |-> "off", core |-> {}, path |-> "none",
     size |-> "none", within |-> within, witness |-> witness]
Verdict(kind) == Plain(kind, {}, NoPoint)
Blank == Verdict("PossiblyOverlapping")
Disjoint(cert, path, core) ==
    [kind |-> IF cert = "no" THEN "CandidateDisjoint" ELSE "ProvenDisjoint",
     certified |-> cert, core |-> core, path |-> path,
     size |-> IF cert = "yes" THEN "some" ELSE "none", within |-> {}, witness |-> NoPoint]
None == [kind |-> "None"]
Done == <<0, 0>>

\* The order of Engine::run: every region, then every pair i < j.
NextItem ==
    LET i == cur[1]  j == cur[2] IN
    CASE j = 0 /\ i < NRegions -> <<i + 1, 0>>
      [] j = 0 /\ i = NRegions -> IF NRegions > 1 THEN <<1, 2>> ELSE Done
      [] j # 0 /\ j < NRegions -> <<i, j + 1>>
      [] j = NRegions          -> IF i + 1 < NRegions THEN <<i + 1, i + 2>> ELSE Done

\* pair() queries in name order and maps the answers back.
AFirst == NameRank[cur[1]] <= NameRank[cur[2]]
C1 == IF AFirst THEN cur[1] ELSE cur[2]
C2 == IF AFirst THEN cur[2] ELSE cur[1]

(***************************************************************************)
(* Encodings: a region's real events satisfy its over-projection and the   *)
(* axioms, and a valuation of its under-projection the axioms allow is a   *)
(* real event.  With EncoderErrs neither need hold: the case the gates are *)
(* there for.                                                              *)
(***************************************************************************)
Encodings == [over : SUBSET Points, under : SUBSET Points, real : SUBSET Points]
Sound(e) == e.real \subseteq e.over \cap Ax /\ e.under \cap Ax \subseteq e.real

Init ==
    /\ enc \in [Regions -> IF EncoderErrs THEN Encodings
                           ELSE {e \in Encodings : Sound(e) /\ e.under \subseteq e.over}]
    /\ sampled \in SUBSET Events
    /\ probes \in SUBSET Events
    /\ solver \in BOOLEAN
    /\ cur = <<1, 0>>
    /\ step = "start"
    /\ stack = <<Base>>
    /\ disjoint = "none"
    /\ attempts = 0
    /\ report = Blank
    /\ empties = [r \in Regions |-> "None"]
    /\ pairwise = [p \in Pairs |-> None]
    /\ bundles = {}
    /\ published = {}
    /\ failures = [process |-> FALSE, error |-> FALSE, first |-> "none"]
    /\ sick = "none"
-----------------------------------------------------------------------------
(* Region emptiness: region_empty, then gate_empty and refute_empty. *)

OnRegion == cur # Done /\ cur[2] = 0
OnPair   == cur # Done /\ cur[2] # 0

\* The verdict in hand goes to the gates.
Conclude(verdict) == report' = verdict /\ step' = "gate"

\* The interval layer refutes the region's own bounds: no solver runs, and a
\* kernel that will not confirm it files a diagnostic but demotes nothing.
IntervalEmpty ==
    /\ OnRegion /\ step = "start"
    /\ Meet({Cut(cur[1])}) = {}
    /\ Conclude(Verdict("Proven"))
    /\ UNCHANGED <<data, cur, stack, disjoint, attempts, ledger, failures, sick>>

AskEmpty ==
    /\ OnRegion /\ step = "start"
    /\ IF solver THEN /\ Push({Cut(cur[1])})
                      /\ step' = "empty"
                      /\ UNCHANGED report
                 ELSE /\ Conclude(Verdict("Unknown"))
                      /\ UNCHANGED stack
    /\ UNCHANGED <<data, cur, disjoint, attempts, ledger, failures, sick>>

AnswerEmpty ==
    /\ step = "empty"
    /\ \E answer \in Answers :
         /\ Note(answer)
         /\ \/ /\ answer = "unsat"
               /\ \E core \in Cores :
                  \E cert \in Certified(core, Base \cup {Cut(cur[1])}) :
                     Conclude(Verdict(IF cert = "no" THEN "Candidate" ELSE "Proven"))
            \/ answer = "sat" /\ Conclude(Verdict("NotProven"))
            \/ answer \notin {"sat", "unsat"} /\ Conclude(Verdict("Unknown"))
    /\ Pop
    /\ UNCHANGED <<data, cur, disjoint, attempts, ledger>>

\* The engine turns to the next item with nothing left of this one.
Advance ==
    /\ cur' = NextItem
    /\ step' = "start"
    /\ report' = Blank
    /\ disjoint' = "none"
    /\ attempts' = 0

\* Mutant of GateEmpty: a candidate is not put to the gates.
GateEmptyProvenOnly ==
    /\ OnRegion /\ step = "gate"
    /\ LET refuted == (sampled \cup probes) \cap enc[cur[1]].real # {} IN
       empties' = [empties EXCEPT ![cur[1]] =
                     IF report.kind = "Proven" /\ refuted THEN "NotProven" ELSE report.kind]
    /\ Advance
    /\ UNCHANGED <<data, stack, pairwise, bundles, published, failures, sick>>

GateEmpty ==
    /\ OnRegion /\ step = "gate"
    /\ LET refuted == (sampled \cup probes) \cap enc[cur[1]].real # {} IN
       empties' = [empties EXCEPT ![cur[1]] =
                     IF report.kind \in {"Proven", "Candidate"} /\ refuted
                     THEN "NotProven" ELSE report.kind]
    /\ Advance
    /\ UNCHANGED <<data, stack, pairwise, bundles, published, failures, sick>>
-----------------------------------------------------------------------------
(* Disjointness: UNSAT(Ax /\ A+ /\ B+), by intervals or by the solver. *)

BothCuts == {Cut(C1), Cut(C2)}

\* push_bundle keeps a payload only when the assembled bundle replays.
Bundle(cert) == IF cert = "yes" THEN bundles' \in {bundles, bundles \cup {cur}}
                ELSE UNCHANGED bundles

\* The interval fast path: the two regions' bounds, or one region's own,
\* cannot meet.  A kernel refusal leaves the verdict and claims nothing.
IntervalDisjoint ==
    /\ OnPair /\ step = "start"
    /\ Meet(BothCuts) = {}
    /\ \E cert \in IF Certify THEN {"yes", "off"} ELSE {"off"} :
         /\ Conclude(Disjoint(cert, "interval", {}))
         /\ Bundle(cert)
    /\ UNCHANGED <<data, cur, stack, disjoint, attempts, empties, pairwise,
                   published, failures, sick>>

AskDisjoint ==
    /\ OnPair /\ step = "start"
    /\ IF solver THEN /\ Push(BothCuts)
                      /\ step' = "disjoint"
                      /\ UNCHANGED report
                 ELSE /\ Conclude(Blank)
                      /\ UNCHANGED stack
    /\ UNCHANGED <<data, cur, disjoint, attempts, ledger, failures, sick>>

\* The core is fetched before the pop; the verdict rests on its certificate.
DisjointProven ==
    /\ step = "disjoint"
    /\ "unsat" \in Answers
    /\ \E core \in Cores :
       \E cert \in Certified(core, Base \cup BothCuts) :
         /\ Conclude(Disjoint(cert, "core", core \ {<<"stray", 0>>}))
         /\ Bundle(cert)
    /\ Pop
    /\ UNCHANGED <<data, cur, disjoint, attempts, empties, pairwise, published,
                   failures, sick>>

DisjointNotProven ==
    /\ step = "disjoint"
    /\ \E answer \in Answers \ {"unsat"} :
         /\ Note(answer)
         /\ disjoint' = answer
    /\ Pop
    /\ step' = "ask12"
    /\ UNCHANGED <<data, cur, attempts, report, ledger>>
-----------------------------------------------------------------------------
(* Subset claims: UNSAT(Ax /\ sub+ /\ not(sup-)), both ways round. *)

SubsetQuery(sub, sup) == {Named("QSUB", enc[sub].over),
                          Named("QSUBNEG", Points \ enc[sup].under)}

AskSubset(from, to, sub, sup) ==
    /\ step = from
    /\ Push(SubsetQuery(sub, sup))
    /\ step' = to
    /\ UNCHANGED <<data, cur, disjoint, attempts, report, ledger, failures, sick>>

\* The flags of the report: "ab" for subset_a_in_b, "ba" for subset_b_in_a.
Direction(sub) == IF sub = cur[1] THEN "ab" ELSE "ba"
Claim(sub) == report' = [report EXCEPT !.within = @ \cup {Direction(sub)}]

\* Under --certify an uncertified UNSAT is no claim.
AnswerSubset(from, to, sub, sup) ==
    /\ step = from
    /\ \E answer \in Answers :
         /\ Note(answer)
         /\ \/ /\ answer = "unsat"
               /\ \E core \in Cores :
                  \E cert \in Certified(core, Base \cup SubsetQuery(sub, sup)) :
                     IF cert = "no" THEN UNCHANGED report ELSE Claim(sub)
            \/ answer # "unsat" /\ UNCHANGED report
    /\ Pop
    /\ step' = to
    /\ UNCHANGED <<data, cur, disjoint, attempts, ledger>>
-----------------------------------------------------------------------------
(* Overlap: SAT(Ax /\ A- /\ B-) and a witness the interpreter accepts. *)

UnnamedUnders == {Named("unnamed", enc[C1].under), Named("unnamed", enc[C2].under)}

\* A convention-ambiguous twin pair caps the SAT direction before any query.
TwinCap ==
    /\ step = "overlapAsk"
    /\ Conclude(report)
    /\ UNCHANGED <<data, cur, stack, disjoint, attempts, ledger, failures, sick>>

AskOverlap ==
    /\ step = "overlapAsk"
    /\ Push(UnnamedUnders)
    /\ step' = "overlap"
    /\ UNCHANGED <<data, cur, disjoint, attempts, report, ledger, failures, sick>>

\* Mutant of OverlapCapped: the early return forgets the pop.
OverlapCappedUnpopped ==
    /\ step = "overlap"
    /\ "sat" \in Answers
    /\ Conclude(report)
    /\ UNCHANGED <<data, cur, stack, disjoint, attempts, ledger, failures, sick>>

\* SAT, but the regions share no dimension or mention a back index.
OverlapCapped ==
    /\ step = "overlap"
    /\ "sat" \in Answers
    /\ Conclude(report)
    /\ Pop
    /\ UNCHANGED <<data, cur, disjoint, attempts, ledger, failures, sick>>

OverlapSat ==
    /\ step = "overlap"
    /\ "sat" \in Answers
    /\ step' = "witness"
    /\ UNCHANGED <<data, cur, stack, disjoint, attempts, report, ledger, failures, sick>>

\* Mutant of OverlapNotSat: the query's frame outlives the pair.
OverlapNotSatUnpopped ==
    /\ step = "overlap"
    /\ \E answer \in Answers \ {"sat"} : Note(answer) /\ Conclude(report)
    /\ UNCHANGED <<data, cur, stack, disjoint, attempts, ledger>>

\* UNKNOWN is reported only when both directions were inconclusive.
OverlapNotSat ==
    /\ step = "overlap"
    /\ \E answer \in Answers \ {"sat"} :
         /\ Note(answer)
         /\ Conclude(IF {answer, disjoint} \cap {"sat", "unsat"} = {}
                     THEN [report EXCEPT !.kind = "Unknown"] ELSE report)
    /\ Pop
    /\ UNCHANGED <<data, cur, disjoint, attempts, ledger>>

(***************************************************************************)
(* One turn of the witness loop.  refined_model's layers push, check and   *)
(* pop on their own, so they leave the stack alone and only their failed   *)
(* checks (at most one a turn, here) show.  validate_witness builds an     *)
(* event from the model, or from its snap to the dyadic grid, and asks the *)
(* interpreter; it may reject any model it cannot realize, and calls one   *)
(* that rests on an opaque quantity a candidate.                           *)
(***************************************************************************)
Selected(p) == p \in enc[cur[1]].real /\ p \in enc[cur[2]].real

\* No model, or an outcome: the frame is popped and the search is over.
WitnessSettled ==
    /\ step = "witness"
    /\ \E layer \in {"unknown"} \cup FailureKinds : Note(layer)
    /\ \/ Conclude(report)
       \/ \E model \in Models \ {NoPoint} :
          \E snapped \in Points :
          \E event \in {model, snapped} :
             \/ /\ Selected(event)
                /\ Conclude(Plain("ProvenOverlapping", report.within, event))
             \/ Conclude([report EXCEPT !.kind = "CandidateOverlapping"])
    /\ Pop
    /\ UNCHANGED <<data, cur, disjoint, attempts, ledger>>

\* Rejected: the model is blocked in the same frame before the next check.
WitnessRejected ==
    /\ step = "witness"
    /\ \E layer \in {"unknown"} \cup FailureKinds : Note(layer)
    /\ \E model \in Models \ {NoPoint} : AssertHere(Named("unnamed", Points \ {model}))
    /\ attempts' = attempts + 1
    /\ step' = "retry"
    /\ UNCHANGED <<data, cur, disjoint, report, ledger>>

\* Mutant of RetryAnswered: the retry's failure is not accounted for.
RetryUnnoted ==
    /\ step = "retry"
    /\ \E answer \in Answers :
         /\ sick' = IF answer \in Failed /\ sick = "none" THEN answer ELSE sick
         /\ IF answer = "sat" /\ attempts < MaxAttempts
            THEN step' = "witness" /\ UNCHANGED <<stack, report>>
            ELSE Conclude(report) /\ Pop
    /\ UNCHANGED <<data, cur, disjoint, attempts, ledger, failures>>

RetryAnswered ==
    /\ step = "retry"
    /\ \E answer \in Answers :
         /\ Note(answer)
         /\ IF answer = "sat" /\ attempts < MaxAttempts
            THEN step' = "witness" /\ UNCHANGED <<stack, report>>
            ELSE Conclude(report) /\ Pop
    /\ UNCHANGED <<data, cur, disjoint, attempts, ledger>>
-----------------------------------------------------------------------------
(* gate_pair, and the end of run. *)

Witnessed(S, i, j) == S \cap enc[i].real \cap enc[j].real # {}
Escapes(S, i, j) == S \cap (enc[i].real \ enc[j].real) # {}
Withdrawn(S, i, j) == (IF Escapes(S, i, j) THEN {"ab"} ELSE {})
                      \cup (IF Escapes(S, j, i) THEN {"ba"} ELSE {})

\* Mutant of Retracted: the verdict goes, its certificate stays.
RetractedKindOnly(verdict) == [verdict EXCEPT !.kind = "PossiblyOverlapping"]

Retracted(verdict) == Plain("PossiblyOverlapping", verdict.within, verdict.witness)

\* The sampling gate's battery first, then the refute gate's probes.
GatePair ==
    /\ OnPair /\ step = "gate"
    /\ LET i == cur[1]
           j == cur[2]
           events == sampled \cup probes
           verdict == IF report.kind = "ProvenDisjoint" /\ Witnessed(events, i, j)
                      THEN Retracted(report) ELSE report
       IN pairwise' = [pairwise EXCEPT ![cur] =
                         [verdict EXCEPT !.within = @ \ Withdrawn(events, i, j)]]
    /\ Advance
    /\ UNCHANGED <<data, stack, empties, bundles, published, failures, sick>>

\* Mutant of Report: every bundle ever built is published.
ReportUnfiltered ==
    /\ cur = Done /\ step = "start"
    /\ published' = bundles
    /\ step' = "done"
    /\ UNCHANGED <<data, cur, stack, disjoint, attempts, report, empties, pairwise,
                   bundles, failures, sick>>

\* Only a bundle whose pair survived as PROVEN DISJOINT is published.
Report ==
    /\ cur = Done /\ step = "start"
    /\ published' = {b \in bundles : pairwise[b].kind = "ProvenDisjoint"}
    /\ step' = "done"
    /\ UNCHANGED <<data, cur, stack, disjoint, attempts, report, empties, pairwise,
                   bundles, failures, sick>>

Terminated == step = "done" /\ UNCHANGED vars
-----------------------------------------------------------------------------
Next ==
    \/ IntervalEmpty \/ AskEmpty \/ AnswerEmpty \/ GateEmpty
    \/ IntervalDisjoint \/ AskDisjoint \/ DisjointProven \/ DisjointNotProven
    \/ AskSubset("ask12", "sub12", C1, C2)
    \/ AnswerSubset("sub12", "ask21", C1, C2)
    \/ AskSubset("ask21", "sub21", C2, C1)
    \/ AnswerSubset("sub21", "overlapAsk", C2, C1)
    \/ TwinCap \/ AskOverlap \/ OverlapCapped \/ OverlapSat \/ OverlapNotSat
    \/ WitnessSettled \/ WitnessRejected \/ RetryAnswered
    \/ GatePair \/ Report \/ Terminated

Spec == Init /\ [][Next]_vars

-----------------------------------------------------------------------------
(* Properties. *)

Verdicts == {v \in [kind : Kinds \cup EmptyKinds, certified : {"off", "yes", "no"},
                    core : SUBSET Names, path : {"none", "interval", "core"},
                    size : {"none", "some"}, within : SUBSET {"ab", "ba"},
                    witness : Points \cup {NoPoint}] : v.size = "some" => v.certified = "yes"}

\* The type of every variable; the solver's stack is never deeper than the
\* persistent frame and one query, and no witness search outlives its budget.
TypeOK ==
    /\ enc \in [Regions -> Encodings]
    /\ {sampled, probes} \subseteq SUBSET Points
    /\ solver \in BOOLEAN
    /\ cur \in Pairs \cup (Regions \X {0}) \cup {Done}
    /\ step \in {"start", "empty", "disjoint", "ask12", "sub12", "ask21", "sub21",
                 "overlapAsk", "overlap", "witness", "retry", "gate", "done"}
    /\ Len(stack) \in 1..2
    /\ disjoint \in {"none", "sat", "unknown"} \cup Failed
    /\ attempts \in 0..MaxAttempts
    /\ report \in Verdicts
    /\ empties \in [Regions -> EmptyKinds \cup {"None"}]
    /\ \A p \in Pairs : pairwise[p] \in Verdicts \cup {None}
    /\ published \subseteq bundles /\ bundles \subseteq Pairs
    /\ failures \in [process : BOOLEAN, error : BOOLEAN, first : {"none"} \cup Failed]
    /\ sick \in {"none"} \cup Failed

\* The projections of this run are right.
EncSound == \A r \in Regions : Sound(enc[r])

\* They are, and no UNSAT is taken on a liar's word.
Trusted == EncSound /\ (Certify \/ ~SolverLies)

\* A region reported PROVEN EMPTY selects no event.
EmptySound == \A r \in Regions : empties[r] = "Proven" => enc[r].real = {}

\* What a verdict on regions i and j claims of them: PROVEN DISJOINT that they
\* share no event, a subset flag that one selects only what the other does.
TrueOf(v, i, j) ==
    /\ v.kind = "ProvenDisjoint" => enc[i].real \cap enc[j].real = {}
    /\ "ab" \in v.within => enc[i].real \subseteq enc[j].real
    /\ "ba" \in v.within => enc[j].real \subseteq enc[i].real

\* Every verdict reported for a pair is true of the pair as declared, whatever
\* order the solver saw the two regions in.
PairSound == \A p \in Pairs : pairwise[p] # None => TrueOf(pairwise[p], p[1], p[2])

\* No claim of the report is false of an event, for every query order, stray
\* answer and failed check on the way: with a truthful solver because each
\* query sees the persistent frame and its own formulas and nothing left over
\* from another, under --certify whatever the solver answers.
VerdictsSound == Trusted => EmptySound /\ PairSound

\* A published bundle certifies a pair the report calls PROVEN DISJOINT with
\* a certificate, and, where projections are right, one that is disjoint.
BundlesBacked ==
    \A b \in published : /\ pairwise[b].kind = "ProvenDisjoint"
                         /\ pairwise[b].certified = "yes"
                         /\ EncSound => enc[b[1]].real \cap enc[b[2]].real = {}

\* Only a disjointness verdict carries proof: whatever a gate retracts keeps
\* no certificate, core, proof path or certificate size.
RetractedKeepsNothing ==
    \A p \in Pairs : pairwise[p] # None =>
      LET v == pairwise[p] IN
      v.kind \notin {"ProvenDisjoint", "CandidateDisjoint"} =>
        v.certified = "off" /\ v.core = {} /\ v.path = "none" /\ v.size = "none"

\* No claim of the report is contradicted by an event the gates ran, even
\* when the encoder or an axiom is wrong about it.
NoClaimAgainstAnEvent ==
    LET events == sampled \cup probes IN
    /\ \A r \in Regions : empties[r] \in {"Proven", "Candidate"} =>
         events \cap enc[r].real = {}
    /\ \A p \in Pairs : pairwise[p] # None =>
         /\ pairwise[p].kind = "ProvenDisjoint" => ~Witnessed(events, p[1], p[2])
         /\ "ab" \in pairwise[p].within => ~Escapes(events, p[1], p[2])
         /\ "ba" \in pairwise[p].within => ~Escapes(events, p[2], p[1])

\* The report says it is degraded, and by what first, exactly when some check
\* failed for want of a working solver, whichever call site made the check.
FirstFailureNamed ==
    /\ failures.first = sick
    /\ failures.process \/ failures.error <=> sick # "none"
=============================================================================
