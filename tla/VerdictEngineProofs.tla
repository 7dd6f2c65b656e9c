------------------------- MODULE VerdictEngineProofs -------------------------
(***************************************************************************)
(* Proofs about VerdictEngine, for every set of valuations and of axioms,  *)
(* every number of regions and every choice of the flags.                  *)
(*                                                                         *)
(* Three invariants, each resting on the one before: Typed (the types, and *)
(* which step belongs to which item), Framed (what the solver's stack      *)
(* holds at each step), Justified (what the verdict in hand and the ones   *)
(* already reported say of the regions).                                   *)
(***************************************************************************)
EXTENDS VerdictEngine, CommonLemmas

RegionSteps == {"start", "empty", "gate"}
PairSteps == {"start", "disjoint", "ask12", "sub12", "ask21", "sub21", "overlapAsk",
              "overlap", "witness", "retry", "gate"}

\* A verdict is a record of these fields; its core is left to Framed.
FieldsOK(v) ==
    /\ v = [kind |-> v.kind, certified |-> v.certified, core |-> v.core,
            path |-> v.path, size |-> v.size, within |-> v.within, witness |-> v.witness]
    /\ v.kind \in Kinds \cup EmptyKinds
    /\ v.certified \in {"off", "yes", "no"}
    /\ v.path \in {"none", "interval", "core"}
    /\ v.size \in {"none", "some"}
    /\ v.within \subseteq {"ab", "ba"}
    /\ v.witness \in Points \cup {NoPoint}
    /\ v.size = "some" => v.certified = "yes"

\* Which steps belong to a region, to a pair and to the end of the run.
StepFits ==
    /\ cur \in Pairs \cup (Regions \X {0}) \cup {Done}
    /\ OnRegion => step \in RegionSteps
    /\ OnPair => step \in PairSteps
    /\ cur = Done => step \in {"start", "done"}
    /\ OnRegion /\ step = "gate" => report.kind \in EmptyKinds

\* The witness search is within its budget.
InBudget ==
    /\ attempts \in 0..MaxAttempts
    /\ step \notin {"witness", "retry", "gate"} => attempts = 0
    /\ step = "witness" => attempts < MaxAttempts

DataTyped ==
    /\ enc \in [Regions -> Encodings]
    /\ {sampled, probes} \subseteq SUBSET Points
    /\ solver \in BOOLEAN

LedgerTyped ==
    /\ empties \in [Regions -> EmptyKinds \cup {"None"}]
    /\ pairwise = [p \in Pairs |-> pairwise[p]]
    /\ \A p \in Pairs : pairwise[p] = None \/ FieldsOK(pairwise[p])
    /\ published \subseteq bundles
    /\ bundles \subseteq Pairs

AccountTyped ==
    /\ disjoint \in {"none", "sat", "unknown"} \cup Failed
    /\ failures \in [process : BOOLEAN, error : BOOLEAN, first : {"none"} \cup Failed]
    /\ sick \in {"none"} \cup Failed

Typed == DataTyped /\ StepFits /\ InBudget /\ FieldsOK(report) /\ LedgerTyped /\ AccountTyped
-----------------------------------------------------------------------------
(* Which answers there are. *)

\* A check answers sat, unsat, unknown or one of the two counted failures.
LEMMA AnswersKnown == Answers \subseteq {"sat", "unsat", "unknown"} \cup Failed
BY FailureAssumption DEF Answers, Failed

\* An account of checks stays one, whatever the answer.
LEMMA NoteTyped ==
  ASSUME NEW answer, Note(answer), AccountTyped
  PROVE  /\ failures' \in [process : BOOLEAN, error : BOOLEAN, first : {"none"} \cup Failed]
         /\ sick' \in {"none"} \cup Failed
BY DEF Note, AccountTyped, Failed

\* The pair in hand is queried in one order or the other.
LEMMA Ordered ==
  ASSUME NEW i \in Regions, NEW j \in Regions, cur = <<i, j>>
  PROVE  <<C1, C2>> = <<i, j>> \/ <<C1, C2>> = <<j, i>>
BY DEF C1, C2, AFirst

\* The order of the run leads from an item to an item or to the end.
LEMMA NextItemTyped ==
  ASSUME cur \in Pairs \cup (Regions \X {0})
  PROVE  NextItem \in Pairs \cup (Regions \X {0}) \cup {Done}
<1> USE RegionsAssumption DEF Regions
<1>1. CASE cur \in Regions \X {0}
  <2>1. PICK i \in Regions : cur = <<i, 0>>
    BY <1>1
  <2>2. CASE i < NRegions
    <3>1. NextItem = <<i + 1, 0>>
      BY <2>1, <2>2 DEF NextItem
    <3>2. i + 1 \in Regions
      BY <2>2
    <3> QED BY <3>1, <3>2
  <2>3. CASE i = NRegions
    <3>1. NextItem = IF NRegions > 1 THEN <<1, 2>> ELSE Done
      BY <2>1, <2>3 DEF NextItem
    <3>2. NRegions > 1 => <<1, 2>> \in Pairs
      BY DEF Pairs
    <3> QED BY <3>1, <3>2
  <2> QED BY <2>1, <2>2, <2>3
<1>2. CASE cur \in Pairs
  <2>1. PICK i \in Regions, j \in Regions : cur = <<i, j>> /\ i < j
    BY <1>2 DEF Pairs
  <2>2. CASE j < NRegions
    <3>1. NextItem = <<i, j + 1>>
      BY <2>1, <2>2 DEF NextItem
    <3>2. <<i, j + 1>> \in Pairs
      BY <2>1, <2>2 DEF Pairs
    <3> QED BY <3>1, <3>2
  <2>3. CASE j = NRegions
    <3>1. NextItem = IF i + 1 < NRegions THEN <<i + 1, i + 2>> ELSE Done
      BY <2>1, <2>3 DEF NextItem
    <3>2. i + 1 < NRegions => <<i + 1, i + 2>> \in Pairs
      BY <2>1, <2>3 DEF Pairs
    <3> QED BY <3>1, <3>2
  <2> QED BY <2>1, <2>2, <2>3
<1> QED BY <1>1, <1>2
-----------------------------------------------------------------------------
(* Typed is invariant. *)

\* The blank verdict, and every verdict the engine derives from one, is one.
LEMMA PlainFields ==
  ASSUME NEW k \in Kinds \cup EmptyKinds, NEW w \in SUBSET {"ab", "ba"},
         NEW p \in Points \cup {NoPoint}
  PROVE  FieldsOK(Plain(k, w, p)) /\ Plain(k, w, p).kind = k
BY DEF FieldsOK, Plain

\* So are the blank one, and every one the engine starts from.
LEMMA BlankFields == FieldsOK(Blank) /\ \A k \in Kinds \cup EmptyKinds :
                       FieldsOK(Verdict(k)) /\ Verdict(k).kind = k
<1>1. \A k \in Kinds \cup EmptyKinds : FieldsOK(Verdict(k)) /\ Verdict(k).kind = k
  BY PlainFields DEF Verdict
<1>2. "PossiblyOverlapping" \in Kinds
  BY DEF Kinds
<1> QED BY <1>1, <1>2 DEF Blank

\* A disjointness verdict is a verdict.
LEMMA DisjointFields ==
  ASSUME NEW cert \in {"off", "yes", "no"}, NEW core, NEW path \in {"interval", "core"}
  PROVE  FieldsOK(Disjoint(cert, path, core))
BY DEF FieldsOK, Disjoint, Kinds

\* A subset claim made or withdrawn, another kind, a retraction: each keeps a
\* verdict one.
LEMMA WithinFields ==
  ASSUME NEW v, FieldsOK(v), NEW d \in SUBSET {"ab", "ba"}
  PROVE  /\ FieldsOK([v EXCEPT !.within = @ \cup d])
         /\ FieldsOK([v EXCEPT !.within = @ \ d])
BY DEF FieldsOK

\* A downgrade to another kind.
LEMMA KindFields ==
  ASSUME NEW v, FieldsOK(v), NEW k \in Kinds
  PROVE  FieldsOK([v EXCEPT !.kind = k])
BY DEF FieldsOK

\* A retraction.
LEMMA RetractedFields ==
  ASSUME NEW v, FieldsOK(v)
  PROVE  FieldsOK(Retracted(v))
<1>1. "PossiblyOverlapping" \in Kinds /\ v.within \subseteq {"ab", "ba"}
      /\ v.witness \in Points \cup {NoPoint}
  BY DEF FieldsOK, Kinds
<1> QED BY <1>1, PlainFields DEF Retracted

\* Every run starts typed.
LEMMA TypedInit == Init => Typed
<1> SUFFICES ASSUME Init PROVE Typed
  OBVIOUS
<1> USE DEF Init
<1>1. DataTyped
  <2>1. enc \in [Regions -> Encodings]
    OBVIOUS
  <2> QED BY <2>1, EventsAssumption DEF DataTyped
<1>2. StepFits
  BY RegionsAssumption DEF StepFits, OnRegion, OnPair, RegionSteps, PairSteps, Regions, Pairs, Done
<1>3. InBudget
  BY AttemptsAssumption DEF InBudget
<1>4. LedgerTyped
  BY DEF LedgerTyped, EmptyKinds
<1>5. AccountTyped
  BY DEF AccountTyped, Failed
<1> QED BY <1>1, <1>2, <1>3, <1>4, <1>5, BlankFields DEF Typed

\* Turning to the next item leaves nothing of this one behind.
LEMMA AdvanceTyped ==
  ASSUME Typed, Advance, cur # Done
  PROVE  StepFits' /\ InBudget' /\ FieldsOK(report') /\ disjoint' = "none"
<1>1. cur' \in Pairs \cup (Regions \X {0}) \cup {Done}
  BY NextItemTyped DEF Typed, StepFits, Advance
<1>2. StepFits'
  BY <1>1 DEF StepFits, Advance, OnRegion, OnPair, RegionSteps, PairSteps
<1>3. InBudget'
  BY AttemptsAssumption DEF InBudget, Advance
<1> QED BY <1>2, <1>3, BlankFields DEF Advance

\* A step that leaves the data, the item and the ledger alone, and keeps its
\* step and its report in order, keeps Typed.
LEMMA SameItemTyped ==
  ASSUME Typed, UNCHANGED <<data, cur, ledger>>,
         OnRegion => step' \in RegionSteps, OnPair => step' \in PairSteps, cur # Done,
         OnRegion /\ step' = "gate" => report'.kind \in EmptyKinds,
         InBudget', FieldsOK(report'), AccountTyped'
  PROVE  Typed'
<1>1. DataTyped'
  BY DEF Typed, DataTyped, data
<1>2. LedgerTyped'
  BY DEF Typed, LedgerTyped, ledger, FieldsOK
<1>3. StepFits'
  BY DEF Typed, StepFits, OnRegion, OnPair
<1> QED BY <1>1, <1>2, <1>3 DEF Typed

\* A step that checks nothing keeps the account, one that checks adds to it.
LEMMA AccountKept ==
  ASSUME AccountTyped, UNCHANGED disjoint,
         UNCHANGED <<failures, sick>> \/ \E answer : Note(answer)
  PROVE  AccountTyped'
<1>1. CASE UNCHANGED <<failures, sick>>
  BY <1>1 DEF AccountTyped
<1>2. CASE \E answer : Note(answer)
  BY <1>2, NoteTyped DEF AccountTyped
<1> QED BY <1>1, <1>2

\* Steps of a search that is over, or not yet begun, keep the budget.
LEMMA BudgetKept ==
  ASSUME InBudget, UNCHANGED attempts,
         \/ step' = "gate"
         \/ step' \notin {"witness", "retry"} /\ step \notin {"witness", "retry", "gate"}
  PROVE  InBudget'
BY DEF InBudget

\* The steps of a region keep Typed.
LEMMA RegionTyped ==
  ASSUME Typed, IntervalEmpty \/ AskEmpty \/ AnswerEmpty \/ GateEmpty
  PROVE  Typed'
<1> USE DEF RegionSteps
<1>0. /\ StepFits /\ InBudget /\ FieldsOK(report) /\ AccountTyped /\ LedgerTyped /\ DataTyped
  BY DEF Typed
<1>k. {"Proven", "Candidate", "NotProven", "Unknown"} \subseteq EmptyKinds
  BY DEF EmptyKinds
<1>1. CASE IntervalEmpty
  <2>1. /\ UNCHANGED <<data, cur, ledger>> /\ cur # Done /\ ~OnPair /\ step' = "gate"
        /\ report' = Verdict("Proven")
    BY <1>1 DEF IntervalEmpty, OnRegion, OnPair, Conclude
  <2>2. AccountTyped'
    BY <1>0, <1>1, AccountKept DEF IntervalEmpty
  <2>3. InBudget'
    BY <1>0, <1>1, <2>1, BudgetKept DEF IntervalEmpty
  <2> QED BY <2>1, <2>2, <2>3, <1>k, BlankFields, SameItemTyped
<1>2. CASE AskEmpty
  <2>1. UNCHANGED <<data, cur, ledger>> /\ cur # Done /\ ~OnPair /\ step = "start"
    BY <1>2 DEF AskEmpty, OnRegion, OnPair
  <2>2. AccountTyped'
    BY <1>0, <1>2, AccountKept DEF AskEmpty
  <2>3. \/ step' = "empty" /\ report' = report
        \/ step' = "gate" /\ report' = Verdict("Unknown")
    BY <1>2 DEF AskEmpty, Conclude
  <2>4. InBudget'
    BY <1>0, <1>2, <2>1, <2>3, BudgetKept DEF AskEmpty
  <2>5. FieldsOK(report') /\ (step' = "gate" => report'.kind \in EmptyKinds)
    BY <1>0, <1>k, <2>3, BlankFields
  <2>6. OnRegion => step' \in RegionSteps
    BY <2>3
  <2> QED BY <2>1, <2>2, <2>4, <2>5, <2>6, SameItemTyped
<1>3. CASE AnswerEmpty
  <2>1. step = "empty" /\ UNCHANGED <<data, cur, ledger>>
    BY <1>3 DEF AnswerEmpty
  <2>2. OnRegion /\ cur # Done /\ ~OnPair
    BY <1>0, <2>1 DEF StepFits, OnRegion, OnPair, PairSteps
  <2>3. step' = "gate" /\ \E k \in EmptyKinds : report' = Verdict(k)
    BY <1>3, <1>k DEF AnswerEmpty, Conclude
  <2>4. AccountTyped'
    BY <1>0, <1>3, AccountKept DEF AnswerEmpty
  <2>5. InBudget'
    BY <1>0, <1>3, <2>3, BudgetKept DEF AnswerEmpty
  <2> QED BY <2>1, <2>2, <2>3, <2>4, <2>5, BlankFields, SameItemTyped
<1>4. CASE GateEmpty
  <2>1. cur # Done /\ Advance /\ OnRegion /\ step = "gate"
    BY <1>4 DEF GateEmpty, OnRegion
  <2>2. /\ StepFits' /\ InBudget' /\ FieldsOK(report') /\ disjoint' = "none"
    BY <2>1, AdvanceTyped
  <2>3. DataTyped'
    BY <1>0, <1>4 DEF GateEmpty, DataTyped, data
  <2>4. report.kind \in EmptyKinds
    BY <1>0, <2>1 DEF StepFits
  <2>5. empties' \in [Regions -> EmptyKinds \cup {"None"}]
    BY <1>0, <1>4, <2>4, <1>k DEF GateEmpty, LedgerTyped
  <2>6. LedgerTyped'
    BY <1>0, <1>4, <2>5 DEF GateEmpty, LedgerTyped, FieldsOK
  <2>7. AccountTyped'
    BY <1>0, <1>4, <2>2 DEF GateEmpty, AccountTyped
  <2> QED BY <2>2, <2>3, <2>6, <2>7 DEF Typed
<1> QED BY <1>1, <1>2, <1>3, <1>4

\* A pair's step is not a region's.
LEMMA PairInHand ==
  ASSUME Typed, step \in PairSteps \ RegionSteps
  PROVE  OnPair /\ ~OnRegion /\ cur # Done /\ cur \in Pairs
BY DEF Typed, StepFits, PairSteps, RegionSteps, OnPair, OnRegion, Pairs, Regions

\* Bundles of pairs stay bundles of pairs.
LEMMA BundleTyped ==
  ASSUME LedgerTyped, cur \in Pairs, NEW cert, Bundle(cert),
         UNCHANGED <<empties, pairwise, published>>
  PROVE  LedgerTyped'
BY DEF LedgerTyped, Bundle, FieldsOK

\* The steps of a disjointness query keep Typed.
LEMMA DisjointTyped ==
  ASSUME Typed, IntervalDisjoint \/ AskDisjoint \/ DisjointProven \/ DisjointNotProven
  PROVE  Typed'
<1> USE DEF RegionSteps, PairSteps
<1>0. /\ StepFits /\ InBudget /\ FieldsOK(report) /\ AccountTyped /\ LedgerTyped /\ DataTyped
  BY DEF Typed
<1>1. CASE IntervalDisjoint
  <2>1. /\ UNCHANGED <<data, cur>> /\ OnPair /\ cur \in Pairs /\ step' = "gate"
    BY <1>0, <1>1 DEF IntervalDisjoint, OnPair, Conclude, StepFits
  <2>2. PICK cert \in {"off", "yes"} : report' = Disjoint(cert, "interval", {}) /\ Bundle(cert)
    BY <1>1 DEF IntervalDisjoint, Conclude
  <2>3. AccountTyped' /\ InBudget'
    BY <1>0, <1>1, <2>1, AccountKept, BudgetKept DEF IntervalDisjoint
  <2>4. LedgerTyped'
    BY <1>0, <1>1, <2>1, <2>2, BundleTyped DEF IntervalDisjoint
  <2>5. StepFits'
    BY <1>0, <2>1 DEF StepFits, OnPair, OnRegion
  <2>6. FieldsOK(report')
    BY <2>2, DisjointFields
  <2>7. DataTyped'
    BY <1>0, <2>1 DEF DataTyped, data
  <2> QED BY <2>3, <2>4, <2>5, <2>6, <2>7 DEF Typed
<1>2. CASE AskDisjoint
  <2>1. UNCHANGED <<data, cur, ledger>> /\ OnPair /\ cur # Done /\ ~OnRegion /\ step = "start"
    BY <1>2 DEF AskDisjoint, OnPair, OnRegion
  <2>2. \/ step' = "disjoint" /\ report' = report
        \/ step' = "gate" /\ report' = Blank
    BY <1>2 DEF AskDisjoint, Conclude
  <2>3. AccountTyped'
    BY <1>0, <1>2, AccountKept DEF AskDisjoint
  <2>4. InBudget'
    BY <1>0, <1>2, <2>1, <2>2, BudgetKept DEF AskDisjoint
  <2>5. FieldsOK(report')
    BY <1>0, <2>2, BlankFields
  <2>6. OnPair => step' \in PairSteps
    BY <2>2
  <2> QED BY <2>1, <2>3, <2>4, <2>5, <2>6, SameItemTyped
<1>3. CASE DisjointProven
  <2>1. step = "disjoint" /\ UNCHANGED <<data, cur>> /\ step' = "gate"
    BY <1>3 DEF DisjointProven, Conclude
  <2>2. OnPair /\ ~OnRegion /\ cur # Done /\ cur \in Pairs
    BY <2>1, PairInHand
  <2>a. PICK core \in Cores : \E cert \in Certified(core, Base \cup BothCuts) :
          report' = Disjoint(cert, "core", core \ {<<"stray", 0>>}) /\ Bundle(cert)
    BY <1>3 DEF DisjointProven, Conclude
  <2>3. PICK cert \in Certified(core, Base \cup BothCuts) :
          report' = Disjoint(cert, "core", core \ {<<"stray", 0>>}) /\ Bundle(cert)
    BY <2>a
  <2>4. cert \in {"off", "yes", "no"}
    BY <2>3 DEF Certified
  <2>5. FieldsOK(report')
    BY <2>3, <2>4, DisjointFields
  <2>6. AccountTyped' /\ InBudget'
    BY <1>0, <1>3, <2>1, AccountKept, BudgetKept DEF DisjointProven
  <2>7. LedgerTyped'
    BY <1>0, <1>3, <2>2, <2>3, BundleTyped DEF DisjointProven
  <2>8. StepFits'
    BY <1>0, <2>1, <2>2 DEF StepFits, OnPair, OnRegion
  <2>9. DataTyped'
    BY <1>0, <2>1 DEF DataTyped, data
  <2> QED BY <2>5, <2>6, <2>7, <2>8, <2>9 DEF Typed
<1>4. CASE DisjointNotProven
  <2>1. step = "disjoint" /\ UNCHANGED <<data, cur, ledger, report, attempts>> /\ step' = "ask12"
    BY <1>4 DEF DisjointNotProven
  <2>2. OnPair /\ ~OnRegion /\ cur # Done
    BY <2>1, PairInHand
  <2>3. PICK answer \in Answers \ {"unsat"} : Note(answer) /\ disjoint' = answer
    BY <1>4 DEF DisjointNotProven
  <2>4. disjoint' \in {"none", "sat", "unknown"} \cup Failed
    BY <2>3, AnswersKnown
  <2>5. AccountTyped'
    BY <1>0, <2>3, <2>4, NoteTyped DEF AccountTyped
  <2>6. InBudget'
    BY <1>0, <2>1, BudgetKept
  <2> QED BY <1>0, <2>1, <2>2, <2>5, <2>6, SameItemTyped
<1> QED BY <1>1, <1>2, <1>3, <1>4

\* The steps of the two subset queries keep Typed, whichever pair of regions
\* and steps they run between.
LEMMA SubsetTyped ==
  ASSUME Typed, NEW pre \in {"ask12", "ask21", "sub12", "sub21"},
         NEW post \in {"sub12", "ask21", "sub21", "overlapAsk"}, NEW sub, NEW sup,
         AskSubset(pre, post, sub, sup) \/ AnswerSubset(pre, post, sub, sup)
  PROVE  Typed'
<1>0. StepFits /\ InBudget /\ FieldsOK(report) /\ AccountTyped
  BY DEF Typed
<1>1. /\ step = pre /\ step' = post /\ UNCHANGED <<data, cur, ledger, attempts, disjoint>>
  BY DEF AskSubset, AnswerSubset
<1>2. OnPair /\ ~OnRegion /\ cur # Done
  BY <1>1, PairInHand DEF PairSteps, RegionSteps
<1>3. AccountTyped'
  <2>1. UNCHANGED <<failures, sick>> \/ \E answer : Note(answer)
    BY DEF AskSubset, AnswerSubset
  <2> QED BY <1>0, <1>1, <2>1, AccountKept
<1>4. InBudget'
  BY <1>0, <1>1, BudgetKept
<1>5. FieldsOK(report')
  <2>1. report' = report \/ Claim(sub)
    BY DEF AskSubset, AnswerSubset
  <2>2. CASE Claim(sub)
    <3>1. {Direction(sub)} \in SUBSET {"ab", "ba"}
      BY DEF Direction
    <3>2. report' = [report EXCEPT !.within = @ \cup {Direction(sub)}]
      BY <2>2 DEF Claim
    <3> QED BY <1>0, <3>1, <3>2, WithinFields
  <2> QED BY <1>0, <2>1, <2>2
<1> QED BY <1>1, <1>2, <1>3, <1>4, <1>5, SameItemTyped DEF PairSteps

\* The steps of the overlap query and the witness search keep Typed.
LEMMA OverlapTyped ==
  ASSUME Typed, \/ TwinCap \/ AskOverlap \/ OverlapCapped \/ OverlapSat \/ OverlapNotSat
                \/ WitnessSettled \/ WitnessRejected \/ RetryAnswered
  PROVE  Typed'
<1>0. StepFits /\ InBudget /\ FieldsOK(report) /\ AccountTyped
  BY DEF Typed
<1>1. /\ step \in {"overlapAsk", "overlap", "witness", "retry"}
      /\ UNCHANGED <<data, cur, ledger, disjoint>>
      /\ step' \in {"overlap", "witness", "retry", "gate"}
  BY DEF TwinCap, AskOverlap, OverlapCapped, OverlapSat, OverlapNotSat, WitnessSettled,
         WitnessRejected, RetryAnswered, Conclude
<1>2. OnPair /\ ~OnRegion /\ cur # Done
  BY <1>1, PairInHand DEF PairSteps, RegionSteps
<1>3. AccountTyped'
  <2>1. UNCHANGED <<failures, sick>> \/ \E answer : Note(answer)
    BY DEF TwinCap, AskOverlap, OverlapCapped, OverlapSat, OverlapNotSat, WitnessSettled,
           WitnessRejected, RetryAnswered
  <2> QED BY <1>0, <1>1, <2>1, AccountKept
<1>4. InBudget'
  <2>1. CASE step' = "gate" /\ UNCHANGED attempts
    BY <1>0, <2>1, BudgetKept
  <2>2. CASE AskOverlap
    BY <1>0, <2>2, BudgetKept DEF AskOverlap
  <2>3. CASE OverlapSat
    BY <1>0, <2>3, AttemptsAssumption DEF OverlapSat, InBudget
  <2>4. CASE WitnessRejected
    BY <1>0, <2>4, AttemptsAssumption DEF WitnessRejected, InBudget
  <2>5. CASE RetryAnswered
    BY <1>0, <2>5, AttemptsAssumption DEF RetryAnswered, InBudget, Conclude
  <2> QED BY <2>1, <2>2, <2>3, <2>4, <2>5 DEF TwinCap, OverlapCapped, OverlapNotSat,
             WitnessSettled, Conclude
<1>5. FieldsOK(report')
  <2>k. {"ProvenOverlapping", "CandidateOverlapping", "Unknown"} \subseteq Kinds
    BY DEF Kinds
  <2>1. CASE OverlapNotSat
    <3>1. report' = report \/ report' = [report EXCEPT !.kind = "Unknown"]
      BY <2>1 DEF OverlapNotSat, Conclude
    <3> QED BY <1>0, <3>1, <2>k, KindFields
  <2>2. CASE WitnessSettled
    <3>1. \/ report' = report
          \/ report' = [report EXCEPT !.kind = "CandidateOverlapping"]
          \/ \E event \in Points : report' = Plain("ProvenOverlapping", report.within, event)
      BY <2>2 DEF WitnessSettled, Conclude, Models, Live
    <3>2. report.within \subseteq {"ab", "ba"}
      BY <1>0 DEF FieldsOK
    <3>3. ASSUME NEW event \in Points
          PROVE  FieldsOK(Plain("ProvenOverlapping", report.within, event))
      BY <2>k, <3>2, PlainFields
    <3> QED BY <1>0, <2>k, <3>1, <3>3, KindFields
  <2>3. CASE UNCHANGED report
    BY <1>0, <2>3
  <2> QED BY <2>1, <2>2, <2>3 DEF TwinCap, AskOverlap, OverlapCapped, OverlapSat,
             WitnessRejected, RetryAnswered, Conclude
<1> QED BY <1>1, <1>2, <1>3, <1>4, <1>5, SameItemTyped DEF PairSteps

\* Reporting a pair, and the report itself, keep Typed.
LEMMA ReportTyped ==
  ASSUME Typed, GatePair \/ Report
  PROVE  Typed'
<1>0. /\ StepFits /\ InBudget /\ FieldsOK(report) /\ AccountTyped /\ LedgerTyped /\ DataTyped
  BY DEF Typed
<1>1. CASE GatePair
  <2>1. cur # Done /\ Advance /\ OnPair /\ cur \in Pairs
    BY <1>0, <1>1 DEF GatePair, OnPair, StepFits
  <2>2. /\ StepFits' /\ InBudget' /\ FieldsOK(report') /\ disjoint' = "none"
    BY <2>1, AdvanceTyped
  <2> DEFINE events == sampled \cup probes
             v == IF report.kind = "ProvenDisjoint" /\ Witnessed(events, cur[1], cur[2])
                  THEN Retracted(report) ELSE report
             d == Withdrawn(events, cur[1], cur[2])
  <2>3. pairwise' = [pairwise EXCEPT ![cur] = [v EXCEPT !.within = @ \ d]]
    BY <1>1 DEF GatePair
  <2>4. FieldsOK([v EXCEPT !.within = @ \ d])
    <3>1. d \in SUBSET {"ab", "ba"}
      BY DEF Withdrawn
    <3>2. FieldsOK(v)
      BY <1>0, RetractedFields
    <3> HIDE DEF v, d
    <3> QED BY <3>1, <3>2, WithinFields
  <2> DEFINE w == [v EXCEPT !.within = @ \ d]
  <2> HIDE DEF v, d, w
  <2>5. LedgerTyped'
    <3>1. pairwise' = [pairwise EXCEPT ![cur] = w] /\ FieldsOK(w)
      BY <2>3, <2>4 DEF w
    <3>2. pairwise' = [p \in Pairs |-> IF p = cur THEN w ELSE pairwise[p]]
      BY <1>0, <2>1, <3>1 DEF LedgerTyped
    <3>3. \A p \in Pairs : pairwise'[p] = None \/ FieldsOK(pairwise'[p])
      BY <1>0, <3>1, <3>2 DEF LedgerTyped
    <3>4. pairwise' = [p \in Pairs |-> pairwise'[p]]
      BY <3>2
    <3>5. UNCHANGED <<empties, published, bundles>>
      BY <1>1 DEF GatePair
    <3>6. (\A p \in Pairs : pairwise[p] = None \/ FieldsOK(pairwise[p]))'
      BY <3>3 DEF FieldsOK
    <3> QED BY <1>0, <3>4, <3>5, <3>6 DEF LedgerTyped
  <2>6. DataTyped'
    BY <1>0, <1>1 DEF GatePair, DataTyped, data
  <2>7. AccountTyped'
    BY <1>0, <1>1, <2>2 DEF GatePair, AccountTyped
  <2> QED BY <2>2, <2>5, <2>6, <2>7 DEF Typed
<1>2. CASE Report
  <2>1. UNCHANGED <<data, cur, attempts, report, disjoint, failures, sick, empties,
                    pairwise, bundles>> /\ cur = Done /\ step' = "done" /\ step = "start"
        /\ published' \subseteq bundles
    BY <1>2 DEF Report
  <2>2. StepFits'
    BY <1>0, <2>1 DEF StepFits, OnRegion, OnPair
  <2>3. InBudget' /\ FieldsOK(report')
    BY <1>0, <2>1 DEF InBudget, FieldsOK
  <2>4. LedgerTyped'
    BY <1>0, <2>1 DEF LedgerTyped, FieldsOK
  <2>5. DataTyped' /\ AccountTyped'
    BY <1>0, <2>1 DEF DataTyped, data, AccountTyped
  <2> QED BY <2>2, <2>3, <2>4, <2>5 DEF Typed
<1> QED BY <1>1, <1>2

\* Every step of the engine keeps Typed.
LEMMA TypedStep == Typed /\ [Next]_vars => Typed'
<1> SUFFICES ASSUME Typed, [Next]_vars PROVE Typed'
  OBVIOUS
<1>1. CASE UNCHANGED vars
  BY <1>1 DEF vars, data, ledger, Typed, DataTyped, StepFits, InBudget, LedgerTyped,
              AccountTyped, FieldsOK, OnRegion, OnPair
<1>2. CASE \/ AskSubset("ask12", "sub12", C1, C2) \/ AnswerSubset("sub12", "ask21", C1, C2)
           \/ AskSubset("ask21", "sub21", C2, C1) \/ AnswerSubset("sub21", "overlapAsk", C2, C1)
  BY <1>2, SubsetTyped
<1> QED BY <1>1, <1>2, RegionTyped, DisjointTyped, OverlapTyped, ReportTyped
        DEF Next, Terminated

\* Typed holds throughout.
LEMMA AlwaysTyped == Spec => []Typed
<1>1. Init => Typed
  BY TypedInit
<1> QED BY <1>1, TypedStep, PTL DEF Spec
-----------------------------------------------------------------------------
(* What the solver's stack holds, step by step. *)

AtBase == {"start", "ask12", "ask21", "overlapAsk", "gate", "done"}
Searching == {"overlap", "witness", "retry"}

\* The persistent frame, and on it the frame of the query being asked and of
\* no other.
Framed ==
    /\ step \in AtBase => stack = <<Base>>
    /\ step = "empty" => stack = <<Base, {Cut(cur[1])}>>
    /\ step = "disjoint" => stack = <<Base, BothCuts>>
    /\ step = "sub12" => stack = <<Base, SubsetQuery(C1, C2)>>
    /\ step = "sub21" => stack = <<Base, SubsetQuery(C2, C1)>>
    /\ step \in Searching => \E F : stack = <<Base, F>>

\* A push puts one frame on the persistent one and a pop takes it off.
LEMMA PushPop ==
  ASSUME NEW F
  PROVE  /\ stack = <<Base>> /\ Push(F) => stack' = <<Base, F>>
         /\ stack = <<Base, F>> /\ Pop => stack' = <<Base>>
BY AppendOne, FirstOfTwo DEF Push, Pop

\* What the item's formulas are made of does not change.
LEMMA SameFormulas ==
  ASSUME UNCHANGED <<enc, cur>>
  PROVE  /\ {Cut(cur[1])}' = {Cut(cur[1])}
         /\ BothCuts' = BothCuts
         /\ SubsetQuery(C1, C2)' = SubsetQuery(C1, C2)
         /\ SubsetQuery(C2, C1)' = SubsetQuery(C2, C1)
         /\ Base' = Base
BY DEF Cut, BothCuts, SubsetQuery, Named, C1, C2, AFirst, Base

\* Every run starts with the persistent frame alone.
LEMMA FramedInit == Init => Framed
BY DEF Init, Framed, AtBase, Searching

\* Every step of the engine keeps the stack framed.
LEMMA FramedStep == Typed /\ Framed /\ [Next]_vars => Framed'
<1> SUFFICES ASSUME Typed, Framed, [Next]_vars PROVE Framed'
  OBVIOUS
<1> USE DEF AtBase, Searching
<1>b. Base' = Base
  BY DEF Base, Named
<1>p. ASSUME step' \in AtBase, stack' = <<Base>> PROVE Framed'
  BY <1>b, <1>p DEF Framed
<1>q. ASSUME step \in {"empty", "disjoint", "sub12", "sub21"} \cup Searching, Pop,
             step' \in AtBase
      PROVE  Framed'
  <2>1. \E F : stack = <<Base, F>>
    BY <1>q DEF Framed
  <2> QED BY <2>1, <1>p, <1>q, PushPop
<1>r. ASSUME NEW F, step \in AtBase, Push(F) PROVE stack' = <<Base, F>>
  BY <1>r, PushPop DEF Framed
<1>1. CASE UNCHANGED vars
  <2>1. UNCHANGED <<enc, cur, step, stack>>
    BY <1>1 DEF vars, data
  <2> QED BY <2>1, SameFormulas DEF Framed
<1>2. CASE IntervalEmpty \/ IntervalDisjoint \/ TwinCap
  <2>1. step \in AtBase /\ UNCHANGED stack /\ step' = "gate"
    BY <1>2 DEF IntervalEmpty, IntervalDisjoint, TwinCap, Conclude
  <2> QED BY <2>1, <1>p DEF Framed
<1>3. CASE AskEmpty
  <2>1. UNCHANGED <<enc, cur>> /\ step = "start"
    BY <1>3 DEF AskEmpty, data
  <2>2. CASE solver
    <3>1. Push({Cut(cur[1])}) /\ step' = "empty"
      BY <1>3, <2>2 DEF AskEmpty
    <3> QED BY <2>1, <3>1, <1>r, SameFormulas DEF Framed
  <2>3. CASE ~solver
    BY <1>3, <2>1, <2>3, <1>p DEF AskEmpty, Conclude, Framed
  <2> QED BY <2>2, <2>3
<1>4. CASE AnswerEmpty
  BY <1>4, <1>q DEF AnswerEmpty, Conclude
<1>5. CASE GateEmpty \/ GatePair
  BY <1>5, <1>p DEF GateEmpty, GatePair, Advance, Framed
<1>6. CASE AskDisjoint
  <2>1. UNCHANGED <<enc, cur>> /\ step = "start"
    BY <1>6 DEF AskDisjoint, data
  <2>2. CASE solver
    <3>1. Push(BothCuts) /\ step' = "disjoint"
      BY <1>6, <2>2 DEF AskDisjoint
    <3> QED BY <2>1, <3>1, <1>r, SameFormulas DEF Framed
  <2>3. CASE ~solver
    BY <1>6, <2>1, <2>3, <1>p DEF AskDisjoint, Conclude, Framed
  <2> QED BY <2>2, <2>3
<1>7. CASE DisjointProven \/ DisjointNotProven
  BY <1>7, <1>q DEF DisjointProven, DisjointNotProven, Conclude
<1>8. CASE AskSubset("ask12", "sub12", C1, C2)
  <2>1. UNCHANGED <<enc, cur>> /\ step = "ask12" /\ step' = "sub12" /\ Push(SubsetQuery(C1, C2))
    BY <1>8 DEF AskSubset, data
  <2> QED BY <2>1, <1>r, SameFormulas DEF Framed
<1>9. CASE AskSubset("ask21", "sub21", C2, C1)
  <2>1. UNCHANGED <<enc, cur>> /\ step = "ask21" /\ step' = "sub21" /\ Push(SubsetQuery(C2, C1))
    BY <1>9 DEF AskSubset, data
  <2> QED BY <2>1, <1>r, SameFormulas DEF Framed
<1>10. CASE AnswerSubset("sub12", "ask21", C1, C2) \/ AnswerSubset("sub21", "overlapAsk", C2, C1)
  BY <1>10, <1>q DEF AnswerSubset
<1>11. CASE AskOverlap
  <2>1. step \in AtBase /\ step' = "overlap" /\ Push(UnnamedUnders)
    BY <1>11 DEF AskOverlap
  <2> QED BY <2>1, <1>r, <1>b DEF Framed
<1>12. CASE OverlapCapped \/ OverlapNotSat \/ WitnessSettled
  BY <1>12, <1>q DEF OverlapCapped, OverlapNotSat, WitnessSettled, Conclude
<1>13. CASE OverlapSat
  BY <1>13, <1>b DEF OverlapSat, Framed
<1>14. CASE WitnessRejected
  <2>1. PICK F : stack = <<Base, F>>
    BY <1>14 DEF WitnessRejected, Framed
  <2>2. PICK f : AssertHere(f)
    BY <1>14 DEF WitnessRejected
  <2>3. stack' = <<Base, F \cup {f}>>
    BY <2>1, <2>2 DEF AssertHere
  <2> QED BY <2>3, <1>14, <1>b DEF WitnessRejected, Framed
<1>15. CASE RetryAnswered
  <2>1. step = "retry"
    BY <1>15 DEF RetryAnswered
  <2>2. CASE step' = "witness" /\ UNCHANGED stack
    BY <2>1, <2>2, <1>b DEF Framed
  <2>3. CASE step' = "gate" /\ Pop
    BY <2>1, <2>3, <1>q
  <2> QED BY <1>15, <2>2, <2>3 DEF RetryAnswered, Conclude
<1>16. CASE Report
  BY <1>16, <1>p DEF Report, Framed
<1> QED BY <1>1, <1>2, <1>3, <1>4, <1>5, <1>6, <1>7, <1>8, <1>9, <1>10, <1>11, <1>12,
           <1>13, <1>14, <1>15, <1>16 DEF Next, Terminated

\* Framed holds throughout.
LEMMA AlwaysFramed == Spec => [](Typed /\ Framed)
<1>1. Typed /\ Framed /\ [Next]_vars => (Typed /\ Framed)'
  BY TypedStep, FramedStep
<1>2. Init => Typed /\ Framed
  BY TypedInit, FramedInit
<1> QED BY <1>1, <1>2, PTL DEF Spec
-----------------------------------------------------------------------------
(* What the verdict in hand says is so. *)

ProofFree(v) == v.certified = "off" /\ v.core = {} /\ v.path = "none" /\ v.size = "none"

\* The verdict v, held at step s, claims nothing but subsets before it goes to
\* the gates, carries proof only if it is a disjointness verdict, and is true of
\* the regions in hand.
Holds(v, s) ==
    /\ s # "gate" => ProofFree(v) /\ v.kind = "PossiblyOverlapping"
    /\ v.kind \notin {"ProvenDisjoint", "CandidateDisjoint"} => ProofFree(v)
    /\ v.core \subseteq Names
    /\ Trusted /\ OnRegion /\ v.kind = "Proven" => enc[cur[1]].real = {}
    /\ Trusted /\ OnPair => TrueOf(v, cur[1], cur[2])

\* The same of every verdict reported.
CoresNamed == \A p \in Pairs : pairwise[p] # None => pairwise[p].core \subseteq Names
Reported == VerdictsSound /\ RetractedKeepsNothing /\ NoClaimAgainstAnEvent /\ CoresNamed

Justified == Holds(report, step) /\ Reported

\* What Plain is made of: no proof, and the kind, claims and witness given.
LEMMA PlainIsFree == \A k, w, p : /\ ProofFree(Plain(k, w, p)) /\ Plain(k, w, p).kind = k
                                  /\ Plain(k, w, p).within = w /\ Plain(k, w, p).witness = p
BY DEF ProofFree, Plain

\* The blank verdict holds of anything, at any step.
LEMMA BlankHolds == \A s : Holds(Blank, s)
BY PlainIsFree DEF Holds, Blank, Verdict, ProofFree, TrueOf

\* An emptiness verdict other than PROVEN holds of any region, and PROVEN of
\* an empty one.
LEMMA VerdictHolds ==
  ASSUME OnRegion, NEW k \in EmptyKinds,
         k = "Proven" /\ Trusted => enc[cur[1]].real = {}
  PROVE  Holds(Verdict(k), "gate")
<1>1. ~OnPair
  BY DEF OnRegion, OnPair
<1> QED BY <1>1, PlainIsFree DEF Holds, Verdict, ProofFree, EmptyKinds

\* What Disjoint is made of.
LEMMA DisjointParts ==
  ASSUME NEW cert, NEW path, NEW core
  PROVE  /\ Disjoint(cert, path, core).kind =
              IF cert = "no" THEN "CandidateDisjoint" ELSE "ProvenDisjoint"
         /\ Disjoint(cert, path, core).within = {}
         /\ Disjoint(cert, path, core).core = core
BY DEF Disjoint

\* A disjointness verdict holds if its core is named and, unless it is a
\* candidate, the two regions share no event.
LEMMA DisjointHolds ==
  ASSUME OnPair, NEW cert, NEW path, NEW core \in SUBSET Names,
         Trusted /\ cert # "no" => enc[cur[1]].real \cap enc[cur[2]].real = {}
  PROVE  Holds(Disjoint(cert, path, core), "gate")
<1>1. ~OnRegion
  BY DEF OnRegion, OnPair
<1> DEFINE v == Disjoint(cert, path, core)
<1>2. /\ v.kind = IF cert = "no" THEN "CandidateDisjoint" ELSE "ProvenDisjoint"
      /\ v.within = {} /\ v.core = core
  BY DisjointParts
<1> HIDE DEF v
<1>3. Holds(v, "gate")
  BY <1>1, <1>2 DEF Holds, TrueOf
<1> QED BY <1>3 DEF v

\* A change of kind leaves the rest of a verdict alone.
LEMMA OtherThanKind ==
  ASSUME NEW v, FieldsOK(v), NEW k
  PROVE  /\ ProofFree(v) => ProofFree([v EXCEPT !.kind = k])
         /\ [v EXCEPT !.kind = k].kind = k
         /\ [v EXCEPT !.kind = k].within = v.within
         /\ [v EXCEPT !.kind = k].core = v.core
BY DEF ProofFree, FieldsOK

\* So does a change of its subset claims.
LEMMA OtherThanWithin ==
  ASSUME NEW v, FieldsOK(v), NEW d
  PROVE  /\ ProofFree(v) => ProofFree([v EXCEPT !.within = d])
         /\ [v EXCEPT !.within = d].kind = v.kind
         /\ [v EXCEPT !.within = d].within = d
         /\ [v EXCEPT !.within = d].core = v.core
         /\ [v EXCEPT !.within = d].witness = v.witness
         /\ [v EXCEPT !.within = d].certified = v.certified
         /\ [v EXCEPT !.within = d].path = v.path
         /\ [v EXCEPT !.within = d].size = v.size
BY DEF ProofFree, FieldsOK

\* A step that leaves the data, the item and the reported verdicts alone
\* keeps everything justified if the verdict in hand holds after it.
LEMMA SameReports ==
  ASSUME Justified, UNCHANGED <<data, cur, empties, pairwise>>, Holds(report', step')
  PROVE  Justified'
<1>1. UNCHANGED <<enc, sampled, probes, cur, empties, pairwise>>
  BY DEF data
<1>2. Trusted' = Trusted
  BY <1>1 DEF Trusted, EncSound
<1>3. Holds(report, step)'
  BY <1>1, <1>2 DEF Holds, OnRegion, OnPair, TrueOf, Selected
<1>4. Reported'
  <2>1. VerdictsSound'
    BY <1>1, <1>2 DEF Justified, Reported, VerdictsSound, EmptySound, PairSound, TrueOf
  <2>2. RetractedKeepsNothing' /\ CoresNamed'
    BY <1>1 DEF Justified, Reported, RetractedKeepsNothing, CoresNamed
  <2>3. NoClaimAgainstAnEvent'
    BY <1>1 DEF Justified, Reported, NoClaimAgainstAnEvent, Witnessed, Escapes
  <2> QED BY <2>1, <2>2, <2>3 DEF Reported
<1> QED BY <1>3, <1>4 DEF Justified
-----------------------------------------------------------------------------
(* An UNSAT the engine accepts refutes the query that was asked. *)

\* Fewer formulas are harder to refute.
LEMMA MeetMonotone ==
  ASSUME NEW F, NEW G, F \subseteq G, Meet(F) = {}
  PROVE  Meet(G) = {}
BY DEF Meet

\* On a framed stack the conjunction of everything asserted is the axioms and
\* the query, so a truthful UNSAT refutes them; a certificate refutes a part
\* of them whoever answered.
LEMMA RefutedQuery ==
  ASSUME Trusted, NEW F, stack = <<Base, F>>, "unsat" \in Answers,
         NEW core, NEW cert \in Certified(core, Base \cup F), cert # "no"
  PROVE  Meet(Base \cup F) = {}
<1>1. CASE Certify
  <2>1. Meet(OfNames(Base \cup F, core)) = {}
    BY <1>1 DEF Certified
  <2> QED BY <2>1, MeetMonotone DEF OfNames
<1>2. CASE ~Certify
  <2>1. ~SolverLies
    BY <1>2 DEF Trusted
  <2>2. Live = {}
    BY <2>1, FailureAssumption DEF Answers
  <2>3. \A d \in DOMAIN stack : stack[d] = Base \/ stack[d] = F
    OBVIOUS
  <2>4. Meet(Base \cup F) \subseteq Live
    BY <2>3 DEF Meet, Live
  <2> QED BY <2>2, <2>4
<1> QED BY <1>1, <1>2

\* A core names assertions of the query, of the persistent frame, or nothing
\* the engine asserted.
LEMMA CoreNames ==
  ASSUME NEW core \in Cores, stack = <<Base, BothCuts>>, cur \in Pairs
  PROVE  core \ {<<"stray", 0>>} \subseteq Names
<1>1. \A d \in DOMAIN stack : stack[d] = Base \/ stack[d] = BothCuts
  OBVIOUS
<1>2. \A f \in Base \cup BothCuts : f.name \in Names
  BY DEF Base, BothCuts, Named, Cut, Names, C1, C2, AFirst, Pairs
<1>3. \A f \in Asserted : f.name \in Names
  BY <1>1, <1>2 DEF Asserted
<1>4. core \subseteq NamesOf(Asserted) \cup {<<"stray", 0>>}
  BY DEF Cores, NamesOf
<1> QED BY <1>3, <1>4 DEF NamesOf

\* What each refuted query says of the regions themselves.
LEMMA RefutedMeans ==
  ASSUME EncSound, NEW i \in Regions, NEW j \in Regions, DataTyped
  PROVE  /\ Meet(Base \cup {Cut(i)}) = {} => enc[i].real = {}
         /\ Meet(Base \cup {Cut(i), Cut(j)}) = {} => enc[i].real \cap enc[j].real = {}
         /\ Meet(Base \cup SubsetQuery(i, j)) = {} => enc[i].real \subseteq enc[j].real
<1>1. /\ enc[i].real \subseteq enc[i].over \cap Ax /\ enc[j].real \subseteq enc[j].over \cap Ax
      /\ enc[j].under \cap Ax \subseteq enc[j].real
      /\ enc[i].real \subseteq Points /\ enc[j].real \subseteq Points
  BY DEF EncSound, Sound, DataTyped, Encodings
<1>2. /\ \A f \in Base : f.pts = Ax
      /\ Cut(i).pts = enc[i].over /\ Cut(j).pts = enc[j].over
      /\ \A f \in SubsetQuery(i, j) : f.pts \in {enc[i].over, Points \ enc[j].under}
  BY DEF Base, Named, Cut, SubsetQuery
<1>3. enc[i].real \subseteq Meet(Base \cup {Cut(i)})
  BY <1>1, <1>2 DEF Meet
<1>4. enc[i].real \cap enc[j].real \subseteq Meet(Base \cup {Cut(i), Cut(j)})
  BY <1>1, <1>2 DEF Meet
<1>5. enc[i].real \ enc[j].real \subseteq Meet(Base \cup SubsetQuery(i, j))
  BY <1>1, <1>2 DEF Meet
<1> QED BY <1>3, <1>4, <1>5

\* The two cuts of a pair, in either order.
LEMMA BothMeans ==
  ASSUME cur \in Pairs, EncSound, DataTyped, Meet(Base \cup BothCuts) = {}
  PROVE  enc[cur[1]].real \cap enc[cur[2]].real = {}
<1>1. BothCuts = {Cut(cur[1]), Cut(cur[2])}
  BY DEF BothCuts, C1, C2, AFirst
<1>2. cur[1] \in Regions /\ cur[2] \in Regions
  BY DEF Pairs
<1>3. Meet(Base \cup {Cut(cur[1]), Cut(cur[2])}) = {}
  BY <1>1
<1>4. \A i, j \in Regions : Meet(Base \cup {Cut(i), Cut(j)}) = {}
                             => enc[i].real \cap enc[j].real = {}
  BY RefutedMeans
<1> QED BY <1>2, <1>3, <1>4
-----------------------------------------------------------------------------
(* Justified is invariant. *)

\* Nothing is reported yet, and the verdict in hand is blank.
LEMMA JustifiedInit == Init => Justified
<1> SUFFICES ASSUME Init PROVE Justified
  OBVIOUS
<1> USE DEF Init
<1>2. \A r \in Regions : empties[r] = "None"
  OBVIOUS
<1>3. \A p \in Pairs : pairwise[p] = None
  OBVIOUS
<1>4. Reported
  BY <1>2, <1>3 DEF Reported, VerdictsSound, EmptySound, PairSound, CoresNamed,
         RetractedKeepsNothing, NoClaimAgainstAnEvent
<1> QED BY <1>4, BlankHolds DEF Justified

\* The steps that only turn to another step, or push, leave the verdict blank
\* of proof; so do those that fail to prove.
LEMMA QuietJustified ==
  ASSUME Justified, UNCHANGED <<data, cur, empties, pairwise, report>>,
         step # "gate" \/ step' = "gate"
  PROVE  Justified'
<1>1. Holds(report', step')
  BY DEF Justified, Holds
<1> QED BY <1>1, SameReports

\* Emptiness verdicts.
LEMMA EmptyJustified ==
  ASSUME Typed, Framed, Justified, IntervalEmpty \/ AskEmpty \/ AnswerEmpty
  PROVE  Justified'
<1>k. {"Proven", "Candidate", "NotProven", "Unknown"} \subseteq EmptyKinds
  BY DEF EmptyKinds
<1>0. UNCHANGED <<data, cur, empties, pairwise>>
  BY DEF IntervalEmpty, AskEmpty, AnswerEmpty, ledger
<1>1. OnRegion /\ cur[1] \in Regions
  <2>1. step = "empty" => OnRegion
    BY DEF Typed, StepFits, OnPair, OnRegion, PairSteps, Regions, Pairs, Done
  <2>2. OnRegion
    BY <2>1 DEF IntervalEmpty, AskEmpty, AnswerEmpty
  <2> QED BY <2>2 DEF Typed, StepFits, Pairs, OnRegion
<1>2. Trusted => EncSound
  BY DEF Trusted
<1>3. DataTyped
  BY DEF Typed
<1>4. CASE IntervalEmpty
  <2>1. Meet({Cut(cur[1])}) = {}
    BY <1>4 DEF IntervalEmpty
  <2>2. Meet(Base \cup {Cut(cur[1])}) = {}
    BY <2>1, MeetMonotone
  <2>3. Trusted => enc[cur[1]].real = {}
    BY <1>1, <1>2, <1>3, <2>2, RefutedMeans
  <2>4. Holds(Verdict("Proven"), "gate")
    BY <1>1, <1>k, <2>3, VerdictHolds
  <2> QED BY <1>0, <1>4, <2>4, SameReports DEF IntervalEmpty, Conclude
<1>5. CASE AskEmpty
  <2>1. \/ report' = report /\ step' = "empty" /\ step = "start"
        \/ report' = Verdict("Unknown") /\ step' = "gate"
    BY <1>5 DEF AskEmpty, Conclude
  <2>2. Holds(Verdict("Unknown"), "gate")
    BY <1>1, <1>k, VerdictHolds
  <2> QED BY <1>0, <2>1, <2>2, SameReports, QuietJustified
<1>6. CASE AnswerEmpty
  <2>1. step' = "gate" /\ stack = <<Base, {Cut(cur[1])}>>
    BY <1>6 DEF AnswerEmpty, Conclude, Framed
  <2>2. PICK k \in EmptyKinds :
          /\ report' = Verdict(k)
          /\ k = "Proven" =>
               /\ "unsat" \in Answers
               /\ \E core \in Cores : \E cert \in Certified(core, Base \cup {Cut(cur[1])}) :
                    cert # "no"
    BY <1>6, <1>k DEF AnswerEmpty, Conclude
  <2>3. k = "Proven" /\ Trusted => Meet(Base \cup {Cut(cur[1])}) = {}
    BY <2>1, <2>2, RefutedQuery
  <2>4. k = "Proven" /\ Trusted => enc[cur[1]].real = {}
    BY <1>1, <1>2, <1>3, <2>3, RefutedMeans
  <2>5. Holds(Verdict(k), "gate")
    BY <1>1, <2>4, VerdictHolds
  <2> QED BY <1>0, <2>1, <2>2, <2>5, SameReports
<1> QED BY <1>4, <1>5, <1>6

\* Disjointness verdicts, by intervals and by the solver.
LEMMA DisjointJustified ==
  ASSUME Typed, Framed, Justified,
         IntervalDisjoint \/ AskDisjoint \/ DisjointProven \/ DisjointNotProven
  PROVE  Justified'
<1>0. UNCHANGED <<data, cur, empties, pairwise>>
  BY DEF IntervalDisjoint, AskDisjoint, DisjointProven, DisjointNotProven, ledger
<1>1. OnPair /\ cur \in Pairs
  <2>1. step = "disjoint" => OnPair
    BY PairInHand DEF PairSteps, RegionSteps
  <2>2. OnPair
    BY <2>1 DEF IntervalDisjoint, AskDisjoint, DisjointProven, DisjointNotProven
  <2> QED BY <2>2 DEF Typed, StepFits, OnPair
<1>2. Trusted => EncSound
  BY DEF Trusted
<1>3. DataTyped
  BY DEF Typed
<1>4. CASE IntervalDisjoint
  <2>1. Meet(Base \cup BothCuts) = {}
    BY <1>4, MeetMonotone DEF IntervalDisjoint
  <2>2. Trusted => enc[cur[1]].real \cap enc[cur[2]].real = {}
    BY <1>1, <1>2, <1>3, <2>1, BothMeans
  <2>3. \A cert : Holds(Disjoint(cert, "interval", {}), "gate")
    BY <1>1, <2>2, DisjointHolds
  <2>4. step' = "gate" /\ \E cert : report' = Disjoint(cert, "interval", {})
    BY <1>4 DEF IntervalDisjoint, Conclude
  <2> QED BY <1>0, <2>3, <2>4, SameReports
<1>5. CASE AskDisjoint
  <2>1. \/ report' = report /\ step' = "disjoint" /\ step = "start"
        \/ report' = Blank /\ step' = "gate"
    BY <1>5 DEF AskDisjoint, Conclude
  <2> QED BY <1>0, <2>1, BlankHolds, SameReports, QuietJustified
<1>6. CASE DisjointProven
  <2>1. step' = "gate" /\ stack = <<Base, BothCuts>> /\ "unsat" \in Answers
    BY <1>6 DEF DisjointProven, Conclude, Framed
  <2>2. PICK core \in Cores : \E cert \in Certified(core, Base \cup BothCuts) :
          report' = Disjoint(cert, "core", core \ {<<"stray", 0>>})
    BY <1>6 DEF DisjointProven, Conclude
  <2>3. PICK cert \in Certified(core, Base \cup BothCuts) :
          report' = Disjoint(cert, "core", core \ {<<"stray", 0>>})
    BY <2>2
  <2>4. Trusted /\ cert # "no" => Meet(Base \cup BothCuts) = {}
    BY <2>1, RefutedQuery
  <2>5. Trusted /\ cert # "no" => enc[cur[1]].real \cap enc[cur[2]].real = {}
    BY <1>1, <1>2, <1>3, <2>4, BothMeans
  <2>6. core \ {<<"stray", 0>>} \in SUBSET Names
    BY <1>1, <2>1, CoreNames
  <2>7. Holds(Disjoint(cert, "core", core \ {<<"stray", 0>>}), "gate")
    BY <1>1, <2>5, <2>6, DisjointHolds
  <2> QED BY <1>0, <2>1, <2>3, <2>7, SameReports
<1>7. CASE DisjointNotProven
  BY <1>0, <1>7, QuietJustified DEF DisjointNotProven
<1> QED BY <1>4, <1>5, <1>6, <1>7

\* Subset claims, whichever way round the query ran.
LEMMA SubsetJustified ==
  ASSUME Typed, Framed, Justified,
         NEW sub \in {cur[1], cur[2]}, NEW sup \in {cur[1], cur[2]}, sub # sup,
         NEW pre \in {"sub12", "sub21"}, NEW post \in {"ask21", "overlapAsk"},
         step = pre => stack = <<Base, SubsetQuery(sub, sup)>>,
         AnswerSubset(pre, post, sub, sup)
  PROVE  Justified'
<1>0. UNCHANGED <<data, cur, empties, pairwise>> /\ step = pre /\ step' = post
  BY DEF AnswerSubset, ledger
<1>1. OnPair /\ ~OnRegion /\ cur \in Pairs /\ step # "gate" /\ step' # "gate"
  BY <1>0, PairInHand DEF PairSteps, RegionSteps
<1>2. CASE UNCHANGED report
  BY <1>0, <1>1, <1>2, QuietJustified
<1>3. CASE ~UNCHANGED report
  <2>1. /\ Claim(sub) /\ "unsat" \in Answers
        /\ \E core \in Cores : \E cert \in Certified(core, Base \cup SubsetQuery(sub, sup)) :
             cert # "no"
    BY <1>3 DEF AnswerSubset
  <2>2. Trusted => Meet(Base \cup SubsetQuery(sub, sup)) = {}
    BY <1>0, <2>1, RefutedQuery
  <2>3. cur[1] \in Regions /\ cur[2] \in Regions /\ cur[1] # cur[2]
    BY <1>1 DEF Pairs, Regions
  <2>4. Trusted => enc[sub].real \subseteq enc[sup].real
    <3>1. DataTyped /\ (Trusted => EncSound)
      BY DEF Typed, Trusted
    <3>2. \A i, j \in Regions : Trusted /\ Meet(Base \cup SubsetQuery(i, j)) = {}
                                => enc[i].real \subseteq enc[j].real
      BY <3>1, RefutedMeans
    <3> QED BY <2>2, <2>3, <3>2
  <2> DEFINE d == report.within \cup {Direction(sub)}
             v == [report EXCEPT !.within = d]
  <2>5. report' = v
    BY <2>1 DEF Claim
  <2>6. /\ ProofFree(v) /\ v.kind = "PossiblyOverlapping" /\ v.within = d
        /\ v.core = report.core
    <3>1. FieldsOK(report) /\ ProofFree(report) /\ report.kind = "PossiblyOverlapping"
      BY <1>1 DEF Typed, Justified, Holds
    <3> HIDE DEF d
    <3> QED BY <3>1, OtherThanWithin
  <2>7. Trusted => TrueOf(v, cur[1], cur[2])
    <3>1. Trusted => TrueOf(report, cur[1], cur[2])
      BY <1>1 DEF Justified, Holds
    <3>2. Direction(sub) = IF sub = cur[1] THEN "ab" ELSE "ba"
      BY DEF Direction
    <3> HIDE DEF v
    <3> QED BY <2>3, <2>4, <2>6, <3>1, <3>2 DEF TrueOf
  <2>8. v.core \subseteq Names
    BY <2>6 DEF Justified, Holds
  <2> HIDE DEF v
  <2>9. Holds(v, post)
    BY <1>1, <2>6, <2>7, <2>8 DEF Holds
  <2> QED BY <1>0, <2>5, <2>9, SameReports
<1> QED BY <1>2, <1>3

\* Overlap verdicts.
LEMMA OverlapJustified ==
  ASSUME Typed, Framed, Justified,
         \/ TwinCap \/ AskOverlap \/ OverlapCapped \/ OverlapSat \/ OverlapNotSat
         \/ WitnessSettled \/ WitnessRejected \/ RetryAnswered
  PROVE  Justified'
<1>0. /\ UNCHANGED <<data, cur, empties, pairwise>>
      /\ step \in {"overlapAsk", "overlap", "witness", "retry"}
  BY DEF TwinCap, AskOverlap, OverlapCapped, OverlapSat, OverlapNotSat, WitnessSettled,
         WitnessRejected, RetryAnswered, ledger
<1>1. OnPair /\ ~OnRegion /\ step # "gate"
  BY <1>0, PairInHand DEF PairSteps, RegionSteps
<1>2. CASE UNCHANGED report
  BY <1>0, <1>1, <1>2, QuietJustified
<1>3. /\ ProofFree(report) /\ report.core \subseteq Names /\ FieldsOK(report)
      /\ Trusted => TrueOf(report, cur[1], cur[2])
      /\ report.kind = "PossiblyOverlapping"
  BY <1>1 DEF Justified, Holds, Typed
<1>4. ASSUME NEW k \in {"Unknown", "CandidateOverlapping"}
      PROVE  Holds([report EXCEPT !.kind = k], "gate")
  <2> DEFINE v == [report EXCEPT !.kind = k]
  <2>1. ProofFree(v) /\ v.kind = k /\ v.within = report.within /\ v.core = report.core
    BY <1>3, OtherThanKind
  <2> HIDE DEF v
  <2>2. Holds(v, "gate")
    BY <1>1, <1>3, <2>1 DEF Holds, TrueOf
  <2> QED BY <2>2 DEF v
<1>5. ASSUME NEW event, Selected(event)
      PROVE  Holds(Plain("ProvenOverlapping", report.within, event), "gate")
  <2> DEFINE v == Plain("ProvenOverlapping", report.within, event)
  <2>1. /\ ProofFree(v) /\ v.kind = "ProvenOverlapping" /\ v.within = report.within
        /\ v.witness = event
    BY PlainIsFree
  <2> HIDE DEF v
  <2>2. Holds(v, "gate")
    BY <1>1, <1>3, <1>5, <2>1 DEF Holds, TrueOf, ProofFree
  <2> QED BY <2>2 DEF v
<1>6. CASE OverlapNotSat
  <2>1. step' = "gate" /\ \/ report' = report
                          \/ report' = [report EXCEPT !.kind = "Unknown"]
    BY <1>6 DEF OverlapNotSat, Conclude
  <2> QED BY <1>0, <1>2, <1>4, <2>1, SameReports
<1>7. CASE WitnessSettled
  <2>1. step' = "gate" /\ \/ report' = report
                          \/ report' = [report EXCEPT !.kind = "CandidateOverlapping"]
                          \/ \E event : /\ Selected(event)
                                        /\ report' = Plain("ProvenOverlapping", report.within, event)
    BY <1>7 DEF WitnessSettled, Conclude
  <2> QED BY <1>0, <1>2, <1>4, <1>5, <2>1, SameReports
<1> QED BY <1>2, <1>6, <1>7 DEF TwinCap, AskOverlap, OverlapCapped, OverlapSat,
           WitnessRejected, RetryAnswered, Conclude

\* A region's verdict passes the gates.
LEMMA GateEmptyJustified ==
  ASSUME Typed, Justified, GateEmpty
  PROVE  Justified'
<1>0. UNCHANGED <<enc, sampled, probes, pairwise>> /\ OnRegion /\ step = "gate"
  BY DEF GateEmpty, data
<1>1. cur[1] \in Regions
  BY <1>0 DEF OnRegion, Typed, StepFits, Pairs
<1>2. Holds(report, step)'
  BY BlankHolds DEF GateEmpty, Advance, Holds, OnRegion, OnPair, TrueOf, Selected, Blank,
     Verdict, Plain, ProofFree
<1>3. Trusted' = Trusted
  BY <1>0 DEF Trusted, EncSound
<1>4. \A r \in Regions : empties'[r] =
        IF r # cur[1] THEN empties[r]
        ELSE IF report.kind \in {"Proven", "Candidate"} /\ (sampled \cup probes) \cap enc[r].real # {}
             THEN "NotProven" ELSE report.kind
  BY <1>1 DEF GateEmpty, Typed, LedgerTyped
<1>5. VerdictsSound'
  <2>1. Trusted /\ report.kind = "Proven" => enc[cur[1]].real = {}
    BY <1>0 DEF Justified, Holds
  <2>2. Trusted => EmptySound'
    BY <1>0, <1>4, <2>1 DEF Justified, Reported, VerdictsSound, EmptySound
  <2>3. Trusted => PairSound'
    BY <1>0 DEF Justified, Reported, VerdictsSound, PairSound, TrueOf
  <2> QED BY <1>3, <2>2, <2>3 DEF VerdictsSound
<1>6. NoClaimAgainstAnEvent'
  BY <1>0, <1>4 DEF Justified, Reported, NoClaimAgainstAnEvent, Witnessed, Escapes
<1>7. RetractedKeepsNothing' /\ CoresNamed'
  BY <1>0 DEF Justified, Reported, RetractedKeepsNothing, CoresNamed
<1> QED BY <1>2, <1>5, <1>6, <1>7 DEF Justified, Reported

\* A pair's verdict passes the gates.
LEMMA GatePairJustified ==
  ASSUME Typed, Justified, GatePair
  PROVE  Justified'
<1>0. UNCHANGED <<enc, sampled, probes, empties>> /\ OnPair /\ step = "gate" /\ cur \in Pairs
  BY DEF GatePair, data, OnPair, Typed, StepFits
<1>1. Holds(report, step)'
  BY BlankHolds DEF GatePair, Advance, Holds, OnRegion, OnPair, TrueOf, Selected, Blank,
     Verdict, Plain, ProofFree
<1>2. Trusted' = Trusted
  BY <1>0 DEF Trusted, EncSound
<1> DEFINE events == sampled \cup probes
           i == cur[1]
           j == cur[2]
           retract == report.kind = "ProvenDisjoint" /\ Witnessed(events, i, j)
           u == IF retract THEN Retracted(report) ELSE report
           d == u.within \ Withdrawn(events, i, j)
           v == [u EXCEPT !.within = d]
<1>3. \A p \in Pairs : pairwise'[p] = IF p = cur THEN v ELSE pairwise[p]
  BY <1>0 DEF GatePair, Typed, LedgerTyped
<1>4. /\ u.within = report.within /\ u.witness = report.witness /\ FieldsOK(u)
      /\ u.core \subseteq Names
      /\ IF retract THEN ProofFree(u) /\ u.kind = "PossiblyOverlapping" ELSE u = report
  <2>1. FieldsOK(u)
    BY RetractedFields DEF Typed
  <2>2. CASE retract
    BY <2>1, <2>2, PlainIsFree DEF Retracted, ProofFree
  <2>3. CASE ~retract
    BY <2>1, <2>3 DEF Justified, Holds
  <2> QED BY <2>2, <2>3
<1>5. /\ v.kind = u.kind /\ v.within = d /\ v.core = u.core /\ v.witness = u.witness
      /\ v.certified = u.certified /\ v.path = u.path /\ v.size = u.size
  <2> HIDE DEF u, d
  <2> QED BY <1>4, OtherThanWithin
<1>6. Holds(report, "gate")
  BY <1>0 DEF Justified
<1> HIDE DEF u, v
<1>7. /\ Trusted => TrueOf(v, i, j)
      /\ v.kind \notin {"ProvenDisjoint", "CandidateDisjoint"} => ProofFree(v)
      /\ v.core \subseteq Names
  <2>1. Trusted => TrueOf(v, i, j)
    BY <1>0, <1>4, <1>5, <1>6 DEF Holds, TrueOf
  <2>3. v.kind \notin {"ProvenDisjoint", "CandidateDisjoint"} => ProofFree(v)
    BY <1>4, <1>5, <1>6 DEF Holds, ProofFree
  <2> QED BY <2>1, <2>3, <1>4, <1>5
<1>8. /\ v.kind = "ProvenDisjoint" => ~Witnessed(events, i, j)
      /\ "ab" \in v.within => ~Escapes(events, i, j)
      /\ "ba" \in v.within => ~Escapes(events, j, i)
  BY <1>4, <1>5 DEF Withdrawn
<1>9. VerdictsSound'
  BY <1>0, <1>2, <1>3, <1>7 DEF Justified, Reported, VerdictsSound, EmptySound, PairSound, TrueOf
<1>10. NoClaimAgainstAnEvent'
  BY <1>0, <1>3, <1>8 DEF Justified, Reported, NoClaimAgainstAnEvent, Witnessed, Escapes
<1>12. RetractedKeepsNothing' /\ CoresNamed'
  BY <1>0, <1>3, <1>7 DEF Justified, Reported, RetractedKeepsNothing, CoresNamed, ProofFree
<1> QED BY <1>1, <1>9, <1>10, <1>12 DEF Justified, Reported

\* Every step of the engine keeps everything justified.
LEMMA JustifiedStep == Typed /\ Framed /\ Justified /\ [Next]_vars => Justified'
<1> SUFFICES ASSUME Typed, Framed, Justified, [Next]_vars PROVE Justified'
  OBVIOUS
<1>1. CASE UNCHANGED vars
  BY <1>1, QuietJustified DEF vars, ledger
<1>2. CASE AskSubset("ask12", "sub12", C1, C2) \/ AskSubset("ask21", "sub21", C2, C1)
  BY <1>2, QuietJustified DEF AskSubset, ledger
<1>3. CASE AnswerSubset("sub12", "ask21", C1, C2) \/ AnswerSubset("sub21", "overlapAsk", C2, C1)
  <2>1. step \in {"sub12", "sub21"}
    BY <1>3 DEF AnswerSubset
  <2>2. cur \in Pairs
    BY <2>1, PairInHand DEF PairSteps, RegionSteps
  <2>3. C1 \in {cur[1], cur[2]} /\ C2 \in {cur[1], cur[2]} /\ C1 # C2
    BY <2>2 DEF C1, C2, AFirst, Pairs, Regions
  <2>4. /\ step = "sub12" => stack = <<Base, SubsetQuery(C1, C2)>>
        /\ step = "sub21" => stack = <<Base, SubsetQuery(C2, C1)>>
    BY DEF Framed
  <2>5. CASE AnswerSubset("sub12", "ask21", C1, C2)
    BY <2>3, <2>4, <2>5, SubsetJustified
  <2>6. CASE AnswerSubset("sub21", "overlapAsk", C2, C1)
    BY <2>3, <2>4, <2>6, SubsetJustified
  <2> QED BY <1>3, <2>5, <2>6
<1>4. CASE Report
  BY <1>4, QuietJustified DEF Report
<1> QED BY <1>1, <1>2, <1>3, <1>4, EmptyJustified, DisjointJustified, OverlapJustified,
           GateEmptyJustified, GatePairJustified DEF Next, Terminated

\* The three invariants hold throughout.
LEMMA AlwaysJustified == Spec => [](Typed /\ Framed /\ Justified)
<1>1. Init => Typed /\ Framed /\ Justified
  BY TypedInit, FramedInit, JustifiedInit
<1>2. Typed /\ Framed /\ Justified /\ [Next]_vars => (Typed /\ Framed /\ Justified)'
  BY TypedStep, FramedStep, JustifiedStep
<1> QED BY <1>1, <1>2, PTL DEF Spec
-----------------------------------------------------------------------------
(* The theorems. *)

\* A verdict whose core is named is one of Verdicts.
LEMMA FieldsToVerdict ==
  ASSUME NEW v, FieldsOK(v), v.core \subseteq Names
  PROVE  v \in Verdicts
BY DEF FieldsOK, Verdicts

\* Every variable keeps its type: the solver's stack is the persistent frame
\* and at most one query (Engine::push and pop pair up on every early return
\* of region_empty and pair), and the witness loop stays within
\* MAX_WITNESS_ATTEMPTS.
THEOREM TypeCorrect == Spec => []TypeOK
<1>1. Typed /\ Framed /\ Justified => TypeOK
  <2> SUFFICES ASSUME Typed, Framed, Justified PROVE TypeOK
    OBVIOUS
  <2>1. step \in RegionSteps \cup PairSteps \cup {"done"}
    BY DEF Typed, StepFits, OnRegion, OnPair, RegionSteps
  <2>2. \E F : stack = <<Base>> \/ stack = <<Base, F>>
    BY <2>1 DEF Framed, AtBase, Searching, RegionSteps, PairSteps
  <2>3. Len(stack) \in 1..2
    BY <2>2
  <2>4. report \in Verdicts
    BY FieldsToVerdict DEF Typed, Justified, Holds
  <2>5. \A p \in Pairs : pairwise[p] \in Verdicts \cup {None}
    BY FieldsToVerdict DEF Typed, LedgerTyped, Justified, Reported, CoresNamed
  <2>6. step \in {"start", "empty", "disjoint", "ask12", "sub12", "ask21", "sub21",
                  "overlapAsk", "overlap", "witness", "retry", "gate", "done"}
    BY <2>1 DEF RegionSteps, PairSteps
  <2>7. attempts \in 0..MaxAttempts /\ cur \in Pairs \cup (Regions \X {0}) \cup {Done}
    BY DEF Typed, StepFits, InBudget
  <2>8. DataTyped /\ AccountTyped /\ LedgerTyped
    BY DEF Typed
  <2> QED BY <2>3, <2>4, <2>5, <2>6, <2>7, <2>8 DEF TypeOK, DataTyped, AccountTyped, LedgerTyped
<1> QED BY <1>1, AlwaysJustified, PTL

\* No verdict region_empty, pair and subset_proof report is false of an event,
\* if the projections are right and, without --certify, the solver truthful.
THEOREM VerdictsAreSound == Spec => []VerdictsSound
<1>1. Typed /\ Framed /\ Justified => VerdictsSound
  BY DEF Justified, Reported
<1> QED BY <1>1, AlwaysJustified, PTL

\* A verdict gate_pair retracts, like any that is not a disjointness verdict,
\* keeps no certificate, core, path or size.
THEOREM RetractionsAreClean == Spec => []RetractedKeepsNothing
<1>1. Typed /\ Framed /\ Justified => RetractedKeepsNothing
  BY DEF Justified, Reported
<1> QED BY <1>1, AlwaysJustified, PTL

\* Nothing gate_empty and gate_pair let through is contradicted by an event
\* they ran.
THEOREM GatesHold == Spec => []NoClaimAgainstAnEvent
<1>1. Typed /\ Framed /\ Justified => NoClaimAgainstAnEvent
  BY DEF Justified, Reported
<1> QED BY <1>1, AlwaysJustified, PTL

-----------------------------------------------------------------------------
(***************************************************************************)
(* The bundles the engine publishes, and the failure its report names.     *)
(* The argument: a bundle is built in the step that certifies the pair in  *)
(* hand, so it belongs to the pair at the gates or to one before it in the *)
(* order of the run, and the verdict of such a pair still carries the      *)
(* certificate unless a gate took the disjointness claim away.             *)
(***************************************************************************)

\* The pair p comes before the item in hand.
Earlier(p) ==
    \/ cur = Done
    \/ OnPair /\ (p[1] < cur[1] \/ (p[1] = cur[1] /\ p[2] < cur[2]))

Settled(p) == /\ pairwise[p] # None
              /\ pairwise[p].kind = "ProvenDisjoint" => pairwise[p].certified = "yes"

InHand(p) == p = cur /\ step = "gate" /\ report.kind = "ProvenDisjoint" /\ report.certified = "yes"

BundlesSettled == \A b \in bundles : InHand(b) \/ (Earlier(b) /\ Settled(b))

OnlyCertified == /\ report.certified = "yes" => Certify
                 /\ \A p \in Pairs : pairwise[p] # None /\ pairwise[p].certified = "yes" => Certify

PublishedLast == published # {} =>
    /\ cur = Done /\ step = "done"
    /\ \A b \in published : pairwise[b].kind = "ProvenDisjoint"

Bundled == BundlesSettled /\ OnlyCertified /\ PublishedLast
-----------------------------------------------------------------------------
(* The account of failures. *)

\* note_check_result keeps the account in step with the checks.
LEMMA NoteNamed ==
  ASSUME AccountTyped, FirstFailureNamed, NEW answer, Note(answer) PROVE FirstFailureNamed'
<1>0. failures \in [process : BOOLEAN, error : BOOLEAN, first : {"none"} \cup Failed]
  BY DEF AccountTyped
<1>1. CASE answer \notin Failed
  BY <1>1 DEF Note, FirstFailureNamed
<1>2. CASE answer = "process"
  <2>1. failures'.process = TRUE /\ failures'.error = failures.error
        /\ failures'.first = IF failures.first = "none" THEN "process" ELSE failures.first
    BY <1>0, <1>2 DEF Note, Failed
  <2>2. sick' = IF sick = "none" THEN "process" ELSE sick
    BY <1>2 DEF Note, Failed
  <2>3. QED  BY <2>1, <2>2 DEF FirstFailureNamed
<1>3. CASE answer = "error"
  <2>1. failures'.error = TRUE /\ failures'.process = failures.process
        /\ failures'.first = IF failures.first = "none" THEN "error" ELSE failures.first
    BY <1>0, <1>3 DEF Note, Failed
  <2>2. sick' = IF sick = "none" THEN "error" ELSE sick
    BY <1>3 DEF Note, Failed
  <2>3. QED  BY <2>1, <2>2 DEF FirstFailureNamed
<1>4. QED  BY <1>1, <1>2, <1>3 DEF Failed

\* Every step either checks nothing or notes what the check answered.
LEMMA StepNotes ==
  ASSUME Next PROVE UNCHANGED <<failures, sick>> \/ \E answer : Note(answer)
<1>1. CASE \/ IntervalEmpty \/ AskEmpty \/ GateEmpty \/ IntervalDisjoint \/ AskDisjoint
           \/ DisjointProven \/ TwinCap \/ AskOverlap \/ OverlapCapped \/ OverlapSat
           \/ GatePair \/ Report \/ Terminated
  BY <1>1 DEF IntervalEmpty, AskEmpty, GateEmpty, IntervalDisjoint, AskDisjoint,
              DisjointProven, TwinCap, AskOverlap, OverlapCapped, OverlapSat,
              GatePair, Report, Terminated, vars
<1>2. CASE AskSubset("ask12", "sub12", C1, C2) \/ AskSubset("ask21", "sub21", C2, C1)
  BY <1>2 DEF AskSubset
<1>3. CASE AnswerSubset("sub12", "ask21", C1, C2) \/ AnswerSubset("sub21", "overlapAsk", C2, C1)
  BY <1>3 DEF AnswerSubset
<1>4. CASE AnswerEmpty \/ DisjointNotProven \/ OverlapNotSat
  BY <1>4 DEF AnswerEmpty, DisjointNotProven, OverlapNotSat
<1>5. CASE WitnessSettled \/ WitnessRejected \/ RetryAnswered
  BY <1>5 DEF WitnessSettled, WitnessRejected, RetryAnswered
<1>6. QED  BY <1>1, <1>2, <1>3, <1>4, <1>5 DEF Next

\* The report is degraded, by the first failure, exactly when a check failed
\* for want of a working solver (note_check_result at every call site).
THEOREM FailuresAreNamed == Spec => []FirstFailureNamed
<1>1. Init => FirstFailureNamed
  BY DEF Init, FirstFailureNamed
<1>2. Typed /\ FirstFailureNamed /\ [Next]_vars => FirstFailureNamed'
  <2> SUFFICES ASSUME Typed, FirstFailureNamed, [Next]_vars PROVE FirstFailureNamed'
    OBVIOUS
  <2>1. CASE UNCHANGED <<failures, sick>>
    BY <2>1 DEF FirstFailureNamed
  <2>2. CASE \E answer : Note(answer)
    BY <2>2, NoteNamed DEF Typed
  <2>3. QED  BY <2>1, <2>2, StepNotes DEF vars
<1>3. QED  BY <1>1, <1>2, AlwaysTyped, PTL DEF Spec

-----------------------------------------------------------------------------
(* The order of the run. *)

\* The next item comes after this one, and after all before it.
LEMMA NextIsLater ==
  ASSUME cur \in Pairs, cur' = NextItem, NEW p \in Pairs, p = cur \/ Earlier(p)
  PROVE  Earlier(p)'
<1>1. PICK i \in Regions, j \in Regions : cur = <<i, j>> /\ i < j
  BY DEF Pairs
<1>2. PICK k \in Regions, l \in Regions : p = <<k, l>> /\ k < l
  BY DEF Pairs
<1>3. /\ NRegions \in Nat /\ i \in 1..NRegions /\ j \in 1..NRegions
      /\ k \in 1..NRegions /\ l \in 1..NRegions
  BY RegionsAssumption DEF Regions
<1>4. k < i \/ (k = i /\ l <= j)
  BY <1>1, <1>2, <1>3 DEF Earlier, OnPair, Done
<1>5. CASE j < NRegions
  <2>1. cur' = <<i, j + 1>>
    BY <1>1, <1>3, <1>5 DEF NextItem
  <2>2. QED  BY <1>2, <1>3, <1>4, <2>1 DEF Earlier, OnPair, Done
<1>6. CASE j = NRegions
  <2>1. cur' = IF i + 1 < NRegions THEN <<i + 1, i + 2>> ELSE Done
    BY <1>1, <1>3, <1>6 DEF NextItem
  <2>2. QED  BY <1>2, <1>3, <1>4, <2>1 DEF Earlier, OnPair, Done
<1>7. QED  BY <1>3, <1>5, <1>6

-----------------------------------------------------------------------------
(* Bundles. *)

\* Before the gates no bundle is of the item in hand, and none is published.
LEMMA NotYet ==
  ASSUME Typed, Bundled, step # "gate", cur # Done
  PROVE  /\ \A b \in bundles : Earlier(b) /\ Settled(b)
         /\ published = {}
BY DEF Bundled, BundlesSettled, InHand, PublishedLast

\* A step that leaves the item, the pairs and the bundles alone.
LEMMA QuietBundled ==
  ASSUME Typed, Bundled, step # "gate", cur # Done,
         UNCHANGED <<cur, pairwise, bundles, published>>,
         report'.certified \in {report.certified, "off"}
  PROVE  Bundled'
<1>1. /\ \A b \in bundles : Earlier(b) /\ Settled(b)
      /\ published = {}
  BY NotYet
<1>2. BundlesSettled'
  BY <1>1 DEF BundlesSettled, Earlier, Settled, OnPair
<1>3. OnlyCertified'
  BY DEF Bundled, OnlyCertified
<1>4. PublishedLast'
  BY <1>1 DEF PublishedLast
<1>5. QED  BY <1>2, <1>3, <1>4 DEF Bundled

\* Of a region there are no bundles.
LEMMA NoneOfRegions ==
  ASSUME Typed, Bundled, OnRegion PROVE bundles = {} /\ published = {}
<1>1. \A b \in bundles : b \in Pairs
  BY DEF Typed, LedgerTyped
<1>2. \A b \in bundles : b # cur /\ ~Earlier(b)
  BY <1>1 DEF OnRegion, Earlier, OnPair, Pairs, Regions
<1>3. QED
  BY <1>2 DEF Bundled, BundlesSettled, InHand, PublishedLast, OnRegion

LEMMA RegionBundled ==
  ASSUME Typed, Bundled, IntervalEmpty \/ AskEmpty \/ AnswerEmpty PROVE Bundled'
<1>1. step # "gate" /\ cur # Done
  BY DEF IntervalEmpty, AskEmpty, AnswerEmpty, OnRegion, Typed, StepFits
<1>2. UNCHANGED <<cur, pairwise, bundles, published>>
  BY DEF IntervalEmpty, AskEmpty, AnswerEmpty, ledger
<1>3. \A k : Verdict(k).certified = "off"
  BY DEF Verdict, Plain
<1>4. report'.certified \in {report.certified, "off"}
  <2>1. report' = report \/ \E k : report' = Verdict(k)
    BY DEF IntervalEmpty, AskEmpty, AnswerEmpty, Conclude
  <2>2. QED  BY <1>3, <2>1
<1>5. QED  BY <1>1, <1>2, <1>4, QuietBundled

LEMMA GateEmptyBundled == ASSUME Typed, Bundled, GateEmpty PROVE Bundled'
<1>1. bundles' = {} /\ published' = {} /\ pairwise' = pairwise /\ report' = Blank
  BY NoneOfRegions DEF GateEmpty, Advance
<1>2. Blank.certified = "off"
  BY DEF Blank, Verdict, Plain
<1>3. QED
  BY <1>1, <1>2 DEF Bundled, BundlesSettled, OnlyCertified, PublishedLast

\* The pair in hand is certified and its bundle built in one step.
LEMMA BuiltBundled ==
  ASSUME Typed, Bundled, step # "gate", cur # Done, step' = "gate",
         UNCHANGED <<cur, pairwise, published>>,
         NEW cert \in {"off", "yes", "no"}, NEW path, NEW core,
         report' = Disjoint(cert, path, core), Bundle(cert), cert = "yes" => Certify
  PROVE  Bundled'
<1>1. /\ \A b \in bundles : Earlier(b) /\ Settled(b)
      /\ published = {}
  BY NotYet
<1>2. report'.certified = cert /\ (cert = "yes" => report'.kind = "ProvenDisjoint")
  BY DEF Disjoint
<1>3. bundles' = bundles \/ (cert = "yes" /\ bundles' = bundles \cup {cur})
  BY DEF Bundle
<1>4. \A b \in bundles : Earlier(b)' /\ Settled(b)'
  BY <1>1 DEF Earlier, Settled, OnPair
<1>5. BundlesSettled'
  BY <1>2, <1>3, <1>4 DEF BundlesSettled, InHand, Earlier, Settled, OnPair
<1>6. OnlyCertified'
  BY <1>2 DEF Bundled, OnlyCertified
<1>7. PublishedLast'
  BY <1>1 DEF PublishedLast
<1>8. QED  BY <1>5, <1>6, <1>7 DEF Bundled

LEMMA DisjointBundled ==
  ASSUME Typed, Bundled, IntervalDisjoint \/ AskDisjoint \/ DisjointProven \/ DisjointNotProven
  PROVE  Bundled'
<1>1. step # "gate" /\ cur # Done
  BY DEF IntervalDisjoint, AskDisjoint, DisjointProven, DisjointNotProven, OnPair, Typed, StepFits
<1>2. CASE IntervalDisjoint
  <2>1. PICK cert \in IF Certify THEN {"yes", "off"} ELSE {"off"} :
          Conclude(Disjoint(cert, "interval", {})) /\ Bundle(cert)
    BY <1>2 DEF IntervalDisjoint
  <2>2. cert \in {"off", "yes", "no"} /\ (cert = "yes" => Certify)
    BY <2>1
  <2>3. UNCHANGED <<cur, pairwise, published>>
    BY <1>2 DEF IntervalDisjoint
  <2>4. QED  BY <1>1, <2>1, <2>2, <2>3, BuiltBundled DEF Conclude
<1>3. CASE DisjointProven
  <2>0. PICK core \in Cores : \E cert \in Certified(core, Base \cup BothCuts) :
          Conclude(Disjoint(cert, "core", core \ {<<"stray", 0>>})) /\ Bundle(cert)
    BY <1>3 DEF DisjointProven
  <2>1. PICK cert \in Certified(core, Base \cup BothCuts) :
          Conclude(Disjoint(cert, "core", core \ {<<"stray", 0>>})) /\ Bundle(cert)
    BY <2>0
  <2>2. cert \in {"off", "yes", "no"} /\ (cert = "yes" => Certify)
    BY <2>1 DEF Certified
  <2>3. UNCHANGED <<cur, pairwise, published>>
    BY <1>3 DEF DisjointProven
  <2>4. QED  BY <1>1, <2>1, <2>2, <2>3, BuiltBundled DEF Conclude
<1>4. CASE AskDisjoint
  <2>1. report' = report \/ report' = Blank
    BY <1>4 DEF AskDisjoint, Conclude
  <2>2. UNCHANGED <<cur, pairwise, bundles, published>>
    BY <1>4 DEF AskDisjoint, ledger
  <2>3. Blank.certified = "off"
    BY DEF Blank, Verdict, Plain
  <2>4. QED  BY <1>1, <2>1, <2>2, <2>3, QuietBundled
<1>5. CASE DisjointNotProven
  BY <1>1, <1>5, QuietBundled DEF DisjointNotProven, ledger
<1>6. QED  BY <1>2, <1>3, <1>4, <1>5

\* Queries that prove no disjointness touch no bundle.
LEMMA SubsetBundled ==
  ASSUME Typed, Bundled,
         NEW from \in {"ask12", "sub12", "ask21", "sub21"}, NEW to, NEW sub, NEW sup,
         AskSubset(from, to, sub, sup) \/ AnswerSubset(from, to, sub, sup)
  PROVE  Bundled'
<1>1. step # "gate" /\ cur # Done
  BY DEF AskSubset, AnswerSubset, Typed, StepFits
<1>2. UNCHANGED <<cur, pairwise, bundles, published>>
  BY DEF AskSubset, AnswerSubset, ledger
<1>3. report' = report \/ Claim(sub)
  BY DEF AskSubset, AnswerSubset
<1>4. report'.certified \in {report.certified, "off"}
  BY <1>3 DEF Claim, Typed, FieldsOK
<1>5. QED  BY <1>1, <1>2, <1>4, QuietBundled

LEMMA OverlapBundled ==
  ASSUME Typed, Bundled,
         \/ TwinCap \/ AskOverlap \/ OverlapCapped \/ OverlapSat \/ OverlapNotSat
         \/ WitnessSettled \/ WitnessRejected \/ RetryAnswered
  PROVE  Bundled'
<1>1. step \in {"overlapAsk", "overlap", "witness", "retry"} /\ UNCHANGED <<cur, ledger>>
  BY DEF TwinCap, AskOverlap, OverlapCapped, OverlapSat, OverlapNotSat,
         WitnessSettled, WitnessRejected, RetryAnswered
<1>2. step # "gate" /\ cur # Done /\ UNCHANGED <<cur, pairwise, bundles, published>>
  BY <1>1 DEF Typed, StepFits, ledger
<1>3. \A k, w, p : Plain(k, w, p).certified = "off"
  BY DEF Plain
<1>4. \A k : [report EXCEPT !.kind = k].certified = report.certified
  BY DEF Typed, FieldsOK
<1>5. \/ report' = report \/ \E k : report' = [report EXCEPT !.kind = k]
      \/ \E k, w, p : report' = Plain(k, w, p)
  <2>1. CASE TwinCap \/ AskOverlap \/ OverlapCapped \/ OverlapSat \/ WitnessRejected \/ RetryAnswered
    BY <2>1 DEF TwinCap, AskOverlap, OverlapCapped, OverlapSat, WitnessRejected,
                RetryAnswered, Conclude
  <2>2. CASE OverlapNotSat
    BY <2>2 DEF OverlapNotSat, Conclude
  <2>3. CASE WitnessSettled
    BY <2>3 DEF WitnessSettled, Conclude
  <2>4. QED  BY <2>1, <2>2, <2>3
<1>6. report'.certified \in {report.certified, "off"}
  <2>1. ASSUME NEW k, report' = [report EXCEPT !.kind = k] PROVE report'.certified = report.certified
    BY <1>4, <2>1
  <2>2. ASSUME NEW k, NEW w, NEW p, report' = Plain(k, w, p) PROVE report'.certified = "off"
    BY <1>3, <2>2
  <2>3. QED  BY <1>5, <2>1, <2>2
<1>7. QED  BY <1>2, <1>6, QuietBundled

\* The gates leave a certified verdict its certificate, or take the claim.
LEMMA GatePairBundled == ASSUME Typed, Bundled, GatePair PROVE Bundled'
<1>1. OnPair /\ step = "gate" /\ cur \in Pairs /\ Advance
  <2>1. OnPair /\ step = "gate" /\ Advance
    BY DEF GatePair
  <2>2. QED  BY <2>1 DEF OnPair, Typed, StepFits
<1>2. PICK v, w : /\ v = report \/ v = Retracted(report)
                  /\ pairwise' = [pairwise EXCEPT ![cur] = [v EXCEPT !.within = @ \ w]]
  BY DEF GatePair
<1>3. FieldsOK(report) /\ FieldsOK(Retracted(report))
  BY RetractedFields DEF Typed
<1> DEFINE u == [v EXCEPT !.within = @ \ w]
<1>4. u.kind = v.kind /\ u.certified = v.certified
  BY <1>2, <1>3 DEF FieldsOK
<1>5. Retracted(report).kind # "ProvenDisjoint" /\ Retracted(report).certified = "off"
  BY DEF Retracted, Plain
<1>6. u # None
  BY <1>2, <1>3, <1>4 DEF FieldsOK, None, Kinds, EmptyKinds
<1> HIDE DEF u
<1>7. pairwise'[cur] = u /\ \A p \in Pairs : p # cur => pairwise'[p] = pairwise[p]
  BY <1>1, <1>2 DEF Typed, LedgerTyped, u
<1>8. \A b \in bundles : b \in Pairs
  BY DEF Typed, LedgerTyped
<1>9. report.certified = "yes" => (u.kind = "ProvenDisjoint" => u.certified = "yes")
  BY <1>2, <1>4, <1>5
<1>10. \A b \in bundles : b = cur => report.certified = "yes"
  <2>1. cur[1] \in Nat /\ cur[2] \in Nat /\ cur # Done
    BY <1>1, RegionsAssumption DEF Pairs, Regions, OnPair
  <2>2. ~Earlier(cur)
    BY <2>1 DEF Earlier
  <2>3. QED  BY <2>2 DEF Bundled, BundlesSettled, InHand
<1>11. \A b \in bundles : pairwise'[b] # None /\ (pairwise'[b].kind = "ProvenDisjoint" => pairwise'[b].certified = "yes")
  BY <1>6, <1>7, <1>8, <1>9, <1>10 DEF Bundled, BundlesSettled, InHand, Settled
<1>12. bundles' = bundles /\ cur' = NextItem /\ report' = Blank /\ published' = published
  BY <1>1 DEF GatePair, Advance
<1>13. \A b \in bundles : Earlier(b)'
  BY <1>1, <1>8, <1>12, NextIsLater DEF Bundled, BundlesSettled, InHand
<1>14. BundlesSettled'
  BY <1>11, <1>12, <1>13 DEF BundlesSettled, Settled
<1>15. OnlyCertified'
  <2>1. Blank.certified = "off"
    BY DEF Blank, Verdict, Plain
  <2>2. u.certified = "yes" => Certify
    BY <1>2, <1>4, <1>5 DEF Bundled, OnlyCertified
  <2>3. QED  BY <1>7, <1>12, <2>1, <2>2 DEF Bundled, OnlyCertified
<1>16. published = {}
  BY <1>1 DEF Bundled, PublishedLast
<1>17. QED  BY <1>12, <1>14, <1>15, <1>16 DEF Bundled, PublishedLast

LEMMA ReportBundled == ASSUME Typed, Bundled, Report PROVE Bundled'
<1>1. cur = Done /\ step = "start" /\ cur' = cur /\ step' = "done"
      /\ UNCHANGED <<report, pairwise, bundles>>
      /\ published' = {b \in bundles : pairwise[b].kind = "ProvenDisjoint"}
  BY DEF Report
<1>2. BundlesSettled'
  BY <1>1 DEF Bundled, BundlesSettled, InHand, Earlier, Settled
<1>3. OnlyCertified' /\ PublishedLast'
  BY <1>1 DEF Bundled, OnlyCertified, PublishedLast
<1>4. QED  BY <1>2, <1>3 DEF Bundled

LEMMA BundledInit == Init => Bundled
<1> SUFFICES ASSUME Init PROVE Bundled
  OBVIOUS
<1>1. Blank.certified = "off"
  BY DEF Blank, Verdict, Plain
<1>2. QED
  BY <1>1 DEF Init, Bundled, BundlesSettled, OnlyCertified, PublishedLast

LEMMA BundledStep == Typed /\ Bundled /\ [Next]_vars => Bundled'
<1> SUFFICES ASSUME Typed, Bundled, [Next]_vars PROVE Bundled'
  OBVIOUS
<1>1. CASE UNCHANGED vars
  BY <1>1 DEF vars, ledger, Bundled, BundlesSettled, InHand, Earlier, Settled, OnPair,
              OnlyCertified, PublishedLast
<1>2. CASE \/ AskSubset("ask12", "sub12", C1, C2) \/ AnswerSubset("sub12", "ask21", C1, C2)
           \/ AskSubset("ask21", "sub21", C2, C1) \/ AnswerSubset("sub21", "overlapAsk", C2, C1)
  BY <1>2, SubsetBundled
<1>3. QED
  BY <1>1, <1>2, RegionBundled, GateEmptyBundled, DisjointBundled, OverlapBundled,
     GatePairBundled, ReportBundled DEF Next, Terminated

\* Every published bundle certifies a pair the report still calls PROVEN
\* DISJOINT, and with right projections one that is (push_bundle, gate_pair,
\* the filter at the end of run).
THEOREM BundlesAreBacked == Spec => []BundlesBacked
<1>1. Init => Bundled
  BY BundledInit
<1>2. Typed /\ Bundled /\ [Next]_vars => Bundled'
  BY BundledStep
<1>3. Typed /\ Bundled /\ Justified => BundlesBacked
  <2> SUFFICES ASSUME Typed, Bundled, Justified, NEW b \in published
               PROVE  /\ pairwise[b].kind = "ProvenDisjoint" /\ pairwise[b].certified = "yes"
                      /\ EncSound => enc[b[1]].real \cap enc[b[2]].real = {}
    BY DEF BundlesBacked
  <2>1. b \in bundles /\ b \in Pairs
    BY DEF Typed, LedgerTyped
  <2>2. pairwise[b].kind = "ProvenDisjoint" /\ step = "done"
    BY DEF Bundled, PublishedLast
  <2>3. pairwise[b] # None /\ pairwise[b].certified = "yes"
    BY <2>1, <2>2 DEF Bundled, BundlesSettled, InHand, Settled
  <2>4. Certify
    BY <2>1, <2>3 DEF Bundled, OnlyCertified
  <2>5. EncSound => PairSound
    BY <2>4 DEF Justified, Reported, VerdictsSound, Trusted
  <2>6. EncSound => TrueOf(pairwise[b], b[1], b[2])
    BY <2>1, <2>3, <2>5 DEF PairSound
  <2>7. QED  BY <2>2, <2>3, <2>6 DEF TrueOf
<1>4. QED
  BY <1>1, <1>2, <1>3, AlwaysJustified, PTL DEF Spec
=============================================================================
