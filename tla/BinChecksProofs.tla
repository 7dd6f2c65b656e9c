--------------------------- MODULE BinChecksProofs ---------------------------
(***************************************************************************)
(* Proofs about Reconcile and BinChecks, for any elements, filter chains   *)
(* and bins, any number of collections, and every way the session may run. *)
(*                                                                         *)
(* Typed holds the types and which steps have a pair in hand; Framed says  *)
(* what the solver's stack is at each step; Justified that every fact,     *)
(* every direction proven of the pair in hand and every claim about bins   *)
(* is true of all events.  One idea carries the whole argument: the base   *)
(* frame says nothing of the generic element (an event of empty            *)
(* collections satisfies all of it), so a refuted subset query is refuted  *)
(* by the two cut sets alone.                                              *)
(***************************************************************************)
EXTENDS BinChecks, CommonLemmas

PairSteps == {"frameAsked", "ab", "abAsked", "ba", "baAsked", "emit"}
Steps == {"build", "frame", "bins", "binsAsked", "coverAsked", "done"} \cup PairSteps
FactRecords == [sub : Colls, sup : Colls, id : {"XSUB", "XEQ"}]

Typed ==
    /\ coll \in [Colls -> Chains]
    /\ subs \subseteq Colls \X Colls
    /\ mode \in Modes
    /\ step \in Steps
    /\ todo \subseteq {p \in Enumerated : Groundable(p)}
    /\ step \in PairSteps => pair \in {p \in Enumerated : Groundable(p)}
    /\ step = "binsAsked" => pair \in BinPairs
    /\ proof \in [{"ab", "ba"} -> {"none", "off", "yes"}]
    /\ facts \in Seq(FactRecords)
    /\ set \in BinSets
    /\ pair \in (Colls \X Colls) \cup BinPairs \cup {NoPair}
    /\ DOMAIN recon_ledger = Enumerated
    /\ left \subseteq BinPairs /\ disjoint \subseteq BinPairs \ left
    /\ coverage \in {"none", "Proven", "NotProven", "Unknown"}
    /\ gap_witness \in {"none", "shown"}

Query == CASE step = "frameAsked" -> BothPass(pair)
           [] step = "abAsked"    -> SubsetQuery(pair[1], pair[2])
           [] step = "baAsked"    -> SubsetQuery(pair[2], pair[1])
           [] step = "binsAsked"  -> BothBins(pair)
           [] step = "coverAsked" -> NoBin
Asked == {"frameAsked", "abAsked", "baAsked", "binsAsked", "coverAsked"}
Framed == stack = IF step \in Asked THEN <<Base, Query>> ELSE <<Base>>

SubsSound == \A s \in subs : HoldsInEvents(s[1], s[2])
ProofsSound ==
    /\ step \notin {"ba", "baAsked", "emit"} => proof = NoProof
    /\ proof["ab"] # "none" => HoldsInEvents(pair[1], pair[2])
    /\ proof["ba"] # "none" => HoldsInEvents(pair[2], pair[1])
Justified == SubsSound /\ FactsSound /\ ProofsSound /\ BinsSound
-----------------------------------------------------------------------------
(* What the base frame, a query and an answer say. *)

\* A member is an element of a finite set.
LEMMA MembersFinite ==
    ASSUME coll \in [Colls -> Chains], NEW ev \in Events, NEW c \in Colls
    PROVE  /\ Members(ev, c) \subseteq Elements
           /\ IsFiniteSet(Members(ev, c))
           /\ SizeIn(ev, c) \in 0..Cardinality(Elements)
<1>1. Members(ev, c) \subseteq Elements
  BY DEF Members, Events
<1>2. /\ IsFiniteSet(Members(ev, c))
      /\ Cardinality(Members(ev, c)) <= Cardinality(Elements)
  BY <1>1, ElementsAssumption, FS_Subset
<1>3. Cardinality(Members(ev, c)) \in Nat /\ Cardinality(Elements) \in Nat
  BY <1>2, ElementsAssumption, FS_CardinalityType
<1> QED  BY <1>1, <1>2, <1>3 DEF SizeIn

\* Over one input, without peers, a refined cut set selects fewer elements.
LEMMA Refines ==
    ASSUME coll \in [Colls -> Chains], NEW a \in Colls, NEW b \in Colls,
           SharedInput(a, b), coll[a].peer = "self", coll[b].peer = "self",
           coll[a].real \subseteq coll[b].real
    PROVE  HoldsInEvents(a, b)
<1> SUFFICES ASSUME NEW ev \in Events
             PROVE  SizeIn(ev, a) <= SizeIn(ev, b)
  BY DEF HoldsInEvents
<1>1. ev[a] = ev[b]
  BY DEF Events
<1>2. Members(ev, a) \subseteq Members(ev, b)
  BY <1>1 DEF Members
<1>3. IsFiniteSet(Members(ev, b))
  BY MembersFinite
<1> QED  BY <1>2, <1>3, FS_Subset DEF SizeIn

\* A size vector that satisfies the axioms and the facts does so with any
\* generic element beside it.
LEMMA BaseSaysNothingOfElements ==
    ASSUME Typed, NEW v \in Sizes, NEW e \in Elements,
           \A s \in subs : v[s[1]] <= v[s[2]],
           \A k \in DOMAIN facts : v[facts[k].sub] <= v[facts[k].sup]
    PROVE  /\ [elem |-> e, size |-> v] \in Points
           /\ \A f \in Base : [elem |-> e, size |-> v] \in f.pts
<1> DEFINE p == [elem |-> e, size |-> v]
<1>1. p \in Points /\ p.size = v
  BY DEF Points
<1>2. \A f \in Axioms : p \in f.pts
  BY <1>1 DEF Axioms, Named
<1>3. ASSUME NEW k \in DOMAIN facts
      PROVE  p \in XR(k).pts
  BY <1>1, <1>3 DEF XR, Named, derived_size_le
<1> QED  BY <1>1, <1>2, <1>3 DEF Base

\* A refuted subset query: every element the sub's cuts may pass, the sup's do.
LEMMA RefutedSubset ==
    ASSUME Typed, NEW a \in Colls, NEW b \in Colls,
           Meet(Base \cup SubsetQuery(a, b)) = {}
    PROVE  coll[a].over \subseteq coll[b].under
<1> SUFFICES ASSUME NEW e \in Elements, e \in coll[a].over, e \notin coll[b].under
             PROVE  FALSE
  BY ChainsAssumption DEF Typed
<1> DEFINE v == [c \in Colls |-> 0]
           p == [elem |-> e, size |-> v]
<1>1. v \in Sizes
  BY ElementsAssumption, FS_CardinalityType DEF Sizes
<1>2. \A s \in subs : v[s[1]] <= v[s[2]]
  BY DEF Typed
<1>3. \A k \in DOMAIN facts : v[facts[k].sub] <= v[facts[k].sup]
  <2> SUFFICES ASSUME NEW k \in DOMAIN facts
               PROVE  v[facts[k].sub] <= v[facts[k].sup]
    OBVIOUS
  <2>1. facts[k] \in FactRecords
    BY DEF Typed
  <2> QED  BY <2>1 DEF FactRecords
<1> HIDE DEF v
<1>4. p \in Points /\ \A f \in Base : p \in f.pts
  BY <1>1, <1>2, <1>3, BaseSaysNothingOfElements
<1>5. \A f \in SubsetQuery(a, b) : p \in f.pts
  BY <1>4 DEF SubsetQuery, Named, Elem
<1> QED  BY <1>4, <1>5 DEF Meet

\* An UNSAT the engine accepts is one, whichever way the session runs.
LEMMA AcceptedUnsat ==
    ASSUME NEW F, stack = <<Base, F>>, "unsat" \in Answers,
           NEW cert \in Certified(F), cert # "no"
    PROVE  Meet(Base \cup F) = {} /\ cert \in {"off", "yes"}
<1>1. CASE mode = "certified"
  BY <1>1 DEF Certified
<1>2. CASE mode # "certified"
  <2>1. Live = {}
    BY <1>2 DEF Answers
  <2>2. DOMAIN stack = {1, 2} /\ stack[1] = Base /\ stack[2] = F
    OBVIOUS
  <2>3. Live = Meet(Base \cup F)
    BY <2>2 DEF Live, Meet
  <2> QED  BY <1>2, <2>1, <2>3 DEF Certified
<1> QED  BY <1>1, <1>2

\* The size vector of an event satisfies the base frame.
LEMMA EventsSatisfyBase ==
    ASSUME Typed, SubsSound, FactsSound, NEW ev \in Events, NEW e \in Elements
    PROVE  /\ Vector(ev) \in Sizes
           /\ [elem |-> e, size |-> Vector(ev)] \in Points
           /\ \A f \in Base : [elem |-> e, size |-> Vector(ev)] \in f.pts
<1>1. coll \in [Colls -> Chains]
  BY DEF Typed
<1>2. Vector(ev) \in Sizes
  BY <1>1, MembersFinite DEF Vector, Sizes
<1>3. \A s \in subs : Vector(ev)[s[1]] <= Vector(ev)[s[2]]
  BY DEF Vector, SubsSound, HoldsInEvents, Typed
<1>4. \A k \in DOMAIN facts : Vector(ev)[facts[k].sub] <= Vector(ev)[facts[k].sup]
  <2> SUFFICES ASSUME NEW k \in DOMAIN facts
               PROVE  Vector(ev)[facts[k].sub] <= Vector(ev)[facts[k].sup]
    OBVIOUS
  <2>1. facts[k] \in FactRecords
    BY DEF Typed
  <2> QED  BY <2>1 DEF FactRecords, Vector, FactsSound, HoldsInEvents
<1> QED  BY <1>2, <1>3, <1>4, BaseSaysNothingOfElements
-----------------------------------------------------------------------------
(* What one candidate emits. *)

\* A fact is emitted only for a direction that is proven.
LEMMA EmittedFacts ==
    ASSUME Typed, step = "emit"
    PROVE  /\ Emitted \in Seq(FactRecords)
           /\ \A k \in DOMAIN Emitted : \E dir \in {"ab", "ba"} :
                /\ proof[dir] # "none"
                /\ Emitted[k].sub = Directed(dir)[1]
                /\ Emitted[k].sup = Directed(dir)[2]
<1> DEFINE One(dir) == IF Wanted(dir) THEN <<Fact(dir)>> ELSE <<>>
<1>1. ASSUME NEW dir \in {"ab", "ba"}
      PROVE  /\ Fact(dir) \in FactRecords
             /\ Fact(dir).sub = Directed(dir)[1] /\ Fact(dir).sup = Directed(dir)[2]
  <2>1. pair \in Colls \X Colls
    BY DEF Typed, PairSteps, Enumerated
  <2>2. Directed(dir)[1] \in Colls /\ Directed(dir)[2] \in Colls
    BY <2>1 DEF Directed
  <2> QED  BY <2>2 DEF Fact, FactRecords
<1>2. ASSUME NEW dir \in {"ab", "ba"}
      PROVE  /\ One(dir) \in Seq(FactRecords)
             /\ Len(One(dir)) \in 0..1
             /\ \A k \in DOMAIN One(dir) : One(dir)[k] = Fact(dir) /\ proof[dir] # "none"
  BY <1>1 DEF Wanted, Proven
<1> HIDE DEF One
<1>3. Emitted = One("ab") \o One("ba")
  BY DEF Emitted, One
<1>4. /\ DOMAIN Emitted = 1..(Len(One("ab")) + Len(One("ba")))
      /\ \A k \in DOMAIN Emitted :
           Emitted[k] = IF k <= Len(One("ab")) THEN One("ab")[k]
                        ELSE One("ba")[k - Len(One("ab"))]
  BY <1>2, <1>3
<1>5. ASSUME NEW k \in DOMAIN Emitted
      PROVE  \/ Emitted[k] = Fact("ab") /\ proof["ab"] # "none"
             \/ Emitted[k] = Fact("ba") /\ proof["ba"] # "none"
  <2>1. k \in Nat /\ 1 <= k /\ k <= Len(One("ab")) + Len(One("ba"))
    BY <1>2, <1>4
  <2>2. CASE k <= Len(One("ab"))
    <3>1. k \in DOMAIN One("ab")
      BY <1>2, <2>1, <2>2
    <3> QED  BY <1>2, <1>4, <2>2, <3>1
  <2>3. CASE ~ (k <= Len(One("ab")))
    <3>1. k - Len(One("ab")) \in DOMAIN One("ba")
      BY <1>2, <2>1, <2>3
    <3> QED  BY <1>2, <1>4, <2>3, <3>1
  <2> QED  BY <2>2, <2>3
<1> QED  BY <1>1, <1>2, <1>3, <1>5

\* The facts after Emit are those before it and the emitted ones.
LEMMA FactsAfterEmit ==
    ASSUME Typed, Emit
    PROVE  /\ facts' \in Seq(FactRecords)
           /\ Len(facts') = Len(facts) + Len(Emitted)
           /\ \A k \in 1..Len(facts) : facts'[k] = facts[k]
           /\ \A k \in 1..Len(Emitted) : facts'[Len(facts) + k] = Emitted[k]
           /\ Len(facts) \in Nat /\ Len(Emitted) \in Nat
<1>1. Emitted \in Seq(FactRecords) /\ facts \in Seq(FactRecords)
  BY EmittedFacts DEF Emit, Typed
<1>2. facts' = facts \o Emitted
  BY DEF Emit
<1> QED  BY <1>1, <1>2

\* ... and so are their formulas at the base.
LEMMA BaseAfterEmit ==
    ASSUME Typed, Emit
    PROVE  Base' = Base \cup NewXR
<1> DEFINE n == Len(facts)
           m == Len(Emitted)
           Old(k) == Named("XR", k, derived_size_le(facts[k].sub, facts[k].sup))
           New(k) == Named("XR", n + k, derived_size_le(Emitted[k].sub, Emitted[k].sup))
           All(k) == Named("XR", k, derived_size_le(facts'[k].sub, facts'[k].sup))
<1>1. /\ n \in Nat /\ m \in Nat
      /\ DOMAIN facts = 1..n /\ DOMAIN facts' = 1..(n + m) /\ DOMAIN Emitted = 1..m
  BY FactsAfterEmit, EmittedFacts DEF Emit, Typed
<1>2. Axioms' = Axioms
  BY DEF Emit, input, Axioms
<1>3. \A k \in 1..n : All(k) = Old(k)
  BY FactsAfterEmit
<1>4. \A k \in 1..m : All(n + k) = New(k)
  BY FactsAfterEmit
<1>5. Base' = Axioms \cup {All(k) : k \in 1..(n + m)}
  BY <1>1, <1>2 DEF Base, XR
<1>6. Base = Axioms \cup {Old(k) : k \in 1..n}
  BY <1>1 DEF Base, XR
<1>7. NewXR = {New(k) : k \in 1..m}
  BY <1>1 DEF NewXR
<1> HIDE DEF All, Old, New, n, m
<1>8. {All(k) : k \in 1..(n + m)} = {Old(k) : k \in 1..n} \cup {New(k) : k \in 1..m}
  <2>1. \A k \in 1..(n + m) : k \in 1..n \/ (k - n \in 1..m /\ n + (k - n) = k)
    BY <1>1
  <2>2. \A k \in 1..m : n + k \in 1..(n + m)
    BY <1>1
  <2>3. \A k \in 1..n : k \in 1..(n + m)
    BY <1>1
  <2> QED  BY <1>3, <1>4, <2>1, <2>2, <2>3
<1> QED  BY <1>5, <1>6, <1>7, <1>8
-----------------------------------------------------------------------------
(* Types. *)

LEMMA TypedInit == Init => Typed
  BY BinSetsAssumption DEF Init, ReconInit, Typed, Steps, PairSteps, NoProof, BinPairs

\* The steps of reconciliation leave the bins alone, and those of the bins
\* leave all but the stack, the step and the pair in hand of reconciliation.
LEMMA TypedNext == Typed /\ [Next]_allvars => Typed'
<1> SUFFICES ASSUME Typed, [Next]_allvars
             PROVE  Typed'
  OBVIOUS
<1> USE DEF Typed, Steps, PairSteps, Enumerated, Groundable, BinPairs, Bins
<1>1. ASSUME Build, UNCHANGED binvars PROVE Typed'
  BY <1>1 DEF Build, input, binvars
<1>2. ASSUME AskFrame, UNCHANGED binvars PROVE Typed'
  BY <1>2 DEF AskFrame, input, binvars
<1>3. ASSUME AnswerFrame, UNCHANGED binvars PROVE Typed'
  BY <1>3 DEF AnswerFrame, input, binvars
<1>4. ASSUME AskSubset("ab", "abAsked", pair[1], pair[2]), UNCHANGED binvars PROVE Typed'
  BY <1>4 DEF AskSubset, input, binvars
<1>5. ASSUME AnswerSubset("abAsked", "ba", "ab", pair[1], pair[2]), UNCHANGED binvars
      PROVE  Typed'
  BY <1>5 DEF AnswerSubset, Certified, input, binvars
<1>6. ASSUME AskSubset("ba", "baAsked", pair[2], pair[1]), UNCHANGED binvars PROVE Typed'
  BY <1>6 DEF AskSubset, input, binvars
<1>7. ASSUME AnswerSubset("baAsked", "emit", "ba", pair[2], pair[1]), UNCHANGED binvars
      PROVE  Typed'
  BY <1>7 DEF AnswerSubset, Certified, input, binvars
<1>8. ASSUME Emit, UNCHANGED binvars PROVE Typed'
  <2>1. facts' \in Seq(FactRecords)
    BY <1>8, FactsAfterEmit
  <2> QED  BY <1>8, <2>1 DEF Emit, NoProof, input, binvars
<1>9. ASSUME Reconciled, UNCHANGED binvars PROVE Typed'
  BY <1>9 DEF Reconciled, input, binvars
<1>10. ASSUME BinsByInterval PROVE Typed'
  BY <1>10 DEF BinsByInterval, vars
<1>11. ASSUME AskBins PROVE Typed'
  BY <1>11 DEF AskBins, recon, binvars
<1>12. ASSUME AnswerBins PROVE Typed'
  BY <1>12 DEF AnswerBins, recon
<1>13. ASSUME CoverageUnknown PROVE Typed'
  BY <1>13 DEF CoverageUnknown, recon
<1>14. ASSUME AskCoverage PROVE Typed'
  BY <1>14 DEF AskCoverage, recon, binvars
<1>15. ASSUME AnswerCoverage PROVE Typed'
  BY <1>15 DEF AnswerCoverage, recon
<1>16. ASSUME UNCHANGED allvars PROVE Typed'
  BY <1>16 DEF allvars, vars, binvars
<1> QED
  BY <1>1, <1>2, <1>3, <1>4, <1>5, <1>6, <1>7, <1>8, <1>9, <1>10, <1>11, <1>12, <1>13,
     <1>14, <1>15, <1>16 DEF Next, ReconNext
-----------------------------------------------------------------------------
(* What the stack is. *)

LEMMA FramedInit == Init => Framed
  BY DEF Init, ReconInit, Framed, Asked, Base, Axioms

\* Nothing but Emit changes the base frame.
LEMMA BaseKept ==
    ASSUME UNCHANGED <<subs, facts>>
    PROVE  Base' = Base
  BY DEF Base, Axioms, XR

\* The coverage query depends on the region and its bins alone.
LEMMA NoBinKept ==
    ASSUME UNCHANGED set
    PROVE  NoBin' = NoBin
  BY DEF NoBin, Region, Vectors, Bins

\* A query goes on top of the base and comes off it.
LEMMA PushAndPop ==
    ASSUME NEW F
    PROVE  /\ stack = <<Base>> /\ Push(F) => stack' = <<Base, F>>
           /\ stack = <<Base, F>> /\ Pop => stack' = <<Base>>
  BY AppendOne, FirstOfTwo DEF Push, Pop

\* Each action in turn: a query is asked over the base, and its answer, of
\* whatever kind, leaves the base.
LEMMA FramedNext == Typed /\ Framed /\ [Next]_allvars => Framed'
<1> SUFFICES ASSUME Typed, Framed, [Next]_allvars
             PROVE  Framed'
  OBVIOUS
<1>1. ASSUME Build, UNCHANGED binvars PROVE Framed'
  <2>1. Base' = Base
    BY <1>1, BaseKept DEF Build, input
  <2> QED  BY <1>1, <2>1 DEF Build, Framed, Asked
<1>2. ASSUME AskFrame, UNCHANGED binvars PROVE Framed'
  <2>1. Base' = Base
    BY <1>2, BaseKept DEF AskFrame, input
  <2>2. stack = <<Base>>
    BY <1>2 DEF AskFrame, Framed, Asked
  <2>3. stack' = <<Base, BothPass(pair')>>
    BY <1>2, <2>2, PushAndPop DEF AskFrame
  <2>4. BothPass(pair)' = BothPass(pair')
    BY <1>2 DEF AskFrame, input, BothPass
  <2> QED  BY <1>2, <2>1, <2>3, <2>4 DEF AskFrame, Framed, Asked, Query
<1>3. ASSUME AnswerFrame, UNCHANGED binvars PROVE Framed'
  <2>1. Base' = Base
    BY <1>3, BaseKept DEF AnswerFrame, input
  <2>2. stack = <<Base, BothPass(pair)>>
    BY <1>3 DEF AnswerFrame, Framed, Asked, Query
  <2>3. stack' = <<Base>>
    BY <1>3, <2>2, PushAndPop DEF AnswerFrame
  <2> QED  BY <1>3, <2>1, <2>3 DEF AnswerFrame, Framed, Asked
<1>4. ASSUME AskSubset("ab", "abAsked", pair[1], pair[2]), UNCHANGED binvars PROVE Framed'
  <2>1. Base' = Base
    BY <1>4, BaseKept DEF AskSubset, input
  <2>2. stack = <<Base>>
    BY <1>4 DEF AskSubset, Framed, Asked
  <2>3. stack' = <<Base, SubsetQuery(pair[1], pair[2])>>
    BY <1>4, <2>2, PushAndPop DEF AskSubset
  <2>4. SubsetQuery(pair[1], pair[2])' = SubsetQuery(pair[1], pair[2])
    BY <1>4 DEF AskSubset, input, SubsetQuery
  <2> QED  BY <1>4, <2>1, <2>3, <2>4 DEF AskSubset, Framed, Asked, Query
<1>5. ASSUME AnswerSubset("abAsked", "ba", "ab", pair[1], pair[2]), UNCHANGED binvars
      PROVE  Framed'
  <2>1. Base' = Base
    BY <1>5, BaseKept DEF AnswerSubset, input
  <2>2. stack = <<Base, SubsetQuery(pair[1], pair[2])>>
    BY <1>5 DEF AnswerSubset, Framed, Asked, Query
  <2>3. stack' = <<Base>>
    BY <1>5, <2>2, PushAndPop DEF AnswerSubset
  <2> QED  BY <1>5, <2>1, <2>3 DEF AnswerSubset, Framed, Asked
<1>6. ASSUME AskSubset("ba", "baAsked", pair[2], pair[1]), UNCHANGED binvars PROVE Framed'
  <2>1. Base' = Base
    BY <1>6, BaseKept DEF AskSubset, input
  <2>2. stack = <<Base>>
    BY <1>6 DEF AskSubset, Framed, Asked
  <2>3. stack' = <<Base, SubsetQuery(pair[2], pair[1])>>
    BY <1>6, <2>2, PushAndPop DEF AskSubset
  <2>4. SubsetQuery(pair[2], pair[1])' = SubsetQuery(pair[2], pair[1])
    BY <1>6 DEF AskSubset, input, SubsetQuery
  <2> QED  BY <1>6, <2>1, <2>3, <2>4 DEF AskSubset, Framed, Asked, Query
<1>7. ASSUME AnswerSubset("baAsked", "emit", "ba", pair[2], pair[1]), UNCHANGED binvars
      PROVE  Framed'
  <2>1. Base' = Base
    BY <1>7, BaseKept DEF AnswerSubset, input
  <2>2. stack = <<Base, SubsetQuery(pair[2], pair[1])>>
    BY <1>7 DEF AnswerSubset, Framed, Asked, Query
  <2>3. stack' = <<Base>>
    BY <1>7, <2>2, PushAndPop DEF AnswerSubset
  <2> QED  BY <1>7, <2>1, <2>3 DEF AnswerSubset, Framed, Asked
<1>8. ASSUME Emit, UNCHANGED binvars PROVE Framed'
  <2>1. Base' = Base \cup NewXR
    BY <1>8, BaseAfterEmit
  <2>2. stack = <<Base>>
    BY <1>8 DEF Emit, Framed, Asked
  <2>3. stack' = <<Base \cup NewXR>>
    BY <1>8, <2>2 DEF Emit
  <2> QED  BY <1>8, <2>1, <2>3 DEF Emit, Framed, Asked
<1>9. ASSUME Reconciled, UNCHANGED binvars PROVE Framed'
  <2>1. Base' = Base
    BY <1>9, BaseKept DEF Reconciled, input
  <2> QED  BY <1>9, <2>1 DEF Reconciled, Framed, Asked
<1>10. ASSUME BinsByInterval PROVE Framed'
  <2>1. Base' = Base
    BY <1>10, BaseKept DEF BinsByInterval, vars
  <2> QED  BY <1>10, <2>1 DEF BinsByInterval, vars, Framed, Asked
<1>11. ASSUME AskBins PROVE Framed'
  <2>1. Base' = Base
    BY <1>11, BaseKept DEF AskBins, recon
  <2>2. stack = <<Base>>
    BY <1>11 DEF AskBins, Framed, Asked
  <2>3. stack' = <<Base, BothBins(pair')>>
    BY <1>11, <2>2, PushAndPop DEF AskBins
  <2>4. BothBins(pair)' = BothBins(pair')
    BY <1>11 DEF AskBins, binvars, BothBins, Region
  <2> QED  BY <1>11, <2>1, <2>3, <2>4 DEF AskBins, Framed, Asked, Query
<1>12. ASSUME AnswerBins PROVE Framed'
  <2>1. Base' = Base
    BY <1>12, BaseKept DEF AnswerBins, recon
  <2>2. stack = <<Base, BothBins(pair)>>
    BY <1>12 DEF AnswerBins, Framed, Asked, Query
  <2>3. stack' = <<Base>>
    BY <1>12, <2>2, PushAndPop DEF AnswerBins
  <2> QED  BY <1>12, <2>1, <2>3 DEF AnswerBins, Framed, Asked
<1>13. ASSUME CoverageUnknown PROVE Framed'
  <2>1. Base' = Base
    BY <1>13, BaseKept DEF CoverageUnknown, recon
  <2> QED  BY <1>13, <2>1 DEF CoverageUnknown, Framed, Asked
<1>14. ASSUME AskCoverage PROVE Framed'
  <2>1. Base' = Base
    BY <1>14, BaseKept DEF AskCoverage, recon
  <2>2. stack = <<Base>>
    BY <1>14 DEF AskCoverage, Framed, Asked
  <2>3. stack' = <<Base, NoBin>>
    BY <1>14, <2>2, PushAndPop DEF AskCoverage
  <2>4. NoBin' = NoBin
    BY <1>14, NoBinKept DEF AskCoverage, binvars
  <2> QED  BY <1>14, <2>1, <2>3, <2>4 DEF AskCoverage, Framed, Asked, Query
<1>15. ASSUME AnswerCoverage PROVE Framed'
  <2>1. Base' = Base
    BY <1>15, BaseKept DEF AnswerCoverage, recon
  <2>2. stack = <<Base, NoBin>>
    BY <1>15 DEF AnswerCoverage, Framed, Asked, Query
  <2>3. stack' = <<Base>>
    BY <1>15, <2>2, PushAndPop DEF AnswerCoverage
  <2> QED  BY <1>15, <2>1, <2>3 DEF AnswerCoverage, Framed, Asked
<1>16. ASSUME UNCHANGED allvars PROVE Framed'
  <2>1. Base' = Base
    BY <1>16, BaseKept DEF allvars, vars
  <2>2. Query' = Query
    BY <1>16 DEF allvars, vars, binvars, Query, BothPass, SubsetQuery, BothBins, NoBin,
                 Region, Vectors, Bins
  <2> QED  BY <1>16, <2>1, <2>2 DEF allvars, vars, Framed, Asked
<1> QED
  BY <1>1, <1>2, <1>3, <1>4, <1>5, <1>6, <1>7, <1>8, <1>9, <1>10, <1>11, <1>12, <1>13,
     <1>14, <1>15, <1>16 DEF Next, ReconNext
-----------------------------------------------------------------------------
(* What refuted bin queries say of events. *)

\* Of two bins refuted together in the region, no event there is in both.
LEMMA RefutedBins ==
    ASSUME Typed, SubsSound, FactsSound, NEW p \in BinPairs,
           Meet(Base \cup BothBins(p)) = {}, NEW ev \in Selected
    PROVE  ~ (/\ Vector(ev) \in set.bins[p[1]].real
              /\ Vector(ev) \in set.bins[p[2]].real)
<1> SUFFICES ASSUME Vector(ev) \in set.bins[p[1]].real, Vector(ev) \in set.bins[p[2]].real
             PROVE  FALSE
  OBVIOUS
<1>1. PICK e \in Elements : TRUE
  BY ElementsAssumption
<1> DEFINE x == [elem |-> e, size |-> Vector(ev)]
<1>2. ev \in Events /\ Vector(ev) \in set.region.real
  BY DEF Selected
<1>3. x \in Points /\ \A f \in Base : x \in f.pts
  BY <1>2, EventsSatisfyBase
<1>4. set \in BinSets /\ p[1] \in DOMAIN set.bins /\ p[2] \in DOMAIN set.bins
  BY DEF Typed, BinPairs, Bins
<1>5. /\ Vector(ev) \in set.region.over
      /\ Vector(ev) \in set.bins[p[1]].over
      /\ Vector(ev) \in set.bins[p[2]].over
  BY <1>2, <1>4, BinSetsAssumption
<1>6. x.size = Vector(ev)
  OBVIOUS
<1> HIDE DEF x
<1>7. \A f \in BothBins(p) : x \in f.pts
  BY <1>3, <1>5, <1>6 DEF BothBins, Region, Named, Vectors
<1> QED  BY <1>3, <1>7 DEF Meet

\* If no point of the region is outside every bin, every event there is in one.
LEMMA RefutedGap ==
    ASSUME Typed, SubsSound, FactsSound, Meet(Base \cup NoBin) = {}, NEW ev \in Selected
    PROVE  \E i \in Bins : Vector(ev) \in set.bins[i].real
<1> SUFFICES ASSUME \A i \in Bins : Vector(ev) \notin set.bins[i].real
             PROVE  FALSE
  OBVIOUS
<1>1. PICK e \in Elements : TRUE
  BY ElementsAssumption
<1> DEFINE x == [elem |-> e, size |-> Vector(ev)]
<1>2. ev \in Events /\ Vector(ev) \in set.region.real
  BY DEF Selected
<1>3. x \in Points /\ Vector(ev) \in Sizes /\ \A f \in Base : x \in f.pts
  BY <1>2, EventsSatisfyBase
<1>4. set \in BinSets
  BY DEF Typed
<1>5. Vector(ev) \in set.region.over
  BY <1>2, <1>4, BinSetsAssumption
<1>6. \A i \in Bins : Vector(ev) \notin set.bins[i].under
  BY <1>4, BinSetsAssumption DEF Bins
<1>7. x.size = Vector(ev)
  OBVIOUS
<1> HIDE DEF x
<1>8. \A f \in NoBin : x \in f.pts
  BY <1>3, <1>5, <1>6, <1>7 DEF NoBin, Region, Named, Vectors
<1> QED  BY <1>3, <1>8 DEF Meet
-----------------------------------------------------------------------------
(* Every claim is true of all events. *)

\* What happens in events depends on the chains alone.
LEMMA EventsKept ==
    ASSUME UNCHANGED coll
    PROVE  /\ Events' = Events
           /\ \A ev : Vector(ev)' = Vector(ev)
           /\ \A a, b : HoldsInEvents(a, b)' = HoldsInEvents(a, b)
  BY DEF Events, SharedInput, Vector, SizeIn, Members, HoldsInEvents

LEMMA BinsSoundKept ==
    ASSUME UNCHANGED <<coll, set, disjoint, coverage>>, BinsSound
    PROVE  BinsSound'
<1>1. Selected' = Selected
  BY EventsKept DEF Selected
<1> QED  BY <1>1, EventsKept DEF BinsSound, Bins

LEMMA FactsKept ==
    ASSUME UNCHANGED <<coll, subs, facts>>, SubsSound, FactsSound
    PROVE  SubsSound' /\ FactsSound'
  BY EventsKept DEF SubsSound, FactsSound

LEMMA ProofsKept ==
    ASSUME UNCHANGED <<coll, pair, proof>>, ProofsSound,
           step' \in {"ba", "baAsked", "emit"} \/ step \notin {"ba", "baAsked", "emit"}
    PROVE  ProofsSound'
  BY DEF ProofsSound, NoProof, HoldsInEvents, Events, SharedInput, SizeIn, Members

LEMMA JustifiedInit == Init => Justified
<1> SUFFICES ASSUME Init
             PROVE  Justified
  OBVIOUS
<1>1. SubsSound
  BY DEF Init, ReconInit, SubsSound
<1>2. FactsSound /\ ProofsSound
  BY DEF Init, ReconInit, FactsSound, ProofsSound, NoProof
<1>3. BinsSound
  BY DEF Init, BinsSound
<1> QED  BY <1>1, <1>2, <1>3 DEF Justified

\* A direction the engine takes as proven holds in every event.
LEMMA AnsweredSubset ==
    ASSUME Typed, NEW a \in Colls, NEW b \in Colls, SharedInput(a, b),
           coll[a].peer = "self", coll[b].peer = "self",
           stack = <<Base, SubsetQuery(a, b)>>, "unsat" \in Answers,
           NEW cert \in Certified(SubsetQuery(a, b)), cert # "no"
    PROVE  HoldsInEvents(a, b) /\ cert \in {"off", "yes"}
<1>1. Meet(Base \cup SubsetQuery(a, b)) = {} /\ cert \in {"off", "yes"}
  BY AcceptedUnsat
<1>2. coll[a].over \subseteq coll[b].under
  BY <1>1, RefutedSubset
<1>3. coll[a].real \subseteq coll[b].real
  BY <1>2, ChainsAssumption DEF Typed
<1> QED  BY <1>1, <1>3, Refines DEF Typed

LEMMA PairInHand ==
    ASSUME Typed, step \in PairSteps
    PROVE  /\ pair[1] \in Colls /\ pair[2] \in Colls
           /\ SharedInput(pair[1], pair[2]) /\ SharedInput(pair[2], pair[1])
           /\ coll[pair[1]].peer = "self" /\ coll[pair[2]].peer = "self"
  BY DEF Typed, Enumerated, Groundable, SharedInput

LEMMA JustifiedNext == Typed /\ Framed /\ Justified /\ [Next]_allvars => Justified'
<1> SUFFICES ASSUME Typed, Framed, SubsSound, FactsSound, ProofsSound, BinsSound,
                    [Next]_allvars
             PROVE  SubsSound' /\ FactsSound' /\ ProofsSound' /\ BinsSound'
  BY DEF Justified
<1>1. ASSUME Build, UNCHANGED binvars
      PROVE  SubsSound' /\ FactsSound' /\ ProofsSound' /\ BinsSound'
  BY <1>1, FactsKept, ProofsKept, BinsSoundKept DEF Build, input, binvars
<1>2. ASSUME AskFrame, UNCHANGED binvars
      PROVE  SubsSound' /\ FactsSound' /\ ProofsSound' /\ BinsSound'
  <2>1. proof' = NoProof
    BY <1>2 DEF AskFrame, ProofsSound
  <2>2. ProofsSound'
    BY <2>1 DEF ProofsSound, NoProof
  <2> QED  BY <1>2, <2>2, FactsKept, BinsSoundKept DEF AskFrame, input, binvars
<1>3. ASSUME AnswerFrame, UNCHANGED binvars
      PROVE  SubsSound' /\ FactsSound' /\ ProofsSound' /\ BinsSound'
  BY <1>3, FactsKept, ProofsKept, BinsSoundKept DEF AnswerFrame, input, binvars
<1>4. ASSUME AskSubset("ab", "abAsked", pair[1], pair[2]), UNCHANGED binvars
      PROVE  SubsSound' /\ FactsSound' /\ ProofsSound' /\ BinsSound'
  BY <1>4, FactsKept, ProofsKept, BinsSoundKept DEF AskSubset, input, binvars
<1>5. ASSUME AnswerSubset("abAsked", "ba", "ab", pair[1], pair[2]), UNCHANGED binvars
      PROVE  SubsSound' /\ FactsSound' /\ ProofsSound' /\ BinsSound'
  <2>1. SubsSound' /\ FactsSound' /\ BinsSound'
    BY <1>5, FactsKept, BinsSoundKept DEF AnswerSubset, input, binvars
  <2>2. step = "abAsked" /\ step' = "ba" /\ pair' = pair /\ coll' = coll /\ proof = NoProof
    BY <1>5 DEF AnswerSubset, input, ProofsSound
  <2>3. CASE UNCHANGED proof
    BY <2>1, <2>2, <2>3, ProofsKept
  <2>4. ASSUME "unsat" \in Answers,
               NEW cert \in Certified(SubsetQuery(pair[1], pair[2])),
               proof' = [proof EXCEPT !["ab"] = IF cert = "no" THEN "none" ELSE cert]
        PROVE  ProofsSound'
    <3>1. proof'["ba"] = "none" /\ proof'["ab"] = IF cert = "no" THEN "none" ELSE cert
      BY <2>2, <2>4 DEF NoProof
    <3>2. stack = <<Base, SubsetQuery(pair[1], pair[2])>>
      BY <2>2 DEF Framed, Asked, Query
    <3>3. cert # "no" => HoldsInEvents(pair[1], pair[2])
      BY <2>2, <2>4, <3>2, PairInHand, AnsweredSubset DEF PairSteps
    <3> QED  BY <2>2, <3>1, <3>3, EventsKept DEF ProofsSound
  <2> QED  BY <1>5, <2>1, <2>3, <2>4 DEF AnswerSubset
<1>6. ASSUME AskSubset("ba", "baAsked", pair[2], pair[1]), UNCHANGED binvars
      PROVE  SubsSound' /\ FactsSound' /\ ProofsSound' /\ BinsSound'
  BY <1>6, FactsKept, ProofsKept, BinsSoundKept DEF AskSubset, input, binvars
<1>7. ASSUME AnswerSubset("baAsked", "emit", "ba", pair[2], pair[1]), UNCHANGED binvars
      PROVE  SubsSound' /\ FactsSound' /\ ProofsSound' /\ BinsSound'
  <2>1. SubsSound' /\ FactsSound' /\ BinsSound'
    BY <1>7, FactsKept, BinsSoundKept DEF AnswerSubset, input, binvars
  <2>2. step = "baAsked" /\ step' = "emit" /\ pair' = pair /\ coll' = coll
    BY <1>7 DEF AnswerSubset, input
  <2>3. CASE UNCHANGED proof
    BY <2>1, <2>2, <2>3, ProofsKept
  <2>4. ASSUME "unsat" \in Answers,
               NEW cert \in Certified(SubsetQuery(pair[2], pair[1])),
               proof' = [proof EXCEPT !["ba"] = IF cert = "no" THEN "none" ELSE cert]
        PROVE  ProofsSound'
    <3>1. /\ proof'["ab"] = proof["ab"]
          /\ proof'["ba"] = IF cert = "no" THEN "none" ELSE cert
      BY <2>4 DEF Typed
    <3>2. stack = <<Base, SubsetQuery(pair[2], pair[1])>>
      BY <2>2 DEF Framed, Asked, Query
    <3>3. cert # "no" => HoldsInEvents(pair[2], pair[1])
      BY <2>2, <2>4, <3>2, PairInHand, AnsweredSubset DEF PairSteps
    <3> QED  BY <2>2, <3>1, <3>3, EventsKept DEF ProofsSound
  <2> QED  BY <1>7, <2>1, <2>3, <2>4 DEF AnswerSubset
<1>8. ASSUME Emit, UNCHANGED binvars
      PROVE  SubsSound' /\ FactsSound' /\ ProofsSound' /\ BinsSound'
  <2>1. BinsSound' /\ SubsSound'
    BY <1>8, EventsKept, BinsSoundKept DEF Emit, input, binvars, SubsSound
  <2>2. ProofsSound'
    BY <1>8 DEF Emit, ProofsSound, NoProof
  <2>3. ASSUME NEW k \in DOMAIN Emitted
        PROVE  HoldsInEvents(Emitted[k].sub, Emitted[k].sup)
    <3>1. PICK dir \in {"ab", "ba"} : /\ proof[dir] # "none"
                                      /\ Emitted[k].sub = Directed(dir)[1]
                                      /\ Emitted[k].sup = Directed(dir)[2]
      BY <1>8, EmittedFacts DEF Emit
    <3> QED  BY <3>1 DEF ProofsSound, Directed
  <2>4. ASSUME NEW k \in DOMAIN facts'
        PROVE  HoldsInEvents(facts'[k].sub, facts'[k].sup)
    <3>1. /\ DOMAIN facts = 1..Len(facts) /\ DOMAIN Emitted = 1..Len(Emitted)
          /\ DOMAIN facts' = 1..(Len(facts) + Len(Emitted))
          /\ Len(facts) \in Nat /\ Len(Emitted) \in Nat
      BY <1>8, FactsAfterEmit, EmittedFacts DEF Emit, Typed
    <3>2. CASE k \in 1..Len(facts)
      BY <1>8, <3>1, <3>2, FactsAfterEmit DEF FactsSound
    <3>3. CASE k \notin 1..Len(facts)
      <4>1. k - Len(facts) \in 1..Len(Emitted) /\ k = Len(facts) + (k - Len(facts))
        BY <3>1, <3>3
      <4>2. facts'[k] = Emitted[k - Len(facts)]
        BY <1>8, <4>1, FactsAfterEmit
      <4> QED  BY <2>3, <3>1, <4>1, <4>2
    <3> QED  BY <3>2, <3>3
  <2>5. FactsSound'
    BY <1>8, <2>4, EventsKept DEF Emit, input, FactsSound
  <2> QED  BY <2>1, <2>2, <2>5
<1>9. ASSUME Reconciled, UNCHANGED binvars
      PROVE  SubsSound' /\ FactsSound' /\ ProofsSound' /\ BinsSound'
  BY <1>9, FactsKept, ProofsKept, BinsSoundKept DEF Reconciled, input, binvars
<1>10. ASSUME BinsByInterval
       PROVE  SubsSound' /\ FactsSound' /\ ProofsSound' /\ BinsSound'
  <2>1. SubsSound' /\ FactsSound' /\ ProofsSound'
    BY <1>10, FactsKept, ProofsKept DEF BinsByInterval, vars
  <2>2. Selected' = Selected /\ \A ev : Vector(ev)' = Vector(ev)
    BY <1>10, EventsKept DEF BinsByInterval, vars, Selected
  <2>3. \A p \in disjoint' : p \in disjoint \/ (p \in BinPairs /\ Meet(BothBins(p)) = {})
    BY <1>10 DEF BinsByInterval, Typed
  <2>4. \A p : Meet(BothBins(p)) = {} => Meet(Base \cup BothBins(p)) = {}
    BY DEF Meet
  <2>5. \A p \in disjoint' : \A ev \in Selected :
          ~ (/\ Vector(ev) \in set.bins[p[1]].real
             /\ Vector(ev) \in set.bins[p[2]].real)
    BY <2>3, <2>4, RefutedBins DEF BinsSound
  <2>6. coverage' = coverage /\ set' = set
    BY <1>10 DEF BinsByInterval
  <2> QED  BY <2>1, <2>2, <2>5, <2>6 DEF BinsSound, Bins
<1>11. ASSUME AskBins
       PROVE  SubsSound' /\ FactsSound' /\ ProofsSound' /\ BinsSound'
  <2>1. proof' = NoProof
    BY <1>11 DEF AskBins, recon, ProofsSound
  <2>2. ProofsSound'
    BY <2>1 DEF ProofsSound, NoProof
  <2> QED  BY <1>11, <2>2, FactsKept, BinsSoundKept DEF AskBins, recon, binvars
<1>12. ASSUME AnswerBins
       PROVE  SubsSound' /\ FactsSound' /\ ProofsSound' /\ BinsSound'
  <2>1. SubsSound' /\ FactsSound'
    BY <1>12, FactsKept DEF AnswerBins, recon
  <2>2. ProofsSound'
    <3>1. proof' = NoProof
      BY <1>12 DEF AnswerBins, recon, ProofsSound
    <3> QED  BY <3>1 DEF ProofsSound, NoProof
  <2>3. Selected' = Selected /\ \A ev : Vector(ev)' = Vector(ev)
    BY <1>12, EventsKept DEF AnswerBins, recon, Selected
  <2>4. stack = <<Base, BothBins(pair)>> /\ pair \in BinPairs
    BY <1>12 DEF AnswerBins, Framed, Asked, Query, Typed
  <2>5. \/ disjoint' = disjoint
        \/ disjoint' = disjoint \cup {pair} /\ Meet(Base \cup BothBins(pair)) = {}
    BY <1>12, <2>4, AcceptedUnsat DEF AnswerBins
  <2>6. \A p \in disjoint' : \A ev \in Selected :
          ~ (/\ Vector(ev) \in set.bins[p[1]].real
             /\ Vector(ev) \in set.bins[p[2]].real)
    BY <2>4, <2>5, RefutedBins DEF BinsSound
  <2>7. coverage' = coverage /\ set' = set
    BY <1>12 DEF AnswerBins
  <2> QED  BY <2>1, <2>2, <2>3, <2>6, <2>7 DEF BinsSound, Bins
<1>13. ASSUME CoverageUnknown
       PROVE  SubsSound' /\ FactsSound' /\ ProofsSound' /\ BinsSound'
  <2>1. SubsSound' /\ FactsSound' /\ ProofsSound'
    BY <1>13, FactsKept, ProofsKept DEF CoverageUnknown, recon
  <2>2. Selected' = Selected /\ \A ev : Vector(ev)' = Vector(ev)
    BY <1>13, EventsKept DEF CoverageUnknown, recon, Selected
  <2>3. coverage' = "Unknown" /\ disjoint' = disjoint /\ set' = set
    BY <1>13 DEF CoverageUnknown
  <2> QED  BY <2>1, <2>2, <2>3 DEF BinsSound, Bins
<1>14. ASSUME AskCoverage
       PROVE  SubsSound' /\ FactsSound' /\ ProofsSound' /\ BinsSound'
  BY <1>14, FactsKept, ProofsKept, BinsSoundKept DEF AskCoverage, recon, binvars
<1>15. ASSUME AnswerCoverage
       PROVE  SubsSound' /\ FactsSound' /\ ProofsSound' /\ BinsSound'
  <2>1. SubsSound' /\ FactsSound' /\ ProofsSound'
    BY <1>15, FactsKept, ProofsKept DEF AnswerCoverage, recon
  <2>2. Selected' = Selected /\ \A ev : Vector(ev)' = Vector(ev)
    BY <1>15, EventsKept DEF AnswerCoverage, recon, Selected
  <2>3. stack = <<Base, NoBin>> /\ disjoint' = disjoint /\ set' = set
    BY <1>15 DEF AnswerCoverage, Framed, Asked, Query
  <2>4. coverage' = "Proven" => Meet(Base \cup NoBin) = {}
    BY <1>15, <2>3, AcceptedUnsat DEF AnswerCoverage
  <2>5. coverage' = "Proven" => \A ev \in Selected :
          \E i \in Bins : Vector(ev) \in set.bins[i].real
    BY <2>4, RefutedGap
  <2> QED  BY <2>1, <2>2, <2>3, <2>5 DEF BinsSound, Bins
<1>16. ASSUME UNCHANGED allvars
       PROVE  SubsSound' /\ FactsSound' /\ ProofsSound' /\ BinsSound'
  BY <1>16, FactsKept, ProofsKept, BinsSoundKept DEF allvars, vars, binvars
<1> QED
  BY <1>1, <1>2, <1>3, <1>4, <1>5, <1>6, <1>7, <1>8, <1>9, <1>10, <1>11, <1>12, <1>13,
     <1>14, <1>15, <1>16 DEF Next, ReconNext
-----------------------------------------------------------------------------
(* What the ledger claims. *)

\* The ledger between two pairs: a pair still to be compared has no row and no
\* fact, and under --certify nothing counts as proven without a certificate.
Ledgered ==
    /\ LedgerBacked
    /\ \A p \in todo : recon_ledger[p] = "none"
    /\ step \in PairSteps => pair \in todo
    /\ step = "build" => facts = <<>>
    /\ mode = "certified" => proof["ab"] # "off" /\ proof["ba"] # "off"

LEMMA LedgeredInit == Init => Ledgered
<1> SUFFICES ASSUME Init
             PROVE  Ledgered
  OBVIOUS
<1>1. facts = <<>> /\ step = "build" /\ proof = NoProof /\ todo = {}
      /\ recon_ledger = [p \in Enumerated |-> "none"]
  BY DEF Init, ReconInit
<1>2. LedgerBacked
  BY <1>1 DEF LedgerBacked, Backed, FactsOf, States
<1> QED  BY <1>1, <1>2 DEF Ledgered, PairSteps, NoProof

\* Facts of a pair depend on the facts alone.
LEMMA LedgerKept ==
    ASSUME LedgerBacked, UNCHANGED <<subs, facts, recon_ledger>>
    PROVE  LedgerBacked'
  BY DEF LedgerBacked, Backed, FactsOf, States

\* What Emit appends is the facts wanted, each once.
LEMMA EmittedWanted ==
    ASSUME Typed, step = "emit"
    PROVE  /\ \A k \in DOMAIN Emitted : \E dir \in {"ab", "ba"} : Wanted(dir) /\ Emitted[k] = Fact(dir)
           /\ \A dir \in {"ab", "ba"} : Wanted(dir) => \E k \in DOMAIN Emitted : Emitted[k] = Fact(dir)
           /\ \A j, k \in DOMAIN Emitted : Emitted[j] = Emitted[k] => j = k
           /\ DOMAIN Emitted = 1..Len(Emitted) /\ Len(Emitted) \in Nat
<1>1. Fact("ab") # Fact("ba")
  <2>1. pair[1] < pair[2] /\ pair[1] \in Nat /\ pair[2] \in Nat
    BY CountsAssumption DEF Typed, PairSteps, Enumerated, Colls
  <2>2. Fact("ab").sub = pair[1] /\ Fact("ba").sub = pair[2]
    BY DEF Fact, Directed
  <2> QED  BY <2>1, <2>2
<1> DEFINE F == Fact("ab")
           G == Fact("ba")
<1>2. Emitted = (IF Wanted("ab") THEN <<F>> ELSE <<>>) \o (IF Wanted("ba") THEN <<G>> ELSE <<>>)
  BY DEF Emitted
<1> HIDE DEF F, G
<1>3. CASE Wanted("ab") /\ Wanted("ba")
  <2>1. Emitted = <<F>> \o <<G>>
    BY <1>2, <1>3
  <2>2. Len(Emitted) = 2 /\ DOMAIN Emitted = 1..2 /\ Emitted[1] = F /\ Emitted[2] = G
    BY <2>1
  <2> QED  BY <1>1, <1>3, <2>2 DEF F, G
<1>4. CASE Wanted("ab") /\ ~Wanted("ba")
  <2>1. Emitted = <<F>> \o <<>>
    BY <1>2, <1>4
  <2>2. Len(Emitted) = 1 /\ DOMAIN Emitted = 1..1 /\ Emitted[1] = F
    BY <2>1
  <2> QED  BY <1>4, <2>2 DEF F, G
<1>5. CASE ~Wanted("ab") /\ Wanted("ba")
  <2>1. Emitted = <<>> \o <<G>>
    BY <1>2, <1>5
  <2>2. Len(Emitted) = 1 /\ DOMAIN Emitted = 1..1 /\ Emitted[1] = G
    BY <2>1
  <2> QED  BY <1>5, <2>2 DEF F, G
<1>6. CASE ~Wanted("ab") /\ ~Wanted("ba")
  <2>1. Emitted = <<>> \o <<>>
    BY <1>2, <1>6
  <2>2. Len(Emitted) = 0 /\ DOMAIN Emitted = {}
    BY <2>1
  <2> QED  BY <1>6, <2>2
<1> QED  BY <1>3, <1>4, <1>5, <1>6

\* The row states what is proven, and what is proven and no axiom is a fact.
LEMMA RowOfEmit ==
    ASSUME Typed, Ledgered, step = "emit", NEW dir \in {"ab", "ba"}
    PROVE  /\ States(Outcome, dir) <=> dir \in Proven
           /\ Wanted(dir) <=> dir \in Proven /\ Directed(dir) \notin subs
           /\ Fact(dir).sub = Directed(dir)[1] /\ Fact(dir).sup = Directed(dir)[2]
           /\ Fact(dir).id = "XEQ" <=> Outcome = "Equivalent"
<1>1. Proven \in {{"ab", "ba"}, {"ab"}, {"ba"}, {}}
  BY DEF Proven
<1>2. States(Outcome, dir) <=> dir \in Proven
  <2>1. CASE Proven = {"ab", "ba"}
    BY <2>1 DEF Outcome, States
  <2>2. CASE Proven = {"ab"}
    BY <2>2 DEF Outcome, States
  <2>3. CASE Proven = {"ba"}
    BY <2>3 DEF Outcome, States
  <2>4. CASE Proven = {}
    BY <2>4 DEF Outcome, States
  <2> QED  BY <1>1, <2>1, <2>2, <2>3, <2>4
<1>3. mode = "certified" /\ proof[dir] # "none" => proof[dir] = "yes"
  BY DEF Typed, Ledgered
<1>4. Wanted(dir) <=> dir \in Proven /\ Directed(dir) \notin subs
  BY <1>3 DEF Wanted, Proven
<1> QED  BY <1>2, <1>4 DEF Fact

\* A fact after Emit is an old one or an emitted one.
LEMMA FactsGrow ==
    ASSUME Typed, Emit
    PROVE  /\ DOMAIN facts \subseteq DOMAIN facts'
           /\ \A k \in DOMAIN facts : facts'[k] = facts[k]
           /\ \A k \in DOMAIN Emitted : Len(facts) + k \in DOMAIN facts' \ DOMAIN facts
                                        /\ facts'[Len(facts) + k] = Emitted[k]
           /\ \A k \in DOMAIN facts' \ DOMAIN facts : \E i \in DOMAIN Emitted : k = Len(facts) + i
<1>1. /\ DOMAIN facts = 1..Len(facts) /\ DOMAIN Emitted = 1..Len(Emitted)
      /\ DOMAIN facts' = 1..(Len(facts) + Len(Emitted))
      /\ Len(facts) \in Nat /\ Len(Emitted) \in Nat
  BY FactsAfterEmit, EmittedFacts DEF Emit, Typed
<1>2. \A k \in DOMAIN facts : facts'[k] = facts[k]
  BY <1>1, FactsAfterEmit
<1>3. \A k \in DOMAIN Emitted : facts'[Len(facts) + k] = Emitted[k]
  BY <1>1, FactsAfterEmit
<1>4. \A k \in DOMAIN facts' \ DOMAIN facts : k - Len(facts) \in DOMAIN Emitted /\ k = Len(facts) + (k - Len(facts))
  BY <1>1
<1>5. \A k \in DOMAIN Emitted : Len(facts) + k \in DOMAIN facts' \ DOMAIN facts
  BY <1>1
<1>6. DOMAIN facts \subseteq DOMAIN facts'
  BY <1>1
<1> QED  BY <1>2, <1>3, <1>4, <1>5, <1>6

\* The pair in hand gets its row and the facts that back it; every other pair
\* keeps both.
LEMMA LedgerAfterEmit ==
    ASSUME Typed, Ledgered, Emit
    PROVE  LedgerBacked'
<1> DEFINE New == DOMAIN facts' \ DOMAIN facts
<1>1. /\ step = "emit" /\ pair \in Enumerated /\ pair \in todo /\ subs' = subs
      /\ recon_ledger' = [recon_ledger EXCEPT ![pair] = Outcome] /\ recon_ledger[pair] = "none"
      /\ DOMAIN recon_ledger = Enumerated /\ DOMAIN recon_ledger' = Enumerated
  BY DEF Emit, Typed, Ledgered, PairSteps, input
<1>2. \A p \in Enumerated : p[1] \in Nat /\ p[2] \in Nat /\ p[1] < p[2] /\ p = <<p[1], p[2]>>
  BY CountsAssumption DEF Enumerated, Colls
<1>3. \A k \in New : \E dir \in {"ab", "ba"} :
         /\ Wanted(dir) /\ facts'[k] = Fact(dir)
         /\ facts'[k].sub = Directed(dir)[1] /\ facts'[k].sup = Directed(dir)[2]
  BY <1>1, FactsGrow, EmittedWanted, RowOfEmit
<1>4. \A k \in New : \/ facts'[k].sub = pair[1] /\ facts'[k].sup = pair[2]
                     \/ facts'[k].sub = pair[2] /\ facts'[k].sup = pair[1]
  BY <1>3 DEF Directed
<1>5. \A a, b : FactsOf(a, b)' = FactsOf(a, b) \cup {k \in New : facts'[k].sub = a /\ facts'[k].sup = b}
  BY FactsGrow DEF FactsOf
<1>6. FactsOf(pair[1], pair[2]) = {} /\ FactsOf(pair[2], pair[1]) = {}
  BY <1>1 DEF Ledgered, LedgerBacked, Backed, States
<1>7. ASSUME NEW dir \in {"ab", "ba"}, NEW a, NEW b, Directed(dir) = <<a, b>>,
             NEW CONSTANT o, o = Outcome
      PROVE  Backed(a, b, o, dir)'
  <2>1. FactsOf(a, b)' = {k \in New : facts'[k].sub = a /\ facts'[k].sup = b}
    BY <1>1, <1>2, <1>5, <1>6, <1>7 DEF Directed
  <2>2. \A k \in FactsOf(a, b)' : Wanted(dir) /\ facts'[k] = Fact(dir)
    BY <1>1, <1>2, <1>3, <1>7, <2>1 DEF Directed
  <2>3. Wanted(dir) => FactsOf(a, b)' # {}
    BY <1>1, <1>7, <2>1, FactsGrow, EmittedWanted, RowOfEmit
  <2>4. /\ States(o, dir) <=> dir \in Proven
        /\ Wanted(dir) <=> dir \in Proven /\ <<a, b>> \notin subs
        /\ Fact(dir).id = "XEQ" <=> o = "Equivalent"
    BY <1>1, <1>7, RowOfEmit
  <2>5. \A k \in FactsOf(a, b)' : facts'[k].id = "XEQ" <=> o = "Equivalent"
    BY <2>2, <2>4
  <2>6. subs' = subs
    BY <1>1
  <2> QED  BY <2>2, <2>3, <2>4, <2>5, <2>6 DEF Backed, States
<1>8. ASSUME NEW p \in Enumerated, p # pair
      PROVE  Backed(p[1], p[2], recon_ledger[p], "ab")' /\ Backed(p[2], p[1], recon_ledger[p], "ba")'
  <2>1. FactsOf(p[1], p[2])' = FactsOf(p[1], p[2]) /\ FactsOf(p[2], p[1])' = FactsOf(p[2], p[1])
    <3>1. \A k \in New : /\ ~ (facts'[k].sub = p[1] /\ facts'[k].sup = p[2])
                         /\ ~ (facts'[k].sub = p[2] /\ facts'[k].sup = p[1])
      <4>1. p[1] # pair[1] \/ p[2] # pair[2]
        BY <1>1, <1>2, <1>8
      <4>2. p[1] < p[2] /\ pair[1] < pair[2] /\ p[1] \in Nat /\ p[2] \in Nat /\ pair[1] \in Nat /\ pair[2] \in Nat
        BY <1>1, <1>2
      <4> QED  BY <1>4, <4>1, <4>2
    <3> QED  BY <1>5, <3>1
  <2>2. \A k \in DOMAIN facts : facts'[k] = facts[k]
    BY FactsGrow
  <2>3. recon_ledger'[p] = recon_ledger[p]
    BY <1>1, <1>8
  <2>4. Backed(p[1], p[2], recon_ledger[p], "ab") /\ Backed(p[2], p[1], recon_ledger[p], "ba")
    BY <1>1, <1>8 DEF Ledgered, LedgerBacked
  <2>5. \A a, b : FactsOf(a, b) \subseteq DOMAIN facts
    BY DEF FactsOf
  <2> QED  BY <1>1, <2>1, <2>2, <2>3, <2>4, <2>5 DEF Backed, States
<1>9. ASSUME NEW p \in Enumerated
      PROVE  Backed(p[1], p[2], recon_ledger[p], "ab")' /\ Backed(p[2], p[1], recon_ledger[p], "ba")'
  <2>1. CASE p = pair
    <3>1. recon_ledger'[p] = Outcome
      BY <1>1, <2>1
    <3>2. Directed("ab") = <<p[1], p[2]>> /\ Directed("ba") = <<p[2], p[1]>>
      BY <1>1, <1>2, <2>1 DEF Directed
    <3>3. PICK o : o = Outcome
      OBVIOUS
    <3>4. Backed(p[1], p[2], o, "ab")' /\ Backed(p[2], p[1], o, "ba")'
      BY <1>7, <3>2, <3>3
    <3> QED  BY <3>1, <3>3, <3>4 DEF Backed
  <2> QED  BY <1>8, <2>1
<1>10. ASSUME NEW j \in DOMAIN facts', NEW k \in DOMAIN facts',
              facts'[j].sub = facts'[k].sub, facts'[j].sup = facts'[k].sup
       PROVE  j = k
  <2>1. CASE j \in DOMAIN facts /\ k \in DOMAIN facts
    BY <1>10, <2>1, FactsGrow DEF Ledgered, LedgerBacked
  <2>2. ASSUME NEW x \in DOMAIN facts, NEW y \in New
        PROVE  ~ (facts'[x].sub = facts'[y].sub /\ facts'[x].sup = facts'[y].sup)
    BY <1>4, <1>6, FactsGrow DEF FactsOf
  <2>3. CASE j \in New /\ k \in New
    <3>1. PICK d \in {"ab", "ba"} : facts'[j] = Fact(d) /\ facts'[j].sub = Directed(d)[1]
      BY <1>3, <2>3
    <3>2. PICK e \in {"ab", "ba"} : facts'[k] = Fact(e) /\ facts'[k].sub = Directed(e)[1]
      BY <1>3, <2>3
    <3>3. d = e
      BY <1>1, <1>2, <1>10, <3>1, <3>2 DEF Directed
    <3>4. PICK x \in DOMAIN Emitted : j = Len(facts) + x
      BY <2>3, FactsGrow
    <3>5. PICK y \in DOMAIN Emitted : k = Len(facts) + y
      BY <2>3, FactsGrow
    <3>6. Emitted[x] = Emitted[y]
      BY <3>1, <3>2, <3>3, <3>4, <3>5, FactsGrow
    <3> QED  BY <1>1, <3>4, <3>5, <3>6, EmittedWanted
  <2> QED  BY <1>10, <2>1, <2>2, <2>3
<1> QED  BY <1>1, <1>9, <1>10 DEF LedgerBacked

\* Only an answer changes what is proven, and under --certify only a
\* certificate counts.
LEMMA AnswerLedgered ==
    ASSUME Typed, Ledgered, NEW from, NEW to \in {"ba", "emit"}, NEW dir \in {"ab", "ba"}, NEW a, NEW b,
           from \in PairSteps, AnswerSubset(from, to, dir, a, b)
    PROVE  Ledgered'
<1>1. LedgerBacked'
  BY LedgerKept DEF AnswerSubset, input, Ledgered
<1>2. todo' = todo /\ recon_ledger' = recon_ledger /\ pair' = pair /\ step = from /\ step' = to /\ mode' = mode
  BY DEF AnswerSubset, input
<1>3. mode = "certified" => proof'["ab"] # "off" /\ proof'["ba"] # "off"
  <2>1. CASE UNCHANGED proof
    BY <2>1 DEF Ledgered
  <2>2. ASSUME NEW cert \in Certified(SubsetQuery(a, b)),
               proof' = [proof EXCEPT ![dir] = IF cert = "no" THEN "none" ELSE cert]
        PROVE  mode = "certified" => proof'["ab"] # "off" /\ proof'["ba"] # "off"
    <3>1. mode = "certified" => cert # "off"
      BY <2>2 DEF Certified
    <3> QED  BY <2>2, <3>1 DEF Ledgered, Typed
  <2> QED  BY <2>1, <2>2 DEF AnswerSubset
<1> QED  BY <1>1, <1>2, <1>3 DEF Ledgered, PairSteps

LEMMA LedgeredNext == Typed /\ Ledgered /\ [Next]_allvars => Ledgered'
<1> SUFFICES ASSUME Typed, Ledgered, [Next]_allvars
             PROVE  Ledgered'
  OBVIOUS
<1>1. ASSUME Build PROVE Ledgered'
  <2>1. facts' = <<>> /\ recon_ledger' = [p \in Enumerated |-> IF Groundable(p) THEN "none" ELSE "Skipped"]
    BY <1>1 DEF Build, Ledgered
  <2>2. DOMAIN recon_ledger' = Enumerated /\ \A p \in Enumerated : recon_ledger'[p] \in {"none", "Skipped"}
    BY <2>1
  <2>3. LedgerBacked'
    BY <2>1, <2>2 DEF LedgerBacked, Backed, FactsOf, States
  <2> QED  BY <1>1, <2>1, <2>3 DEF Build, Ledgered, input, PairSteps
<1>2. ASSUME AskFrame PROVE Ledgered'
  BY <1>2, LedgerKept DEF AskFrame, input, Ledgered, PairSteps
<1>3. ASSUME AnswerFrame PROVE Ledgered'
  BY <1>3, LedgerKept DEF AnswerFrame, input, Ledgered, PairSteps
<1>4. ASSUME AskSubset("ab", "abAsked", pair[1], pair[2]) PROVE Ledgered'
  BY <1>4, LedgerKept DEF AskSubset, input, Ledgered, PairSteps
<1>5. ASSUME AnswerSubset("abAsked", "ba", "ab", pair[1], pair[2]) PROVE Ledgered'
  BY <1>5, AnswerLedgered DEF PairSteps
<1>6. ASSUME AskSubset("ba", "baAsked", pair[2], pair[1]) PROVE Ledgered'
  BY <1>6, LedgerKept DEF AskSubset, input, Ledgered, PairSteps
<1>7. ASSUME AnswerSubset("baAsked", "emit", "ba", pair[2], pair[1]) PROVE Ledgered'
  BY <1>7, AnswerLedgered DEF PairSteps
<1>8. ASSUME Emit PROVE Ledgered'
  <2>1. LedgerBacked'
    BY <1>8, LedgerAfterEmit
  <2>2. todo' = todo \ {pair} /\ recon_ledger' = [recon_ledger EXCEPT ![pair] = Outcome]
        /\ step' = "frame" /\ proof' = NoProof
    BY <1>8 DEF Emit
  <2>3. \A p \in todo' : recon_ledger'[p] = "none"
    BY <2>2 DEF Ledgered, Typed
  <2> QED  BY <2>1, <2>2, <2>3 DEF Ledgered, NoProof, PairSteps
<1>9. ASSUME Reconciled PROVE Ledgered'
  BY <1>9, LedgerKept DEF Reconciled, input, Ledgered, PairSteps
<1>10. ASSUME BinsByInterval PROVE Ledgered'
  BY <1>10, LedgerKept DEF BinsByInterval, vars, Ledgered
<1>11. ASSUME AskBins PROVE Ledgered'
  BY <1>11, LedgerKept DEF AskBins, recon, Ledgered, PairSteps
<1>12. ASSUME AnswerBins PROVE Ledgered'
  BY <1>12, LedgerKept DEF AnswerBins, recon, Ledgered, PairSteps
<1>13. ASSUME CoverageUnknown PROVE Ledgered'
  BY <1>13, LedgerKept DEF CoverageUnknown, recon, Ledgered, PairSteps
<1>14. ASSUME AskCoverage PROVE Ledgered'
  BY <1>14, LedgerKept DEF AskCoverage, recon, Ledgered, PairSteps
<1>15. ASSUME AnswerCoverage PROVE Ledgered'
  BY <1>15, LedgerKept DEF AnswerCoverage, recon, Ledgered, PairSteps
<1>16. ASSUME UNCHANGED allvars PROVE Ledgered'
  BY <1>16, LedgerKept DEF allvars, vars, binvars, Ledgered
<1> QED
  BY <1>1, <1>2, <1>3, <1>4, <1>5, <1>6, <1>7, <1>8, <1>9, <1>10, <1>11, <1>12, <1>13,
     <1>14, <1>15, <1>16 DEF Next, ReconNext
-----------------------------------------------------------------------------
(* The theorems. *)

LEMMA Invariant == Spec => [](Typed /\ Framed /\ Justified)
<1>1. Init => Typed /\ Framed /\ Justified
  BY TypedInit, FramedInit, JustifiedInit
<1>2. Typed /\ Framed /\ Justified /\ [Next]_allvars => (Typed /\ Framed /\ Justified)'
  BY TypedNext, FramedNext, JustifiedNext
<1> QED  BY <1>1, <1>2, PTL DEF Spec

\* TypeOK, of every variable: Engine::reconcile and Engine::bin_check keep
\* the session at one frame between queries and two during one.
THEOREM TypeCorrect == Spec => []TypeOK
<1>1. Typed /\ Framed => TypeOK
  <2> SUFFICES ASSUME Typed, Framed
               PROVE  TypeOK
    OBVIOUS
  <2>1. Len(stack) = IF step \in Asked THEN 2 ELSE 1
    BY DEF Framed
  <2> QED  BY <2>1 DEF Typed, TypeOK, Asked, Steps, PairSteps, Enumerated, FactRecords
<1> QED  BY <1>1, Invariant, PTL

\* A size fact Engine::reconcile asserts is true of every event, for every
\* pair of filter chains, every solver answer under --certify and every
\* failed query on the way.
THEOREM FactsAreSound == Spec => []FactsSound
<1>1. Justified => FactsSound
  BY DEF Justified
<1> QED  BY <1>1, Invariant, PTL

\* No query of prove_pred_implies, bins_disjoint or bin_coverage leaves
\* anything in the session: between queries it holds the axioms and the facts.
THEOREM BaseIsRestored == Spec => []OnlyBaseBetweenQueries
<1>1. Framed => OnlyBaseBetweenQueries
  BY DEF Framed, Asked, OnlyBaseBetweenQueries, BetweenQueries
<1> QED  BY <1>1, Invariant, PTL

\* What bin_check reports of a region's bins is true of every event, resting
\* as it may on facts derived earlier in the session.
THEOREM BinsAreSound == Spec => []BinsSound
<1>1. Justified => BinsSound
  BY DEF Justified
<1> QED  BY <1>1, Invariant, PTL

\* Each direction the reconciliation ledger states of a pair is a fact asserted
\* for the queries that follow or a SUB axiom, and there is no fact of a pair
\* that its row does not state (Engine::reconcile).
THEOREM LedgerIsBacked == Spec => []LedgerBacked
<1>1. Init => Typed /\ Ledgered
  BY TypedInit, LedgeredInit
<1>2. Typed /\ Ledgered /\ [Next]_allvars => (Typed /\ Ledgered)'
  BY TypedNext, LedgeredNext
<1>3. Ledgered => LedgerBacked
  BY DEF Ledgered
<1> QED  BY <1>1, <1>2, <1>3, PTL DEF Spec
=============================================================================
