------------------------------- MODULE BinChecks -------------------------------
(***************************************************************************)
(* The bin checks of the verdict engine (Engine::bin_check): within one    *)
(* region, which pairs of bins are proven disjoint, and do the bins cover  *)
(* the region?  They run last in the session Reconcile began, on top of    *)
(* the axioms and of whatever size facts it asserted.                      *)
(*                                                                         *)
(* Region and bins are read as sets of size vectors.                       *)
(***************************************************************************)
EXTENDS Reconcile

CONSTANT BinSets   \* the regions with bins the unit may hold

Cuts == [over : SUBSET Sizes, under : SUBSET Sizes, real : SUBSET Sizes]

ASSUME BinSetsAssumption ==
    /\ BinSets \subseteq [region : Cuts, bins : Seq(Cuts)]
    /\ \A set \in BinSets :
         /\ set.region.real \subseteq set.region.over
         /\ \A i \in DOMAIN set.bins : /\ set.bins[i].under \subseteq set.bins[i].real
                                       /\ set.bins[i].real \subseteq set.bins[i].over

VARIABLES
    set,        \* the region and its bins
    left,       \* the pairs of bins not yet looked at
    disjoint,   \* the pairs proven disjoint; the report gives their number
    coverage,   \* the report's coverage status
    gap_witness \* is there a point of the region shown that no bin is known to take?

binvars == <<set, left, disjoint, coverage, gap_witness>>
allvars == <<vars, binvars>>
recon == <<coll, subs, mode, todo, proof, facts, recon_ledger>>

Bins == DOMAIN set.bins
BinPairs == {p \in Bins \X Bins : p[1] < p[2]}
First(p) == \A q \in left : PairLeq(p, q)

Vectors(S) == {p \in Points : p.size \in S}
Region == Named("cut", 0, Vectors(set.region.over))
BothBins(p) == {Region, Named("QBINI", 0, Vectors(set.bins[p[1]].over)),
                        Named("QBINJ", 0, Vectors(set.bins[p[2]].over))}

\* Mutant of NoBin: the bins are dropped by their over-projections.
NoBinOver == {Region} \cup
    {Named("QBINNEG", k, Vectors(Sizes \ set.bins[k].over)) : k \in Bins}

NoBin == {Region} \cup
    {Named("QBINNEG", k, Vectors(Sizes \ set.bins[k].under)) : k \in Bins}

Init ==
    /\ ReconInit
    /\ set \in BinSets
    /\ left = BinPairs
    /\ disjoint = {}
    /\ coverage = "none"
    /\ gap_witness = "none"

\* Without a solver only the interval layer looks at a pair: it refutes what
\* the two bins' own bounds refute, or less, and knows no fact or axiom.
BinsByInterval ==
    /\ step = "bins" /\ mode = "none"
    /\ \E p \in left :
         /\ First(p)
         /\ \/ Meet(BothBins(p)) = {} /\ disjoint' = disjoint \cup {p}
            \/ UNCHANGED disjoint
         /\ left' = left \ {p}
    /\ UNCHANGED <<vars, set, coverage, gap_witness>>

AskBins ==
    /\ step = "bins" /\ mode # "none"
    /\ \E p \in left : /\ First(p)
                       /\ pair' = p
                       /\ Push(BothBins(p))
    /\ step' = "binsAsked"
    /\ UNCHANGED <<recon, binvars>>

AnswerBins ==
    /\ step = "binsAsked"
    /\ \E answer \in Answers :
         \/ /\ answer = "unsat"
            /\ \E cert \in Certified(BothBins(pair)) :
                 disjoint' = IF cert = "no" THEN disjoint ELSE disjoint \cup {pair}
         \/ answer # "unsat" /\ UNCHANGED disjoint
    /\ Pop
    /\ left' = left \ {pair}
    /\ pair' = NoPair
    /\ step' = "bins"
    /\ UNCHANGED <<recon, set, coverage, gap_witness>>
-----------------------------------------------------------------------------
CoverageUnknown ==
    /\ step = "bins" /\ left = {} /\ mode = "none"
    /\ coverage' = "Unknown"
    /\ step' = "done"
    /\ UNCHANGED <<recon, pair, stack, set, left, disjoint, gap_witness>>

AskCoverage ==
    /\ step = "bins" /\ left = {} /\ mode # "none"
    /\ Push(NoBin)
    /\ step' = "coverAsked"
    /\ UNCHANGED <<recon, pair, binvars>>

\* The core and the model are fetched before the frame is popped.
AnswerCoverage ==
    /\ step = "coverAsked"
    /\ \E answer \in Answers :
         \/ /\ answer = "unsat"
            /\ \E cert \in Certified(NoBin) :
                 coverage' = IF cert = "no" THEN "NotProven" ELSE "Proven"
            /\ UNCHANGED gap_witness
         \/ /\ answer = "sat"
            /\ coverage' = "NotProven"
            /\ gap_witness' \in {"none", "shown"}
         \/ /\ answer = "unknown"
            /\ coverage' = "Unknown"
            /\ UNCHANGED gap_witness
    /\ Pop
    /\ step' = "done"
    /\ UNCHANGED <<recon, pair, set, left, disjoint>>

Next ==
    \/ ReconNext /\ UNCHANGED binvars
    \/ BinsByInterval \/ AskBins \/ AnswerBins
    \/ CoverageUnknown \/ AskCoverage \/ AnswerCoverage

Spec == Init /\ [][Next]_allvars
-----------------------------------------------------------------------------
(* Properties. *)

\* The type of every variable.
TypeOK ==
    /\ coll \in [Colls -> Chains]
    /\ subs \in SUBSET (Colls \X Colls)
    /\ mode \in Modes
    /\ step \in {"build", "frame", "frameAsked", "ab", "abAsked", "ba", "baAsked", "emit",
                 "bins", "binsAsked", "coverAsked", "done"}
    /\ todo \in SUBSET Enumerated
    /\ pair \in (Colls \X Colls) \cup BinPairs \cup {NoPair}
    /\ Len(stack) = IF step \in {"frameAsked", "abAsked", "baAsked", "binsAsked", "coverAsked"}
                    THEN 2 ELSE 1
    /\ proof \in [{"ab", "ba"} -> {"none", "off", "yes"}]
    /\ facts \in Seq([sub : Colls, sup : Colls, id : {"XSUB", "XEQ"}])
    /\ DOMAIN recon_ledger = Enumerated
    /\ set \in BinSets
    /\ left \subseteq BinPairs /\ disjoint \subseteq BinPairs \ left
    /\ coverage \in {"none", "Proven", "NotProven", "Unknown"}
    /\ gap_witness \in {"none", "shown"}

\* The size vector of an event.
Vector(ev) == [c \in Colls |-> SizeIn(ev, c)]
Selected == {ev \in Events : Vector(ev) \in set.region.real}

\* No event the region selects falls in two bins counted as disjoint, and none
\* falls in no bin when coverage is PROVEN, although both claims may rest on
\* the size facts reconciliation derived earlier in the session.
BinsSound ==
    /\ \A p \in disjoint : \A ev \in Selected :
         ~ (/\ Vector(ev) \in set.bins[p[1]].real
            /\ Vector(ev) \in set.bins[p[2]].real)
    /\ coverage = "Proven" => \A ev \in Selected :
         \E i \in Bins : Vector(ev) \in set.bins[i].real
=============================================================================
