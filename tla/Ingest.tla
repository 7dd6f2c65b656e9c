------------------------------- MODULE Ingest -------------------------------
(***************************************************************************)
(* Event ingest (adl-ingest: profile.rs, reader.rs): the columns of a ROOT    *)
(* tree, under a profile, become lines of event data.  A tree that cannot be  *)
(* mapped faithfully is refused; what is not mapped is reported.              *)
(*                                                                           *)
(* A branch is <<family, leaf>>: <<"Jet", "PT">> is Jet.PT or Jet_PT,         *)
(* <<"Jet", Count>> its counter, <<"run", "">> a bare branch.  It holds the     *)
(* type its items have on disk and their values, the whole file flattened; a   *)
(* float may be NonFinite.  Reading a tree is external (oxyroot).             *)
(***************************************************************************)
EXTENDS EventLoad

Count == "#"
NonFinite == <<0, 0>>

(***************************************************************************)
(* Profiles (profile.rs).                                                   *)
(***************************************************************************)
Leaf(leaf, prop, kind) == [leaf |-> leaf, prop |-> prop, kind |-> kind, bit |-> 0]
Kin(mass) == <<Leaf("PT", "pt", "f32"), Leaf("Eta", "eta", "f32"), Leaf("Phi", "phi", "f32"), Leaf(mass, "m", "f32")>>
Collection(branch, leaves, constants) == [branch |-> branch, leaves |-> leaves, constants |-> constants]

JetLike(branch) == Collection(branch, Kin("Mass") \o <<Leaf("BTag", "btag", "tagbit"), Leaf("TauTag", "tautag", "tagbit")>>, <<>>)
Lepton(branch, mass) == Collection(branch, SubSeq(Kin(""), 1, 3) \o <<Leaf("Charge", "q", "i32")>>, [c \in {"m"} |-> mass])

Delphes ==
    [tree |-> "Delphes", flat |-> FALSE,
     collections |-> <<JetLike("Jet"), JetLike("FatJet"), Lepton("Electron", Int2Rat(0)), Lepton("Muon", Int2Rat(1)),
                       Collection("Photon", SubSeq(Kin(""), 1, 3) \o <<Leaf("E", "e", "f32")>>, <<>>)>>,
     met |-> [branch |-> "MissingET", pt |-> "MET", phi |-> "Phi", dropped |-> {"Eta"}],
     scalars |-> <<[branch |-> "ScalarHT", leaf |-> "HT", key |-> "HT"]>>,
     weight |-> <<"Event", "Weight">>, lhe |-> {<<"Weight", "Weight">>},
     knownDrop |-> {"Event", "Weight", "GenJet", "GenMissingET"}]

Discriminants(leaves) == [i \in DOMAIN leaves |-> Leaf(leaves[i], leaves[i], "f32")]
NanoLepton == Kin("Mass") \o <<Leaf("Charge", "q", "i32")>>
NanoAOD ==
    [tree |-> "Events", flat |-> TRUE,
     collections |-> <<Collection("Jet", Kin("Mass") \o Discriminants(<<"btagDeepB", "btagDeepFlavB", "btagCSVV2">>)
                                         \o <<Leaf("jetId", "jetId", "i32"), Leaf("puId", "puId", "i32")>>, <<>>),
                       Collection("FatJet", Kin("Mass") \o Discriminants(<<"btagDeepB", "btagCSVV2">>), <<>>),
                       Collection("Electron", NanoLepton, <<>>),
                       Collection("Muon", NanoLepton \o <<Leaf("tightId", "tightId", "bool"), Leaf("looseId", "looseId", "bool"),
                                                          Leaf("pfIsoId", "pfIsoId", "i32")>>, <<>>),
                       Collection("Tau", NanoLepton, <<>>), Collection("Photon", Kin("Mass"), <<>>)>>,
     met |-> [branch |-> "MET", pt |-> "PT", phi |-> "Phi", dropped |-> {}],
     scalars |-> <<>>, weight |-> <<"genWeight", "">>, lhe |-> {}, knownDrop |-> {}]

Profiles == [delphes |-> Delphes, nanoaod |-> NanoAOD]      \* by_name

\* The item types a kind of leaf may have on disk, and a flat scalar.
TypesOf(kind) == CASE kind = "f32" -> {"float[]", "double[]"}
                   [] kind = "i32" -> {"char[]", "int8_t[]", "uint8_t[]", "int16_t[]", "uint16_t[]", "int32_t[]", "uint32_t[]"}
                   [] kind = "bool" -> {"bool[]"}
                   [] kind = "tagbit" -> {"uint32_t[]"}
                   [] kind = "count" -> {"int32_t", "uint32_t"}
                   [] kind = "flat" -> {"float", "double"}

(***************************************************************************)
(* Reading a branch.  A result carries a value or the error that refuses     *)
(* the file; the first error ends the reading.                               *)
(***************************************************************************)
Done(v) == [ok |-> TRUE, v |-> v]
Refused(kind, branch) == [ok |-> FALSE, error |-> kind, branch |-> branch]
Require(cond, kind, branch, then) == IF cond THEN then ELSE Refused(kind, branch)
Then(r, Next(_)) == IF r.ok THEN Next(r.v) ELSE r

\* Every result in turn: all the values, or the first refusal.
Each(rs) == LET bad == SelectSeq(rs, LAMBDA r : ~r.ok)
            IN  IF bad = <<>> THEN Done([i \in DOMAIN rs |-> rs[i].v]) ELSE Head(bad)

Column(t, b, kind) == Require(b \in DOMAIN t.branches, "MissingBranch", b,
                      Require(t.branches[b].type \in TypesOf(kind), "TypeMismatch", b, Done(t.branches[b].vals)))

\* read_counter: one non-negative count per entry.
Counter(t, family) ==
    LET b == <<family, Count>>
    IN  Then(Column(t, b, "count"), LAMBDA vals :
          Require(Len(vals) = t.entries, "EntryCount", b,
          Require(\A i \in DOMAIN vals : vals[i][1] >= 0, "NegativeCount", b, Done([i \in DOMAIN vals |-> vals[i][1]]))))

Total(counts) == FoldLeft(LAMBDA n, c : n + c, 0, counts)
Finite(vals, b) == Require(\A i \in DOMAIN vals : vals[i] # NonFinite, "NonFinite", b, Done(vals))

\* Mutant: a leaf may be longer than its counter says.
LeafFlatAtLeast(t, b, kind, total) ==
    Then(Column(t, b, kind), LAMBDA vals : Require(Len(vals) >= total, "LengthMismatch", b, Finite(vals, b)))

\* read_leaf_flat and the finite check of its callers: the counter is authoritative.
LeafFlat(t, b, kind, total) ==
    Then(Column(t, b, kind), LAMBDA vals : Require(Len(vals) = total, "LengthMismatch", b, Finite(vals, b)))

\* read_scalar_flat: one value per entry, without a counter.
ScalarFlat(t, b) ==
    Then(Column(t, b, "flat"), LAMBDA vals : Require(Len(vals) = t.entries, "EntryCount", b, Finite(vals, b)))

Bit(v, bit) == Int2Rat((v[1] \div 2^bit) % 2)
LeafValue(leaf, v) == IF leaf.kind = "tagbit" THEN Bit(v, leaf.bit) ELSE v

(***************************************************************************)
(* What a profile maps.                                                     *)
(***************************************************************************)
\* load_collection: absent when the tree has neither its counter nor a mapped leaf.
InTree(t, spec) == \/ <<spec.branch, Count>> \in DOMAIN t.branches
                   \/ \E i \in DOMAIN spec.leaves : <<spec.branch, spec.leaves[i].leaf>> \in DOMAIN t.branches

LoadCollection(t, spec) ==
    IF ~InTree(t, spec) THEN Done([spec |-> spec, there |-> FALSE])
    ELSE Then(Counter(t, spec.branch), LAMBDA counts :
           LET leaf(l) == LeafFlat(t, <<spec.branch, l.leaf>>, l.kind, Total(counts))
           IN  Then(Each([i \in DOMAIN spec.leaves |-> leaf(spec.leaves[i])]), LAMBDA cols :
                 Done([spec |-> spec, there |-> TRUE, counts |-> counts, cols |-> cols])))

\* load_one_element and load_one_element_pair: per entry <<the first element's values>>,
\* or <<>> where it has none.
OneElement(t, family, leaves) ==
    Then(Counter(t, family), LAMBDA counts :
    Then(Each([i \in DOMAIN leaves |-> LeafFlat(t, <<family, leaves[i]>>, "f32", Total(counts))]), LAMBDA cols :
      Done([n \in DOMAIN counts |->
              IF counts[n] = 0 THEN <<>>
              ELSE << [i \in DOMAIN cols |-> cols[i][Total(SubSeq(counts, 1, n - 1)) + 1]] >>])))

\* load_met, load_scalar, load_weight: a value per entry, <<>> where there is none.
\* Half a flat MET is no MET.
PerEvent(t, p, family, leaves) ==
    LET bs == [i \in DOMAIN leaves |-> <<family, leaves[i]>>]
        there == {i \in DOMAIN bs : bs[i] \in DOMAIN t.branches}
        none == Done([n \in 1..t.entries |-> <<>>])
    IN  IF there = {} THEN none
        ELSE IF ~p.flat THEN OneElement(t, family, leaves)
        ELSE Then(Each([i \in DOMAIN bs |-> IF i \in there THEN ScalarFlat(t, bs[i]) ELSE Done(<<>>)]), LAMBDA cols :
               IF there # DOMAIN bs THEN none
               ELSE Done([n \in 1..t.entries |-> << [i \in DOMAIN cols |-> cols[i][n]] >>]))

\* LHE multiweights are counted.
LheWeights(t, p) == LET bs == SetToSeq(p.lhe \cap DOMAIN t.branches) IN Each([i \in DOMAIN bs |-> Counter(t, bs[i][1])])

\* validate_pt_descending, on what was loaded.
Slice(vals, counts, n) == LET before == Total(SubSeq(counts, 1, n - 1)) IN SubSeq(vals, before + 1, before + counts[n])
PtOf(lc) == lc.cols[CHOOSE i \in DOMAIN lc.cols : lc.spec.leaves[i].prop = "pt"]
Ordered(lc) == \A n \in DOMAIN lc.counts :
                  LET pts == Slice(PtOf(lc), lc.counts, n) IN \A i \in 2..Len(pts) : RatLeq(pts[i], pts[i - 1])

(***************************************************************************)
(* The lines (emit_lines) and the diagnostics (classify_rest and others).    *)
(***************************************************************************)
ObjectAt(lc, at) ==
    JObj([i \in {lc.spec.leaves[k].prop : k \in DOMAIN lc.cols} |->
            LET k == CHOOSE k \in DOMAIN lc.cols : lc.spec.leaves[k].prop = i
            IN  JNum(LeafValue(lc.spec.leaves[k], lc.cols[k][at]))]
         @@ [c \in DOMAIN lc.spec.constants |-> JNum(lc.spec.constants[c])])

CollectionField(lc, n) ==
    IF ~lc.there THEN <<>>
    ELSE LET before == Total(SubSeq(lc.counts, 1, n - 1))
         IN  << <<lc.spec.branch, JList([i \in 1..lc.counts[n] |-> ObjectAt(lc, before + i)])>> >>

Field(key, vs, V(_)) == IF vs = <<>> THEN <<>> ELSE << <<key, V(vs[1])>> >>

LineAt(p, loaded, met, scalars, weight, n) ==
    FlattenSeq([i \in DOMAIN loaded |-> CollectionField(loaded[i], n)])
    \o Field("MET", met[n], LAMBDA v : JObj([pt |-> JNum(v[1]), phi |-> JNum(v[2])]))
    \o FlattenSeq([i \in DOMAIN scalars |-> Field(p.scalars[i].key, scalars[i][n], LAMBDA v : JNum(v[1]))])
    \o Field("weight", weight[n], LAMBDA v : JNum(v[1]))

Families(p) == {p.collections[i].branch : i \in DOMAIN p.collections} \cup {p.met.branch}
               \cup {p.scalars[i].branch : i \in DOMAIN p.scalars}
MappedLeaves(p) ==
    UNION {{<<p.collections[i].branch, p.collections[i].leaves[k].leaf>> : k \in DOMAIN p.collections[i].leaves} :
             i \in DOMAIN p.collections}
    \cup {<<p.met.branch, l>> : l \in {p.met.pt, p.met.phi} \cup p.met.dropped}
    \cup {<<p.scalars[i].branch, p.scalars[i].leaf>> : i \in DOMAIN p.scalars}
    \cup (IF p.flat THEN {p.weight} ELSE {})

\* The branches reported as unmapped, or of an unknown family; bookkeeping and known
\* drops are silent.
Reported(t, p) ==
    {b \in DOMAIN t.branches \ MappedLeaves(p) :
        /\ b[2] \notin {"fUniqueID", "fBits"}
        /\ b[2] = Count => b[1] \notin Families(p) \cup p.knownDrop
        /\ b[1] \in p.knownDrop \ Families(p) => b[2] = ""}

IgnoredBits(loaded) ==
    {<<lc.spec.branch, k>> : <<lc, k>> \in {x \in ToSet(loaded) \X (1..9) :
        /\ x[1].there /\ x[2] \in DOMAIN x[1].cols /\ x[1].spec.leaves[x[2]].kind = "tagbit"
        /\ \E i \in DOMAIN x[1].cols[x[2]] : x[1].cols[x[2]][i][1] \notin {0, 2^x[1].spec.leaves[x[2]].bit}}}

\* Entries of a one-element branch with another number of elements.
Odd(t, family) == Cardinality({n \in 1..t.entries : t.branches[<<family, Count>>].vals[n][1] # 1})
OddOnes(t, p) ==
    IF p.flat THEN {}
    ELSE {b[1] : b \in {x \in {<<p.met.branch, p.met.pt>>, p.weight} \cup {<<p.scalars[i].branch, p.scalars[i].leaf>> : i \in DOMAIN p.scalars} :
                          x \in DOMAIN t.branches /\ Odd(t, x[1]) > 0}}

\* read_root and read_tree: the lines and the diagnostics, or the first refusal.
ReadTree(t, p) ==
    Require(t.name = p.tree, "Tree", <<t.name, "">>,
    Then(Each([i \in DOMAIN p.collections |-> LoadCollection(t, p.collections[i])]), LAMBDA loaded :
    Then(PerEvent(t, p, p.met.branch, <<p.met.pt, p.met.phi>>), LAMBDA met :
    Then(Each([i \in DOMAIN p.scalars |-> PerEvent(t, p, p.scalars[i].branch, <<p.scalars[i].leaf>>)]), LAMBDA scalars :
    Then(PerEvent(t, p, p.weight[1], <<p.weight[2]>>), LAMBDA weight :
    Then(LheWeights(t, p), LAMBDA lhe :
    Require(\A i \in DOMAIN loaded : loaded[i].there => Ordered(loaded[i]), "NotPtDescending", <<"", "">>,
      Done([lines |-> [n \in 1..t.entries |-> LineAt(p, loaded, met, scalars, weight, n)],
            diags |-> [reported |-> Reported(t, p), bits |-> IgnoredBits(loaded), odd |-> OddOnes(t, p),
                       lhe |-> {i \in DOMAIN lhe : Total(lhe[i]) > 0},
                       absent |-> {i \in DOMAIN loaded : ~loaded[i].there}]]))))))))
=============================================================================
