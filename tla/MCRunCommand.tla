---------------------------- MODULE MCRunCommand ----------------------------
(***************************************************************************)
(* Instances of RunCommand: a program with weights, bins and histograms of    *)
(* every form, one whose output names collide, one that cannot be evaluated;  *)
(* a few event files and command lines.                                       *)
(***************************************************************************)
EXTENDS RunCommand, TLC

N(n, d) == <<n, d>>
Lit(n) == [n |-> "num", v |-> N(n, 1)]
Q(q) == [n |-> "qty", q |-> q]
Jets == [c |-> "base", name |-> "jets"]
JetPt == Q([q |-> "elem", coll |-> Jets, index |-> 0, prop |-> "pt"])
HT == Q([q |-> "scalar", name |-> "HT"])
NJets == Q([q |-> "size", coll |-> Jets])
Compare(l, op, r) == [n |-> "cmp", op |-> op, l |-> l, r |-> r]

Select(n) == [s |-> "select", n |-> n]
Reject(n) == [s |-> "reject", n |-> n]
Inherit(i) == [s |-> "inherit", region |-> i]
Weight(v) == [s |-> "nonmember", known |-> TRUE, kind |-> "weight", numeric |-> v # 0, value |-> v]
Bins(var, edges) == [s |-> "bin", var |-> var, edges |-> edges]
BinIf(n) == [s |-> "bincond", cond |-> n]
Histo(name, fold, form, axes, exprs) ==
  [s |-> "nonmember", known |-> TRUE, kind |-> "histo",
   histo |-> [name |-> name, fold |-> fold, checked |-> TRUE, form |-> form, axes |-> axes, exprs |-> exprs]]
Unknown == [s |-> "nonmember", known |-> FALSE, kind |-> "sort"]
Uniform(n, lo, hi) == [n |-> n, lo |-> N(lo, 1), hi |-> N(hi, 1)]
Edges(es) == [edges |-> [j \in DOMAIN es |-> N(es[j], 1)]]

\* Weights between fills, bins of both kinds, histograms of every form, a template
\* block referenced twice, inheritance.
Full ==
  [errors |-> FALSE, lists |-> {2}, names |-> <<"SR", "plots", "CR">>, regions |->
   << << Select(Compare(NJets, "ge", Lit(1))), Histo("njet", "njet", "h1", <<Uniform(2, 0, 2)>>, <<NJets>>), Weight(2),
         Reject(Compare(HT, "lt", Lit(1))), Inherit(2), Bins(HT, <<N(1, 1), N(3, 1)>>), Weight(3), Inherit(2),
         BinIf(Compare(JetPt, "gt", Lit(2))), Histo("NJET", "njet", "h1", <<Uniform(1, 0, 9)>>, <<NJets>>) >>,
      << Histo("pt", "pt", "h1var", <<Edges(<<1, 2, 4>>)>>, <<JetPt>>),
         Histo("plane", "plane", "h2", <<Uniform(2, 0, 4), Uniform(1, 0, 2)>>, <<JetPt, HT>>),
         Histo("empty", "empty", "h1", <<Uniform(2, 1, 1)>>, <<HT>>) >>,
      << Inherit(1), Select(Compare(JetPt, "gt", Lit(1))), Weight(0), Histo("pt", "pt", "h1", <<Uniform(3, 0, 3)>>, <<HT>>),
         Bins(JetPt, <<N(2, 1), N(3, 1)>>) >> >>]

\* One stem from two histograms, a region declared twice, one named as the provenance.
Colliding ==
  [errors |-> FALSE, lists |-> {}, names |-> <<"S", "S_a", "S", "smash2_provenance">>, regions |->
   << << Histo("a_b", "a_b", "h1", <<Uniform(1, 0, 4)>>, <<NJets>>), Select(Compare(NJets, "ge", Lit(2))) >>,
      << Histo("b", "b", "h2", <<Uniform(1, 0, 4), Uniform(1, 0, 4)>>, <<NJets, NJets>>) >>,
      << Select(Compare(HT, "gt", Lit(1))), Histo("a_b", "a_b", "h1", <<Uniform(1, 0, 4)>>, <<HT>>) >>,
      << Histo("c", "c", "h1", <<Uniform(1, 0, 4)>>, <<JetPt>>) >> >>]

\* A template block that cuts: its reference stops events without being a step.
CutList ==
  [errors |-> FALSE, lists |-> {2}, names |-> <<"SR", "plots">>, regions |->
   << << Select(Compare(NJets, "ge", Lit(1))), Weight(2), Inherit(2), Reject(Compare(HT, "gt", Lit(2))),
         Histo("njet", "njet", "h1", <<Uniform(2, 0, 2)>>, <<NJets>>) >>,
      << Select(Compare(JetPt, "gt", Lit(1))), Histo("pt", "pt", "h1", <<Uniform(2, 0, 4)>>, <<JetPt>>) >> >>]

\* No cutflow.
Opaque == [errors |-> FALSE, lists |-> {}, names |-> <<"SR">>, regions |->
           << << Unknown, Histo("h", "h", "h1", <<Uniform(1, 0, 4)>>, <<HT>>) >> >>]
Broken == [NoProgram EXCEPT !.errors = TRUE]

MCPrograms == [full |-> Full, colliding |-> Colliding, cutlist |-> CutList, opaque |-> Opaque, broken |-> Broken]

Line(adl, profile, dir, csv, root, flat) ==
  [adl |-> adl, profile |-> profile, json |-> dir, dir |-> dir, csv |-> csv, svg |-> csv, root |-> root, flat |-> flat]
MCInputs ==
  { Line("full", "none", TRUE, TRUE, TRUE, FALSE), Line("full", "delphes", TRUE, FALSE, FALSE, FALSE),
    Line("full", "none", FALSE, FALSE, FALSE, FALSE), Line("opaque", "nanoaod", TRUE, FALSE, FALSE, FALSE),
    Line("colliding", "none", TRUE, FALSE, TRUE, TRUE),
    Line("colliding", "delphes", TRUE, FALSE, TRUE, FALSE), Line("opaque", "none", TRUE, FALSE, FALSE, FALSE),
    Line("cutlist", "none", TRUE, TRUE, FALSE, FALSE), Line("broken", "none", TRUE, FALSE, FALSE, FALSE), Line("absent", "none", TRUE, FALSE, FALSE, FALSE),
    Line("full", "unknown", TRUE, FALSE, FALSE, FALSE) }

\* Two histograms of one stem, a file for each, and no cutflow.
Misleading ==
  [errors |-> FALSE, lists |-> {}, names |-> <<"S", "S_a">>, regions |->
   << << Unknown, Histo("a_b", "a_b", "h1", <<Uniform(1, 0, 4)>>, <<NJets>>) >>,
      << Unknown, Histo("b", "b", "h1", <<Uniform(2, 0, 4)>>, <<JetPt>>) >> >>]
MCMisleading == [misleading |-> Misleading]
MCMisleadingInputs == {Line("misleading", "nanoaod", TRUE, TRUE, FALSE, FALSE)}

(***************************************************************************)
(* Event files.  An entry has jets <<pt, tag mask>>, and the values of its    *)
(* one-element branches.                                                     *)
(***************************************************************************)
Entry(jets, met, ht, weight) == [jets |-> jets, met |-> met, ht |-> ht, weight |-> weight]
a == Entry(<< <<4, 1>>, <<1, 0>> >>, <<2>>, <<3>>, <<1>>)
b == Entry(<< <<2, 3>> >>, <<>>, <<1>>, <<2>>)
c == Entry(<<>>, <<1, 5>>, <<2>>, <<1>>)
d == Entry(<< <<1, 0>> >>, <<3>>, <<>>, <<3>>)
e == Entry(<< <<3, 0>> >>, <<0>>, <<0, 4>>, <<-1>>)

Fields(ps) == JObj([p \in {ps[i][1] : i \in DOMAIN ps} |-> JNum(N(ps[CHOOSE i \in DOMAIN ps : ps[i][1] = p][2], 1))])
JetFields(j) == Fields(<< <<"pT", j[1]>>, <<"eta", 0>>, <<"phi", 0>>, <<"m", 0>> >>)
First(key, vs) == IF vs = <<>> THEN <<>> ELSE << <<key, JNum(N(vs[1], 1))>> >>
Record(x) == << <<"JET", JList([i \in DOMAIN x.jets |-> JetFields(x.jets[i])])>> >> \o First("MET", x.met) \o First("ht", x.ht)
             \o (IF x.weight = <<1>> THEN <<>> ELSE First("Weight", x.weight))
Text1(rec) == [is |-> "text", rec |-> rec]
Jsonl(ls) == [form |-> "jsonl", lines |-> ls]
Good(xs) == [i \in DOMAIN xs |-> Text1(Record(xs[i]))]
Blank == [is |-> "blank"]
IoErr == [is |-> "ioerr"]

Refusable ==
  { << <<"Jet", JList(<<Fields(<< <<"pt", 1>> >>), Fields(<< <<"eta", 0>> >>), Fields(<< <<"pt", 4>> >>)>>)>> >>,
    << <<"Jet", JList(<<Fields(<< <<"PT", 1>>, <<"pt", 1>> >>)>>)>> >>,
    << <<"JET", JList(<<>>)>>, <<"Jet", JList(<<Fields(<< <<"btag", 0>> >>)>>)>> >>,
    << <<"Jet", JList(<<Fields(<< <<"btag", 2>> >>)>>)>> >>,
    << <<"HT", JNum(N(-1, 1))>> >>,
    << <<"MET", JNum(N(1, 1))>>, <<"MissingET", JObj(<<>>)>> >>,
    << <<"Jet", JOther>> >> }
Acceptable ==
  { << <<"Jet", JList(<<Fields(<< <<"pt", 4>> >>), Fields(<< <<"btag", 1>>, <<"eta", 0>> >>), Fields(<< <<"pt", 4>> >>)>>)>>,
       <<"MET", JObj(<<>>)>>, <<"MissingET", Fields(<< <<"pt", 2>>, <<"phi", 1>> >>)>>,
       <<"triggers", Fields(<< <<"mu", 1>> >>)>>, <<"nvtx", JNum(N(-3, 1))>> >> }

Flat(xs, P(_)) == FlattenSeq([n \in DOMAIN xs |-> [i \in DOMAIN P(xs[n]) |-> N(P(xs[n])[i], 1)]])
Column1(type, vals) == [type |-> type, vals |-> vals]
Zeros(xs) == Column1("float[]", Flat(xs, LAMBDA x : [i \in DOMAIN x.jets |-> 0]))
Counts(xs, P(_)) == Column1("int32_t", [n \in DOMAIN xs |-> N(Len(P(xs[n])), 1)])
Pts(xs) == Column1("float[]", Flat(xs, LAMBDA x : [i \in DOMAIN x.jets |-> x.jets[i][1]]))

DelphesTree(xs) ==
  [name |-> "Delphes", entries |-> Len(xs), branches |->
     (<<"Jet", "#">> :> Counts(xs, LAMBDA x : x.jets)) @@ (<<"Jet", "PT">> :> Pts(xs)) @@ (<<"Jet", "Eta">> :> Zeros(xs))
     @@ (<<"Jet", "Phi">> :> Zeros(xs)) @@ (<<"Jet", "Mass">> :> Zeros(xs))
     @@ (<<"Jet", "BTag">> :> Column1("uint32_t[]", Flat(xs, LAMBDA x : [i \in DOMAIN x.jets |-> x.jets[i][2]])))
     @@ (<<"Jet", "TauTag">> :> Column1("uint32_t[]", Zeros(xs).vals)) @@ (<<"Jet", "T">> :> Zeros(xs)) @@ (<<"Jet", "fBits">> :> Zeros(xs))
     @@ (<<"MissingET", "#">> :> Counts(xs, LAMBDA x : x.met)) @@ (<<"MissingET", "MET">> :> Column1("float[]", Flat(xs, LAMBDA x : x.met)))
     @@ (<<"MissingET", "Phi">> :> Column1("double[]", Flat(xs, LAMBDA x : x.met)))
     @@ (<<"ScalarHT", "#">> :> Counts(xs, LAMBDA x : x.ht)) @@ (<<"ScalarHT", "HT">> :> Column1("float[]", Flat(xs, LAMBDA x : x.ht)))
     @@ (<<"Event", "#">> :> Counts(xs, LAMBDA x : x.weight)) @@ (<<"Event", "Weight">> :> Column1("float[]", Flat(xs, LAMBDA x : x.weight)))
     @@ (<<"Track", "#">> :> Counts(xs, LAMBDA x : <<>>)) @@ (<<"Weight", "#">> :> Counts(xs, LAMBDA x : <<1>>))
     @@ (<<"Weight", "Weight">> :> Column1("float[]", Flat(xs, LAMBDA x : <<7>>)))]

NanoJet == <<"PT", "Eta", "Phi", "Mass", "btagDeepB", "btagDeepFlavB", "btagCSVV2", "jetId", "puId">>
NanoTree(xs) ==
  [name |-> "Events", entries |-> Len(xs), branches |->
     [q \in {<<"Jet", NanoJet[i]>> : i \in DOMAIN NanoJet} |->
        IF q[2] = "PT" THEN Pts(xs) ELSE IF q[2] \in {"jetId", "puId"} THEN Column1("uint8_t[]", Zeros(xs).vals) ELSE Zeros(xs)]
     @@ (<<"Jet", "#">> :> Counts(xs, LAMBDA x : x.jets)) @@ (<<"MET", "PT">> :> Column1("float", [n \in DOMAIN xs |-> N(n, 1)]))
     @@ (<<"MET", "Phi">> :> Column1("float", [n \in DOMAIN xs |-> N(0, 1)]))
     @@ (<<"genWeight", "">> :> Column1("double", [n \in DOMAIN xs |-> N(xs[n].weight[1], 1)]))
     @@ (<<"run", "">> :> Column1("uint32_t", [n \in DOMAIN xs |-> N(1, 1)]))]

\* What these files say.
Tagged(j) == [pt |-> N(j[1], 1), eta |-> N(0, 1), phi |-> N(0, 1), mass |-> N(0, 1), btag |-> N(j[2] % 2, 1), tautag |-> N(0, 1)]
Said(x) == [weight |-> x.weight[1], colls |-> [k \in {"jets"} |-> [i \in DOMAIN x.jets |-> Tagged(x.jets[i])]],
            met |-> IF x.met = <<>> THEN <<>> ELSE [pt |-> N(x.met[1], 1), phi |-> N(x.met[1], 1)],
            scalars |-> IF x.ht = <<>> THEN <<>> ELSE [k \in {"HT"} |-> N(x.ht[1], 1)], triggers |-> <<>>]
NanoSaid(x, n) == [weight |-> x.weight[1],
                   colls |-> [k \in {"jets"} |-> [i \in DOMAIN x.jets |->
                                [p \in {"pt", "eta", "phi", "mass", "btagDeepB", "btagDeepFlavB", "btagCSVV2", "jetId", "puId"} |->
                                   IF p = "pt" THEN N(x.jets[i][1], 1) ELSE N(0, 1)]]],
                   met |-> [pt |-> N(n, 1), phi |-> N(0, 1)], scalars |-> <<>>, triggers |-> <<>>]

Root(tree, tells) == [form |-> "root", tree |-> tree, tells |-> tells]
DelphesFile(xs) == Root(DelphesTree(xs), <<[n \in DOMAIN xs |-> Said(xs[n])]>>)
NanoFile(xs) == Root(NanoTree(xs), <<[n \in DOMAIN xs |-> NanoSaid(xs[n], n)]>>)
HalfMet(xs) == LET t == NanoTree(xs)
               IN  Root([t EXCEPT !.branches = [q \in DOMAIN @ \ {<<"MET", "Phi">>} |-> @[q]]],
                        <<[n \in DOMAIN xs |-> [NanoSaid(xs[n], n) EXCEPT !.met = <<>>]]>>)

\* Files that cannot be mapped.
Broken1 ==
  LET t == DelphesTree(<<a, c, d>>)
      with(q, vals) == [t EXCEPT !.branches[q].vals = vals]
      jet == <<"Jet", "PT">>
  IN  { with(jet, <<N(4, 1), N(1, 1)>>), with(jet, <<N(4, 1), N(1, 1), N(1, 1), N(1, 1)>>), with(jet, <<N(1, 1), N(4, 1), N(1, 1)>>),
        with(jet, <<N(4, 1), <<0, 0>>, N(1, 1)>>), with(<<"Jet", "#">>, <<N(2, 1), N(2, 1), N(-1, 1)>>),
        with(<<"Jet", "#">>, <<N(2, 1), N(1, 1)>>), [t EXCEPT !.branches[<<"Jet", "BTag">>].type = "int32_t[]"],
        [t EXCEPT !.branches = [q \in DOMAIN @ \ {<<"Jet", "#">>} |-> @[q]]],
        [t EXCEPT !.branches = [q \in DOMAIN @ \ {<<"MissingET", "MET">>} |-> @[q]]] }

MCArrivals == {[form |-> "missing"], Jsonl(Good(<<d, e>>)), DelphesFile(<<b, b, a, e>>), NanoFile(<<a, e, b>>)}
MCContents ==
  MCArrivals \cup
  { Jsonl(<<>>), Jsonl(Good(<<a>>) \o <<Blank>> \o Good(<<b, c>>)), Jsonl(Good(<<d, e, a, b, b>>)),
    Jsonl(Good(<<b, a, c>>) \o <<IoErr>>), DelphesFile(<<a, c, d>>) }
  \cup {Jsonl(Good(<<a, b>>) \o <<Text1(rec)>> \o Good(<<c>>)) : rec \in Refusable \cup Acceptable}
  \cup {Root(t, <<>>) : t \in Broken1}

\* Files with a flat MET of which one branch is missing.
MCHalfContents == {HalfMet(<<d, a>>), HalfMet(<<b>>)}
=============================================================================
