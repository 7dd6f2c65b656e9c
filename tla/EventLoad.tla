------------------------------ MODULE EventLoad ------------------------------
(***************************************************************************)
(* One line of event data and what the loader makes of it                   *)
(* (adl-interp/src/event.rs).  The loader is a premise of the analyzer: what  *)
(* it accepts must lie in the domain the axioms assume of every event.        *)
(*                                                                           *)
(* A line is a sequence of fields <<key, value>> in the order of serde_json's  *)
(* map.  A value is a number, a list of values, an object (a function from its *)
(* keys) or something else.  Keys fold to the canonical names of the program.  *)
(***************************************************************************)
EXTENDS AdlNum, Sequences, SequencesExt

JNum(v) == [j |-> "num", v |-> v]
JObj(fields) == [j |-> "obj", of |-> fields]
JList(items) == [j |-> "list", of |-> items]
JOther == [j |-> "other"]

(***************************************************************************)
(* ExtDecls: the spellings of a name, case aside.                           *)
(***************************************************************************)
BaseNames == [Jet |-> "jets", JET |-> "jets", jets |-> "jets", FatJet |-> "fatjet", Electron |-> "electron",
              Muon |-> "muon", Photon |-> "photon", Tau |-> "tau"]
MetFamily == {"MET", "MissingET", "met"}
PropNames == [pt |-> "pt", PT |-> "pt", pT |-> "pt", m |-> "mass", mass |-> "mass"]
ScalarNames == [HT |-> "HT", ht |-> "HT"]
Reserved == [weight |-> "weight", Weight |-> "weight", triggers |-> "triggers"]
Canon(table, key) == IF key \in DOMAIN table THEN table[key] ELSE key

TagNames == {"btag", "ctag", "tautag"}
Magnitudes == {"pt", "e"}
HtFamily == {"HT"}
Flags == {Int2Rat(0), Int2Rat(1)}

\* check_domain: what NNEG and TAG assume of a property.
InDomain(prop, v) == /\ prop \in Magnitudes => RatSign(v) >= 0
                     /\ prop \in TagNames => v \in Flags

(***************************************************************************)
(* The parts of a record.                                                   *)
(***************************************************************************)
\* No two of these keys fold to one name.
Distinct(keys, table) == \A a, b \in keys : Canon(table, a) = Canon(table, b) => a = b
Folded(obj, table) == [n \in {Canon(table, k) : k \in DOMAIN obj} |->
                         obj[CHOOSE k \in DOMAIN obj : Canon(table, k) = n].v]

PropsOk(obj) == /\ \A k \in DOMAIN obj : obj[k].j = "num" /\ InDomain(Canon(PropNames, k), obj[k].v)
                /\ Distinct(DOMAIN obj, PropNames)

WithPt(objs) == {i \in DOMAIN objs : "pt" \in DOMAIN objs[i]}

\* Mutant: an object without a pt starts the order afresh.
DescendingSinceGap(objs) ==
    \A i \in WithPt(objs) : i - 1 \in WithPt(objs) => RatLeq(objs[i].pt, objs[i - 1].pt)

\* validate_pt_descending: each pt against prev, the last one before it; the
\* objects without a pt are passed over.
Descending(objs) ==
    \A i, j \in WithPt(objs) :
        i < j /\ (\A k \in WithPt(objs) : k <= i \/ j <= k) => RatLeq(objs[j].pt, objs[i].pt)

Objects(list) == [i \in DOMAIN list.of |-> Folded(list.of[i].of, PropNames)]
CollectionOk(list) == /\ \A i \in DOMAIN list.of : list.of[i].j = "obj" /\ PropsOk(list.of[i].of)
                      /\ Descending(Objects(list))

\* load_met: an object of components, or the magnitude alone.
MetOk(v) == \/ v.j = "obj" /\ PropsOk(v.of)
            \/ v.j = "num" /\ InDomain("pt", v.v)
MetOf(v) == IF v.j = "num" THEN [p \in {"pt"} |-> v.v] ELSE Folded(v.of, PropNames)

TriggersOk(v) == v.j = "obj" /\ \A k \in DOMAIN v.of : v.of[k].j = "num" /\ v.of[k].v \in Flags

\* What a key is, in the order event_from_line asks.
Role(key, v) == IF key \in DOMAIN Reserved THEN Reserved[key]
                ELSE IF key \in MetFamily THEN "met"
                ELSE IF v.j = "list" THEN "collection"
                ELSE IF v.j = "num" THEN "scalar" ELSE "unknown"

FieldsOf(rec, role) == {i \in DOMAIN rec : Role(rec[i][1], rec[i][2]) = role}
NoClash(rec, at, table) == \A i, j \in at : Canon(table, rec[i][1]) = Canon(table, rec[j][1]) => i = j

\* A MET vector that is not empty is the last.
RecordOk(rec) ==
    LET mets == FieldsOf(rec, "met")  weights == FieldsOf(rec, "weight")  scalars == FieldsOf(rec, "scalar")
    IN  /\ FieldsOf(rec, "unknown") = {}
        /\ \A i, j \in weights : i = j /\ rec[i][2].j = "num"
        /\ \A i \in mets : MetOk(rec[i][2]) /\ ((\E j \in mets : i < j) => rec[i][2].j = "obj" /\ DOMAIN rec[i][2].of = {})
        /\ \A i \in FieldsOf(rec, "triggers") : TriggersOk(rec[i][2])
        /\ \A i \in FieldsOf(rec, "collection") : CollectionOk(rec[i][2])
        /\ \A i \in scalars : Canon(ScalarNames, rec[i][1]) \in HtFamily => RatSign(rec[i][2].v) >= 0
        /\ NoClash(rec, scalars, ScalarNames) /\ NoClash(rec, FieldsOf(rec, "collection"), BaseNames)

\* The fields at some places under their canonical names.
Named(rec, at, table) ==
    [n \in {Canon(table, rec[i][1]) : i \in at} |-> rec[CHOOSE i \in at : Canon(table, rec[i][1]) = n][2]]

\* event_from_line: <<the event>>, or <<>> for a line it refuses.
Load(rec) ==
    LET weights == FieldsOf(rec, "weight")  mets == FieldsOf(rec, "met")  flags == FieldsOf(rec, "triggers")
        lists == Named(rec, FieldsOf(rec, "collection"), BaseNames)
        scalars == Named(rec, FieldsOf(rec, "scalar"), ScalarNames)
    IN  IF ~RecordOk(rec) THEN <<>>
        ELSE << [weight |-> IF weights = {} THEN 1 ELSE rec[Min(weights)][2].v[1],
                 colls |-> [n \in DOMAIN lists |-> Objects(lists[n])],
                 met |-> IF mets = {} THEN <<>> ELSE MetOf(rec[Max(mets)][2]),
                 scalars |-> [n \in DOMAIN scalars |-> scalars[n].v],
                 triggers |-> IF flags = {} THEN <<>> ELSE Folded(rec[Min(flags)][2].of, <<>>)] >>

(***************************************************************************)
(* What the JSON parser hands over.                                         *)
(***************************************************************************)
IsList(s) == s \in Seq({s[i] : i \in DOMAIN s})
IsNumber(v) == v.j = "num" => v.v \in Rats
IsObject(v) == v.j = "obj" => IsFiniteSet(DOMAIN v.of) /\ \A k \in DOMAIN v.of : IsNumber(v.of[k])
IsRecord(rec) == /\ IsList(rec)
                 /\ \A i \in DOMAIN rec :
                      LET v == rec[i][2]
                      IN  /\ IsNumber(v) /\ IsObject(v)
                          /\ v.j = "list" => IsList(v.of) /\ \A k \in DOMAIN v.of : IsNumber(v.of[k]) /\ IsObject(v.of[k])

(***************************************************************************)
(* What the axioms assume of an event, and that no part of the line is lost. *)
(***************************************************************************)
LegalObject(o) == \A p \in DOMAIN o : /\ p \in {"pt", "e"} => RatLeq(<<0, 1>>, o[p])
                                     /\ p \in {"btag", "ctag", "tautag"} => o[p] \in {<<0, 1>>, <<1, 1>>}
PtOrdered(os) == \A i, j \in WithPt(os) : i < j => RatLeq(os[j].pt, os[i].pt)
SameParts(list, os) == /\ Len(os) = Len(list.of)
                       /\ \A k \in DOMAIN os : Cardinality(DOMAIN os[k]) = Cardinality(DOMAIN list.of[k].of)
Legal(rec, ev) ==
    LET lists == {i \in DOMAIN rec : rec[i][2].j = "list"}
    IN  /\ \A c \in DOMAIN ev.colls : \A i \in DOMAIN ev.colls[c] : LegalObject(ev.colls[c][i])
        /\ LegalObject(ev.met)
        /\ \A c \in DOMAIN ev.colls : PtOrdered(ev.colls[c])
        /\ "HT" \in DOMAIN ev.scalars => RatLeq(<<0, 1>>, ev.scalars["HT"])
        /\ Cardinality(DOMAIN ev.colls) = Cardinality(lists)
        /\ \A i \in lists : \E c \in DOMAIN ev.colls : SameParts(rec[i][2], ev.colls[c])
=============================================================================
