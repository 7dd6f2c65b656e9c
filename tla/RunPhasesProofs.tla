-------------------------- MODULE RunPhasesProofs --------------------------
(***************************************************************************)
(* What the event loader accepts lies in the domain the axioms assume of   *)
(* every event, whatever the line; and what the run command leaves behind, *)
(* for any program, input and file, and wherever it stops.                 *)
(*                                                                         *)
(* The argument for a line: two keys that fold to one name are refused, so *)
(* the event has an entry for each key and its value is the one that was   *)
(* checked; and each pt was compared with the last one before it, so by    *)
(* the transitivity of <= no later pt exceeds an earlier one, however many *)
(* objects without a pt lie between.                                       *)
(*                                                                         *)
(* The argument for the command: the event file may change under it only   *)
(* until it is opened, so what is counted is one file; the loop has folded *)
(* the events of the first chunks, and returns Done only when these are    *)
(* all; and the directory is touched only after that, an entry of the plan *)
(* at a time, so a name holds the last entry written to it or is the one   *)
(* torn.  Where no two names are equal, its last entry is its only one.    *)
(***************************************************************************)
EXTENDS RunPhases, CommonLemmas

-----------------------------------------------------------------------------
(* The order of the rationals. *)

LEMMA Scaled ==
  ASSUME NEW a \in Int, NEW b \in Int, NEW c \in Nat \ {0}
  PROVE  a <= b <=> a * c <= b * c
<1>1. a <= b => a * c <= b * c
  OBVIOUS
<1>2. b < a => b * c < a * c
  OBVIOUS
<1>3. a * c \in Int /\ b * c \in Int
  OBVIOUS
<1> QED  BY <1>1, <1>2, <1>3

LEMMA LeqIs ==
  ASSUME NEW x \in Rats, NEW y \in Rats
  PROVE  /\ x[1] \in Int /\ x[2] \in Nat \ {0}
         /\ RatLeq(x, y) <=> x[1] * y[2] <= y[1] * x[2]
<1>1. x[1] \in Int /\ x[2] \in Nat \ {0} /\ y[1] \in Int /\ y[2] \in Nat \ {0}
  BY DEF Rats
<1>2. x[1] * y[2] \in Int /\ y[1] * x[2] \in Int
  BY <1>1
<1>3. RatLeq(x, y) <=> ~(y[1] * x[2] < x[1] * y[2])
  BY DEF RatLeq, RatLess
<1> QED  BY <1>1, <1>2, <1>3

LEMMA LeqTransitive ==
  ASSUME NEW x \in Rats, NEW y \in Rats, NEW z \in Rats, RatLeq(x, y), RatLeq(y, z)
  PROVE  RatLeq(x, z)
<1>1. /\ x[1] \in Int /\ y[1] \in Int /\ z[1] \in Int
      /\ x[2] \in Nat \ {0} /\ y[2] \in Nat \ {0} /\ z[2] \in Nat \ {0}
  BY LeqIs
<1>2. x[1] * y[2] <= y[1] * x[2] /\ y[1] * z[2] <= z[1] * y[2]
  BY LeqIs
<1>3. SUFFICES x[1] * z[2] <= z[1] * x[2]
  BY LeqIs
<1>4. (x[1] * y[2]) * z[2] <= (y[1] * x[2]) * z[2]
  BY <1>1, <1>2, Scaled
<1>5. (y[1] * z[2]) * x[2] <= (z[1] * y[2]) * x[2]
  BY <1>1, <1>2, Scaled
<1>6. (x[1] * z[2]) * y[2] <= (z[1] * x[2]) * y[2]
  BY <1>1, <1>4, <1>5
<1>7. x[1] * z[2] \in Int /\ z[1] * x[2] \in Int
  BY <1>1
<1> QED  BY <1>1, <1>6, <1>7, Scaled

\* A sign that is not negative is at least 0.
LEMMA SignIs ==
  ASSUME NEW x \in Rats, RatSign(x) >= 0
  PROVE  RatLeq(<<0, 1>>, x)
<1>1. <<0, 1>> \in Rats /\ x[1] \in Int /\ x[2] \in Nat \ {0}
  BY DEF Rats
<1>2. x[1] >= 0
  BY <1>1 DEF RatSign
<1> QED  BY <1>1, <1>2, LeqIs

-----------------------------------------------------------------------------
(* Objects and their order. *)

LEMMA ListDomain ==
  ASSUME NEW s, IsList(s)
  PROVE  Len(s) \in Nat /\ DOMAIN s = 1..Len(s)
  BY LenProperties DEF IsList

\* No pt exceeds an earlier one.
LEMMA OrderedThroughout ==
  ASSUME NEW objs, NEW n \in Nat, DOMAIN objs = 1..n,
         \A i \in WithPt(objs) : objs[i].pt \in Rats, Descending(objs)
  PROVE  PtOrdered(objs)
<1> DEFINE S == WithPt(objs)
           Le(j, i) == RatLeq(objs[j].pt, objs[i].pt)
<1>1. \A i \in S : i \in Nat /\ i <= n
  BY DEF WithPt
<1>2. SUFFICES ASSUME NEW i \in S PROVE \A j \in S : i < j => Le(j, i)
  BY DEF PtOrdered
<1> DEFINE Bad == {j \in S : i < j /\ ~Le(j, i)}
<1>3. SUFFICES ASSUME Bad # {} PROVE FALSE
  OBVIOUS
<1>4. PICK j \in Bad : \A m \in Bad : j <= m
  <2>1. Bad \subseteq Nat
    BY <1>1
  <2> HIDE DEF Bad
  <2>2. QED  BY <1>3, <2>1, LeastNatural
<1> DEFINE P == {k \in S : k < j}
<1>5. PICK k \in P : \A m \in P : m <= k
  <2>1. P \subseteq Nat /\ P # {} /\ n \in Nat /\ \A x \in P : x <= n
    BY <1>1
  <2> HIDE DEF P
  <2>2. QED  BY <2>1, GreatestNatural
<1>6. j \in S /\ k \in S /\ k < j /\ i <= k
  BY <1>5
<1>7. \A m \in S : m <= k \/ j <= m
  BY <1>1, <1>5
<1>8. Le(j, k)
  BY <1>6, <1>7 DEF Descending
<1>9. k # i
  BY <1>8
<1>10. Le(k, i)
  <2>1. k \notin Bad
    BY <1>1, <1>4, <1>6
  <2>2. i < k
    BY <1>1, <1>6, <1>9
  <2>3. QED  BY <1>6, <2>1, <2>2
<1>11. Le(j, i)
  BY <1>6, <1>8, <1>10, LeqTransitive
<1> QED  BY <1>11

\* An object under folded keys has the value of each of its keys.
LEMMA FoldedIs ==
  ASSUME NEW obj, NEW table, Distinct(DOMAIN obj, table)
  PROVE  /\ DOMAIN Folded(obj, table) = {Canon(table, k) : k \in DOMAIN obj}
         /\ \A k \in DOMAIN obj : Folded(obj, table)[Canon(table, k)] = obj[k].v
<1>1. DOMAIN Folded(obj, table) = {Canon(table, k) : k \in DOMAIN obj}
  BY DEF Folded
<1>2. ASSUME NEW k \in DOMAIN obj
      PROVE  Folded(obj, table)[Canon(table, k)] = obj[k].v
  <2> DEFINE n == Canon(table, k)
             c == CHOOSE x \in DOMAIN obj : Canon(table, x) = n
  <2>1. c \in DOMAIN obj /\ Canon(table, c) = n
    OBVIOUS
  <2>2. c = k
    BY <2>1 DEF Distinct
  <2>3. Folded(obj, table)[n] = obj[c].v
    BY DEF Folded
  <2>4. QED  BY <2>2, <2>3
<1> QED  BY <1>1, <1>2

LEMMA FoldedSize ==
  ASSUME NEW obj, NEW table, IsFiniteSet(DOMAIN obj), Distinct(DOMAIN obj, table)
  PROVE  Cardinality(DOMAIN Folded(obj, table)) = Cardinality(DOMAIN obj)
<1> DEFINE f == [k \in DOMAIN obj |-> Canon(table, k)]
           D == DOMAIN obj
<1>1. \A x, y \in D : f[x] = f[y] => x = y
  BY DEF Distinct
<1>2. DOMAIN Folded(obj, table) = {f[k] : k \in D}
  BY DEF Folded
<1> HIDE DEF f, D
<1>3. Cardinality({f[k] : k \in D}) = Cardinality(D)
  BY <1>1, ImageSize DEF D
<1> QED  BY <1>2, <1>3 DEF D

LEMMA LegalValue ==
  ASSUME NEW p, NEW v \in Rats, InDomain(p, v)
  PROVE  /\ p \in {"pt", "e"} => RatLeq(<<0, 1>>, v)
         /\ p \in {"btag", "ctag", "tautag"} => v \in {<<0, 1>>, <<1, 1>>}
  BY SignIs DEF InDomain, Magnitudes, TagNames, Flags, Int2Rat

\* An object whose properties were checked.
LEMMA LegalProps ==
  ASSUME NEW v, IsObject(v), v.j = "obj", PropsOk(v.of)
  PROVE  LET o == Folded(v.of, PropNames)
         IN  /\ LegalObject(o)
             /\ \A p \in DOMAIN o : o[p] \in Rats
             /\ Cardinality(DOMAIN o) = Cardinality(DOMAIN v.of)
<1> DEFINE obj == v.of
           o == Folded(obj, PropNames)
<1>1. IsFiniteSet(DOMAIN obj) /\ Distinct(DOMAIN obj, PropNames)
      /\ \A k \in DOMAIN obj : obj[k].v \in Rats /\ InDomain(Canon(PropNames, k), obj[k].v)
  BY DEF IsObject, IsNumber, PropsOk
<1> HIDE DEF obj
<1>2. ASSUME NEW p \in DOMAIN o
      PROVE  o[p] \in Rats /\ InDomain(p, o[p])
  <2>0. DOMAIN o = {Canon(PropNames, k) : k \in DOMAIN obj}
    BY <1>1, FoldedIs
  <2>1. PICK k \in DOMAIN obj : p = Canon(PropNames, k)
    BY <2>0
  <2>2. o[p] = obj[k].v
    BY <1>1, <2>1, FoldedIs
  <2>3. QED  BY <1>1, <2>1, <2>2
<1> HIDE DEF o
<1>3. LegalObject(o)
  BY <1>2, LegalValue DEF LegalObject
<1>4. Cardinality(DOMAIN o) = Cardinality(DOMAIN obj)
  BY <1>1, FoldedSize DEF o
<1> QED  BY <1>2, <1>3, <1>4 DEF o, obj

\* A collection that was checked.
LEMMA LegalCollection ==
  ASSUME NEW v, v.j = "list", IsList(v.of), CollectionOk(v),
         \A i \in DOMAIN v.of : IsObject(v.of[i])
  PROVE  LET os == Objects(v)
         IN  /\ \A i \in DOMAIN os : LegalObject(os[i])
             /\ PtOrdered(os)
             /\ SameParts(v, os)
<1> DEFINE os == Objects(v)
           n == Len(v.of)
<1>1. n \in Nat /\ DOMAIN v.of = 1..n
  BY ListDomain
<1>2. DOMAIN os = 1..n /\ \A i \in 1..n : os[i] = Folded(v.of[i].of, PropNames)
  BY <1>1 DEF Objects
<1>3. \A i \in 1..n : v.of[i].j = "obj" /\ PropsOk(v.of[i].of) /\ IsObject(v.of[i])
  BY <1>1 DEF CollectionOk
<1>4. Descending(os)
  BY DEF CollectionOk
<1>l. Len(os) = n
  BY <1>1 DEF Objects
<1> HIDE DEF os
<1>5. ASSUME NEW i \in 1..n
      PROVE  /\ LegalObject(os[i])
             /\ \A p \in DOMAIN os[i] : os[i][p] \in Rats
             /\ Cardinality(DOMAIN os[i]) = Cardinality(DOMAIN v.of[i].of)
  BY <1>2, <1>3, LegalProps
<1>6. \A i \in WithPt(os) : os[i].pt \in Rats
  BY <1>2, <1>5 DEF WithPt
<1> HIDE DEF n
<1>7. PtOrdered(os)
  BY <1>1, <1>2, <1>4, <1>6, OrderedThroughout
<1>8. SameParts(v, os)
  BY <1>2, <1>5, <1>l DEF SameParts, n
<1> QED  BY <1>2, <1>5, <1>7, <1>8 DEF os

\* Fields under canonical names: one entry for each field, with its value.
LEMMA NamedDomain ==
  ASSUME NEW rec, NEW at, NEW table
  PROVE  DOMAIN Named(rec, at, table) = {Canon(table, rec[i][1]) : i \in at}
  BY DEF Named

LEMMA NamedIs ==
  ASSUME NEW rec, NEW at, NEW table, NoClash(rec, at, table)
  PROVE  /\ \A i \in at : Named(rec, at, table)[Canon(table, rec[i][1])] = rec[i][2]
         /\ IsFiniteSet(at) => Cardinality(DOMAIN Named(rec, at, table)) = Cardinality(at)
<1> DEFINE f == [i \in at |-> Canon(table, rec[i][1])]
<1>1. DOMAIN Named(rec, at, table) = {f[i] : i \in at}
  BY DEF Named
<1>2. \A i, j \in at : f[i] = f[j] => i = j
  BY DEF NoClash
<1>3. ASSUME NEW i \in at
      PROVE  Named(rec, at, table)[f[i]] = rec[i][2]
  <2> DEFINE c == CHOOSE x \in at : Canon(table, rec[x][1]) = f[i]
  <2>1. c \in at /\ Canon(table, rec[c][1]) = f[i]
    OBVIOUS
  <2>2. c = i
    BY <1>2, <2>1
  <2>3. Named(rec, at, table)[f[i]] = rec[c][2]
    BY DEF Named
  <2>4. QED  BY <2>2, <2>3
<1> HIDE DEF f
<1>4. IsFiniteSet(at) => Cardinality({f[i] : i \in at}) = Cardinality(at)
  BY <1>2, ImageSize
<1>5. \A i \in at : f[i] = Canon(table, rec[i][1])
  BY DEF f
<1> QED  BY <1>1, <1>3, <1>4, <1>5

-----------------------------------------------------------------------------
(* The event of a record. *)

\* What was read as a list is a collection, if the record was accepted.
LEMMA ListsAre ==
  ASSUME NEW rec, IsRecord(rec), RecordOk(rec)
  PROVE  {i \in DOMAIN rec : rec[i][2].j = "list"} = FieldsOf(rec, "collection")
<1>1. ASSUME NEW i \in FieldsOf(rec, "collection")
      PROVE  rec[i][2].j = "list"
  <2>1. Role(rec[i][1], rec[i][2]) = "collection"
    BY DEF FieldsOf
  <2>2. QED  BY <2>1 DEF Role, Reserved
<1>2. ASSUME NEW i \in DOMAIN rec, rec[i][2].j = "list"
      PROVE  i \in FieldsOf(rec, "collection")
  <2> DEFINE role == Role(rec[i][1], rec[i][2])
  <2>1. role \in {"weight", "triggers", "met", "collection"}
    BY <1>2 DEF Role, Reserved
  <2>2. i \in FieldsOf(rec, role)
    BY DEF FieldsOf
  <2> HIDE DEF role
  <2>3. role # "weight"
    BY <1>2, <2>2 DEF RecordOk
  <2>4. role # "triggers"
    BY <1>2, <2>2 DEF RecordOk, TriggersOk
  <2>5. role # "met"
    BY <1>2, <2>2 DEF RecordOk, MetOk
  <2>6. QED  BY <2>1, <2>2, <2>3, <2>4, <2>5
<1> QED  BY <1>1, <1>2 DEF FieldsOf

\* A missing energy vector that was checked.
LEMMA LegalMet ==
  ASSUME NEW v, IsNumber(v), IsObject(v), MetOk(v)
  PROVE  LegalObject(MetOf(v))
<1>1. CASE v.j = "num"
  <2>1. v.v \in Rats /\ InDomain("pt", v.v)
    BY <1>1 DEF IsNumber, MetOk
  <2>2. RatLeq(<<0, 1>>, v.v)
    BY <2>1, LegalValue
  <2>3. MetOf(v) = [p \in {"pt"} |-> v.v]
    BY <1>1 DEF MetOf
  <2>4. QED  BY <2>2, <2>3 DEF LegalObject
<1>2. CASE v.j # "num"
  <2>1. v.j = "obj" /\ PropsOk(v.of) /\ MetOf(v) = Folded(v.of, PropNames)
    BY <1>2 DEF MetOk, MetOf
  <2>2. QED  BY <2>1, LegalProps
<1> QED  BY <1>1, <1>2

\* What Load accepts is in the domain the axioms assume, and nothing of it is lost:
\* NNEG and TAG hold of every object, every collection is in the order of its pt
\* throughout, and each list became the collection of one name (event_from_line).
THEOREM LoadIsLegal ==
  ASSUME NEW rec, IsRecord(rec), Load(rec) # <<>>
  PROVE  Legal(rec, Load(rec)[1])
<1> DEFINE colls == FieldsOf(rec, "collection")
           nums == FieldsOf(rec, "scalar")
           mets == FieldsOf(rec, "met")
           lists == Named(rec, colls, BaseNames)
           scalars == Named(rec, nums, ScalarNames)
           ev == Load(rec)[1]
<1>1. RecordOk(rec)
  BY DEF Load
<1>2. /\ ev.colls = [n \in DOMAIN lists |-> Objects(lists[n])]
      /\ ev.met = IF mets = {} THEN <<>> ELSE MetOf(rec[Max(mets)][2])
      /\ ev.scalars = [n \in DOMAIN scalars |-> scalars[n].v]
  BY <1>1 DEF Load
<1>3. Len(rec) \in Nat /\ DOMAIN rec = 1..Len(rec)
  BY ListDomain DEF IsRecord
<1>4. \A i \in colls : /\ i \in DOMAIN rec /\ rec[i][2].j = "list" /\ IsList(rec[i][2].of)
                       /\ \A k \in DOMAIN rec[i][2].of : IsObject(rec[i][2].of[k])
  <2>1. \A i \in colls : i \in DOMAIN rec /\ rec[i][2].j = "list"
    BY <1>1, ListsAre DEF FieldsOf
  <2>2. QED  BY <2>1 DEF IsRecord
<1>5. \A i \in colls : /\ \A k \in DOMAIN Objects(rec[i][2]) : LegalObject(Objects(rec[i][2])[k])
                       /\ PtOrdered(Objects(rec[i][2])) /\ SameParts(rec[i][2], Objects(rec[i][2]))
  <2>1. \A i \in colls : CollectionOk(rec[i][2])
    BY <1>1 DEF RecordOk
  <2>2. QED  BY <1>4, <2>1, LegalCollection
<1>6. /\ DOMAIN lists = {Canon(BaseNames, rec[i][1]) : i \in colls}
      /\ \A i \in colls : lists[Canon(BaseNames, rec[i][1])] = rec[i][2]
      /\ Cardinality(DOMAIN lists) = Cardinality(colls)
  <2>1. IsFiniteSet(colls)
    <3>1. 1 \in Int /\ Len(rec) \in Int
      BY <1>3
    <3>2. IsFiniteSet(DOMAIN rec)
      BY <1>3, <3>1, FS_Interval
    <3>3. colls \subseteq DOMAIN rec
      BY DEF FieldsOf
    <3>4. QED  BY <3>2, <3>3, FS_Subset
  <2>2. NoClash(rec, colls, BaseNames)
    BY <1>1 DEF RecordOk
  <2> HIDE DEF colls
  <2>3. DOMAIN lists = {Canon(BaseNames, rec[i][1]) : i \in colls}
    BY NamedDomain
  <2>4. /\ \A i \in colls : lists[Canon(BaseNames, rec[i][1])] = rec[i][2]
        /\ Cardinality(DOMAIN lists) = Cardinality(colls)
    BY <2>1, <2>2, NamedIs
  <2>5. QED  BY <2>3, <2>4
<1>7. /\ DOMAIN scalars = {Canon(ScalarNames, rec[i][1]) : i \in nums}
      /\ \A i \in nums : scalars[Canon(ScalarNames, rec[i][1])] = rec[i][2]
  <2>1. NoClash(rec, nums, ScalarNames)
    BY <1>1 DEF RecordOk
  <2> HIDE DEF nums
  <2>2. DOMAIN scalars = {Canon(ScalarNames, rec[i][1]) : i \in nums}
    BY NamedDomain
  <2>3. \A i \in nums : scalars[Canon(ScalarNames, rec[i][1])] = rec[i][2]
    BY <2>1, NamedIs
  <2>4. QED  BY <2>2, <2>3
<1>8. {i \in DOMAIN rec : rec[i][2].j = "list"} = colls
  BY <1>1, ListsAre
<1> HIDE DEF lists, scalars, ev, colls
<1>9. ASSUME NEW c \in DOMAIN ev.colls
      PROVE  PtOrdered(ev.colls[c]) /\ \A i \in DOMAIN ev.colls[c] : LegalObject(ev.colls[c][i])
  <2>1. PICK i \in colls : c = Canon(BaseNames, rec[i][1])
    BY <1>2, <1>6
  <2>2. ev.colls[c] = Objects(rec[i][2])
    BY <1>2, <1>6, <2>1
  <2>3. QED  BY <1>5, <2>2
<1>10. LegalObject(ev.met)
  <2>1. CASE mets = {}
    BY <1>2, <2>1 DEF LegalObject
  <2>2. CASE mets # {}
    <3> DEFINE m == Max(mets)
    <3>1. m \in mets
      <4>1. mets \subseteq Nat /\ \A x \in mets : x <= Len(rec)
        BY <1>3 DEF FieldsOf
      <4> HIDE DEF mets
      <4>2. \E x \in mets : \A y \in mets : y <= x
        BY <1>3, <2>2, <4>1, GreatestNatural
      <4>3. QED  BY <4>1, <4>2 DEF Max
    <3>2. m \in DOMAIN rec /\ MetOk(rec[m][2])
      BY <1>1, <3>1 DEF RecordOk, FieldsOf
    <3>3. IsNumber(rec[m][2]) /\ IsObject(rec[m][2])
      BY <3>2 DEF IsRecord
    <3>4. LegalObject(MetOf(rec[m][2]))
      BY <3>2, <3>3, LegalMet
    <3>5. QED  BY <1>2, <2>2, <3>4
  <2>3. QED  BY <2>1, <2>2
<1>11. ASSUME "HT" \in DOMAIN ev.scalars
       PROVE  RatLeq(<<0, 1>>, ev.scalars["HT"])
  <2>1. PICK i \in nums : Canon(ScalarNames, rec[i][1]) = "HT"
    BY <1>2, <1>7, <1>11
  <2>2. ev.scalars["HT"] = rec[i][2].v
    BY <1>2, <1>7, <1>11, <2>1
  <2>3. rec[i][2].j = "num" /\ i \in DOMAIN rec
    BY DEF FieldsOf, Role, Reserved
  <2>4. rec[i][2].v \in Rats
    BY <2>3 DEF IsRecord, IsNumber
  <2>5. RatSign(rec[i][2].v) >= 0
    BY <1>1, <2>1 DEF RecordOk, HtFamily
  <2>6. QED  BY <2>2, <2>4, <2>5, SignIs
<1>12. \A i \in colls : \E c \in DOMAIN ev.colls : SameParts(rec[i][2], ev.colls[c])
  <2> SUFFICES ASSUME NEW i \in colls
               PROVE  \E c \in DOMAIN ev.colls : SameParts(rec[i][2], ev.colls[c])
    OBVIOUS
  <2> DEFINE c == Canon(BaseNames, rec[i][1])
  <2>1. c \in DOMAIN ev.colls /\ ev.colls[c] = Objects(rec[i][2])
    BY <1>2, <1>6
  <2>2. QED  BY <1>5, <2>1
<1>13. Cardinality(DOMAIN ev.colls) = Cardinality(colls)
  BY <1>2, <1>6
<1> QED  BY <1>8, <1>9, <1>10, <1>11, <1>12, <1>13 DEF Legal, ev

-----------------------------------------------------------------------------
(* The inductive invariant. *)

Before == {"start", "identify", "open"}
After == {"report", "mkdir", "write", "writing"}

Events(f) == Loop!EventLines(f)

\* The ordinals of the first n events, one after another.
UpTo(n) == [i \in 1..n |-> i - 1]
Least(x, y) == IF x <= y THEN x ELSE y

\* What is read is the input as it is, and after it was opened it stays.
Reading ==
  /\ phase \in Before \cup {"loop"} \cup After \cup {"exited"}
  /\ input \in Inputs /\ content \in Contents \cup Arrivals
  /\ phase \in Before => lines = <<>> /\ acc = <<>> /\ out = <<>>
  /\ phase \notin {"start", "exited"} => hir \in {Programs[adl] : adl \in DOMAIN Programs}
  /\ phase \in {"open", "loop"} => input.profile # "unknown"
  /\ \/ lines = <<>>
     \/ /\ input.profile # "unknown" /\ Opens(content, input.profile)
        /\ lines = Lines(content, input.profile)

\* While it folds, the loop has the events of the chunks folded so far.
Folding == /\ IsList(kinds) /\ IsList(acc)
           /\ Len(acc) <= Loop!ChunkCount(kinds)
           /\ out = UpTo(Least(Len(acc) * ChunkEvents, Cardinality(Events(kinds))))

\* The input is the one hashed, unless it was replaced.
SameInput == replaced \/ (Opens(sha[1], input.profile) /\ Lines(sha[1], input.profile) = lines)

AllCounted == /\ out = UpTo(Cardinality(Events(kinds)))
              /\ "ioerr" \notin {kinds[i] : i \in DOMAIN kinds}
              /\ SameInput

Counting ==
  /\ phase = "open" => replaced \/ sha = <<content>>
  /\ phase = "loop" => SameInput /\ Folding
  /\ phase \in Before \cup {"loop"} => outcome = Loop!Running
  /\ phase \in After => outcome = Loop!Done
  /\ outcome = Loop!Done => AllCounted

\* A file of the run is the whole of the last entry of its name among those written,
\* or is torn: then it is the entry being written when the command stopped.
Writing ==
  /\ IsList(plan) /\ written \in 0..Len(plan)
  /\ phase \notin {"write", "writing", "exited"} => Changed = {} /\ written = 0
  /\ phase = "writing" => written < Len(plan)
  /\ phase # "exited" <=> exit = "none"
  /\ exit = "0" => outcome = Loop!Done /\ (input.dir => written = Len(plan))
  /\ exit = "1" => outcome # Loop!Done
  /\ Changed # {} => outcome = Loop!Done
  /\ \A m \in Changed : disk[m] = State(disk[m].is, disk[m].of)
  /\ \A m \in Changed :
       \/ disk[m].is = "whole" /\ disk[m].of \in 1..written /\ plan[disk[m].of].name = m
       \/ /\ disk[m].is = "torn" /\ (phase = "writing" \/ exit \in {"2", "killed"})
          /\ written < Len(plan) /\ plan[written + 1].name = m
  /\ \A k \in 1..written : /\ plan[k].name \in Changed
                           /\ disk[plan[k].name].is = "whole" => disk[plan[k].name].of >= k

Inv == Reading /\ Counting /\ Writing

-----------------------------------------------------------------------------
(* Lists. *)

LEMMA ListOf ==
  ASSUME NEW n \in Nat, NEW s, s = [i \in 1..n |-> s[i]]
  PROVE  IsList(s) /\ Len(s) = n
<1>1. s \in [1..n -> {s[i] : i \in DOMAIN s}] /\ DOMAIN s = 1..n
  OBVIOUS
<1>2. QED  BY <1>1, LenProperties DEF IsList

LEMMA EmptyList == IsList(<<>>) /\ Len(<<>>) = 0
BY DEF IsList

LEMMA AppendList ==
  ASSUME NEW s, IsList(s), NEW e
  PROVE  IsList(Append(s, e)) /\ Len(Append(s, e)) = Len(s) + 1
<1> DEFINE S == {s[i] : i \in DOMAIN s} \cup {e}
           t == Append(s, e)
<1>1. s \in Seq(S)
  BY DEF IsList
<1>2. t \in Seq(S) /\ Len(t) = Len(s) + 1
  BY <1>1, AppendProperties
<1> HIDE DEF t, S
<1>3. Len(t) \in Nat /\ t = [i \in 1..Len(t) |-> t[i]]
  BY <1>2
<1>4. QED  BY <1>2, <1>3, ListOf DEF t

LEMMA ConcatList ==
  ASSUME NEW s, NEW t, IsList(s), IsList(t)
  PROVE  IsList(s \o t)
<1> DEFINE S == {s[i] : i \in DOMAIN s} \cup {t[i] : i \in DOMAIN t}
           u == s \o t
<1>1. s \in Seq(S) /\ t \in Seq(S)
  BY DEF IsList
<1>2. u \in Seq(S)
  BY <1>1, ConcatProperties
<1> HIDE DEF u, S
<1>3. Len(u) \in Nat /\ u = [i \in 1..Len(u) |-> u[i]]
  BY <1>2
<1>4. QED  BY <1>3, ListOf DEF u

\* One after another, n ordinals and the next ones.
LEMMA UpToMore ==
  ASSUME NEW n \in Nat, NEW m \in Nat, n <= m
  PROVE  UpTo(n) \o [i \in 1..m - n |-> n + i - 1] = UpTo(m)
<1> DEFINE s == UpTo(n)
           t == [i \in 1..m - n |-> n + i - 1]
<1>1. m - n \in Nat
  OBVIOUS
<1>2. s \in Seq(Nat) /\ Len(s) = n /\ \A i \in 1..n : s[i] = i - 1
  BY DEF UpTo
<1>3. t \in Seq(Nat) /\ Len(t) = m - n /\ \A i \in 1..m - n : t[i] = n + i - 1
  BY <1>1
<1>4. UpTo(m) \in Seq(Nat) /\ Len(UpTo(m)) = m /\ \A i \in 1..m : UpTo(m)[i] = i - 1
  BY DEF UpTo
<1> HIDE DEF s, t
<1>5. /\ s \o t \in Seq(Nat) /\ Len(s \o t) = m
      /\ \A i \in 1..m : (s \o t)[i] = IF i <= n THEN s[i] ELSE t[i - n]
  <2>1. n + (m - n) = m
    OBVIOUS
  <2>2. QED  BY <1>2, <1>3, <2>1, ConcatProperties
<1>6. \A i \in 1..m : (s \o t)[i] = i - 1
  <2> SUFFICES ASSUME NEW i \in 1..m PROVE (s \o t)[i] = i - 1
    OBVIOUS
  <2>1. CASE i <= n
    BY <1>2, <1>5, <2>1
  <2>2. CASE n < i
    <3>1. i - n \in 1..m - n
      BY <2>2
    <3>2. t[i - n] = n + (i - n) - 1
      BY <1>3, <3>1
    <3>3. QED  BY <1>5, <2>2, <3>2
  <2>3. i \in Nat /\ n \in Nat
    OBVIOUS
  <2>4. i <= n \/ n < i
    BY <2>3
  <2>5. QED  BY <2>1, <2>2, <2>4, Zenon
<1>7. s \o t = UpTo(m)
  BY <1>4, <1>5, <1>6, SeqEqual
<1> QED  BY <1>7 DEF s, t

-----------------------------------------------------------------------------
(* The chunks of the file. *)

\* The instance's Cardinality is the one the theorems about finite sets use.
LEMMA SameCardinality == \A S : Loop!Cardinality(S) = Cardinality(S)
BY DEF Loop!Cardinality, Cardinality

LEMMA EventsFinite ==
  ASSUME NEW f, IsList(f)
  PROVE  /\ IsFiniteSet(Events(f)) /\ Cardinality(Events(f)) \in Nat
         /\ Events(f) \subseteq DOMAIN f /\ DOMAIN f = 1..Len(f) /\ Len(f) \in Nat
<1>1. Len(f) \in Nat /\ DOMAIN f = 1..Len(f)
  BY ListDomain
<1>2. Events(f) \subseteq 1..Len(f)
  BY DEF Events, Loop!EventLines, Loop!Readable
<1>3. 1 \in Int /\ Len(f) \in Int
  BY <1>1
<1>4. IsFiniteSet(1..Len(f))
  BY <1>3, FS_Interval
<1>5. IsFiniteSet(Events(f))
  BY <1>2, <1>4, FS_Subset
<1>6. Cardinality(Events(f)) \in Nat
  BY <1>5, FS_CardinalityType
<1> QED  BY <1>1, <1>2, <1>5, <1>6

\* A chunk to fold starts before the last event; without a failed read the last
\* chunk reaches it.
LEMMA ChunkStarts ==
  ASSUME NEW f, IsList(f), NEW k \in Nat
  PROVE  /\ Loop!ChunkCount(f) \in Nat
         /\ k < Loop!ChunkCount(f) => k * ChunkEvents < Cardinality(Events(f))
         /\ ~Loop!ReadFails(f) => Cardinality(Events(f)) <= Loop!ChunkCount(f) * ChunkEvents
<1> DEFINE c == ChunkEvents
           n == Cardinality(Events(f))
           m == n + c - 1
           q == IF Loop!ReadFails(f) THEN n \div c ELSE m \div c
<1>1. c \in Nat \ {0} /\ n \in Nat
  BY ChunkEventsAssumption, EventsFinite
<1>2. Loop!ChunkCount(f) = q
  BY SameCardinality DEF Loop!ChunkCount, Events
<1> HIDE DEF c, n
<1>3. m \in Nat
  BY <1>1
<1>4. n \div c \in Nat /\ m \div c \in Nat
  BY <1>1, <1>3
<1>5. (n \div c) * c <= n
  BY <1>1, <1>4, QuotientIs
<1>6. (m \div c) * c <= m /\ m < (m \div c) * c + c
  BY <1>1, <1>3, <1>4, QuotientIs
<1>7. q \in Nat /\ q * c <= m
  <2>1. CASE Loop!ReadFails(f)
    BY <1>1, <1>4, <1>5, <2>1
  <2>2. CASE ~Loop!ReadFails(f)
    BY <1>4, <1>6, <2>2
  <2>3. QED  BY <2>1, <2>2
<1>8. ~Loop!ReadFails(f) => m < q * c + c
  BY <1>6
<1> HIDE DEF q
<1>9. q * c \in Nat /\ k * c \in Nat
  BY <1>1, <1>7
<1>10. ~Loop!ReadFails(f) => n <= q * c
  BY <1>1, <1>8, <1>9
<1>11. k < q => k * c < n
  <2> SUFFICES ASSUME k < q PROVE k * c < n
    OBVIOUS
  <2>1. k * c + c <= q * c
    BY <1>1, <1>7
  <2>2. QED  BY <1>1, <1>7, <1>9, <2>1
<1> QED  BY <1>2, <1>7, <1>10, <1>11 DEF c, n

\* How many events a chunk has.
LEMMA ChunkSize ==
  ASSUME NEW f, IsList(f), NEW k \in Nat, k * ChunkEvents < Cardinality(Events(f))
  PROVE  LET hi == Least((k + 1) * ChunkEvents, Cardinality(Events(f)))
         IN  /\ hi \in Nat /\ k * ChunkEvents \in Nat /\ k * ChunkEvents <= hi
             /\ Cardinality(Loop!ChunkLines(f, k)) = hi - k * ChunkEvents
<1> DEFINE c == ChunkEvents
           E == Events(f)
           n == Cardinality(E)
           rank(i) == Cardinality({j \in E : j < i})
           lo == k * c
           up == (k + 1) * c
           hi == Least(up, n)
           Under(a) == {i \in E : rank(i) < a}
<1>1. c \in Nat \ {0} /\ n \in Nat /\ IsFiniteSet(E) /\ E \subseteq Nat
  <2>1. E \subseteq Nat
    BY EventsFinite
  <2>2. QED  BY <2>1, ChunkEventsAssumption, EventsFinite
<1>2. lo \in Nat /\ up \in Nat /\ up = lo + c
  BY <1>1
<1>3. hi \in Nat /\ lo <= hi /\ hi <= n /\ hi <= up /\ (hi = up \/ hi = n)
  <2> HIDE DEF lo, up, n, c
  <2>1. lo < n
    BY DEF lo, n, c
  <2>2. QED  BY <1>1, <1>2, <2>1 DEF Least
<1>4. Loop!ChunkLines(f, k) = {i \in E : rank(i) \div c = k}
  BY SameCardinality DEF Loop!ChunkLines, Loop!Ordinal, Events
<1>5. \A i \in E : rank(i) \in Nat /\ rank(i) < n
  <2> SUFFICES ASSUME NEW i \in E PROVE rank(i) \in Nat /\ rank(i) < n
    OBVIOUS
  <2> DEFINE B == {j \in E : j < i}
  <2>1. B \subseteq E /\ B # E
    BY <1>1, i \notin B
  <2> HIDE DEF B, E
  <2>2. Cardinality(B) <= n /\ (Cardinality(B) = n => B = E) /\ IsFiniteSet(B)
    BY <1>1, <2>1, FS_Subset
  <2>a. Cardinality(B) \in Nat /\ n \in Nat
    BY <1>1, <2>2, FS_CardinalityType
  <2>3. Cardinality(B) < n
    BY <2>1, <2>2, <2>a
  <2>4. QED  BY <2>3, <2>a DEF B
<1>6. Cardinality(Under(lo)) = lo /\ Cardinality(Under(hi)) = hi
  <2> HIDE DEF E, lo, hi
  <2>1. lo <= n
    BY <1>1, <1>2, <1>3
  <2>2. QED  BY <1>1, <1>2, <1>3, <2>1, RankCount
<1> HIDE DEF E, rank, lo, up, hi, n, c
<1>7. \A i \in E : rank(i) \div c = k <=> lo <= rank(i) /\ rank(i) < lo + c
  BY <1>1, <1>5, QuotientIs DEF lo
<1>8. {i \in E : rank(i) \div c = k} = Under(hi) \ Under(lo)
  <2>1. \A i \in E : rank(i) \div c = k <=> rank(i) < hi /\ ~(rank(i) < lo)
    BY <1>2, <1>3, <1>5, <1>7
  <2>2. QED  BY <2>1
<1>9. Under(hi) \cap Under(lo) = Under(lo)
  BY <1>2, <1>3, <1>5
<1>10. IsFiniteSet(Under(hi))
  BY <1>1, FS_Subset
<1>11. Cardinality(Under(hi) \ Under(lo)) = hi - lo
  <2> HIDE DEF Under
  <2>1. Cardinality(Under(hi) \ Under(lo)) = Cardinality(Under(hi)) - Cardinality(Under(hi) \cap Under(lo))
    BY <1>10, FS_Difference
  <2>2. QED  BY <1>6, <1>9, <2>1
<1>12. Cardinality(Loop!ChunkLines(f, k)) = hi - lo
  BY <1>4, <1>8, <1>11
<1> QED  BY <1>2, <1>3, <1>12 DEF hi, lo, up, n, c, E

-----------------------------------------------------------------------------
(* What is read. *)

LEMMA TextIs ==
  ASSUME input \in Inputs, content \in Contents \cup Arrivals,
         input.profile # "unknown", Opens(content, input.profile)
  PROVE  IsText(Text(content, input.profile))
BY TextAssumption

\* The loader's lines are a list, as long as the text.
LEMMA LinesList ==
  ASSUME NEW text, IsText(text)
  PROVE  IsList(Loaded(text)) /\ DOMAIN Loaded(text) = DOMAIN text
<1>1. Len(text) \in Nat /\ DOMAIN text = 1..Len(text)
  BY ListDomain DEF IsText
<1>2. Loaded(text) = [n \in 1..Len(text) |-> Loaded(text)[n]] /\ DOMAIN Loaded(text) = 1..Len(text)
  BY <1>1 DEF Loaded
<1>3. IsList(Loaded(text))
  BY <1>1, <1>2, ListOf
<1> QED  BY <1>1, <1>2, <1>3

\* Only a text becomes an event, the one Load makes of it.
LEMMA EventsLoaded ==
  ASSUME NEW text, IsText(text), NEW n \in DOMAIN text, Loaded(text)[n].is = "event"
  PROVE  Legal(text[n].rec, Loaded(text)[n].ev)
<1>1. text[n].is = "text" /\ IsRecord(text[n].rec)
  BY DEF Loaded, IsText
<1>2. Loaded(text)[n] = Parsed(Load(text[n].rec))
  BY <1>1 DEF Loaded
<1>3. Load(text[n].rec) # <<>> /\ Loaded(text)[n].ev = Load(text[n].rec)[1]
  BY <1>2 DEF Parsed
<1>4. QED  BY <1>1, <1>3, LoadIsLegal

LEMMA ReadingLegal == Reading => LoadedIsLegal
<1> SUFFICES ASSUME Reading PROVE LoadedIsLegal
  OBVIOUS
<1> DEFINE text == Text(content, input.profile)
<1>1. CASE lines = <<>>
  BY <1>1 DEF LoadedIsLegal
<1>2. CASE lines # <<>>
  <2>1. IsText(text) /\ lines = Loaded(text)
    BY <1>2, TextIs DEF Reading, Lines
  <2> HIDE DEF text
  <2>2. \A n \in DOMAIN lines : lines[n].is = "event" => Legal(text[n].rec, lines[n].ev)
    BY <2>1, LinesList, EventsLoaded
  <2>3. QED  BY <2>2 DEF LoadedIsLegal, text
<1> QED  BY <1>1, <1>2

-----------------------------------------------------------------------------
(* Reading is kept. *)

LEMMA ReadingInit == Init => Reading
BY DEF Init, Reading, Before

LEMMA ReadingStep == Reading /\ [Next]_vars => Reading'
<1> SUFFICES ASSUME Reading, [Next]_vars PROVE Reading'
  OBVIOUS
<1> USE DEF Before, After
<1>1. CASE Analyze
  BY <1>1 DEF Analyze, Leave, Reading, loop
<1>2. CASE Identify
  BY <1>2 DEF Identify, Leave, Reading, loop
<1>3. CASE Open
  <2>1. input' = input /\ content' = content /\ hir' = hir
    BY <1>3 DEF Open
  <2>2. CASE ~Opens(content, input.profile)
    BY <1>3, <2>1, <2>2 DEF Open, Leave, Reading
  <2>3. CASE Opens(content, input.profile)
    <3>1. lines' = Lines(content, input.profile) /\ phase' = "loop" /\ input.profile # "unknown"
      BY <1>3, <2>3 DEF Open, Reading
    <3>2. Opens(content, input.profile)' /\ Lines(content, input.profile)' = Lines(content, input.profile)
      BY <2>1, <2>3 DEF Opens, Lines, Text
    <3>3. QED  BY <1>3, <2>1, <3>1, <3>2 DEF Open, Reading
  <2>4. QED  BY <2>2, <2>3
<1>4. CASE Fold
  BY <1>4 DEF Fold, Reading, Opens, Lines, Text
<1>5. CASE Finish
  BY <1>5 DEF Finish, Leave, Reading, Opens, Lines, Text
<1>6. CASE Report
  BY <1>6 DEF Report, Leave, Reading, Opens, Lines, Text
<1>7. CASE MakeDir
  BY <1>7 DEF MakeDir, Reading, Opens, Lines, Text
<1>8. CASE Truncate
  BY <1>8 DEF Truncate, Leave, Reading, Opens, Lines, Text
<1>9. CASE Complete
  BY <1>9 DEF Complete, Reading, Opens, Lines, Text
<1>10. CASE Success
  BY <1>10 DEF Success, Leave, Reading, Opens, Lines, Text
<1>11. CASE WriteFails
  BY <1>11 DEF WriteFails, Leave, Reading, Opens, Lines, Text
<1>12. CASE Replace
  BY <1>12 DEF Replace, Reading, loop
<1>13. CASE Kill
  BY <1>13 DEF Kill, Leave, Reading, Opens, Lines, Text
<1>14. CASE UNCHANGED vars
  BY <1>14 DEF vars, loop, Reading, Opens, Lines, Text
<1>15. QED
  BY <1>1, <1>2, <1>3, <1>4, <1>5, <1>6, <1>7, <1>8, <1>9, <1>10, <1>11, <1>12, <1>13, <1>14 DEF Next, Command

\* Every event the loop reads is in the domain the axioms assume of it (the loader,
\* event.rs), whatever the input, and though the file may be replaced while it is opened.
THEOREM EventsAreLegal == Spec => []LoadedIsLegal
<1>1. Spec => []Reading
  BY ReadingInit, ReadingStep, PTL DEF Spec
<1>2. QED
  BY <1>1, ReadingLegal, PTL

-----------------------------------------------------------------------------
(* Counting is kept: the loop. *)

\* A loop about to start has folded nothing.
LEMMA FoldingStarts ==
  ASSUME NEW f, IsList(f)
  PROVE  /\ Len(<<>>) <= Loop!ChunkCount(f)
         /\ UpTo(Least(Len(<<>>) * ChunkEvents, Cardinality(Events(f)))) = <<>>
<1>1. Loop!ChunkCount(f) \in Nat /\ Cardinality(Events(f)) \in Nat
  BY ChunkStarts, EventsFinite
<1>2. Least(Len(<<>>) * ChunkEvents, Cardinality(Events(f))) = 0
  BY <1>1, EmptyList, ChunkEventsAssumption DEF Least
<1>3. UpTo(0) = <<>>
  BY DEF UpTo
<1> QED  BY <1>1, <1>2, <1>3, EmptyList

\* The next chunk has the ordinals after those folded.
LEMMA FoldingMore == Folding /\ Loop!FoldChunk => Folding' /\ outcome' = outcome
<1> SUFFICES ASSUME Folding, Loop!FoldChunk PROVE Folding' /\ outcome' = outcome
  OBVIOUS
<1> DEFINE k == Len(acc)
           n == Cardinality(Events(kinds))
           ordinals == Loop!ChunkOrdinals(kinds, k)
           lo == k * ChunkEvents
           hi == Least((k + 1) * ChunkEvents, n)
<1>1. /\ k < Loop!ChunkCount(kinds) /\ acc' = Append(acc, ordinals) /\ out' = out \o ordinals
      /\ kinds' = kinds /\ outcome' = outcome
  BY DEF Loop!FoldChunk
<1>2. IsList(kinds) /\ IsList(acc) /\ out = UpTo(Least(lo, n))
  BY DEF Folding
<1>3. k \in Nat /\ n \in Nat /\ Loop!ChunkCount(kinds) \in Nat
  BY <1>2, ListDomain, EventsFinite, ChunkStarts
<1>4. lo < n
  BY <1>1, <1>2, <1>3, ChunkStarts
<1>5. /\ hi \in Nat /\ lo \in Nat /\ lo <= hi
      /\ Cardinality(Loop!ChunkLines(kinds, k)) = hi - lo
  BY <1>2, <1>3, <1>4, ChunkSize
<1>6. ordinals = [i \in 1..hi - lo |-> lo + i - 1]
  BY <1>5, SameCardinality DEF Loop!ChunkOrdinals, Loop!FirstOrdinal
<1>7. IsList(acc') /\ Len(acc') = k + 1
  BY <1>1, <1>2, AppendList
<1>8. Least(lo, n) = lo
  BY <1>3, <1>4, <1>5 DEF Least
<1> HIDE DEF lo, hi, ordinals
<1>9. out' = UpTo(hi)
  BY <1>1, <1>2, <1>5, <1>6, <1>8, UpToMore
<1> HIDE DEF k, n
<1>10. k + 1 <= Loop!ChunkCount(kinds)
  BY <1>1, <1>3
<1>11. out' = UpTo(Least(Len(acc') * ChunkEvents, n))
  BY <1>7, <1>9 DEF hi
<1>12. n' = n /\ Loop!ChunkCount(kinds)' = Loop!ChunkCount(kinds)
  BY <1>1 DEF n, Events, Loop!ChunkCount, Loop!EventLines, Loop!Readable, Loop!ReadFails
<1> QED  BY <1>1, <1>2, <1>7, <1>10, <1>11, <1>12 DEF Folding, n

\* A loop that returns without an error has folded every event.
LEMMA FoldingEnds ==
  ASSUME Folding, Loop!Finish, outcome' = Loop!Done
  PROVE  out = UpTo(Cardinality(Events(kinds))) /\ "ioerr" \notin {kinds[i] : i \in DOMAIN kinds}
<1> DEFINE k == Len(acc)
           n == Cardinality(Events(kinds))
<1>1. Loop!Outcome(kinds) = Loop!Done /\ (k = Loop!ChunkCount(kinds) \/ ~Loop!WellFormed(kinds, k))
  BY DEF Loop!Finish
<1>2. Loop!BadLines(kinds) = {} /\ ~Loop!ReadFails(kinds)
  BY <1>1 DEF Loop!Outcome, Loop!Done, Loop!BadLine, Loop!IoError
<1>3. IsList(kinds) /\ IsList(acc) /\ k <= Loop!ChunkCount(kinds) /\ out = UpTo(Least(k * ChunkEvents, n))
  BY DEF Folding
<1>4. k \in Nat /\ n \in Nat /\ Loop!ChunkCount(kinds) \in Nat
  BY <1>3, ListDomain, EventsFinite, ChunkStarts
<1>5. k = Loop!ChunkCount(kinds)
  <2> SUFFICES ASSUME k # Loop!ChunkCount(kinds) PROVE FALSE
    OBVIOUS
  <2>1. k < Loop!ChunkCount(kinds)
    BY <1>3, <1>4
  <2>2. PICK i \in Loop!ChunkLines(kinds, k) : kinds[i] = "bad"
    BY <1>1 DEF Loop!WellFormed
  <2>3. i \in Loop!EventLines(kinds) /\ Loop!Ordinal(kinds, i) \div ChunkEvents = k
    BY DEF Loop!ChunkLines
  <2>4. i \in Loop!BadLines(kinds)
    BY <2>1, <2>2, <2>3 DEF Loop!BadLines
  <2>5. QED  BY <1>2, <2>4
<1>6. n <= k * ChunkEvents
  BY <1>2, <1>3, <1>4, <1>5, ChunkStarts
<1>7. k * ChunkEvents \in Nat
  BY <1>4, ChunkEventsAssumption
<1>8. Least(k * ChunkEvents, n) = n
  BY <1>4, <1>6, <1>7 DEF Least
<1>9. "ioerr" \notin {kinds[i] : i \in DOMAIN kinds}
  BY <1>2, <1>3, ListDomain DEF Loop!ReadFails
<1> QED  BY <1>3, <1>8, <1>9

LEMMA CountingInit == Init => Counting
BY DEF Init, Counting, Before, After, Loop!Running, Loop!Done

\* The input that is opened is the one hashed.
LEMMA OpenCounting == Reading /\ Counting /\ Open => Counting'
<1> SUFFICES ASSUME Reading, Counting, Open PROVE Counting'
  OBVIOUS
<1> USE DEF Before, After
<1>1. /\ phase = "open" /\ outcome' = outcome /\ outcome = Loop!Running /\ Loop!Running # Loop!Done
      /\ sha' = sha /\ replaced' = replaced /\ input' = input /\ content' = content
      /\ acc' = <<>> /\ out' = <<>> /\ input.profile # "unknown"
  BY DEF Open, Counting, Reading, Loop!Running, Loop!Done
<1>2. CASE ~Opens(content, input.profile)
  BY <1>1, <1>2 DEF Open, Leave, Counting
<1>3. CASE Opens(content, input.profile)
  <2>1. /\ lines' = Lines(content, input.profile) /\ phase' = "loop"
        /\ kinds' = [i \in DOMAIN lines' |-> Kind(lines'[i])]
    BY <1>3 DEF Open
  <2>2. IsList(lines')
    BY <1>1, <1>3, <2>1, TextIs, LinesList DEF Reading, Lines
  <2>3. Len(lines') \in Nat /\ DOMAIN lines' = 1..Len(lines')
    BY <2>2, ListDomain
  <2> DEFINE m == Len(lines')
  <2>4. m \in Nat /\ kinds' = [i \in 1..m |-> kinds'[i]]
    BY <2>1, <2>3
  <2> HIDE DEF m
  <2>l. IsList(kinds')
    BY <2>4, ListOf
  <2>5. Folding'
    BY <1>1, <2>l, FoldingStarts, EmptyList DEF Folding
  <2>6. SameInput'
    <3>1. CASE replaced
      BY <1>1, <3>1 DEF SameInput
    <3>2. CASE ~replaced
      <4>1. sha = <<content>>
        BY <1>1, <3>2 DEF Counting
      <4>2. sha'[1] = content
        BY <1>1, <4>1
      <4>3. /\ Lines(sha[1], input.profile)' = Lines(content, input.profile)
            /\ Opens(sha[1], input.profile)' = Opens(content, input.profile)
        BY <1>1, <4>2 DEF Lines, Text, Opens
      <4>4. QED  BY <1>3, <2>1, <4>3 DEF SameInput
    <3>3. QED  BY <3>1, <3>2
  <2>7. QED  BY <1>1, <2>1, <2>5, <2>6 DEF Counting
<1> QED  BY <1>2, <1>3

LEMMA FoldCounting == Counting /\ Fold => Counting'
<1> SUFFICES ASSUME Counting, Fold PROVE Counting'
  OBVIOUS
<1> USE DEF Before, After
<1>1. /\ phase = "loop" /\ phase' = "loop" /\ outcome = Loop!Running /\ Loop!Running # Loop!Done
      /\ sha' = sha /\ replaced' = replaced /\ input' = input /\ lines' = lines
      /\ Folding /\ SameInput /\ Loop!FoldChunk
  BY DEF Fold, Counting, Loop!Running, Loop!Done
<1>2. Folding' /\ outcome' = outcome
  BY <1>1, FoldingMore
<1>3. SameInput'
  BY <1>1 DEF SameInput, Opens, Lines, Text
<1> QED  BY <1>1, <1>2, <1>3 DEF Counting

LEMMA FinishCounting == Counting /\ Finish => Counting'
<1> SUFFICES ASSUME Counting, Finish PROVE Counting'
  OBVIOUS
<1> USE DEF Before, After
<1>1. /\ phase = "loop" /\ Folding /\ SameInput /\ Loop!Finish
      /\ sha' = sha /\ replaced' = replaced /\ input' = input /\ lines' = lines
      /\ kinds' = kinds /\ out' = out
      /\ \/ outcome' = Loop!Done /\ phase' = "report"
         \/ outcome' # Loop!Done /\ phase' = "exited"
  BY DEF Finish, Counting, Leave, Loop!Finish
<1>2. SameInput'
  BY <1>1 DEF SameInput, Opens, Lines, Text
<1>3. outcome' = Loop!Done => AllCounted'
  <2> SUFFICES ASSUME outcome' = Loop!Done PROVE AllCounted'
    OBVIOUS
  <2>1. out = UpTo(Cardinality(Events(kinds))) /\ "ioerr" \notin {kinds[i] : i \in DOMAIN kinds}
    BY <1>1, FoldingEnds
  <2>2. Events(kinds)' = Events(kinds)
    BY <1>1 DEF Events, Loop!EventLines, Loop!Readable
  <2>3. QED  BY <1>1, <1>2, <2>1, <2>2 DEF AllCounted
<1> QED  BY <1>1, <1>3 DEF Counting

\* What is counted stays so.
LEMMA CountedStays ==
  ASSUME AllCounted, UNCHANGED <<input, replaced, sha, lines, kinds, out>>
  PROVE  AllCounted'
<1>1. SameInput'
  BY DEF AllCounted, SameInput, Opens, Lines, Text
<1>2. QED  BY <1>1 DEF AllCounted, Events, Loop!EventLines, Loop!Readable

LEMMA CountingStep == Reading /\ Counting /\ [Next]_vars => Counting'
<1> SUFFICES ASSUME Reading, Counting, [Next]_vars PROVE Counting'
  OBVIOUS
<1> USE DEF Before, After
<1>r. Loop!Running # Loop!Done
  BY DEF Loop!Running, Loop!Done
<1>1. CASE Analyze
  BY <1>1, <1>r DEF Analyze, Leave, Counting, loop
<1>2. CASE Identify
  BY <1>2, <1>r DEF Identify, Leave, Counting, loop
<1>3. CASE Open
  BY <1>3, OpenCounting
<1>4. CASE Fold
  BY <1>4, FoldCounting
<1>5. CASE Finish
  BY <1>5, FinishCounting
<1>6. CASE Report
  <2>1. /\ phase = "report" /\ phase' \in {"mkdir", "exited"}
        /\ UNCHANGED <<input, replaced, sha, lines, kinds, out, outcome>>
    BY <1>6 DEF Report, Leave, loop
  <2>2. QED  BY <2>1, CountedStays DEF Counting
<1>7. CASE MakeDir \/ Truncate \/ Complete \/ Success \/ WriteFails
  <2>1. /\ phase \in {"mkdir", "write", "writing"} /\ phase' \in {"write", "writing", "exited"}
        /\ UNCHANGED <<input, replaced, sha, lines, kinds, out, outcome>>
    BY <1>7 DEF MakeDir, Truncate, Complete, Success, WriteFails, Leave, loop
  <2>2. QED  BY <2>1, CountedStays DEF Counting
<1>8. CASE Replace
  BY <1>8, <1>r DEF Replace, Counting, loop
<1>9. CASE Kill
  <2>1. phase' = "exited" /\ UNCHANGED <<input, replaced, sha, lines, kinds, out, outcome>>
    BY <1>9 DEF Kill, Leave, loop
  <2>2. QED  BY <2>1, CountedStays DEF Counting
<1>10. CASE UNCHANGED vars
  <2>1. /\ UNCHANGED <<input, replaced, sha, lines, kinds, out, outcome>>
        /\ UNCHANGED <<phase, content, acc>>
    BY <1>10 DEF vars, loop
  <2>2. SameInput' = SameInput /\ Folding' = Folding
    BY <2>1 DEF SameInput, Opens, Lines, Text, Folding, Events, Loop!ChunkCount, Loop!EventLines,
                Loop!Readable, Loop!ReadFails
  <2>3. QED  BY <2>1, <2>2, CountedStays DEF Counting
<1>11. QED
  BY <1>1, <1>2, <1>3, <1>4, <1>5, <1>6, <1>7, <1>8, <1>9, <1>10 DEF Next, Command

-----------------------------------------------------------------------------
(* Writing is kept: the plan and the directory. *)

LEMMA OneFile == \A name : IsList(One(name))
<1> TAKE name
<1>1. One(name) = [i \in 1..1 |-> One(name)[i]]
  BY DEF One
<1>2. QED  BY <1>1, ListOf

LEMMA FilesPerHist ==
  ASSUME HistNamesOf(hir) \in Seq(STRING), NEW suffix
  PROVE  IsList(PerHist(suffix))
<1> DEFINE n == Len(HistNamesOf(hir))
           s == PerHist(suffix)
<1>1. n \in Nat /\ DOMAIN HistNamesOf(hir) = 1..n
  BY LenProperties
<1>2. s = [i \in 1..n |-> s[i]]
  BY <1>1 DEF PerHist
<1> HIDE DEF n, s
<1>3. IsList(s)
  BY <1>1, <1>2, ListOf
<1> QED  BY <1>3 DEF s

LEMMA WhenFiles ==
  ASSUME NEW files, IsList(files), NEW wanted
  PROVE  IsList(When(wanted, files))
BY EmptyList DEF When

LEMMA PlanList ==
  ASSUME HistNamesOf(hir) \in Seq(STRING)
  PROVE  IsList(FilesToWrite)
<1>1. IsList(Listed)
  <2>1. \A name : IsList(One(name)) /\ \A wanted : IsList(When(wanted, One(name)))
    BY OneFile, WhenFiles
  <2>2. \A suffix, wanted : IsList(When(wanted, PerHist(suffix)))
    BY FilesPerHist, WhenFiles
  <2>3. \A s, t : IsList(s) /\ IsList(t) => IsList(s \o t)
    BY ConcatList
  <2>4. QED  BY <2>1, <2>2, <2>3, Zenon DEF Listed
<1>2. Len(Listed) \in Nat /\ DOMAIN Listed = 1..Len(Listed)
  BY <1>1, ListDomain
<1>3. FilesToWrite = [k \in 1..Len(Listed) |-> FilesToWrite[k]]
  BY <1>2 DEF FilesToWrite
<1>4. QED  BY <1>2, <1>3, ListOf

LEMMA WritingInit == Init => Writing
<1> SUFFICES ASSUME Init PROVE Writing
  OBVIOUS
<1>1. IsList(plan) /\ Len(plan) = 0
  BY EmptyList DEF Init
<1>2. Changed = {}
  BY DEF Init, Changed, State
<1>3. written = 0 /\ exit = "none" /\ phase = "start"
  BY DEF Init
<1> QED  BY <1>1, <1>2, <1>3 DEF Writing

\* The first file to write is begun, or fails before anything of it is there.
LEMMA TruncateWriting == Counting /\ Writing /\ Truncate => Writing'
<1> SUFFICES ASSUME Counting, Writing, Truncate PROVE Writing'
  OBVIOUS
<1> DEFINE name == plan[written + 1].name
<1>1. /\ phase = "write" /\ written < Len(plan) /\ exit = "none" /\ outcome = Loop!Done
      /\ plan' = plan /\ written' = written /\ outcome' = outcome /\ input' = input
  BY DEF Truncate, Writing, Counting, After, loop
<1>2. /\ written \in Nat /\ IsList(plan) /\ written \in 0..Len(plan)
  BY DEF Writing
<1>s. \A m \in Changed : disk[m] = State(disk[m].is, disk[m].of)
  BY DEF Writing
<1>3. /\ \A m \in Changed : disk[m].is = "whole" /\ disk[m].of \in 1..written /\ plan[disk[m].of].name = m
      /\ \A k \in 1..written : plan[k].name \in Changed /\ (disk[plan[k].name].is = "whole" => disk[plan[k].name].of >= k)
  BY <1>1 DEF Writing
<1>4. CASE disk' = disk /\ phase' = "exited" /\ exit' = "2"
  <2>1. Changed' = Changed
    BY <1>4 DEF Changed
  <2>2. QED  BY <1>1, <1>2, <1>3, <1>4, <1>s, <2>1 DEF Writing
<1>5. CASE disk' = Put(name, State("torn", 0)) /\ phase' = "writing" /\ exit' = exit
  <2>1. /\ DOMAIN disk' = DOMAIN disk \cup {name} /\ disk'[name].is = "torn"
        /\ disk'[name] = State(disk'[name].is, disk'[name].of)
        /\ \A m \in DOMAIN disk : m # name => disk'[m] = disk[m]
    BY <1>5 DEF Put, State
  <2> HIDE DEF name
  <2>2. Changed' = Changed \cup {name}
    BY <2>1 DEF Changed
  <2>3. \A m \in Changed' : m # name => m \in Changed /\ disk'[m] = disk[m]
    BY <2>1, <2>2 DEF Changed
  <2>4. \A m \in Changed' :
           \/ disk'[m].is = "whole" /\ disk'[m].of \in 1..written /\ plan[disk'[m].of].name = m
           \/ disk'[m].is = "torn" /\ plan[written + 1].name = m
    BY <1>3, <2>1, <2>3 DEF name
  <2>5. \A k \in 1..written : /\ plan[k].name \in Changed'
                              /\ disk'[plan[k].name].is = "whole" => disk'[plan[k].name].of >= k
    BY <1>3, <2>1, <2>2, <2>3
  <2>s. \A m \in Changed' : disk'[m] = State(disk'[m].is, disk'[m].of)
    BY <1>s, <2>1, <2>3
  <2>6. QED  BY <1>1, <1>2, <1>5, <2>4, <2>5, <2>s DEF Writing
<1>6. QED
  BY <1>4, <1>5 DEF Truncate, Leave

\* The file begun is completed.
LEMMA CompleteWriting == Counting /\ Writing /\ Complete => Writing'
<1> SUFFICES ASSUME Counting, Writing, Complete PROVE Writing'
  OBVIOUS
<1> DEFINE name == plan[written + 1].name
<1>1. /\ phase = "writing" /\ written < Len(plan) /\ exit = "none" /\ outcome = Loop!Done
      /\ plan' = plan /\ written' = written + 1 /\ outcome' = outcome /\ input' = input
      /\ phase' = "write" /\ exit' = exit /\ disk' = Put(name, State("whole", written + 1))
  BY DEF Complete, Writing, Counting, After, loop
<1>2. /\ written \in Nat /\ IsList(plan) /\ Len(plan) \in Nat
  BY ListDomain DEF Writing
<1>s. \A m \in Changed : disk[m] = State(disk[m].is, disk[m].of)
  BY DEF Writing
<1>3. /\ \A m \in Changed : m # name =>
           disk[m].is = "whole" /\ disk[m].of \in 1..written /\ plan[disk[m].of].name = m
      /\ \A k \in 1..written : plan[k].name \in Changed /\ (disk[plan[k].name].is = "whole" => disk[plan[k].name].of >= k)
  BY DEF Writing
<1>4. /\ DOMAIN disk' = DOMAIN disk \cup {name} /\ disk'[name].is = "whole" /\ disk'[name].of = written + 1
      /\ disk'[name] = State(disk'[name].is, disk'[name].of)
      /\ \A m \in DOMAIN disk : m # name => disk'[m] = disk[m]
  BY <1>1 DEF Put, State
<1>n. plan[written + 1].name = name
  OBVIOUS
<1> HIDE DEF name
<1>5. Changed' = Changed \cup {name}
  BY <1>4 DEF Changed
<1>6. \A m \in Changed' : m # name => m \in Changed /\ disk'[m] = disk[m]
  BY <1>4, <1>5 DEF Changed
<1>7. \A m \in Changed' :
         disk'[m].is = "whole" /\ disk'[m].of \in 1..written' /\ plan[disk'[m].of].name = m
  <2> SUFFICES ASSUME NEW m \in Changed'
               PROVE  disk'[m].is = "whole" /\ disk'[m].of \in 1..written' /\ plan[disk'[m].of].name = m
    OBVIOUS
  <2>1. CASE m = name
    <3>1. written + 1 \in 1..written'
      BY <1>1, <1>2
    <3>2. QED  BY <1>4, <1>n, <2>1, <3>1
  <2>2. CASE m # name
    <3>1. disk'[m] = disk[m] /\ disk[m].is = "whole" /\ disk[m].of \in 1..written /\ plan[disk[m].of].name = m
      BY <1>3, <1>6, <2>2
    <3>2. 1..written \subseteq 1..written'
      BY <1>1, <1>2
    <3>3. QED  BY <3>1, <3>2
  <2>3. QED  BY <2>1, <2>2
<1>8. \A k \in 1..written' : /\ plan[k].name \in Changed'
                             /\ disk'[plan[k].name].is = "whole" => disk'[plan[k].name].of >= k
  <2> SUFFICES ASSUME NEW k \in 1..written'
               PROVE  /\ plan[k].name \in Changed'
                      /\ disk'[plan[k].name].is = "whole" => disk'[plan[k].name].of >= k
    OBVIOUS
  <2>1. CASE plan[k].name = name
    <3>1. k <= written + 1
      BY <1>1, <1>2
    <3>2. QED  BY <1>1, <1>2, <1>4, <1>5, <2>1, <3>1
  <2>2. CASE plan[k].name # name
    <3>1. k \in 1..written
      BY <1>1, <1>2, <1>n, <2>2
    <3>2. plan[k].name \in Changed /\ disk'[plan[k].name] = disk[plan[k].name]
      BY <1>3, <1>5, <1>6, <2>2, <3>1
    <3>3. QED  BY <1>3, <1>5, <3>1, <3>2
  <2>3. QED  BY <2>1, <2>2
<1>9. written' \in 0..Len(plan)
  BY <1>1, <1>2
<1>t. \A m \in Changed' : disk'[m] = State(disk'[m].is, disk'[m].of)
  BY <1>s, <1>4, <1>6
<1> QED  BY <1>1, <1>2, <1>7, <1>8, <1>9, <1>t DEF Writing

LEMMA WritingStep == Reading /\ Counting /\ Writing /\ [Next]_vars => Writing'
<1> SUFFICES ASSUME Reading, Counting, Writing, [Next]_vars PROVE Writing'
  OBVIOUS
<1> USE DEF Before, After
<1>r. Loop!Running # Loop!Done
  BY DEF Loop!Running, Loop!Done
<1>1. CASE Analyze \/ Identify \/ Open \/ Replace
  <2>1. /\ phase \in Before /\ UNCHANGED <<disk, plan, written, outcome, input>> /\ outcome = Loop!Running
        /\ \/ phase' = "exited" /\ exit' \in {"1", "2"}
           \/ phase' \in Before \cup {"loop"} /\ exit' = exit
    BY <1>1 DEF Analyze, Identify, Open, Replace, Leave, Counting, loop
  <2>2. Changed = {} /\ Changed' = Changed /\ written = 0 /\ exit = "none"
    BY <2>1 DEF Writing, Changed
  <2>3. QED  BY <1>r, <2>1, <2>2 DEF Writing
<1>2. CASE Fold
  <2>1. /\ phase = "loop" /\ UNCHANGED <<disk, plan, written, outcome, input, phase, exit>>
    BY <1>2 DEF Fold, Loop!FoldChunk
  <2>2. Changed = {} /\ Changed' = Changed
    BY <2>1 DEF Writing, Changed
  <2>3. QED  BY <2>1, <2>2 DEF Writing
<1>3. CASE Finish
  <2>1. /\ phase = "loop" /\ UNCHANGED <<disk, plan, written, input>>
        /\ \/ outcome' = Loop!Done /\ phase' = "report" /\ exit' = exit
           \/ outcome' # Loop!Done /\ phase' = "exited" /\ exit' = "1"
    BY <1>3 DEF Finish, Leave
  <2>2. Changed = {} /\ Changed' = Changed /\ written = 0
    BY <2>1 DEF Writing, Changed
  <2>3. QED  BY <2>1, <2>2 DEF Writing
<1>4. CASE Report
  <2>1. /\ phase = "report" /\ UNCHANGED <<disk, written, outcome, input>> /\ outcome = Loop!Done
        /\ \/ plan' = FilesToWrite /\ phase' = "mkdir" /\ exit' = exit
           \/ plan' = plan /\ phase' = "exited" /\ exit' = "0" /\ ~input.dir
    BY <1>4 DEF Report, Leave, Counting, loop
  <2>2. Changed = {} /\ Changed' = Changed /\ written = 0
    BY <2>1 DEF Writing, Changed
  <2>3. HistNamesOf(hir) \in Seq(STRING)
    BY <2>1, NamesAssumption DEF Reading
  <2>4. IsList(plan') /\ 0 \in 0..Len(plan')
    <3>1. IsList(plan')
      BY <2>1, <2>3, PlanList DEF Writing
    <3>2. Len(plan') \in Nat
      BY <3>1, ListDomain
    <3>3. QED  BY <3>1, <3>2
  <2>5. QED  BY <2>1, <2>2, <2>4 DEF Writing
<1>5. CASE MakeDir
  <2>1. /\ phase = "mkdir" /\ phase' = "write" /\ UNCHANGED <<disk, plan, written, outcome, input, exit>>
    BY <1>5 DEF MakeDir, loop
  <2>2. Changed = {} /\ Changed' = Changed /\ written = 0
    BY <2>1 DEF Writing, Changed
  <2>3. QED  BY <2>1, <2>2 DEF Writing
<1>6. CASE Truncate
  BY <1>6, TruncateWriting
<1>7. CASE Complete
  BY <1>7, CompleteWriting
<1>8. CASE Success
  <2>1. /\ phase = "write" /\ phase' = "exited" /\ exit' = "0" /\ written = Len(plan)
        /\ UNCHANGED <<disk, plan, written, outcome, input>> /\ outcome = Loop!Done
    BY <1>8 DEF Success, Leave, Counting, loop
  <2>2. Changed' = Changed /\ exit = "none"
    BY <2>1 DEF Writing, Changed
  <2>3. QED  BY <2>1, <2>2 DEF Writing
<1>9. CASE WriteFails \/ Kill
  <2>1. /\ phase # "exited" /\ phase' = "exited" /\ exit' \in {"2", "killed"}
        /\ UNCHANGED <<disk, plan, written, outcome, input>>
    BY <1>9 DEF WriteFails, Kill, Leave, loop
  <2>2. Changed' = Changed /\ exit = "none"
    BY <2>1 DEF Writing, Changed
  <2>3. QED  BY <2>1, <2>2 DEF Writing
<1>10. CASE UNCHANGED vars
  BY <1>10 DEF vars, loop, Writing, Changed
<1>11. QED
  BY <1>1, <1>2, <1>3, <1>4, <1>5, <1>6, <1>7, <1>8, <1>9, <1>10 DEF Next, Command

-----------------------------------------------------------------------------
(* The theorem. *)

LEMMA InvTells == Counting /\ Writing => (NamesDiffer => OutputTells)
<1> SUFFICES ASSUME Counting, Writing, NamesDiffer PROVE OutputTells
  OBVIOUS
<1>1. Changed # {} => /\ outcome = Loop!Done
                      /\ out = [n \in 1..Cardinality(Loop!EventLines(kinds)) |-> n - 1]
                      /\ "ioerr" \notin {kinds[i] : i \in DOMAIN kinds}
  BY DEF Counting, Writing, AllCounted, UpTo, Events
<1>2. /\ Len(plan) \in Nat /\ DOMAIN plan = 1..Len(plan) /\ written \in Nat /\ written <= Len(plan)
  BY ListDomain DEF Writing
<1>3. \A m \in Changed :
        \/ disk[m].is = "whole" /\ disk[m].of \in 1..written /\ plan[disk[m].of].name = m
        \/ /\ disk[m].is = "torn" /\ (phase = "writing" \/ exit \in {"2", "killed"})
           /\ written < Len(plan) /\ plan[written + 1].name = m
  BY DEF Writing
<1>4. \A k \in 1..written : plan[k].name \in Changed
  BY DEF Writing
<1>5. \A m \in Changed : m \in DOMAIN disk /\ Holds(m) = disk[m] /\ disk[m] = State(disk[m].is, disk[m].of)
  BY DEF Changed, Holds, Writing
<1>6. Changed \subseteq {plan[k].name : k \in DOMAIN plan \cap (1..written \cup Begun)}
  <2> SUFFICES ASSUME NEW m \in Changed
               PROVE  \E k \in DOMAIN plan \cap (1..written \cup Begun) : plan[k].name = m
    OBVIOUS
  <2>1. CASE disk[m].of \in 1..written /\ plan[disk[m].of].name = m
    BY <1>2, <2>1
  <2>2. CASE /\ phase = "writing" \/ exit \in {"2", "killed"}
             /\ written < Len(plan) /\ plan[written + 1].name = m
    <3>1. written + 1 \in DOMAIN plan \cap (1..written \cup Begun)
      BY <1>2, <2>2 DEF Begun
    <3>2. QED  BY <2>2, <3>1
  <2>3. QED  BY <1>3, <2>1, <2>2
<1>7. ASSUME NEW k \in 1..written
      PROVE  Holds(plan[k].name) = State("whole", k)
  <2> DEFINE m == plan[k].name
  <2>1. m \in Changed /\ k \in DOMAIN plan /\ k # written + 1
    BY <1>2, <1>4, <1>7
  <2>2. ~(written < Len(plan) /\ plan[written + 1].name = m)
    <3>1. written < Len(plan) => written + 1 \in DOMAIN plan
      BY <1>2
    <3>2. QED  BY <2>1, <3>1 DEF NamesDiffer
  <2>3. disk[m].is = "whole" /\ disk[m].of \in 1..written /\ plan[disk[m].of].name = m
    BY <1>3, <2>1, <2>2
  <2>4. disk[m].of = k
    <3>1. disk[m].of \in DOMAIN plan
      BY <1>2, <2>3
    <3>2. QED  BY <2>1, <2>3, <3>1 DEF NamesDiffer
  <2>5. Holds(m) = State(disk[m].is, disk[m].of)
    BY <1>5, <2>1
  <2>6. QED  BY <2>3, <2>4, <2>5
<1>8. OwnFiles
  BY <1>2, <1>7 DEF OwnFiles, Writing
<1>9. exit \in {"0", "1"} => (exit = "0" <=> outcome = Loop!Done)
  BY DEF Writing
<1> QED  BY <1>1, <1>6, <1>7, <1>8, <1>9 DEF OutputTells

\* What the output directory tells of the run (write_histo_outputs, run.rs), when no two
\* files of it have one name: nothing in it changes until every event of the file is
\* counted; however the run ends, the files before the one being written are whole and
\* each the one of its entry, and no other is touched; after exit 0 all of them are there.
\* And when nothing takes the name of the input meanwhile, the hash in them is of the
\* file that was counted.
THEOREM DirectoryTells ==
  Spec => [](NamesDiffer => OutputTells) /\ [](~replaced => HashTells)
<1>1. Init => Inv
  BY ReadingInit, CountingInit, WritingInit DEF Inv
<1>2. Inv /\ [Next]_vars => Inv'
  BY ReadingStep, CountingStep, WritingStep DEF Inv
<1>3. Inv => (NamesDiffer => OutputTells)
  BY InvTells DEF Inv
<1>4. Inv => (~replaced => HashTells)
  BY DEF Inv, Counting, Writing, AllCounted, SameInput, HashTells
<1>5. QED
  BY <1>1, <1>2, <1>3, <1>4, PTL DEF Spec
=============================================================================
