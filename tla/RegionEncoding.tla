--------------------------- MODULE RegionEncoding ---------------------------
(***************************************************************************)
(* Two regions grow statement by statement over one event.  The event loop   *)
(* (region_walk) stops at the first statement that does not pass; the         *)
(* witness validator (region3) looks at all of them; the encoder conjoins     *)
(* one formula per statement.  What is proved of the formulas must be true    *)
(* of the event.                                                            *)
(***************************************************************************)
EXTENDS Interval, Axioms

CONSTANTS Statements,  \* the statements a region is built from, in a sequence
          Partner,     \* the indices of those that the second region may take
          Events,      \* the events, in a sequence
          Junk,        \* the values the solver may give a quantity the event lacks
          Probes,      \* the values of an element's properties that tell filters apart
          MaxLen       \* bound: statements of the two regions

VARIABLES event,       \* the event, an index into Events
          reading,     \* what a cut on a property of a whole collection means
          region,      \* the statements of regions "a" and "b", indices into Statements
          walk,        \* what the event loop has decided of each
          kleene       \* what the witness validator has

vars == <<event, reading, region, walk, kleene>>

Names == {"a", "b"}
Ev(e) == Context(Events[e])
\* A cut on a property of a whole collection asks it of every element or of some:
\* the language leaves it open (OPEN-1), and the encoder must be right either way.
Readings == {"any", "all"}
Open(n) == n.n = "cmp" /\ CollProps(n.l) # {} /\ CollProps(n.r) = {}
Read(s, as) ==
    IF s.s \in {"select", "reject"} /\ Open(s.n)
    THEN [s EXCEPT !.n = [n |-> "reduce", kind |-> as, coll |-> s.n.l.coll,
                          body |-> [s.n EXCEPT !.l = [n |-> "relem", prop |-> s.n.l.prop]]]]
    ELSE s

\* What every statement says of every event, and the formula it has.
Walked == [e \in DOMAIN Events |-> [as \in Readings |->
             [i \in DOMAIN Statements |-> Stmt(Read(Statements[i], as), Ev(e))]]]
Checked == [e \in DOMAIN Events |-> [as \in Readings |->
              [i \in DOMAIN Statements |-> Stmt3(Read(Statements[i], as), Ev(e))]]]
Encoded == [i \in DOMAIN Statements |-> EncodeStmt(Statements[i])]

Init == /\ event \in DOMAIN Events
        /\ reading \in Readings
        /\ region = [r \in Names |-> <<>>]
        /\ walk = [r \in Names |-> "T"]
        /\ kleene = [r \in Names |-> "T"]

Take(r, i) ==
    /\ Len(region["a"]) + Len(region["b"]) < MaxLen
    /\ r = "b" \/ region["a"] # <<>> => i \in Partner
    /\ region' = [region EXCEPT ![r] = Append(@, i)]
    /\ walk' = [walk EXCEPT ![r] = IF @ = "T" THEN Walked[event][reading][i] ELSE @]
    /\ kleene' = [kleene EXCEPT ![r] = Kleene(TRUE, {@, Checked[event][reading][i]})]
    /\ UNCHANGED <<event, reading>>

Of(kinds) == {i \in DOMAIN Statements : Statements[i].s \in kinds}
Cut == \E r \in Names : \E i \in Of({"select", "trigger"}) : Take(r, i)
Reject == \E r \in Names : \E i \in Of({"reject"}) : Take(r, i)
Inherit == \E r \in Names : \E i \in Of({"inherit"}) : Take(r, i)
Neutrally == \E r \in Names : \E i \in Of({"bin", "bincond", "nonmember"}) : Take(r, i)

Next == Cut \/ Reject \/ Inherit \/ Neutrally
Spec == Init /\ [][Next]_vars

-----------------------------------------------------------------------------
\* The value a quantity has in an event; one the event lacks may have any.
ValueOf(q, c) == CASE q.q = "present" -> BoolVal(TriOf(Quantity(q.of, c).k = "val"))
                   [] q.q = "ext" /\ q.arg.a = "node" -> Num(q.arg.node, c)
                   [] OTHER -> Quantity(q, c)
Indicated(q) == q.q = "present" /\ q.of.q = "ext" /\ q.of.arg.a = "node"
ValueOr(v, junk) == IF v.k = "val" THEN v.v.r ELSE junk
ValueIn(q, c, junk) == IF Indicated(q) THEN Int2Rat(IF Num(q.of.arg.node, c).k = "val" THEN 1 ELSE 0)
                       ELSE ValueOr(ValueOf(q, c), junk)
Valuation(f, c, junk) == [q \in Vars(f) |-> ValueIn(q, c, junk)]

\* What the superset and the subset of a statement's formula say of an event.
Says(f, e, junk) == Holds(f, Valuation(f, Ev(e), junk))
SaysOver == [e \in DOMAIN Events |-> [j \in Junk |-> [i \in DOMAIN Statements |-> Says(Over(Encoded[i]), e, j)]]]
SaysUnder == [e \in DOMAIN Events |-> [j \in Junk |-> [i \in DOMAIN Statements |-> Says(Under(Encoded[i]), e, j)]]]

\* What the solver is told besides: the axioms over every quantity of the formulas
\* and the derived size facts.
Mentions == UNION {Vars(Encoded[i]) : i \in DOMAIN Statements}
WithDerived(axioms) == axioms \cup DerivedFacts(UNION {Vars(f) : f \in axioms}, Probes)
Facts == WithDerived(EmitAxioms(Mentions, 32))
\* A fact is true of an event if no value of what the event lacks makes it false.
Lacking == <<0, 0>>
Readout(fs, e) == [q \in UNION {Vars(f) : f \in fs} |-> ValueIn(q, Ev(e), Lacking)]
Filling(f, read) == [{q \in Vars(f) : read[q] = Lacking} -> Junk]
TrueOf(f, read) == \A v \in Filling(f, read) : Holds(f, v @@ read)
MayBeTrue(f, read) == \E v \in Filling(f, read) : Holds(f, v @@ read)
AllTrue(fs, read) == \A f \in fs : TrueOf(f, read)
AllMayBe(fs, read) == \A f \in fs : MayBeTrue(f, read)
ConsistentWith(fs) == {e \in DOMAIN Events : AllTrue(fs, Readout(fs, e))}
Consistent == ConsistentWith(Facts)
PossibleWith(fs) == {e \in DOMAIN Events : AllMayBe(fs, Readout(fs, e))}
Possible == PossibleWith(Facts)

\* Whatever the event loop decides of a region, the witness validator decides the
\* same, although it looks at statements and operands the loop never reaches
\* (region_walk against region3).
LoopAgrees == \A r \in Names : walk[r] # "U" => kleene[r] = walk[r]

\* The superset of a region holds an event the event loop accepts, whatever value
\* the solver gives to what the event lacks (Formula::over).  Of the event loop, not
\* of the validator: a ternary whose guard is undecided but whose branches agree is
\* true for region3 and false in both branches of its formula.
OverSound == \A r \in Names : walk[r] = "T" =>
                \A j \in Junk : \A k \in DOMAIN region[r] : SaysOver[event][j][region[r][k]]

\* The subset of a region holds no event the region does not accept, not even one
\* it cannot decide (Formula::under).
UnderSound == \A r \in Names : \A j \in Junk :
                 (\A k \in DOMAIN region[r] : SaysUnder[event][j][region[r][k]]) => kleene[r] = "T"

\* No axiom and no derived fact is false of an event, whatever value the solver
\* gives to what the event lacks (emit_axioms, reconcile): a false one would refute
\* regions that the event is in.  It is a matter of the event, whatever the regions
\* have taken of the statements, so it is looked at before they take any.
FactsHold == (\A r \in Names : region[r] = <<>>) => event \in Consistent

\* Two regions that both accept an event are not refuted by their bounds, even if
\* the layer is told that every quantity has a value (disjoint_with).
Map(r) == IntervalMap(Over(FAnd([k \in DOMAIN region[r] |-> Encoded[region[r][k]]])))
Apart(m, n) == SelfEmpty(m) \/ DisjointWith(m, n, {})
IntervalSound == walk["a"] = "T" /\ walk["b"] = "T" => ~Apart(Map("a"), Map("b"))

\* What the doc of subst_reduce_quantity says: a quantity that still mentions the
\* element of a reducer is free, so it refutes no event: some value of it makes the
\* supersets of the regions that accept the event true together.
RECURSIVE HasThis(_)
HasThis(p) == p.p = "reduce" \/ (p.p = "sum" /\ \E i \in DOMAIN p.parts : HasThis(p.parts[i]))
Residual(q) == q.q = "ext" /\ q.arg.a = "particle" /\ HasThis(q.arg.of)
Given(v, x) == [q \in DOMAIN v |-> IF Residual(q) THEN x
                                  ELSE IF q.q = "present" /\ Residual(q.of) THEN Int2Rat(1)
                                  ELSE v[q]]
Accepting == {r \in Names : walk[r] = "T"}
TakenIn == {Over(Encoded[i]) : i \in UNION {Range(region[r]) : r \in Accepting}}
Compatible(fs, x) == \A f \in fs : Holds(f, Given(Valuation(f, Ev(event), Int2Rat(0)), x))
FreeTogether == \E x \in Junk : Compatible(TakenIn, x)

\* What the catalog says of EPRED, "true of every physical event because every element
\* of a filtered collection passed the filter", and guarded_fact of the value of what
\* an event lacks, that no axiom constrains it: some value makes each fact true.
FactsTrue == event \in Possible

\* Of three things the docs say of the encoding of an event and two regions, one at least
\* is so: what mentions the element of a reducer is free (encode.rs:1443-1447), a filter's
\* axiom is true of the event (adl-axioms lib.rs:233), and the subset of a region holds
\* only what the region accepts, where a separation lacks a leg too (quantity.rs:508).
\* Where it fails, all three do.
SomePromiseHolds == FreeTogether \/ FactsTrue \/ UnderSound
=============================================================================
