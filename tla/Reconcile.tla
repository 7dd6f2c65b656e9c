------------------------------- MODULE Reconcile -------------------------------
(***************************************************************************)
(* Reconciliation (adl-analysis/src/reconcile.rs, Engine::reconcile): two  *)
(* filtered collections of one detector object are compared cut set by cut *)
(* set, and a proven refinement becomes a fact about their sizes, asserted *)
(* in the solver's persistent frame under every query that follows.        *)
(*                                                                         *)
(* A cut set is lowered onto one generic element: over, under and real are *)
(* the elements its two projections, and the cuts themselves, let through. *)
(* A valuation gives that element and every collection's size.             *)
(***************************************************************************)
EXTENDS Naturals, Sequences, FiniteSets

CONSTANTS Elements,   \* what an element of a base collection can look like
          NColls,     \* filtered collections 1..NColls, in declaration order
          NBases,     \* base symbols 1..NBases, in symbol order
          Known,      \* the bases that are known detector objects
          Chains,     \* the filter chains a collection may be
          Modes       \* how the session may run

ASSUME ElementsAssumption == IsFiniteSet(Elements) /\ Elements # {}
ASSUME CountsAssumption == NColls \in Nat \ {0} /\ NBases \in Nat \ {0}
ASSUME KnownAssumption == Known \subseteq 1..NBases

\* "none": no solver.  "truthful": its word is taken, and is true.
\* "certified": it answers at will and --certify is on.
ASSUME ModesAssumption == Modes \subseteq {"none", "truthful", "certified"}

\* A filter chain: its base, whether a cut names a peer element, what passes.
ASSUME ChainsAssumption ==
    /\ Chains \subseteq [base : 1..NBases, peer : {"self", "peer"},
                         over : SUBSET Elements, under : SUBSET Elements,
                         real : SUBSET Elements]
    /\ \A c \in Chains : c.under \subseteq c.real /\ c.real \subseteq c.over

Colls == 1..NColls
Sizes == [Colls -> 0..Cardinality(Elements)]
Points == [elem : Elements, size : Sizes]

VARIABLES
    coll,       \* collection -> its filter chain
    subs,       \* <<a, b>>: a SUB axiom already says size(a) <= size(b)
    mode,       \* how this session runs
    step,       \* how far the engine is
    todo,       \* the candidate pairs not yet compared
    pair,       \* the pair in hand
    stack,      \* the solver's assertion stack, a set of named formulas a frame
    proof,      \* what stands behind each direction of the pair in hand
    facts,      \* the facts XR0, XR1, ... asserted so far, in order
    recon_ledger    \* enumerated pair -> what reconciliation concluded

vars == <<coll, subs, mode, step, todo, pair, stack, proof, facts, recon_ledger>>
input == <<coll, subs, mode>>
-----------------------------------------------------------------------------
(* Events: what each collection's base holds in one event.  A known base   *)
(* is one input whoever reads it; an unknown name may mean another input   *)
(* in each analysis.  A cut on a peer lets no lone element through.        *)

SharedInput(a, b) == coll[a].base = coll[b].base /\ coll[a].base \in Known
Events == {ev \in [Colls -> SUBSET Elements] :
             \A a, b \in Colls : SharedInput(a, b) => ev[a] = ev[b]}
Members(ev, c) == {x \in ev[c] \cap coll[c].real :
                     coll[c].peer = "peer" => ev[c] # {x}}
SizeIn(ev, c) == Cardinality(Members(ev, c))

\* size(sub) <= size(sup), as the engine asserts it and as the events have it.
derived_size_le(sub, sup) == {p \in Points : p.size[sub] <= p.size[sup]}
HoldsInEvents(sub, sup) == \A ev \in Events : SizeIn(ev, sub) <= SizeIn(ev, sup)
-----------------------------------------------------------------------------
(* Candidates: pairs of distinct filtered collections of one base symbol,  *)
(* by base and then in declaration order.                                  *)

Enumerated == {p \in Colls \X Colls : p[1] < p[2] /\ coll[p[1]].base = coll[p[2]].base}

\* Mutant of Groundable: a shared spelling is taken for a shared input.
GroundableByName(p) == coll[p[1]].peer = "self" /\ coll[p[2]].peer = "self"

\* Kept by build: a known detector base, and every cut speaks of the element
\* alone, so that it can be lowered onto the generic one.
Groundable(p) == /\ coll[p[1]].base \in Known
                 /\ coll[p[1]].peer = "self" /\ coll[p[2]].peer = "self"

PairLeq(p, q) == p[1] < q[1] \/ (p[1] = q[1] /\ p[2] <= q[2])
Leq(p, q) == \/ coll[p[1]].base < coll[q[1]].base
             \/ coll[p[1]].base = coll[q[1]].base /\ PairLeq(p, q)
NoPair == <<0, 0>>
-----------------------------------------------------------------------------
(* The session. *)

Named(tag, k, pts) == [name |-> <<tag, k>>, pts |-> pts]
Elem(S) == {p \in Points : p.elem \in S}
Axioms == {Named("AX", 0, {p \in Points : \A s \in subs : p.size[s[1]] <= p.size[s[2]]})}
XR(k) == Named("XR", k, derived_size_le(facts[k].sub, facts[k].sup))
Base == Axioms \cup {XR(k) : k \in DOMAIN facts}

Meet(F) == {p \in Points : \A f \in F : p \in f.pts}
Live == {p \in Points : \A d \in DOMAIN stack : \A f \in stack[d] : p \in f.pts}

Push(F) == stack' = Append(stack, F)
Pop == stack' = SubSeq(stack, 1, Len(stack) - 1)

\* Any check may come back with neither answer.
Answers == {"unknown"} \cup (IF mode = "certified" THEN {"sat", "unsat"}
                             ELSE IF Live = {} THEN {"unsat"} ELSE {"sat"})

(***************************************************************************)
(* certify_named_formulas_chain: some core of the query's own formulas F,  *)
(* the axioms and the facts is put to the kernel.  Whatever core the       *)
(* solver names, the kernel can accept only if all of them together are    *)
(* unsatisfiable; a missing core or a stray name fails closed.             *)
(***************************************************************************)
Certified(F) == IF mode # "certified" THEN {"off"}
                ELSE IF Meet(Base \cup F) = {} THEN {"yes", "no"} ELSE {"no"}

NoProof == [ab |-> "none", ba |-> "none"]

ReconInit ==
    /\ coll \in [Colls -> Chains]
    /\ subs \in {{}} \cup {{p} : p \in {q \in Colls \X Colls :
                     q[1] # q[2] /\ SharedInput(q[1], q[2]) /\ HoldsInEvents(q[1], q[2])}}
    /\ mode \in Modes
    /\ step = "build"
    /\ todo = {}
    /\ pair = NoPair
    /\ stack = <<Axioms>>
    /\ proof = NoProof
    /\ facts = <<>>
    /\ recon_ledger = [p \in Enumerated |-> "none"]

\* reconcile::build, and the ledger rows of the pairs it dropped.
Build ==
    /\ step = "build"
    /\ todo' = {p \in Enumerated : Groundable(p)}
    /\ recon_ledger' = [p \in Enumerated |-> IF Groundable(p) THEN "none" ELSE "Skipped"]
    /\ step' = IF mode = "none" THEN "bins" ELSE "frame"
    /\ UNCHANGED <<input, pair, stack, proof, facts>>

BothPass(p) == {Named("unnamed", 1, Elem(coll[p[1]].under)),
                Named("unnamed", 2, Elem(coll[p[2]].under))}

\* frame_sat: can one element pass both cut sets at all?  Nothing but SAT will do.
AskFrame ==
    /\ step = "frame"
    /\ \E p \in todo : /\ \A q \in todo : Leq(p, q)
                       /\ pair' = p
                       /\ Push(BothPass(p))
    /\ step' = "frameAsked"
    /\ UNCHANGED <<input, todo, proof, facts, recon_ledger>>

\* Mutant of AnswerFrame: the early return leaves the frame behind.
AnswerFrameUnpopped ==
    /\ step = "frameAsked"
    /\ \E answer \in Answers :
         IF answer = "sat" THEN step' = "ab" /\ Pop ELSE step' = "emit" /\ UNCHANGED stack
    /\ UNCHANGED <<input, todo, pair, proof, facts, recon_ledger>>

AnswerFrame ==
    /\ step = "frameAsked"
    /\ \E answer \in Answers : step' = IF answer = "sat" THEN "ab" ELSE "emit"
    /\ Pop
    /\ UNCHANGED <<input, todo, pair, proof, facts, recon_ledger>>
-----------------------------------------------------------------------------
(* prove_pred_implies: UNSAT(sub+ /\ not(sup-)), one direction then the other. *)

SubsetQuery(sub, sup) == {Named("QSUB", 0, Elem(coll[sub].over)),
                          Named("QSUBNEG", 0, Elem(Elements \ coll[sup].under))}

AskSubset(from, to, sub, sup) ==
    /\ step = from
    /\ Push(SubsetQuery(sub, sup))
    /\ step' = to
    /\ UNCHANGED <<input, todo, pair, proof, facts, recon_ledger>>

\* An UNSAT that cannot be certified under --certify is no claim.
AnswerSubset(from, to, dir, sub, sup) ==
    /\ step = from
    /\ \E answer \in Answers :
         \/ /\ answer = "unsat"
            /\ \E cert \in Certified(SubsetQuery(sub, sup)) :
                 proof' = [proof EXCEPT ![dir] = IF cert = "no" THEN "none" ELSE cert]
         \/ answer # "unsat" /\ UNCHANGED proof
    /\ Pop
    /\ step' = to
    /\ UNCHANGED <<input, todo, pair, facts, recon_ledger>>
-----------------------------------------------------------------------------
(* What the pair in hand gives: a ledger row, and the facts asserted at    *)
(* the base.  A direction a SUB axiom states already is not asserted again, *)
(* and under --certify neither is one without a chain.                     *)

Proven == {dir \in {"ab", "ba"} : proof[dir] # "none"}
Outcome == CASE Proven = {"ab", "ba"} -> "Equivalent"
             [] Proven = {"ab"}       -> "ARefinesB"
             [] Proven = {"ba"}       -> "BRefinesA"
             [] Proven = {}           -> "Unrelated"

Directed(dir) == IF dir = "ab" THEN pair ELSE <<pair[2], pair[1]>>

\* Mutant of Wanted: a SUB axiom on the pair, either way round, drops the fact.
WantedUnlessRelated(dir) ==
    /\ dir \in Proven
    /\ {pair, <<pair[2], pair[1]>>} \cap subs = {}
    /\ mode = "certified" => proof[dir] = "yes"

Wanted(dir) ==
    /\ dir \in Proven
    /\ Directed(dir) \notin subs
    /\ mode = "certified" => proof[dir] = "yes"

Fact(dir) == [sub |-> Directed(dir)[1], sup |-> Directed(dir)[2],
              id |-> IF Outcome = "Equivalent" THEN "XEQ" ELSE "XSUB"]
Emitted == (IF Wanted("ab") THEN <<Fact("ab")>> ELSE <<>>)
           \o (IF Wanted("ba") THEN <<Fact("ba")>> ELSE <<>>)

\* Mutant of NewXR: the numbering starts over with each pair.
NewXRRestarted ==
    {Named("XR", k, derived_size_le(Emitted[k].sub, Emitted[k].sup)) : k \in DOMAIN Emitted}

NewXR == {Named("XR", Len(facts) + k, derived_size_le(Emitted[k].sub, Emitted[k].sup)) :
            k \in DOMAIN Emitted}

Emit ==
    /\ step = "emit"
    /\ recon_ledger' = [recon_ledger EXCEPT ![pair] = Outcome]
    /\ facts' = facts \o Emitted
    /\ stack' = [stack EXCEPT ![Len(stack)] = @ \cup NewXR]
    /\ todo' = todo \ {pair}
    /\ pair' = NoPair
    /\ proof' = NoProof
    /\ step' = "frame"
    /\ UNCHANGED input

\* Every candidate is compared; the session goes on with the facts in its base.
Reconciled ==
    /\ step = "frame" /\ todo = {}
    /\ step' = "bins"
    /\ UNCHANGED <<input, todo, pair, stack, proof, facts, recon_ledger>>

ReconNext ==
    \/ Build \/ AskFrame \/ AnswerFrame
    \/ AskSubset("ab", "abAsked", pair[1], pair[2])
    \/ AnswerSubset("abAsked", "ba", "ab", pair[1], pair[2])
    \/ AskSubset("ba", "baAsked", pair[2], pair[1])
    \/ AnswerSubset("baAsked", "emit", "ba", pair[2], pair[1])
    \/ Emit \/ Reconciled
-----------------------------------------------------------------------------
(* Properties. *)

\* No asserted fact is false of an event: not for a private base name two
\* analyses happen to share, not for a cut on a peer element, not where a cut
\* is opaque, and, under --certify, whatever the solver answers.
FactsSound == \A k \in DOMAIN facts : HoldsInEvents(facts[k].sub, facts[k].sup)

\* Between two queries the session holds the axioms and the facts and nothing
\* of a query: a frame left behind would sit under every later proof.
BetweenQueries == {"build", "frame", "ab", "ba", "emit", "bins"}
OnlyBaseBetweenQueries == step \in BetweenQueries => stack = <<Base>>

\* What the ledger claims of a pair is what later queries can use: each
\* direction it states is a fact or a SUB axiom, and there is no fact of a
\* pair it does not state; Equivalent is the one outcome with XEQ facts.
States(outcome, dir) == outcome \in {"Equivalent", IF dir = "ab" THEN "ARefinesB"
                                                         ELSE "BRefinesA"}
FactsOf(sub, sup) == {k \in DOMAIN facts : facts[k].sub = sub /\ facts[k].sup = sup}
Backed(sub, sup, outcome, dir) ==
    /\ States(outcome, dir) => FactsOf(sub, sup) # {} \/ <<sub, sup>> \in subs
    /\ \A k \in FactsOf(sub, sup) :
         /\ States(outcome, dir) /\ <<sub, sup>> \notin subs
         /\ facts[k].id = "XEQ" <=> outcome = "Equivalent"
LedgerBacked ==
    /\ \A p \in DOMAIN recon_ledger : /\ Backed(p[1], p[2], recon_ledger[p], "ab")
                                      /\ Backed(p[2], p[1], recon_ledger[p], "ba")
    /\ \A j, k \in DOMAIN facts :
         facts[j].sub = facts[k].sub /\ facts[j].sup = facts[k].sup => j = k
=============================================================================
