----------------------------- MODULE CertKernel -----------------------------
(***************************************************************************)
(* From a refutation to a file that another tool can check (engine.rs,        *)
(* bundle.rs).  The engine names the formulas of a query, derives size facts  *)
(* whose proofs it keeps, certifies the query and writes a bundle: the        *)
(* formulas in order, the certificate, and the chain of every derived fact.   *)
(* The bundle is plain text and may be edited before it is replayed.         *)
(***************************************************************************)
EXTENDS Kernel

CONSTANTS Cuts,      \* the formulas a query may assert
          Facts,     \* the size facts that reconciliation may derive
          Premises,  \* the cut sets, sequences of formulas, they may be derived from
          MaxAsserts, MaxFacts, MaxEdits  \* bounds: formulas of a query, derived facts, edits of a bundle

CONSTANTS UnsatCertificate(_),   \* the result of a search: [ok, cert]
          BoundsCertificates(_),    \* the certificates that `direct' writes for two bounds
          FalseParts(_),    \* the formulas of a query that the interval layer finds false
          CrossingParts(_)    \* the pairs of bounds it refutes on: who set each, [src, atom]

Queries == UNION {[1..n -> Cuts \cup Facts] : n \in 0..MaxAsserts}

ASSUME BoundsAssumption == MaxAsserts \in Nat /\ MaxFacts \in Nat /\ MaxEdits \in Nat
ASSUME CutsAssumption == Cuts \cup Facts \subseteq Formulas /\ Premises \subseteq Seq(Formulas)
ASSUME PartsAssumption ==
    \A fs \in Queries :
        /\ FalseParts(fs) \subseteq DOMAIN fs
        /\ \A parts \in CrossingParts(fs), i \in {1, 2} : parts[i].src \in DOMAIN fs /\ parts[i].atom \in Formulas

VARIABLES asserts,  \* the query: its formulas, each with its name and the fact it claims to be
          chains,   \* recon_chains: fact -> the fact with the refutations it rests on
          bundle,   \* the bundle on file, if any
          edits     \* how often it was edited

vars == <<asserts, chains, bundle, edits>>

NoBundle == <<>>
Plain == <<>>       \* an assert whose source is no derived fact
\* An assert: its formula, whether its name begins with "XR", the fact its source names, and
\* (history, in no bundle) whether the engine wrote it for a reconciliation fact.
CutAssert(f) == [f |-> f, xr |-> FALSE, link |-> Plain, recon |-> FALSE]
FormulasOf(as) == [i \in DOMAIN as |-> as[i].f]

\* Mutant of FactReplays: a fact without a derivation has none that fails.
AllReplay(d) == \A k \in DOMAIN d.derivations : Replay(d.derivations[k].cert, d.derivations[k].premises)

\* DerivedFact::replay: some derivation, and every one a refutation.
FactReplays(d) ==
    /\ d.derivations # <<>>
    /\ \A k \in DOMAIN d.derivations : Replay(d.derivations[k].cert, d.derivations[k].premises)

FactsNamed(b, n) == {x \in DOMAIN b.facts : b.facts[x].name = n}

\* chain_is_complete: no two facts of a name, and an assert that links to a fact, as one
\* whose name begins with "XR" must, finds it there with its own formula.
ChainComplete(b) ==
    /\ \A x, y \in DOMAIN b.facts : b.facts[x].name = b.facts[y].name => x = y
    /\ \A i \in DOMAIN b.asserts :
          LET a == b.asserts[i]
          IN  IF a.link = Plain THEN ~a.xr ELSE \E x \in FactsNamed(b, a.link[1]) : b.facts[x].f = a.f

\* CombineBundle::replay, but for the constant fields and the dictionary of names.
Accepted(b) == /\ ChainComplete(b)
               /\ \A x \in DOMAIN b.facts : FactReplays(b.facts[x])
               /\ Replay(b.cert, FormulasOf(b.asserts))

Init == asserts = <<>> /\ chains = <<>> /\ bundle = NoBundle /\ edits = 0

(***************************************************************************)
(* The engine.                                                              *)
(***************************************************************************)
AssertCut(f) == /\ bundle = NoBundle /\ Len(asserts) < MaxAsserts
                /\ \A i \in DOMAIN asserts : asserts[i].f # f
                /\ asserts' = Append(asserts, CutAssert(f))
                /\ UNCHANGED <<chains, bundle, edits>>

\* A fact under its name; the names XR0, XR1, ... tell the facts apart as the facts do.
DerivedFact(f, derivations) == [name |-> f, f |-> f, derivations |-> derivations]

\* reconcile: a fact without a certificate is withheld; it rests on one refutation.
Derive(f, premises) ==
    /\ bundle = NoBundle /\ asserts = <<>> /\ f \notin DOMAIN chains /\ Cardinality(DOMAIN chains) < MaxFacts
    /\ \E r \in {UnsatCertificate(premises)} :
          /\ r.ok
          /\ chains' = [x \in DOMAIN chains \cup {f} |->
                           IF x = f THEN DerivedFact(f, <<[premises |-> premises, cert |-> r.cert]>>) ELSE chains[x]]
    /\ UNCHANGED <<asserts, bundle, edits>>

\* A core names a derived fact.
UseFact(f) == /\ bundle = NoBundle /\ Len(asserts) < MaxAsserts /\ f \in DOMAIN chains
              /\ asserts' = Append(asserts, [f |-> f, xr |-> TRUE, link |-> <<f>>, recon |-> TRUE])
              /\ UNCHANGED <<chains, bundle, edits>>

\* push_bundle: the facts the query uses go with it, each where it is used first; what
\* does not replay is not written.
FirstUses(as) == {i \in DOMAIN as : as[i].recon /\ \A j \in 1..(i - 1) : as[j].recon => as[j].f # as[i].f}
Packed(as, cert) == [asserts |-> as, facts |-> [i \in FirstUses(as) |-> chains[as[i].f]], cert |-> cert]
Push(as, cert) == /\ Accepted(Packed(as, cert))
                  /\ bundle' = Packed(as, cert)
                  /\ UNCHANGED <<asserts, chains, edits>>

\* certify_named_formulas: the whole core, by search.
Search == /\ bundle = NoBundle
          /\ \E r \in {UnsatCertificate(FormulasOf(asserts))} : r.ok /\ Push(asserts, r.cert)

(***************************************************************************)
(* certify_interval: the two bounds the interval layer refuted on, first as   *)
(* the whole formulas that set them, then as those atoms alone.               *)
(***************************************************************************)
Whole(fs, parts) == IF parts[1].src = parts[2].src THEN <<fs[parts[1].src]>>
                    ELSE <<fs[parts[1].src], fs[parts[2].src]>>
Lean(parts) == <<parts[1].atom, parts[2].atom>>

Stated(forms) == \E c \in BoundsCertificates(forms) : Push([i \in DOMAIN forms |-> CutAssert(forms[i])], c)

IntervalPathOf(fs) ==
    \/ \E i \in FalseParts(fs) : Stated(<<fs[i]>>)
    \/ /\ FalseParts(fs) = {}
       /\ \E parts \in CrossingParts(fs) :
            \E forms \in {IF BoundsCertificates(Whole(fs, parts)) # {} THEN Whole(fs, parts) ELSE Lean(parts)} :
                Stated(forms)
IntervalPath == bundle = NoBundle /\ IntervalPathOf(FormulasOf(asserts))

(***************************************************************************)
(* The file, edited by hand after the engine is gone.                       *)
(***************************************************************************)
Edit(b) == /\ bundle # NoBundle /\ edits < MaxEdits
           /\ bundle' = b /\ edits' = edits + 1
           /\ asserts' = <<>> /\ chains' = <<>>

EditFormula == \E i \in DOMAIN bundle.asserts, f \in Cuts \cup Facts : Edit([bundle EXCEPT !.asserts[i].f = f])
EditName == \E i \in DOMAIN bundle.asserts : Edit([bundle EXCEPT !.asserts[i].xr = ~@])
EditLink == \E i \in DOMAIN bundle.asserts, l \in {Plain} \cup {<<f>> : f \in Facts} : Edit([bundle EXCEPT !.asserts[i].link = l])
EditAsserts == \E i \in DOMAIN bundle.asserts : Edit([bundle EXCEPT !.asserts = RemoveAt(@, i)])
WithEntry(facts, n, d) == [y \in DOMAIN facts \cup {n} |-> IF y = n THEN d ELSE facts[y]]
\* A fact removed, renamed, changed, or written once more, with this or another formula.
EditFacts ==
    \E x \in DOMAIN bundle.facts :
        \/ Edit([bundle EXCEPT !.facts = [y \in DOMAIN @ \ {x} |-> @[y]]])
        \/ \E f \in Facts :
              \/ Edit([bundle EXCEPT !.facts[x].name = f])
              \/ Edit([bundle EXCEPT !.facts[x].f = f])
              \/ Edit([bundle EXCEPT !.facts = WithEntry(@, MaxAsserts + 1 + edits, [@[x] EXCEPT !.f = f])])
\* What a fact rests on: a derivation removed, its premises changed, or one more.
EditDerivations ==
    \E x \in DOMAIN bundle.facts : \E k \in DOMAIN bundle.facts[x].derivations :
        \/ Edit([bundle EXCEPT !.facts[x].derivations = RemoveAt(@, k)])
        \/ \E p \in Premises :
              \/ Edit([bundle EXCEPT !.facts[x].derivations[k].premises = p])
              \/ Edit([bundle EXCEPT !.facts[x].derivations = Append(@, [@[k] EXCEPT !.premises = p])])
\* Multipliers changed, a branch dropped, one node for another.
Changed(cert) ==
    CASE cert.node = "farkas" ->
           {Contradiction} \cup {Farkas([cert.multipliers EXCEPT ![i] = x]) :
                                   i \in DOMAIN cert.multipliers, x \in {RatNeg(One), Zero, One}}
      [] cert.node = "split" /\ cert.branches # <<>> -> {Split(Front(cert.branches)), cert.branches[1]}
      [] OTHER -> {Split(<<>>), Farkas(<<>>)}
EditCertificate == \E c \in Changed(bundle.cert) : Edit([bundle EXCEPT !.cert = c])

Next == \/ \E f \in Cuts : AssertCut(f)
        \/ \E f \in Facts : UseFact(f) \/ \E p \in Premises : Derive(f, p)
        \/ Search \/ IntervalPath
        \/ /\ bundle # NoBundle
           /\ \/ EditFormula \/ EditName \/ EditLink \/ EditAsserts
              \/ EditFacts \/ EditDerivations \/ EditCertificate
Spec == Init /\ [][Next]_vars

-----------------------------------------------------------------------------
\* A bundle that replays states a contradiction, however it came to be what it is:
\* "the entire meaning of PROVEN DISJOINT" (Certificate::replay).
AcceptedIsRefuted == bundle # NoBundle /\ Accepted(bundle) => Conflict(FormulasOf(bundle.asserts))

\* The fact an assert names is in the bundle, once, says what the assert says, and rests on
\* refutations: at least one, and none whose premises have a solution.
Derived(d) == d.derivations # <<>> /\ \A k \in DOMAIN d.derivations : Conflict(d.derivations[k].premises)
IsDerived(b, a) ==
    /\ a.link # Plain
    /\ \E x \in DOMAIN b.facts : /\ FactsNamed(b, a.link[1]) = {x}
                                 /\ b.facts[x].f = a.f /\ Derived(b.facts[x])

\* What a bundle that replays states as a derived fact, by its name or by the fact it names,
\* is derived in it, however the bundle came to be what it is (chain_is_complete,
\* DerivedFact::replay).  A fact that has lost both, its name and its link, in edits is a
\* given like any cut: the kernel cannot tell, whatever "rather than assumed" says of it
\* (bundle.rs:13-15).
AcceptedIsDerived ==
    bundle # NoBundle /\ Accepted(bundle) =>
        \A i \in DOMAIN bundle.asserts :
            bundle.asserts[i].xr \/ bundle.asserts[i].link # Plain => IsDerived(bundle, bundle.asserts[i])
=============================================================================
