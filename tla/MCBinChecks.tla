------------------------------ MODULE MCBinChecks ------------------------------
(* A bounded instance of BinChecks: elements are soft or hard. *)
EXTENDS BinChecks

Chain(base, peer, over, under, real) ==
    [base |-> base, peer |-> peer, over |-> over, under |-> under, real |-> real]
Both == {"soft", "hard"}
Exact(S) == Chain(1, "self", S, S, S)

\* Exact cuts, cuts with an opaque conjunct, a cut on a peer, a private base.
MCChains == {Exact(Both), Exact({"hard"}),
             Chain(1, "self", Both, {}, {"soft"}),
             Chain(1, "self", Both, {"hard"}, {"hard"}),
             Chain(1, "peer", Both, Both, Both),
             Chain(2, "self", Both, Both, Both)}

All(S) == [over |-> S, under |-> S, real |-> S]
None(c) == {v \in Sizes : v[c] = 0}
Some(c) == Sizes \ None(c)

\* Bins on two collections' sizes.  That the first two are disjoint, and that
\* the next two cover their region, is so only if size(2) <= size(1); the last
\* have an opaque cut.
MCBinSets ==
    {[region |-> All(Sizes), bins |-> <<All(None(1)), All(Some(2))>>],
     [region |-> All(Some(3)), bins |-> <<All(Some(1)), All(None(2))>>],
     [region |-> All(Sizes),
      bins |-> <<All(Some(1)), [over |-> Sizes, under |-> {}, real |-> None(2)]>>]}
=============================================================================
