------------------------------ MODULE QFormula ------------------------------
(***************************************************************************)
(* The formulas without opaque parts (QFormula of adl-formula/src/formula.rs, *)
(* LinAtom of lin.rs): what a solver is asked and what a certificate refutes. *)
(***************************************************************************)
EXTENDS AdlNum, Sequences

TrueF == [f |-> "true"]
FalseF == [f |-> "false"]
And(parts) == [f |-> "and", parts |-> parts]
Or(parts) == [f |-> "or", parts |-> parts]

\* LinAtom::new: quantities whose coefficients cancel leave the atom.
Atom(terms, rel, k) ==
    [f |-> "atom", rel |-> rel, k |-> k,
     terms |-> [q \in {x \in DOMAIN terms : terms[x][1] # 0} |-> terms[q]]]
=============================================================================
