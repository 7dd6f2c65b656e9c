---------------------------- MODULE Certification ----------------------------
(***************************************************************************)
(* The kernel and the engine around it with the certificates that search.rs    *)
(* and direct.rs find, and the bounds that the interval layer refutes on.     *)
(***************************************************************************)
EXTENDS CertKernel, Certify

\* Who set the lower and who the upper bound (Iv::refutation, SelfEmpty::parts).
OneSided(fs) == {f \in Spine(And(fs)) : f.f = "atom" /\ Cardinality(DOMAIN f.terms) = 1}
Setters(fs, b) == {p \in {[src |-> i, atom |-> a] : i \in DOMAIN fs, a \in {x \in OneSided(fs) : b \in BoundsOf(x)}} :
                      p.atom \in Spine(fs[p.src])}
SettersOf(fs, side, bounds) == UNION {Setters(fs, b) : b \in Tightest(side, bounds)}
PartsOn(fs, bounds) == SettersOf(fs, "lo", bounds) \X SettersOf(fs, "hi", bounds)
PartsIn(fs, bounds) == UNION {PartsOn(fs, {b \in bounds : b.q = q}) :
                                q \in {b.q : b \in {x \in bounds : Refuted(x.q, bounds)}}}
Parts(fs) == PartsIn(fs, IntervalMap(And(fs)).bounds)
Falsified(fs) == {i \in DOMAIN fs : FalseF \in Spine(fs[i])}

\* Within its budget the search decides: it refutes what has no solution, calls
\* satisfiable only what has one, and never finds a tree that the kernel rejects.
Decides(r, fs) == IF r.ok THEN Conflict(fs)
                  ELSE r.why # "shape" /\ (r.why = "feasible" => ~Conflict(fs))
SearchDecides == bundle = NoBundle => Decides(CertifyUnsat(FormulasOf(asserts)), FormulasOf(asserts))

\* The kernel confirms every refutation of the interval layer: an internal diagnostic
\* calls anything else a disagreement of which one side is wrong (certify_interval).
Confirms(fs) ==
    /\ \A i \in Falsified(fs) : CertifyBounds(<<fs[i]>>) # {}
    /\ \A parts \in Parts(fs) : CertifyBounds(Whole(fs, parts)) # {} \/ CertifyBounds(Lean(parts)) # {}
BoundsConfirmed == bundle = NoBundle => Confirms(FormulasOf(asserts))
=============================================================================
