------------------------- MODULE MCSubprocessSolver -------------------------
(* Instances of SubprocessSolver for TLC: two assignments; formulas that no  *)
(* assignment, one or both satisfy.                                          *)
EXTENDS SubprocessSolver

CONSTANTS p1, p2
MCPoints == {p1, p2}
MCFormulas == {{p1}, {p2}, {p1, p2}}
MCNone == {}
MCRejected == {{p1, p2}}
\* One formula of each fate: refused with an error, skipped, taken.
MCFates == {{}, {p1}, {p2}, {p1, p2}}
MCSkipped == {{}}
=============================================================================
