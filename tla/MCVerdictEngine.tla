--------------------------- MODULE MCVerdictEngine ---------------------------
(* Finite instances of VerdictEngine: one valuation, and names that sort    *)
(* against declaration order.                                              *)
EXTENDS VerdictEngine

CONSTANT p

OnePoint == {p}
NoEvents == {}
NoFailures == {}
AllFailures == {"process", "error"}
Reversed == [r \in 1..NRegions |-> NRegions - r]
=============================================================================
