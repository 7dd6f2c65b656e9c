------------------------------- MODULE AdlNum -------------------------------
(***************************************************************************)
(* The numbers of the ADL semantics (adl-sema/src/rat.rs, num.rs): exact    *)
(* rationals for literals, event data and + - * / over them, and rounded    *)
(* floating-point values for everything irrational.                         *)
(*                                                                          *)
(* A rational is <<n, d>> in lowest terms with d > 0.  An f64 is a rational *)
(* on the grid of multiples of 1/Grid of magnitude at most MaxF: coarse     *)
(* enough for TLC to meet a value strictly between two floats, which is     *)
(* what separates an exact threshold k from fl(k).                          *)
(***************************************************************************)
EXTENDS Integers, FiniteSets, FiniteSetsExt

CONSTANTS Grid,  \* floats are the multiples of 1/Grid ...
          MaxF   \* ... of magnitude at most MaxF; beyond it a value is infinite

ASSUME GridAssumption == Grid \in Nat \ {0} /\ MaxF \in Nat \ {0}

Magnitude(n) == IF n < 0 THEN -n ELSE n

Gcd[p \in Nat \X Nat] == IF p[2] = 0 THEN p[1] ELSE Gcd[<<p[2], p[1] % p[2]>>]

\* Rat::from_ratio: lowest terms, the sign on the numerator.
Lowest(n, d, g) == <<n \div g, d \div g>>
Ratio(n, d) == IF d < 0 THEN Lowest(-n, -d, Gcd[<<Magnitude(n), -d>>]) ELSE Lowest(n, d, Gcd[<<Magnitude(n), d>>])

Rats == Int \X (Nat \ {0})
Int2Rat(n) == <<n, 1>>
RatAdd(x, y) == Ratio(x[1] * y[2] + y[1] * x[2], x[2] * y[2])
RatNeg(x) == <<-x[1], x[2]>>
RatSub(x, y) == RatAdd(x, RatNeg(y))
RatMul(x, y) == Ratio(x[1] * y[1], x[2] * y[2])
RatAbs(x) == <<Magnitude(x[1]), x[2]>>
RatSign(x) == IF x[1] > 0 THEN 1 ELSE IF x[1] < 0 THEN -1 ELSE 0
RatLess(x, y) == x[1] * y[2] < y[1] * x[2]
RatLeq(x, y) == ~RatLess(y, x)
RatDiv(x, y) == Ratio(x[1] * y[2], x[2] * y[1])    \* checked_div: y is not 0
RatFloor(x) == x[1] \div x[2]
RatCeil(x) == -((-x[1]) \div x[2])
RatIsInt(x) == x[2] = 1

\* The nearest float, as the exact value it has (Rat::from_f64_exact after the
\* rounding of Rat::to_f64); a half rounds up.
Fl(x) == Ratio((2 * Grid * x[1] + x[2]) \div (2 * x[2]), Grid)

(***************************************************************************)
(* NumVal: an exact rational or an f64, and NoVal for the non-value of       *)
(* section 4.4 of the language (division by zero, an infinite result).      *)
(***************************************************************************)
Exact(r) == [exact |-> TRUE, r |-> r]
NoVal == [exact |-> TRUE, r |-> <<0, 0>>]
ApproxOf(r) == IF RatLess(Int2Rat(MaxF), RatAbs(r)) THEN NoVal
               ELSE [exact |-> FALSE, r |-> Fl(r)]

ToF64(v) == IF v.exact THEN Fl(v.r) ELSE v.r
BothExact(a, b) == a.exact /\ b.exact

NumNeg(v) == [v EXCEPT !.r = RatNeg(@)]
NumAbs(v) == [v EXCEPT !.r = RatAbs(@)]
NonZero(v) == v.r[1] # 0

\* One exact arithmetic step; only division can fail.
RatOp(op, x, y) == CASE op = "add" -> RatAdd(x, y)
                     [] op = "sub" -> RatSub(x, y)
                     [] op = "mul" -> RatMul(x, y)
                     [] op = "div" -> RatDiv(x, y)

\* bin_arith: exact when both sides are, rounded otherwise.
Arith(exact, op, x, y) == IF op = "div" /\ y[1] = 0 THEN NoVal
                          ELSE IF exact THEN Exact(RatOp(op, x, y)) ELSE ApproxOf(RatOp(op, x, y))
BinArith(op, a, b) == IF BothExact(a, b) THEN Arith(TRUE, op, a.r, b.r) ELSE Arith(FALSE, op, ToF64(a), ToF64(b))

\* num_min and num_max: exact only when both sides are.
NumPick(min, a, b) ==
    IF BothExact(a, b)
    THEN IF RatLess(b.r, a.r) = min THEN b ELSE a
    ELSE [exact |-> FALSE, r |-> IF RatLess(ToF64(b), ToF64(a)) = min THEN ToF64(b) ELSE ToF64(a)]

(***************************************************************************)
(* Comparison operators (CmpOp).                                            *)
(***************************************************************************)
CmpRat(op, x, y) == CASE op = "gt" -> RatLess(y, x)
                      [] op = "lt" -> RatLess(x, y)
                      [] op = "ge" -> RatLeq(y, x)
                      [] op = "le" -> RatLeq(x, y)
                      [] op = "eq" -> x = y
                      [] op = "ne" -> x # y

FlipOp(op) == CASE op = "gt" -> "lt" [] op = "lt" -> "gt"
                [] op = "ge" -> "le" [] op = "le" -> "ge" [] OTHER -> op

NegOp(op) == CASE op = "gt" -> "le" [] op = "le" -> "gt" [] op = "ge" -> "lt"
               [] op = "lt" -> "ge" [] op = "eq" -> "ne" [] op = "ne" -> "eq"

\* compare_num: rational order between exact values, f64 order otherwise.
CompareNum(op, a, b) == IF BothExact(a, b) THEN CmpRat(op, a.r, b.r)
                        ELSE CmpRat(op, ToF64(a), ToF64(b))
=============================================================================
