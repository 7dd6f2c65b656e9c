---------------------------- MODULE KernelProofs ----------------------------
(***************************************************************************)
(* What the certificate kernel accepts is refuted, whoever wrote it and        *)
(* whoever edited it since.                                                  *)
(*                                                                         *)
(* The argument, from the numbers up: arithmetic in lowest terms is that of    *)
(* fractions, so the value of a sum of constraints is the sum of the values    *)
(* and a sum that says 0 <= s < 0 has no solution; saturation and a case       *)
(* split lose no solution; so a point that satisfies a conjunction satisfies   *)
(* one of the calls of every depth of its replay, which ends with none.       *)
(***************************************************************************)
EXTENDS CertKernel, CommonLemmas

-----------------------------------------------------------------------------
(* The greatest common divisor. *)

\* A remainder keeps the common divisors.
Divides(d, n) == \E p \in Nat : n = d * p

\* A remainder has the divisors of the number, among those of what it was divided by.
LEMMA RemDivides ==
  ASSUME NEW a \in Nat, NEW b \in Nat, b # 0, NEW d \in Nat, d # 0, Divides(d, b)
  PROVE  Divides(d, a) <=> Divides(d, a % b)
<1>0. PICK q \in Nat : b = d * q
  BY DEF Divides
<1> DEFINE k == a \div b  r == a % b
<1>1. k \in Nat /\ r \in Nat /\ a = b * k + r /\ r < b
  OBVIOUS
<1> HIDE DEF k, r
<1>2. ASSUME NEW p \in Nat, a = d * p PROVE \E s \in Nat : r = d * s
  <2>1. r = d * (p - q * k)
    <3>1. b * k = d * (q * k)
      BY <1>0, <1>1
    <3>2. d * (p - q * k) = d * p - d * (q * k)
      BY <1>1
    <3>3. QED BY <1>1, <1>2, <3>1, <3>2
  <2>2. p - q * k \in Int
    BY <1>1
  <2>3. p - q * k >= 0
    <3> DEFINE s == p - q * k
    <3>1. s \in Int /\ r = d * s
      BY <2>1, <2>2
    <3> HIDE DEF s
    <3>2. s < 0 => d * s < 0
      BY <3>1
    <3>3. s >= 0
      BY <3>1, <3>2, <1>1
    <3>4. QED BY <3>3 DEF s
  <2> DEFINE s == p - q * k
  <2>4. s \in Nat /\ r = d * s
    BY <2>1, <2>2, <2>3
  <2> HIDE DEF s
  <2>5. QED BY <2>4
<1>3. ASSUME NEW p \in Nat, r = d * p PROVE \E s \in Nat : a = d * s
  <2>1. b * k = d * (q * k)
    BY <1>0, <1>1
  <2>2. d * (q * k + p) = d * (q * k) + d * p
    BY <1>1
  <2> DEFINE s == q * k + p
  <2>3. s \in Nat /\ a = d * s
    BY <1>1, <1>3, <2>1, <2>2
  <2> HIDE DEF s
  <2>4. QED BY <2>3
<1>4. QED BY <1>2, <1>3 DEF r, Divides

\* The common divisors of two naturals.
Divisors(a, b) == {d \in Nat \ {0} : Divides(d, a) /\ Divides(d, b)}
IsGcd(d, a, b) == d \in Divisors(a, b) /\ \A e \in Divisors(a, b) : e <= d

\* So the common divisors stay, from turn to turn of Euclid's algorithm.
LEMMA DivisorsStep ==
  ASSUME NEW a \in Nat, NEW b \in Nat, b # 0
  PROVE  Divisors(a, b) = Divisors(b, a % b)
<1>1. \A d \in Nat \ {0} : Divides(d, b) => (Divides(d, a) <=> Divides(d, a % b))
  BY RemDivides
<1>2. QED BY <1>1 DEF Divisors

\* Where it ends, the greatest common divisor is the number left.
LEMMA DivisorsZero ==
  ASSUME NEW b \in Nat, b # 0
  PROVE  \A d : IsGcd(d, b, 0) <=> d = b
<1>1. b \in Divisors(b, 0)
  <2>1. b = b * 1 /\ 0 = b * 0
    OBVIOUS
  <2>2. QED BY <2>1 DEF Divisors, Divides
<1>2. \A e \in Divisors(b, 0) : e <= b
  <2> SUFFICES ASSUME NEW e \in Nat \ {0}, NEW p \in Nat, b = e * p PROVE e <= b
    BY DEF Divisors, Divides
  <2>1. p >= 1
    OBVIOUS
  <2>2. e * p >= e
    BY <2>1
  <2>3. QED BY <2>2
<1>3. \A d \in Divisors(b, 0) : d \in Nat
  BY DEF Divisors
<1>4. QED BY <1>1, <1>2, <1>3 DEF IsGcd

\* `Gcd' is a function and unrolls: there is one that satisfies its equation.
LEMMA GcdStep == \A a, b \in Nat : Gcd[<<a, b>>] = IF b = 0 THEN a ELSE Gcd[<<b, a % b>>]
<1> DEFINE Best(a, b) == IF b = 0 THEN a ELSE CHOOSE d : IsGcd(d, a, b)
           G == [p \in Nat \X Nat |-> Best(p[1], p[2])]
           Eq(g) == g = [p \in Nat \X Nat |-> IF p[2] = 0 THEN p[1] ELSE g[<<p[2], p[1] % p[2]>>]]
<1>1. ASSUME NEW a \in Nat, NEW b \in Nat, b # 0
      PROVE  Best(a, b) = Best(b, a % b)
  <2>1. \A d : IsGcd(d, a, b) <=> IsGcd(d, b, a % b)
    BY <1>1, DivisorsStep DEF IsGcd
  <2>2. (CHOOSE d : IsGcd(d, a, b)) = CHOOSE d : IsGcd(d, b, a % b)
    BY <2>1
  <2>3. CASE a % b # 0
    BY <1>1, <2>2, <2>3
  <2>4. CASE a % b = 0
    <3>0. Best(a, b) = (CHOOSE d : IsGcd(d, a, b)) /\ Best(b, a % b) = b
      BY <1>1, <2>4
    <3>1. (CHOOSE d : IsGcd(d, b, 0)) = b
      BY <1>1, DivisorsZero
    <3> HIDE DEF Best
    <3>2. QED BY <2>2, <2>4, <3>0, <3>1
  <2>5. QED BY <2>3, <2>4
<1> HIDE DEF Best
<1>2. \A p \in Nat \X Nat : p[2] # 0 => <<p[2], p[1] % p[2]>> \in Nat \X Nat
  OBVIOUS
<1>3. \A p \in Nat \X Nat : p[2] = 0 => Best(p[1], p[2]) = p[1]
  BY DEF Best
<1>4. \A p \in Nat \X Nat : G[p] = IF p[2] = 0 THEN p[1] ELSE G[<<p[2], p[1] % p[2]>>]
  BY <1>1, <1>2, <1>3
<1>5. Eq(G)
  <2>1. G = [p \in Nat \X Nat |-> G[p]]
    OBVIOUS
  <2> HIDE DEF G
  <2>2. QED BY <1>4, <2>1
<1>6. Gcd = CHOOSE g : Eq(g)
  BY DEF Gcd
<1> HIDE DEF Eq
<1>7. Eq(Gcd)
  BY <1>5, <1>6
<1>8. \A p \in Nat \X Nat : Gcd[p] = IF p[2] = 0 THEN p[1] ELSE Gcd[<<p[2], p[1] % p[2]>>]
  BY <1>7 DEF Eq
<1>9. QED BY <1>8

-----------------------------------------------------------------------------
(* Fractions: x is a number over d if it is a / b in some terms. *)

\* What the algorithm returns divides both numbers.
LEMMA GcdDivides ==
  \A b, a \in Nat : /\ Gcd[<<a, b>>] \in Nat
                    /\ Divides(Gcd[<<a, b>>], a) /\ Divides(Gcd[<<a, b>>], b)
<1> DEFINE Right(b) == \A a \in Nat : /\ Gcd[<<a, b>>] \in Nat
                                      /\ Divides(Gcd[<<a, b>>], a) /\ Divides(Gcd[<<a, b>>], b)
           Wrong == {b \in Nat : ~Right(b)}
<1> SUFFICES ASSUME Wrong # {} PROVE FALSE
  OBVIOUS
<1>1. PICK b \in Wrong : \A c \in Wrong : b <= c
  BY LeastNatural
<1>2. \A a \in Nat : Divides(a, a) /\ Divides(a, 0)
  <2>1. \A a \in Nat : a = a * 1 /\ 0 = a * 0
    OBVIOUS
  <2>2. QED BY <2>1 DEF Divides
<1>3. b # 0
  BY <1>2, GcdStep
<1>4. ASSUME NEW a \in Nat
      PROVE  /\ Gcd[<<a, b>>] \in Nat
             /\ Divides(Gcd[<<a, b>>], a) /\ Divides(Gcd[<<a, b>>], b)
  <2>1. a % b \in Nat /\ a % b < b /\ b \in Nat
    BY <1>3
  <2> DEFINE c == a % b  g == Gcd[<<b, c>>]
  <2>2. Right(c)
    <3> HIDE DEF Right
    <3>1. c \notin Wrong
      BY <1>1, <2>1
    <3>2. QED BY <2>1, <3>1
  <2> HIDE DEF c
  <2>3. g \in Nat /\ Divides(g, b) /\ Divides(g, c)
    BY <2>1, <2>2
  <2>4. g # 0
    BY <1>3, <2>1, <2>3 DEF Divides
  <2>5. Divides(g, a)
    BY <1>3, <2>1, <2>3, <2>4, RemDivides DEF c
  <2>6. Gcd[<<a, b>>] = g
    BY <1>3, <2>1, GcdStep DEF c
  <2>7. QED BY <2>3, <2>5, <2>6
<1>5. QED BY <1>1, <1>4

\* A product divided by one of its factors.
LEMMA QuotientExact ==
  ASSUME NEW g \in Nat \ {0}, NEW p \in Int
  PROVE  (g * p) \div g = p
<1> DEFINE m == g * p  q == m \div g
<1>1. m \in Int
  OBVIOUS
<1>2. q \in Int /\ g * q <= m /\ m < g * q + g
  <2> HIDE DEF m
  <2>1. QED BY <1>1
<1> HIDE DEF q
<1>3. q < p => g * q + g <= g * p
  <2>1. ASSUME q < p PROVE g * (q + 1) <= g * p
    BY <1>2, <2>1
  <2>2. g * (q + 1) = g * q + g
    BY <1>2
  <2>3. QED BY <2>1, <2>2
<1>4. p < q => g * p < g * q
  BY <1>2
<1>5. q = p
  BY <1>2, <1>3, <1>4
<1>6. QED BY <1>5 DEF q

-----------------------------------------------------------------------------
(* A rational is the fraction n / d, whatever it is reduced by. *)
Is(x, n, d) == x \in Rats /\ x[1] * d = n * x[2]

\* Rat::from_ratio does not change the number.
LEMMA RatioIs ==
  ASSUME NEW n \in Int, NEW d \in Nat \ {0}
  PROVE  Is(Ratio(n, d), n, d)
<1> DEFINE g == Gcd[<<Magnitude(n), d>>]
<1>1. Magnitude(n) \in Nat /\ d \in Nat
  BY DEF Magnitude
<1>2. g \in Nat /\ Divides(g, Magnitude(n)) /\ Divides(g, d)
  BY <1>1, GcdDivides
<1>3. Ratio(n, d) = <<n \div g, d \div g>>
  BY DEF Ratio, Lowest
<1> HIDE DEF g
<1>4. PICK p \in Nat : Magnitude(n) = g * p
  BY <1>2 DEF Divides
<1>5. PICK q \in Nat : d = g * q
  BY <1>2 DEF Divides
<1>6. g # 0 /\ q # 0
  BY <1>2, <1>5
<1>7. PICK r \in Int : n = g * r
  <2>1. CASE n < 0
    <3>1. n = -(g * p)
      BY <1>4, <2>1, <1>2 DEF Magnitude
    <3>2. -(g * p) = g * (-p)
      BY <1>2
    <3> DEFINE r == -p
    <3>3. r \in Int /\ n = g * r
      BY <3>1, <3>2
    <3> HIDE DEF r
    <3>4. QED BY <3>3
  <2>2. CASE ~(n < 0)
    BY <1>4, <2>2 DEF Magnitude
  <2>3. QED BY <2>1, <2>2
<1>8. n \div g = r /\ d \div g = q
  BY <1>2, <1>5, <1>6, <1>7, QuotientExact
<1>9. r * d = n * q
  BY <1>2, <1>5, <1>7
<1>10. QED BY <1>3, <1>6, <1>8, <1>9 DEF Is, Rats

\* What a rational is made of.
LEMMA RatParts ==
  ASSUME NEW x \in Rats
  PROVE  x = <<x[1], x[2]>> /\ x[1] \in Int /\ x[2] \in Nat /\ x[2] > 0
BY DEF Rats

\* Sums, products and negatives are those of any fractions for the terms.
LEMMA AddIs ==
  ASSUME NEW x, NEW a \in Int, NEW b \in Nat \ {0}, Is(x, a, b),
         NEW y, NEW c \in Int, NEW d \in Nat \ {0}, Is(y, c, d)
  PROVE  Is(RatAdd(x, y), a * d + c * b, b * d)
<1> DEFINE p == x[1]  q == x[2]  r == y[1]  s == y[2]  z == RatAdd(x, y)
<1>1. p \in Int /\ q \in Nat /\ q > 0 /\ r \in Int /\ s \in Nat /\ s > 0
  BY RatParts DEF Is
<1>2. p * b = a * q /\ r * d = c * s
  BY DEF Is
<1> HIDE DEF p, q, r, s
<1>3. p * s + r * q \in Int /\ q * s \in Nat \ {0}
  BY <1>1
<1>4. Is(z, p * s + r * q, q * s)
  BY <1>3, RatioIs DEF RatAdd, p, q, r, s
<1> HIDE DEF z
<1> DEFINE m == z[1]  n == z[2]
<1>5. m \in Int /\ n \in Nat /\ n > 0 /\ m * (q * s) = (p * s + r * q) * n
  BY <1>4, RatParts DEF Is
<1> HIDE DEF m, n
<1>6. (m * (b * d)) * (q * s) = ((a * d + c * b) * n) * (q * s)
  <2>1. (m * (b * d)) * (q * s) = (m * (q * s)) * (b * d)
    BY <1>1, <1>5
  <2>2. ((p * s + r * q) * n) * (b * d) = ((p * b) * (d * s) + (r * d) * (b * q)) * n
    BY <1>1, <1>5
  <2>3. ((a * q) * (d * s) + (c * s) * (b * q)) * n = ((a * d + c * b) * n) * (q * s)
    BY <1>1, <1>5
  <2>4. QED BY <1>2, <1>5, <2>1, <2>2, <2>3
<1>7. m * (b * d) = (a * d + c * b) * n
  <2> DEFINE u == m * (b * d)  v == (a * d + c * b) * n  w == q * s
  <2>1. u \in Int /\ v \in Int /\ w \in Nat /\ w > 0 /\ u * w = v * w
    BY <1>1, <1>5, <1>6
  <2> HIDE DEF u, v, w
  <2>2. u = v
    BY <2>1
  <2>3. QED BY <2>2 DEF u, v
<1>8. QED BY <1>4, <1>7 DEF Is, z, m, n

\* A product, on any fractions for its factors.
LEMMA MulIs ==
  ASSUME NEW x, NEW a \in Int, NEW b \in Nat \ {0}, Is(x, a, b),
         NEW y, NEW c \in Int, NEW d \in Nat \ {0}, Is(y, c, d)
  PROVE  Is(RatMul(x, y), a * c, b * d)
<1> DEFINE p == x[1]  q == x[2]  r == y[1]  s == y[2]  z == RatMul(x, y)
<1>1. p \in Int /\ q \in Nat /\ q > 0 /\ r \in Int /\ s \in Nat /\ s > 0
  BY RatParts DEF Is
<1>2. p * b = a * q /\ r * d = c * s
  BY DEF Is
<1> HIDE DEF p, q, r, s
<1>3. p * r \in Int /\ q * s \in Nat \ {0}
  BY <1>1
<1>4. Is(z, p * r, q * s)
  BY <1>3, RatioIs DEF RatMul, p, q, r, s
<1> HIDE DEF z
<1> DEFINE m == z[1]  n == z[2]
<1>5. m \in Int /\ n \in Nat /\ n > 0 /\ m * (q * s) = (p * r) * n
  BY <1>4, RatParts DEF Is
<1> HIDE DEF m, n
<1>6. (m * (b * d)) * (q * s) = ((a * c) * n) * (q * s)
  <2>1. (m * (b * d)) * (q * s) = (m * (q * s)) * (b * d)
    BY <1>1, <1>5
  <2>2. ((p * r) * n) * (b * d) = ((p * b) * (r * d)) * n
    BY <1>1, <1>5
  <2>3. ((a * q) * (c * s)) * n = ((a * c) * n) * (q * s)
    BY <1>1, <1>5
  <2>4. QED BY <1>2, <1>5, <2>1, <2>2, <2>3
<1>7. m * (b * d) = (a * c) * n
  <2> DEFINE u == m * (b * d)  v == (a * c) * n  w == q * s
  <2>1. u \in Int /\ v \in Int /\ w \in Nat /\ w > 0 /\ u * w = v * w
    BY <1>1, <1>5, <1>6
  <2> HIDE DEF u, v, w
  <2>2. u = v
    BY <2>1
  <2>3. QED BY <2>2 DEF u, v
<1>8. QED BY <1>4, <1>7 DEF Is, z, m, n

\* A negative.
LEMMA NegIs ==
  ASSUME NEW x, NEW a \in Int, NEW b \in Nat \ {0}, Is(x, a, b)
  PROVE  Is(RatNeg(x), -a, b)
<1> DEFINE p == x[1]  q == x[2]
<1>1. p \in Int /\ q \in Nat /\ q > 0 /\ p * b = a * q
  BY RatParts DEF Is
<1>2. RatNeg(x) = <<-p, q>>
  BY DEF RatNeg
<1> HIDE DEF p, q
<1>3. (-p) * b = -(p * b) /\ (-a) * q = -(a * q)
  BY <1>1
<1>4. QED BY <1>1, <1>2, <1>3 DEF Is, Rats

\* A rational is itself.
LEMMA IsSelf ==
  ASSUME NEW x \in Rats
  PROVE  Is(x, x[1], x[2]) /\ x[1] \in Int /\ x[2] \in Nat \ {0}
BY RatParts DEF Is

-----------------------------------------------------------------------------
(* Order and equality of rationals, on any fractions for them. *)
Same(x, y) == x[1] * y[2] = y[1] * x[2]

\* Less-than compares any fractions for the two numbers.
LEMMA LessIs ==
  ASSUME NEW x, NEW a \in Int, NEW b \in Nat \ {0}, Is(x, a, b),
         NEW y, NEW c \in Int, NEW d \in Nat \ {0}, Is(y, c, d)
  PROVE  RatLess(x, y) <=> a * d < c * b
<1> DEFINE p == x[1]  q == x[2]  r == y[1]  s == y[2]
<1>1. p \in Int /\ q \in Nat /\ q > 0 /\ r \in Int /\ s \in Nat /\ s > 0
  BY RatParts DEF Is
<1>2. p * b = a * q /\ r * d = c * s
  BY DEF Is
<1>3. RatLess(x, y) <=> p * s < r * q
  BY DEF RatLess
<1> HIDE DEF p, q, r, s
<1> DEFINE t == p * s  u == r * q  k == b * d  v == a * d  w == c * b  m == q * s
<1>4. t \in Int /\ u \in Int /\ v \in Int /\ w \in Int /\ k \in Nat /\ k > 0 /\ m \in Nat /\ m > 0
  BY <1>1
<1>5. t * k = v * m /\ u * k = w * m
  <2>1. t * k = (p * b) * (s * d) /\ v * m = (a * q) * (s * d)
    BY <1>1
  <2>2. u * k = (r * d) * (q * b) /\ w * m = (c * s) * (q * b)
    BY <1>1
  <2>3. QED BY <1>2, <2>1, <2>2
<1> HIDE DEF t, u, k, v, w, m
<1>6. t < u <=> t * k < u * k
  BY <1>4
<1>7. v < w <=> v * m < w * m
  BY <1>4
<1>8. QED BY <1>3, <1>5, <1>6, <1>7 DEF t, u, v, w

\* Equality too.
LEMMA SameIs ==
  ASSUME NEW x, NEW a \in Int, NEW b \in Nat \ {0}, Is(x, a, b),
         NEW y, NEW c \in Int, NEW d \in Nat \ {0}, Is(y, c, d)
  PROVE  Same(x, y) <=> a * d = c * b
<1>1. RatLess(x, y) <=> a * d < c * b
  BY LessIs
<1>2. RatLess(y, x) <=> c * b < a * d
  BY LessIs
<1>3. x[1] \in Int /\ x[2] \in Nat /\ y[1] \in Int /\ y[2] \in Nat
  BY RatParts DEF Is
<1>4. QED BY <1>1, <1>2, <1>3 DEF Same, RatLess

\* Results are rationals.
LEMMA RatTypes ==
  ASSUME NEW x \in Rats, NEW y \in Rats
  PROVE  RatAdd(x, y) \in Rats /\ RatMul(x, y) \in Rats /\ RatNeg(x) \in Rats
<1>1. Is(x, x[1], x[2]) /\ x[1] \in Int /\ x[2] \in Nat \ {0}
  BY IsSelf
<1>2. Is(y, y[1], y[2]) /\ y[1] \in Int /\ y[2] \in Nat \ {0}
  BY IsSelf
<1>3. Is(RatAdd(x, y), x[1] * y[2] + y[1] * x[2], x[2] * y[2])
  BY <1>1, <1>2, AddIs
<1>4. Is(RatMul(x, y), x[1] * y[1], x[2] * y[2])
  BY <1>1, <1>2, MulIs
<1>5. Is(RatNeg(x), -x[1], x[2])
  BY <1>1, NegIs
<1>6. QED BY <1>3, <1>4, <1>5 DEF Is

\* m times a fraction and another one.
LEMMA MulAddIs ==
  ASSUME NEW m \in Rats,
         NEW x, NEW a \in Int, NEW b \in Nat \ {0}, Is(x, a, b),
         NEW y, NEW c \in Int, NEW d \in Nat \ {0}, Is(y, c, d)
  PROVE  Is(RatAdd(RatMul(m, x), y), m[1] * a * d + c * (m[2] * b), m[2] * b * d)
<1>1. Is(m, m[1], m[2]) /\ m[1] \in Int /\ m[2] \in Nat \ {0}
  BY IsSelf
<1>2. Is(RatMul(m, x), m[1] * a, m[2] * b)
  BY <1>1, MulIs
<1>3. m[1] * a \in Int /\ m[2] * b \in Nat \ {0}
  BY <1>1
<1>4. QED BY <1>2, <1>3, AddIs

\* A step of the value of a sum m * r + s at a point.
LEMMA LinearStep ==
  ASSUME NEW m \in Rats, NEW r \in Rats, NEW s \in Rats, NEW v \in Rats, NEW x \in Rats, NEW y \in Rats,
         NEW c \in Rats, NEW z \in Rats,
         Same(c, RatAdd(RatMul(m, r), s)), Same(z, RatAdd(RatMul(m, x), y))
  PROVE  Same(RatAdd(RatMul(c, v), z),
              RatAdd(RatMul(m, RatAdd(RatMul(r, v), x)), RatAdd(RatMul(s, v), y)))
<1> DEFINE m1 == m[1]  m2 == m[2]  r1 == r[1]  r2 == r[2]  s1 == s[1]  s2 == s[2]  v1 == v[1]  v2 == v[2]
           x1 == x[1]  x2 == x[2]  y1 == y[1]  y2 == y[2]
<1>1. /\ m1 \in Int /\ m2 \in Nat \ {0} /\ r1 \in Int /\ r2 \in Nat \ {0}
      /\ s1 \in Int /\ s2 \in Nat \ {0} /\ v1 \in Int /\ v2 \in Nat \ {0}
      /\ x1 \in Int /\ x2 \in Nat \ {0} /\ y1 \in Int /\ y2 \in Nat \ {0}
  BY IsSelf
<1>2. /\ Is(r, r1, r2) /\ Is(s, s1, s2) /\ Is(x, x1, x2) /\ Is(y, y1, y2) /\ Is(v, v1, v2)
  BY IsSelf
<1> DEFINE cn == m1 * r1 * s2 + s1 * (m2 * r2)  cd == m2 * r2 * s2
           zn == m1 * x1 * y2 + y1 * (m2 * x2)  zd == m2 * x2 * y2
<1>3. Is(RatAdd(RatMul(m, r), s), cn, cd) /\ Is(RatAdd(RatMul(m, x), y), zn, zd)
  <2> HIDE DEF r1, r2, s1, s2, x1, x2, y1, y2
  <2>1. Is(RatAdd(RatMul(m, r), s), cn, cd)
    BY <1>1, <1>2, MulAddIs
  <2>2. Is(RatAdd(RatMul(m, x), y), zn, zd)
    BY <1>1, <1>2, MulAddIs
  <2>3. QED BY <2>1, <2>2
<1>4. cn \in Int /\ cd \in Nat \ {0} /\ zn \in Int /\ zd \in Nat \ {0}
  BY <1>1
<1> DEFINE fn == r1 * v1 * x2 + x1 * (r2 * v2)  fd == r2 * v2 * x2
           gn == s1 * v1 * y2 + y1 * (s2 * v2)  gd == s2 * v2 * y2
           f == RatAdd(RatMul(r, v), x)  g == RatAdd(RatMul(s, v), y)
<1>5. Is(f, fn, fd) /\ Is(g, gn, gd)
  <2>1. Is(f, fn, fd)
    <3> HIDE DEF v1, v2, x1, x2
    <3>1. QED BY <1>1, <1>2, MulAddIs
  <2>2. Is(g, gn, gd)
    <3> HIDE DEF v1, v2, y1, y2
    <3>1. QED BY <1>1, <1>2, MulAddIs
  <2>3. QED BY <2>1, <2>2
<1>6. fn \in Int /\ fd \in Nat \ {0} /\ gn \in Int /\ gd \in Nat \ {0}
  BY <1>1
<1>7. Is(RatAdd(RatMul(m, f), g), m1 * fn * gd + gn * (m2 * fd), m2 * fd * gd)
  BY <1>5, <1>6, MulAddIs
<1>8. Is(c, cn, cd) /\ Is(z, zn, zd)
  <2>1. Same(c, c) /\ Same(z, z)
    BY DEF Same
  <2> DEFINE h == RatAdd(RatMul(m, r), s)  k == RatAdd(RatMul(m, x), y)
  <2>2. Is(h, cn, cd) /\ Is(k, zn, zd)
    BY <1>3
  <2>3. ASSUME NEW w \in Rats, NEW o \in Rats, NEW n \in Int, NEW d \in Nat \ {0}, Is(o, n, d), Same(w, o)
        PROVE  Is(w, n, d)
    <3>1. Is(w, w[1], w[2]) /\ w[1] \in Int /\ w[2] \in Nat \ {0}
      BY IsSelf
    <3>2. w[1] * d = n * w[2]
      BY <2>3, <3>1, SameIs
    <3>3. QED BY <3>2 DEF Is
  <2>4. h \in Rats /\ k \in Rats
    BY <2>2 DEF Is
  <2> HIDE DEF cn, cd, zn, zd, h, k
  <2>5. Same(c, h) /\ Same(z, k)
    BY DEF h, k
  <2>6. QED BY <1>4, <2>2, <2>3, <2>4, <2>5
<1>9. Is(RatAdd(RatMul(c, v), z), cn * v1 * zd + zn * (cd * v2), cd * v2 * zd)
  <2> HIDE DEF cn, cd, zn, zd, v1, v2
  <2>1. Is(RatMul(c, v), cn * v1, cd * v2)
    BY <1>1, <1>2, <1>4, <1>8, MulIs
  <2>2. cn * v1 \in Int /\ cd * v2 \in Nat \ {0}
    BY <1>1, <1>4
  <2>3. QED BY <1>4, <1>8, <2>1, <2>2, AddIs
<1>10. (cn * v1 * zd + zn * (cd * v2)) * (m2 * fd * gd) = (m1 * fn * gd + gn * (m2 * fd)) * (cd * v2 * zd)
  <2> HIDE DEF m1, m2, r1, r2, s1, s2, v1, v2, x1, x2, y1, y2
  <2>1. QED BY <1>1
<1> DEFINE an == cn * v1 * zd + zn * (cd * v2)  ad == cd * v2 * zd
           bn == m1 * fn * gd + gn * (m2 * fd)  bd == m2 * fd * gd
<1>11. an \in Int /\ ad \in Nat \ {0} /\ bn \in Int /\ bd \in Nat \ {0}
  <2> HIDE DEF cn, cd, zn, zd, fn, fd, gn, gd
  <2>1. QED BY <1>1, <1>4, <1>6
<1>12. an * bd = bn * ad
  BY <1>10
<1> HIDE DEF an, ad, bn, bd
<1>13. Is(RatAdd(RatMul(c, v), z), an, ad) /\ Is(RatAdd(RatMul(m, f), g), bn, bd)
  BY <1>7, <1>9 DEF an, ad, bn, bd
<1> HIDE DEF f, g
<1>14. Same(RatAdd(RatMul(c, v), z), RatAdd(RatMul(m, f), g))
  BY <1>11, <1>12, <1>13, SameIs
<1>15. QED BY <1>14 DEF f, g

\* What is the same has the same fractions.
LEMMA SameHas ==
  ASSUME NEW x \in Rats, NEW y, NEW a \in Int, NEW b \in Nat \ {0}, Is(y, a, b), Same(x, y)
  PROVE  Is(x, a, b)
<1>1. Is(x, x[1], x[2]) /\ x[1] \in Int /\ x[2] \in Nat \ {0}
  BY IsSelf
<1>2. x[1] * b = a * x[2]
  BY <1>1, SameIs
<1>3. QED BY <1>2 DEF Is

\* The negative of a sum of products.
LEMMA NegativeStep ==
  ASSUME NEW r \in Rats, NEW v \in Rats, NEW x \in Rats, NEW c \in Rats, NEW z \in Rats,
         Same(c, RatNeg(r)), Same(z, RatNeg(x))
  PROVE  Same(RatAdd(RatMul(c, v), z), RatNeg(RatAdd(RatMul(r, v), x)))
<1> DEFINE r1 == r[1]  r2 == r[2]  v1 == v[1]  v2 == v[2]  x1 == x[1]  x2 == x[2]
           f == RatAdd(RatMul(r, v), x)
<1>1. /\ r1 \in Int /\ r2 \in Nat \ {0} /\ v1 \in Int /\ v2 \in Nat \ {0} /\ x1 \in Int /\ x2 \in Nat \ {0}
      /\ Is(r, r1, r2) /\ Is(v, v1, v2) /\ Is(x, x1, x2)
  BY IsSelf
<1> HIDE DEF r1, r2, v1, v2, x1, x2
<1>2. -r1 \in Int /\ -x1 \in Int
  BY <1>1
<1>3. Is(c, -r1, r2) /\ Is(z, -x1, x2)
  <2>1. Is(RatNeg(r), -r1, r2) /\ Is(RatNeg(x), -x1, x2)
    BY <1>1, NegIs
  <2>2. QED BY <1>1, <1>2, <2>1, SameHas
<1> DEFINE an == (-r1) * v1 * x2 + (-x1) * (r2 * v2)  bn == r1 * v1 * x2 + x1 * (r2 * v2)  bd == r2 * v2 * x2
<1>4. an \in Int /\ bn \in Int /\ bd \in Nat \ {0} /\ -bn \in Int /\ an * bd = (-bn) * bd
  BY <1>1, <1>2
<1>5. Is(RatAdd(RatMul(c, v), z), an, bd)
  <2>1. Is(RatMul(c, v), (-r1) * v1, r2 * v2)
    BY <1>1, <1>2, <1>3, MulIs
  <2>2. (-r1) * v1 \in Int /\ r2 * v2 \in Nat \ {0}
    BY <1>1, <1>2
  <2>3. QED BY <1>1, <1>2, <1>3, <2>1, <2>2, AddIs
<1>6. Is(f, bn, bd)
  <2>1. Is(RatMul(r, v), r1 * v1, r2 * v2)
    BY <1>1, MulIs
  <2>2. r1 * v1 \in Int /\ r2 * v2 \in Nat \ {0}
    BY <1>1
  <2>3. QED BY <1>1, <2>1, <2>2, AddIs
<1> HIDE DEF an, bn, bd, f
<1>7. Is(RatNeg(f), -bn, bd)
  BY <1>4, <1>6, NegIs
<1>8. Same(RatAdd(RatMul(c, v), z), RatNeg(f))
  BY <1>4, <1>5, <1>7, SameIs
<1>9. QED BY <1>8 DEF f

\* Nothing times anything, added to nothing.
LEMMA ZeroStep ==
  ASSUME NEW c \in Rats, NEW v \in Rats, NEW z \in Rats, c[1] = 0, z[1] = 0
  PROVE  RatAdd(RatMul(c, v), z)[1] = 0
<1> DEFINE c2 == c[2]  v1 == v[1]  v2 == v[2]  z2 == z[2]
<1>1. /\ c2 \in Nat \ {0} /\ v1 \in Int /\ v2 \in Nat \ {0} /\ z2 \in Nat \ {0}
      /\ Is(c, 0, c2) /\ Is(v, v1, v2) /\ Is(z, 0, z2)
  BY IsSelf
<1> HIDE DEF c2, v1, v2, z2
<1>2. Is(RatMul(c, v), 0, c2 * v2) /\ c2 * v2 \in Nat \ {0}
  <2>1. 0 * v1 = 0
    BY <1>1
  <2>2. QED BY <1>1, <2>1, MulIs
<1>3. Is(RatAdd(RatMul(c, v), z), 0 * z2 + 0 * (c2 * v2), (c2 * v2) * z2)
  BY <1>1, <1>2, AddIs
<1>4. (c2 * v2) * z2 \in Nat \ {0} /\ 0 * z2 + 0 * (c2 * v2) = 0
  BY <1>1
<1> DEFINE w == RatAdd(RatMul(c, v), z)  d == (c2 * v2) * z2
<1>5. w \in Rats /\ w[1] * d = 0 * w[2] /\ d \in Nat \ {0}
  BY <1>3, <1>4 DEF Is
<1> HIDE DEF w, d
<1>6. w[1] = 0
  BY <1>5, RatParts
<1>7. QED BY <1>6 DEF w

-----------------------------------------------------------------------------
(* Bounds. *)
Bound(x, b, strict) == IF strict THEN RatLess(x, b) ELSE RatLeq(x, b)

\* And at-most.
LEMMA LeqIs ==
  ASSUME NEW x, NEW a \in Int, NEW b \in Nat \ {0}, Is(x, a, b),
         NEW y, NEW c \in Int, NEW d \in Nat \ {0}, Is(y, c, d)
  PROVE  RatLeq(x, y) <=> a * d <= c * b
<1>1. RatLess(y, x) <=> c * b < a * d
  BY LessIs
<1>2. a * d \in Int /\ c * b \in Int
  OBVIOUS
<1>3. QED BY <1>1, <1>2 DEF RatLeq

\* The same value has the same bounds.
LEMMA SameBound ==
  ASSUME NEW x \in Rats, NEW y \in Rats, NEW b \in Rats, NEW strict, Same(x, y)
  PROVE  Bound(x, b, strict) <=> Bound(y, b, strict)
<1> DEFINE y1 == y[1]  y2 == y[2]  b1 == b[1]  b2 == b[2]
<1>1. /\ y1 \in Int /\ y2 \in Nat \ {0} /\ Is(y, y1, y2) /\ b1 \in Int /\ b2 \in Nat \ {0} /\ Is(b, b1, b2)
  BY IsSelf
<1> HIDE DEF y1, y2, b1, b2
<1>2. Is(x, y1, y2)
  BY <1>1, SameHas
<1>3. RatLess(x, b) <=> RatLess(y, b)
  BY <1>1, <1>2, LessIs
<1>4. RatLeq(x, b) <=> RatLeq(y, b)
  BY <1>1, <1>2, LeqIs
<1>5. QED BY <1>3, <1>4 DEF Bound

\* A lower bound is an upper bound of the negative.
LEMMA NegativeBound ==
  ASSUME NEW x \in Rats, NEW b \in Rats, NEW strict
  PROVE  Bound(RatNeg(x), RatNeg(b), strict) <=> Bound(b, x, strict)
<1> DEFINE x1 == x[1]  x2 == x[2]  b1 == b[1]  b2 == b[2]
<1>1. /\ x1 \in Int /\ x2 \in Nat \ {0} /\ Is(x, x1, x2) /\ b1 \in Int /\ b2 \in Nat \ {0} /\ Is(b, b1, b2)
  BY IsSelf
<1> HIDE DEF x1, x2, b1, b2
<1>2. Is(RatNeg(x), -x1, x2) /\ Is(RatNeg(b), -b1, b2) /\ -x1 \in Int /\ -b1 \in Int
  BY <1>1, NegIs
<1>3. (-x1) * b2 = -(x1 * b2) /\ (-b1) * x2 = -(b1 * x2) /\ x1 * b2 \in Int /\ b1 * x2 \in Int
  BY <1>1
<1>4. RatLess(RatNeg(x), RatNeg(b)) <=> (-x1) * b2 < (-b1) * x2
  BY <1>1, <1>2, LessIs
<1>5. RatLeq(RatNeg(x), RatNeg(b)) <=> (-x1) * b2 <= (-b1) * x2
  BY <1>1, <1>2, LeqIs
<1>6. (RatLess(b, x) <=> b1 * x2 < x1 * b2) /\ (RatLeq(b, x) <=> b1 * x2 <= x1 * b2)
  BY <1>1, LessIs, LeqIs
<1>7. QED BY <1>3, <1>4, <1>5, <1>6 DEF Bound

\* A bound times a positive multiplier, added to another one.
LEMMA WeightedBound ==
  ASSUME NEW m \in Rats, m[1] > 0, NEW x \in Rats, NEW b \in Rats, NEW y \in Rats, NEW c \in Rats,
         NEW p \in BOOLEAN, NEW q \in BOOLEAN, Bound(x, b, p), Bound(y, c, q)
  PROVE  Bound(RatAdd(RatMul(m, x), y), RatAdd(RatMul(m, b), c), p \/ q)
<1> DEFINE m1 == m[1]  m2 == m[2]  x1 == x[1]  x2 == x[2]  b1 == b[1]  b2 == b[2]
           y1 == y[1]  y2 == y[2]  c1 == c[1]  c2 == c[2]
<1>1. /\ m1 \in Int /\ m1 > 0 /\ m2 \in Nat \ {0} /\ x1 \in Int /\ x2 \in Nat \ {0} /\ Is(x, x1, x2)
      /\ b1 \in Int /\ b2 \in Nat \ {0} /\ Is(b, b1, b2) /\ y1 \in Int /\ y2 \in Nat \ {0} /\ Is(y, y1, y2)
      /\ c1 \in Int /\ c2 \in Nat \ {0} /\ Is(c, c1, c2)
  BY IsSelf
<1> DEFINE sn == m1 * x1 * y2 + y1 * (m2 * x2)  sd == m2 * x2 * y2
           tn == m1 * b1 * c2 + c1 * (m2 * b2)  td == m2 * b2 * c2
           s == RatAdd(RatMul(m, x), y)  t == RatAdd(RatMul(m, b), c)
<1>2. Is(s, sn, sd) /\ Is(t, tn, td)
  <2> HIDE DEF x1, x2, y1, y2, b1, b2, c1, c2
  <2>1. Is(s, sn, sd)
    BY <1>1, MulAddIs
  <2>2. Is(t, tn, td)
    BY <1>1, MulAddIs
  <2>3. QED BY <2>1, <2>2
<1> HIDE DEF m1, m2, x1, x2, y1, y2, b1, b2, c1, c2
<1>3. sn \in Int /\ sd \in Nat \ {0} /\ tn \in Int /\ td \in Nat \ {0}
  BY <1>1
<1> DEFINE k == m1 * m2 * y2 * c2  l == m2 * m2 * x2 * b2
<1>4. k \in Nat \ {0} /\ l \in Nat \ {0}
  <2>1. m1 \in Nat \ {0}
    BY <1>1
  <2>2. QED BY <1>1, <2>1
<1>5. sn * td = k * (x1 * b2) + l * (y1 * c2) /\ tn * sd = k * (b1 * x2) + l * (c1 * y2)
  BY <1>1
<1> DEFINE e == x1 * b2  f == b1 * x2  g == y1 * c2  h == c1 * y2
<1>6. e \in Int /\ f \in Int /\ g \in Int /\ h \in Int
  BY <1>1
<1>7. e <= f /\ (p => e < f) /\ g <= h /\ (q => g < h)
  <2>1. (RatLess(x, b) <=> e < f) /\ (RatLeq(x, b) <=> e <= f)
    BY <1>1, LessIs, LeqIs
  <2>2. (RatLess(y, c) <=> g < h) /\ (RatLeq(y, c) <=> g <= h)
    BY <1>1, LessIs, LeqIs
  <2> HIDE DEF e, f, g, h
  <2>3. QED BY <1>6, <2>1, <2>2 DEF Bound
<1> HIDE DEF k, l, e, f, g, h
<1>8. k * e <= k * f /\ (p => k * e < k * f) /\ l * g <= l * h /\ (q => l * g < l * h)
  BY <1>4, <1>6, <1>7
<1>9. k * e \in Int /\ k * f \in Int /\ l * g \in Int /\ l * h \in Int
  BY <1>4, <1>6
<1>10. k * e + l * g <= k * f + l * h /\ (p \/ q => k * e + l * g < k * f + l * h)
  BY <1>8, <1>9
<1>11. sn * td = k * e + l * g /\ tn * sd = k * f + l * h
  BY <1>5 DEF e, f, g, h
<1> HIDE DEF sn, sd, tn, td, s, t
<1>12. (RatLess(s, t) <=> sn * td < tn * sd) /\ (RatLeq(s, t) <=> sn * td <= tn * sd)
  BY <1>2, <1>3, LessIs, LeqIs
<1>13. Bound(s, t, p \/ q)
  BY <1>10, <1>11, <1>12 DEF Bound
<1>14. QED BY <1>13 DEF s, t

-----------------------------------------------------------------------------
(* Loops, written as recursive functions on the number of turns. *)

\* What holds before the first turn and is kept by every turn holds after each.
LEMMA Climb ==
  ASSUME NEW n \in Nat, NEW T, 0 \in T, \A k \in 1..n : k - 1 \in T => k \in T
  PROVE  \A k \in 0..n : k \in T
<1> DEFINE Bad == {k \in 0..n : k \notin T}
<1> SUFFICES ASSUME Bad # {} PROVE FALSE
  OBVIOUS
<1>1. PICK k \in Bad : \A j \in Bad : k <= j
  <2>1. Bad \subseteq Nat
    OBVIOUS
  <2>2. QED BY <2>1, LeastNatural
<1>2. k # 0 /\ k \in 0..n
  OBVIOUS
<1>3. k - 1 \in 0..n /\ ~(k <= k - 1) /\ k \in 1..n
  BY <1>2
<1>4. k - 1 \notin Bad
  BY <1>1, <1>3
<1>5. QED BY <1>3, <1>4

\* The value of a form, quantity by quantity.
IsValue(t, row, v) == /\ t[0] = Zero /\ ValueAt(row, v) = t[Quantities]
                      /\ \A k \in 1..Quantities : t[k] = RatAdd(RatMul(CoefOf(row, k), v[k]), t[k - 1])

\* The value of a form, term by term.
LEMMA ValueSteps ==
  ASSUME NEW row, NEW v
  PROVE  \E t : IsValue(t, row, v)
<1> DEFINE Step(k, x) == RatAdd(RatMul(CoefOf(row, k), v[k]), x)
           Eq(g, m) == g = [k \in 0..m |-> IF k = 0 THEN Zero ELSE Step(k, g[k - 1])]
           T == {m \in 0..Quantities : \E g : Eq(g, m)}
           S == CHOOSE g : Eq(g, Quantities)
<1>1. ValueAt(row, v) = S[Quantities]
  BY DEF ValueAt
<1> HIDE DEF Step
<1>2. Quantities \in Nat
  BY SizesAssumption
<1>3. 0 \in T
  <2> DEFINE h == [k \in 0..0 |-> Zero]
  <2>1. \A k \in 0..0 : k = 0
    OBVIOUS
  <2>2. Eq(h, 0)
    BY <2>1
  <2> HIDE DEF h, Eq
  <2>3. QED BY <1>2, <2>2
<1>4. ASSUME NEW m \in 1..Quantities, m - 1 \in T PROVE m \in T
  <2>1. PICK g : Eq(g, m - 1)
    BY <1>4
  <2> DEFINE h == [k \in 0..m |-> IF k = m THEN Step(m, g[m - 1]) ELSE g[k]]
  <2>2. \A k \in 0..m : k # 0 => h[k - 1] = g[k - 1]
    OBVIOUS
  <2>3. \A k \in 0..m : h[k] = IF k = 0 THEN Zero ELSE Step(k, h[k - 1])
    BY <2>1, <2>2
  <2>4. Eq(h, m)
    <3>1. h = [k \in 0..m |-> h[k]]
      OBVIOUS
    <3> HIDE DEF h
    <3>2. QED BY <2>3, <3>1
  <2> HIDE DEF h, Eq
  <2>5. QED BY <2>4
<1>5. Quantities \in T
  <2> HIDE DEF T
  <2>1. \A m \in 0..Quantities : m \in T
    BY <1>2, <1>3, <1>4, Climb
  <2>2. QED BY <1>2, <2>1
<1>6. Eq(S, Quantities)
  <2> HIDE DEF Eq
  <2>1. QED BY <1>5
<1> HIDE DEF S
<1>7. S[0] = Zero /\ \A k \in 1..Quantities : S[k] = Step(k, S[k - 1])
  BY <1>2, <1>6
<1>8. QED BY <1>1, <1>7 DEF Step, IsValue

-----------------------------------------------------------------------------
(* Linear forms. *)
IsRow(row) == DOMAIN row \subseteq 1..Quantities /\ \A q \in DOMAIN row : row[q] \in Rats

\* Zero is 0 / 1.
LEMMA ZeroIs == Zero \in Rats /\ Zero[1] = 0 /\ Zero[2] = 1 /\ Is(Zero, 0, 1)
<1>1. Zero = <<0, 1>> /\ 0 \in Int /\ 1 \in Nat \ {0}
  BY DEF Zero, Int2Rat
<1>2. QED BY <1>1 DEF Rats, Is

\* A coefficient is a rational, also of a quantity that is not in the row.
LEMMA CoefType ==
  ASSUME NEW row, IsRow(row), NEW q
  PROVE  CoefOf(row, q) \in Rats
BY ZeroIs DEF IsRow, CoefOf

\* A rational with numerator 0 is zero.
LEMMA ZeroSame ==
  ASSUME NEW x \in Rats, x[1] = 0
  PROVE  Same(Zero, x) /\ Same(x, Zero)
<1>1. x[2] \in Nat
  BY RatParts
<1>2. QED BY <1>1, ZeroIs DEF Same

\* A number equals itself.
LEMMA SameSelf ==
  ASSUME NEW x
  PROVE  Same(x, x)
BY DEF Same

\* The coefficients of a weighted sum, those that cancel included.
LEMMA SumCoef ==
  ASSUME NEW m \in Rats, NEW r, IsRow(r), NEW s, IsRow(s), NEW q \in 1..Quantities
  PROVE  Same(CoefOf(Plus(Scaled(m, r), s), q), RatAdd(RatMul(m, CoefOf(r, q)), CoefOf(s, q)))
<1> DEFINE x == CoefOf(r, q)  y == CoefOf(s, q)  t == CoefOf(Scaled(m, r), q)  z == RatAdd(t, y)
           p == Plus(Scaled(m, r), s)
           w == RatAdd(RatMul(m, x), y)
<1>1. x \in Rats /\ y \in Rats
  BY CoefType
<1>2. DOMAIN Scaled(m, r) = DOMAIN r
  BY DEF Scaled
<1>3. t \in Rats /\ (q \in DOMAIN r => t = RatMul(m, x)) /\ (q \notin DOMAIN r => t = Zero /\ x = Zero)
  <2>1. CASE q \in DOMAIN r
    BY <1>1, <1>2, <2>1, RatTypes DEF CoefOf, Scaled
  <2>2. CASE q \notin DOMAIN r
    BY <1>2, <2>2, ZeroIs DEF CoefOf
  <2>3. QED BY <2>1, <2>2
<1>4. w \in Rats /\ z \in Rats
  BY <1>1, <1>3, RatTypes
<1>5. Same(z, w)
  <2>1. CASE q \in DOMAIN r
    BY <1>3, <2>1, SameSelf
  <2>2. CASE q \notin DOMAIN r
    <3> DEFINE y1 == y[1]  y2 == y[2]  m1 == m[1]  m2 == m[2]
    <3>1. Is(y, y1, y2) /\ y1 \in Int /\ y2 \in Nat \ {0} /\ m1 \in Int /\ m2 \in Nat \ {0}
      BY <1>1, IsSelf
    <3> HIDE DEF x, y, t, y1, y2
    <3>2. Is(z, 0 * y2 + y1 * 1, 1 * y2)
      BY <1>3, <2>2, <3>1, ZeroIs, AddIs
    <3>3. Is(w, m1 * 0 * y2 + y1 * (m2 * 1), m2 * 1 * y2)
      BY <1>3, <2>2, <3>1, ZeroIs, MulAddIs
    <3> DEFINE a == 0 * y2 + y1 * 1  b == 1 * y2  c == m1 * 0 * y2 + y1 * (m2 * 1)  d == m2 * 1 * y2
    <3> HIDE DEF m1, m2
    <3>4. a \in Int /\ b \in Nat \ {0} /\ c \in Int /\ d \in Nat \ {0} /\ a * d = c * b
      BY <3>1
    <3>5. Is(z, a, b) /\ Is(w, c, d)
      BY <3>2, <3>3
    <3> HIDE DEF a, b, c, d, z, w
    <3>6. QED BY <3>4, <3>5, SameIs
  <2>3. QED BY <2>1, <2>2
<1>6. CoefOf(p, q) = z \/ (CoefOf(p, q) = Zero /\ z[1] = 0)
  <2> DEFINE D == DOMAIN r \cup DOMAIN s
             u == [k \in D |-> RatAdd(CoefOf(Scaled(m, r), k), CoefOf(s, k))]
  <2>1. p = Row(u)
    BY <1>2 DEF Plus
  <2>2. CASE q \in D
    <3>1. u[q] = z /\ q \in DOMAIN u
      BY <2>2
    <3> HIDE DEF u, z, p
    <3>2. QED BY <2>1, <3>1 DEF Row, CoefOf
  <2>3. CASE q \notin D
    <3>1. q \notin DOMAIN u
      BY <2>3
    <3>2. CoefOf(p, q) = Zero
      <4> HIDE DEF u, p
      <4>1. QED BY <2>1, <3>1 DEF Row, CoefOf
    <3>3. t = Zero /\ y = Zero
      BY <1>3, <2>3 DEF CoefOf
    <3>4. Is(z, 0 * 1 + 0 * 1, 1 * 1)
      <4> HIDE DEF t, y
      <4>1. QED BY <3>3, ZeroIs, AddIs
    <3>5. z[1] * 1 = 0 * z[2] /\ z[1] \in Int /\ z[2] \in Nat
      BY <1>4, <3>4, RatParts DEF Is
    <3> HIDE DEF z
    <3>6. QED BY <3>2, <3>5
  <2>4. QED BY <2>2, <2>3
<1> HIDE DEF z, w, p
<1>7. Same(CoefOf(p, q), w)
  <2>1. CASE CoefOf(p, q) = z
    BY <1>5, <2>1
  <2>2. CASE CoefOf(p, q) = Zero /\ z[1] = 0
    <3>1. w[1] = 0
      <4> DEFINE w1 == w[1]  w2 == w[2]  z1 == z[1]  z2 == z[2]
      <4>1. w1 \in Int /\ w2 \in Nat /\ z1 \in Int /\ z2 \in Nat /\ z2 > 0 /\ z1 * w2 = w1 * z2 /\ z1 = 0
        BY <1>4, <1>5, <2>2, RatParts DEF Same
      <4> HIDE DEF w1, w2, z1, z2
      <4>2. w1 = 0
        BY <4>1
      <4>3. QED BY <4>2 DEF w1
    <3>2. QED BY <1>4, <2>2, <3>1, ZeroSame
  <2>3. QED BY <1>6, <2>1, <2>2
<1>8. QED BY <1>7 DEF p, w

\* A weighted sum is a form of the same quantities.
LEMMA SumRow ==
  ASSUME NEW m \in Rats, NEW r, IsRow(r), NEW s, IsRow(s)
  PROVE  IsRow(Plus(Scaled(m, r), s))
<1> DEFINE sc == Scaled(m, r)
           u == [k \in DOMAIN sc \cup DOMAIN s |-> RatAdd(CoefOf(sc, k), CoefOf(s, k))]
<1>1. IsRow(sc)
  BY RatTypes DEF IsRow, Scaled
<1>2. \A k \in DOMAIN u : u[k] \in Rats /\ k \in 1..Quantities
  <2>1. \A k : CoefOf(sc, k) \in Rats /\ CoefOf(s, k) \in Rats
    <3> HIDE DEF sc
    <3>1. QED BY <1>1, CoefType
  <2>2. \A k \in DOMAIN sc \cup DOMAIN s : RatAdd(CoefOf(sc, k), CoefOf(s, k)) \in Rats
    <3> HIDE DEF sc
    <3>1. QED BY <2>1, RatTypes
  <2>3. DOMAIN u \subseteq 1..Quantities
    <3> HIDE DEF sc
    <3>1. QED BY <1>1 DEF IsRow
  <2>4. QED BY <2>2, <2>3
<1>3. Plus(sc, s) = Row(u)
  BY DEF Plus
<1> HIDE DEF u, sc
<1>4. IsRow(Row(u))
  BY <1>2 DEF IsRow, Row
<1>5. QED BY <1>3, <1>4 DEF sc

Point(v) == v \in [1..Quantities -> Rats]

\* The value of a form at a point is a rational.
LEMMA ValueType ==
  ASSUME NEW row, IsRow(row), NEW v, Point(v)
  PROVE  ValueAt(row, v) \in Rats
<1>0. PICK t : IsValue(t, row, v)
  BY ValueSteps
<1>1. /\ t[0] = Zero /\ ValueAt(row, v) = t[Quantities]
      /\ \A k \in 1..Quantities : t[k] = RatAdd(RatMul(CoefOf(row, k), v[k]), t[k - 1])
  BY <1>0 DEF IsValue
<1> DEFINE T == {k \in 0..Quantities : t[k] \in Rats}
<1>2. Quantities \in Nat
  BY SizesAssumption
<1>3. 0 \in T
  BY <1>1, <1>2, ZeroIs
<1>4. \A k \in 1..Quantities : k - 1 \in T => k \in T
  <2>1. \A k \in 1..Quantities : CoefOf(row, k) \in Rats /\ v[k] \in Rats
    BY CoefType DEF Point
  <2>2. ASSUME NEW k \in 1..Quantities, t[k - 1] \in Rats PROVE t[k] \in Rats
    <3>1. RatMul(CoefOf(row, k), v[k]) \in Rats
      BY <2>1, RatTypes
    <3>2. QED BY <1>1, <2>2, <3>1, RatTypes
  <2>3. QED BY <2>2
<1> HIDE DEF T
<1>5. Quantities \in T
  BY <1>2, <1>3, <1>4, Climb
<1>6. QED BY <1>1, <1>5 DEF T

\* The value of a weighted sum is that of its parts.
LEMMA ValueOfSum ==
  ASSUME NEW m \in Rats, NEW r, IsRow(r), NEW s, IsRow(s), NEW v, Point(v)
  PROVE  Same(ValueAt(Plus(Scaled(m, r), s), v), RatAdd(RatMul(m, ValueAt(r, v)), ValueAt(s, v)))
<1> DEFINE p == Plus(Scaled(m, r), s)
<1>1. IsRow(p)
  BY SumRow
<1>2. \A q \in 1..Quantities : Same(CoefOf(p, q), RatAdd(RatMul(m, CoefOf(r, q)), CoefOf(s, q)))
  BY SumCoef
<1> HIDE DEF p
<1>4. PICK a : IsValue(a, r, v)
  BY ValueSteps
<1>5. PICK b : IsValue(b, s, v)
  BY ValueSteps
<1>6. PICK c : IsValue(c, p, v)
  BY ValueSteps
<1> DEFINE T == {k \in 0..Quantities : /\ a[k] \in Rats /\ b[k] \in Rats /\ c[k] \in Rats
                                      /\ Same(c[k], RatAdd(RatMul(m, a[k]), b[k]))}
<1>7. Quantities \in Nat
  BY SizesAssumption
<1>8. 0 \in T
  <2> DEFINE w == RatAdd(RatMul(m, Zero), Zero)
  <2>1. w[1] = 0 /\ w \in Rats
    <3>1. RatMul(m, Zero) = RatMul(Zero, m)
      <4>1. m[1] \in Int /\ m[2] \in Nat
        BY RatParts
      <4>2. m[1] * Zero[1] = Zero[1] * m[1] /\ m[2] * Zero[2] = Zero[2] * m[2]
        BY <4>1, ZeroIs
      <4>3. QED BY <4>2 DEF RatMul
    <3>2. RatAdd(RatMul(Zero, m), Zero)[1] = 0
      BY ZeroIs, ZeroStep
    <3>3. w \in Rats
      BY ZeroIs, RatTypes
    <3>4. QED BY <3>1, <3>2, <3>3
  <2> HIDE DEF w
  <2>2. Same(Zero, w)
    BY <2>1, ZeroSame
  <2>3. QED BY <1>4, <1>5, <1>6, <1>7, <2>2, ZeroIs DEF w, IsValue
<1>9. ASSUME NEW k \in 1..Quantities, k - 1 \in T PROVE k \in T
  <2>1. CoefOf(r, k) \in Rats /\ CoefOf(s, k) \in Rats /\ CoefOf(p, k) \in Rats /\ v[k] \in Rats
    BY <1>1, CoefType DEF Point
  <2>2. /\ a[k] = RatAdd(RatMul(CoefOf(r, k), v[k]), a[k - 1])
        /\ b[k] = RatAdd(RatMul(CoefOf(s, k), v[k]), b[k - 1])
        /\ c[k] = RatAdd(RatMul(CoefOf(p, k), v[k]), c[k - 1])
    BY <1>4, <1>5, <1>6 DEF IsValue
  <2>3. /\ a[k - 1] \in Rats /\ b[k - 1] \in Rats /\ c[k - 1] \in Rats
        /\ Same(c[k - 1], RatAdd(RatMul(m, a[k - 1]), b[k - 1]))
    BY <1>9
  <2>4. Same(CoefOf(p, k), RatAdd(RatMul(m, CoefOf(r, k)), CoefOf(s, k)))
    BY <1>2
  <2> DEFINE x == CoefOf(r, k)  y == CoefOf(s, k)  z == CoefOf(p, k)
             f == RatAdd(RatMul(x, v[k]), a[k - 1])  g == RatAdd(RatMul(y, v[k]), b[k - 1])
             h == RatAdd(RatMul(z, v[k]), c[k - 1])
  <2>5. Same(c[k], RatAdd(RatMul(m, a[k]), b[k]))
    <3> HIDE DEF x, y, z
    <3>1. x \in Rats /\ y \in Rats /\ z \in Rats /\ v[k] \in Rats /\ Same(z, RatAdd(RatMul(m, x), y))
      BY <2>1, <2>4 DEF x, y, z
    <3>2. Same(h, RatAdd(RatMul(m, f), g))
      BY <2>3, <3>1, LinearStep
    <3> HIDE DEF f, g, h
    <3>3. a[k] = f /\ b[k] = g /\ c[k] = h
      BY <2>2 DEF f, g, h, x, y, z
    <3>4. QED BY <3>2, <3>3
  <2>6. a[k] \in Rats /\ b[k] \in Rats /\ c[k] \in Rats
    <3>1. ASSUME NEW e \in Rats, NEW d \in Rats PROVE RatAdd(RatMul(e, v[k]), d) \in Rats
      BY <2>1, RatTypes
    <3>2. QED BY <2>1, <2>2, <2>3, <3>1
  <2>7. QED BY <2>5, <2>6
<1> HIDE DEF T
<1>10. Quantities \in T
  BY <1>7, <1>8, <1>9, Climb
<1>11. QED BY <1>4, <1>5, <1>6, <1>10 DEF T, p, IsValue

\* The value of a form with every coefficient negated.
LEMMA ValueOfNegative ==
  ASSUME NEW r, IsRow(r), NEW v, Point(v), NEW n, n = [q \in DOMAIN r |-> RatNeg(r[q])]
  PROVE  IsRow(n) /\ Same(ValueAt(n, v), RatNeg(ValueAt(r, v)))
<1>1. IsRow(n)
  BY RatTypes DEF IsRow
<1>0. Same(Zero, RatNeg(Zero)) /\ RatNeg(Zero) \in Rats
  BY ZeroIs, RatTypes DEF Same, RatNeg
<1>2. \A q \in 1..Quantities : Same(CoefOf(n, q), RatNeg(CoefOf(r, q)))
  BY <1>0, SameSelf DEF CoefOf
<1>4. PICK a : IsValue(a, r, v)
  BY ValueSteps
<1>5. PICK b : IsValue(b, n, v)
  BY ValueSteps
<1> DEFINE T == {k \in 0..Quantities : a[k] \in Rats /\ b[k] \in Rats /\ Same(b[k], RatNeg(a[k]))}
<1>6. Quantities \in Nat
  BY SizesAssumption
<1>7. 0 \in T
  BY <1>0, <1>4, <1>5, <1>6, ZeroIs DEF IsValue
<1>8. ASSUME NEW k \in 1..Quantities, k - 1 \in T PROVE k \in T
  <2>1. CoefOf(r, k) \in Rats /\ CoefOf(n, k) \in Rats /\ v[k] \in Rats
    BY <1>1, CoefType DEF Point
  <2>2. /\ a[k] = RatAdd(RatMul(CoefOf(r, k), v[k]), a[k - 1])
        /\ b[k] = RatAdd(RatMul(CoefOf(n, k), v[k]), b[k - 1])
    BY <1>4, <1>5 DEF IsValue
  <2>3. a[k - 1] \in Rats /\ b[k - 1] \in Rats /\ Same(b[k - 1], RatNeg(a[k - 1]))
    BY <1>8
  <2>4. Same(CoefOf(n, k), RatNeg(CoefOf(r, k)))
    BY <1>2
  <2>5. Same(b[k], RatNeg(a[k]))
    BY <2>1, <2>2, <2>3, <2>4, NegativeStep
  <2>6. a[k] \in Rats /\ b[k] \in Rats
    <3>1. RatMul(CoefOf(r, k), v[k]) \in Rats /\ RatMul(CoefOf(n, k), v[k]) \in Rats
      BY <2>1, RatTypes
    <3>2. QED BY <2>2, <2>3, <3>1, RatTypes
  <2>7. QED BY <2>5, <2>6
<1> HIDE DEF T
<1>9. Quantities \in T
  BY <1>6, <1>7, <1>8, Climb
<1>10. QED BY <1>1, <1>4, <1>5, <1>9 DEF T, IsValue

\* A form without quantities is zero everywhere.
LEMMA ValueOfNothing ==
  ASSUME NEW row, DOMAIN row = {}, NEW v, Point(v)
  PROVE  IsRow(row) /\ ValueAt(row, v) \in Rats /\ ValueAt(row, v)[1] = 0
<1>0. PICK t : IsValue(t, row, v)
  BY ValueSteps
<1>1. /\ t[0] = Zero /\ ValueAt(row, v) = t[Quantities]
      /\ \A k \in 1..Quantities : t[k] = RatAdd(RatMul(CoefOf(row, k), v[k]), t[k - 1])
  BY <1>0 DEF IsValue
<1> DEFINE T == {k \in 0..Quantities : t[k] \in Rats /\ t[k][1] = 0}
<1>2. Quantities \in Nat
  BY SizesAssumption
<1>3. 0 \in T
  BY <1>1, <1>2, ZeroIs
<1>4. ASSUME NEW k \in 1..Quantities, k - 1 \in T PROVE k \in T
  <2>1. CoefOf(row, k) = Zero /\ v[k] \in Rats
    BY DEF CoefOf, Point
  <2>2. t[k] = RatAdd(RatMul(Zero, v[k]), t[k - 1]) /\ t[k - 1] \in Rats /\ t[k - 1][1] = 0
    BY <1>1, <1>4, <2>1
  <2>3. t[k][1] = 0
    BY <2>1, <2>2, ZeroIs, ZeroStep
  <2>4. RatMul(Zero, v[k]) \in Rats
    BY <2>1, ZeroIs, RatTypes
  <2>5. t[k] \in Rats
    BY <2>2, <2>4, RatTypes
  <2>6. QED BY <2>3, <2>5
<1> HIDE DEF T
<1>5. Quantities \in T
  BY <1>2, <1>3, <1>4, Climb
<1>6. QED BY <1>1, <1>5 DEF T, IsRow

-----------------------------------------------------------------------------
(* The leaf of a tree. *)
Satisfied(v) == {f \in Formulas : Sat(f, v)}
Settled(v) == {f \in Satisfied(v) : f.f = "or" \/ (f.f = "atom" /\ f.rel \in Bounding)}
Meets(con, v) == /\ IsRow(con.row) /\ con.b \in Rats /\ con.strict \in BOOLEAN
                 /\ Bound(ValueAt(con.row, v), con.b, con.strict)

\* What an atom in a formula is made of.
LEMMA AtomParts ==
  ASSUME NEW f \in Formulas, f.f = "atom"
  PROVE  f.k \in Rats /\ f.rel \in Bounding \cup {"eq", "ne"} /\ IsRow(f.terms)
<1>1. f \notin {TrueF, FalseF} /\ f.f \notin {"and", "or"}
  BY DEF TrueF, FalseF
<1>2. /\ f.k \in Rats /\ f.rel \in Bounding \cup {"eq", "ne"}
      /\ DOMAIN f.terms \subseteq 1..Quantities /\ f.terms \in [DOMAIN f.terms -> Rats]
  BY <1>1, FormulasAssumption
<1>3. \A q \in DOMAIN f.terms : f.terms[q] \in Rats
  BY <1>2
<1>4. QED BY <1>2, <1>3 DEF IsRow

\* The canonical form of a bound holds where the bound does.
LEMMA CanonicalMeets ==
  ASSUME NEW v \in Points, NEW f \in Settled(v), f.f = "atom"
  PROVE  Meets(Canonical(f), v)
<1> DEFINE x == ValueAt(f.terms, v)
<1>1. f \in Formulas /\ Sat(f, v) /\ f.rel \in Bounding
  BY DEF Settled, Satisfied
<1>2. Point(v)
  BY PointsAssumption DEF Point
<1>3. f.k \in Rats /\ IsRow(f.terms)
  BY <1>1, AtomParts
<1>4. x \in Rats
  BY <1>2, <1>3, ValueType
<1>5. CmpRat(f.rel, x, f.k)
  BY <1>1, ReadingAssumption
<1>6. CASE f.rel \in {"lt", "le"}
  <2>1. Bound(x, f.k, f.rel = "lt")
    BY <1>5, <1>6 DEF CmpRat, Bound
  <2>2. Canonical(f) = [row |-> f.terms, b |-> f.k, strict |-> f.rel = "lt"]
    BY <1>6 DEF Canonical, Upward
  <2>3. QED BY <1>3, <2>1, <2>2 DEF Meets
<1>7. CASE f.rel \in {"gt", "ge"}
  <2> DEFINE n == [q \in DOMAIN f.terms |-> RatNeg(f.terms[q])]
             y == ValueAt(n, v)
  <2>1. Bound(f.k, x, f.rel = "gt")
    BY <1>5, <1>7 DEF CmpRat, Bound
  <2>2. IsRow(n) /\ Same(y, RatNeg(x))
    BY <1>2, <1>3, ValueOfNegative
  <2>3. Canonical(f) = [row |-> n, b |-> RatNeg(f.k), strict |-> f.rel = "gt"]
    BY <1>7 DEF Canonical, Downward
  <2> HIDE DEF n
  <2>4. y \in Rats
    BY <1>2, <2>2, ValueType
  <2> HIDE DEF x, y
  <2>5. RatNeg(x) \in Rats /\ RatNeg(f.k) \in Rats
    BY <1>3, <1>4, RatTypes
  <2>6. Bound(RatNeg(x), RatNeg(f.k), f.rel = "gt")
    BY <1>3, <1>4, <2>1, NegativeBound
  <2>7. Bound(y, RatNeg(f.k), f.rel = "gt")
    BY <2>2, <2>4, <2>5, <2>6, SameBound
  <2>8. QED BY <2>2, <2>3, <2>5, <2>7 DEF Meets, y
<1>8. QED BY <1>1, <1>6, <1>7 DEF Bounding

\* The sum of a leaf's constraints, one by one.
IsSum(t, cons, lambdas) == /\ t[0] = NoSum /\ Combination(cons, lambdas) = t[Len(cons)]
                           /\ \A k \in 1..Len(cons) : t[k] = Added(cons[k], lambdas[k], t[k - 1])

\* There are such sums.
LEMMA CombinationSteps ==
  ASSUME NEW cons, Len(cons) \in Nat, NEW lambdas
  PROVE  \E t : IsSum(t, cons, lambdas)
<1> DEFINE Step(k, x) == Added(cons[k], lambdas[k], x)
           N == Len(cons)
           Eq(g, m) == g = [k \in 0..m |-> IF k = 0 THEN NoSum ELSE Step(k, g[k - 1])]
           T == {m \in 0..N : \E g : Eq(g, m)}
           S == CHOOSE g : Eq(g, N)
<1>1. Combination(cons, lambdas) = S[N]
  BY DEF Combination
<1> HIDE DEF Step, N, IsSum
<1>2. N \in Nat
  BY DEF N
<1>3. 0 \in T
  <2> DEFINE h == [k \in 0..0 |-> NoSum]
  <2>1. \A k \in 0..0 : k = 0
    OBVIOUS
  <2>2. Eq(h, 0)
    BY <2>1
  <2> HIDE DEF h, Eq
  <2>3. QED BY <1>2, <2>2
<1>4. ASSUME NEW m \in 1..N, m - 1 \in T PROVE m \in T
  <2>1. PICK g : Eq(g, m - 1)
    BY <1>4
  <2> DEFINE h == [k \in 0..m |-> IF k = m THEN Step(m, g[m - 1]) ELSE g[k]]
  <2>2. \A k \in 0..m : k # 0 => h[k - 1] = g[k - 1]
    OBVIOUS
  <2>3. \A k \in 0..m : h[k] = IF k = 0 THEN NoSum ELSE Step(k, h[k - 1])
    BY <2>1, <2>2
  <2>4. Eq(h, m)
    <3>1. h = [k \in 0..m |-> h[k]]
      OBVIOUS
    <3> HIDE DEF h
    <3>2. QED BY <2>3, <3>1
  <2> HIDE DEF h, Eq
  <2>5. QED BY <2>4
<1>5. N \in T
  <2> HIDE DEF T
  <2>1. \A m \in 0..N : m \in T
    BY <1>2, <1>3, <1>4, Climb
  <2>2. QED BY <1>2, <2>1
<1>6. Eq(S, N)
  <2> HIDE DEF Eq
  <2>1. QED BY <1>5
<1> HIDE DEF S
<1>7. S[0] = NoSum /\ \A k \in 1..N : S[k] = Step(k, S[k - 1])
  BY <1>2, <1>6
<1>8. QED BY <1>1, <1>7 DEF Step, N, IsSum

\* Adding a constraint with a multiplier keeps what the sum says true.
LEMMA AddedMeets ==
  ASSUME NEW v \in Points, NEW con, Meets(con, v), NEW sum, Meets(sum, v),
         NEW m \in Rats, RatLeq(Zero, m)
  PROVE  Meets(Added(con, m, sum), v)
<1>1. m[1] \in Int /\ m[2] \in Nat /\ m[2] > 0
  BY RatParts
<1>2. m[1] >= 0
  <2>1. ~(m[1] * 1 < 0 * m[2])
    BY ZeroIs DEF RatLeq, RatLess
  <2>2. QED BY <1>1, <2>1
<1>3. CASE m[1] = 0
  BY <1>1, <1>3 DEF Added, RatSign
<1>4. CASE m[1] > 0
  <2> DEFINE p == Plus(Scaled(m, con.row), sum.row)
             b == RatAdd(RatMul(m, con.b), sum.b)
             x == ValueAt(con.row, v)  y == ValueAt(sum.row, v)  z == ValueAt(p, v)
             w == RatAdd(RatMul(m, x), y)
  <2>0. Point(v)
    BY PointsAssumption DEF Point
  <2>1. /\ IsRow(con.row) /\ con.b \in Rats /\ con.strict \in BOOLEAN /\ Bound(x, con.b, con.strict)
        /\ IsRow(sum.row) /\ sum.b \in Rats /\ sum.strict \in BOOLEAN /\ Bound(y, sum.b, sum.strict)
    BY DEF Meets
  <2>2. IsRow(p) /\ Same(z, w)
    BY <2>0, <2>1, SumRow, ValueOfSum
  <2>3. x \in Rats /\ y \in Rats
    BY <2>0, <2>1, ValueType
  <2>4. z \in Rats
    <3> HIDE DEF p
    <3>1. QED BY <2>0, <2>2, ValueType
  <2>5. w \in Rats /\ b \in Rats
    <3> HIDE DEF x, y
    <3>1. QED BY <2>1, <2>3, RatTypes
  <2>6. Bound(w, b, con.strict \/ sum.strict)
    <3> HIDE DEF x, y
    <3>1. QED BY <1>4, <2>1, <2>3, WeightedBound
  <2>7. Added(con, m, sum) = [row |-> p, b |-> b, strict |-> con.strict \/ sum.strict]
    BY <1>1, <1>4 DEF Added, RatSign
  <2> HIDE DEF p, b, w
  <2>8. Bound(z, b, con.strict \/ sum.strict)
    BY <2>2, <2>4, <2>5, <2>6, SameBound
  <2>9. QED BY <2>1, <2>2, <2>5, <2>7, <2>8 DEF Meets
<1>5. QED BY <1>1, <1>2, <1>3, <1>4

\* Farkas: constraints that a point meets do not add up to a contradiction.
LEMMA FarkasSound ==
  ASSUME NEW v \in Points, NEW cons, Len(cons) \in Nat, DOMAIN cons = 1..Len(cons),
         \A i \in DOMAIN cons : Meets(cons[i], v), NEW lambdas
  PROVE  ~FarkasRefutes(cons, lambdas)
<1> DEFINE N == Len(cons)
<1> SUFFICES ASSUME FarkasRefutes(cons, lambdas) PROVE FALSE
  OBVIOUS
<1>0. PICK t : IsSum(t, cons, lambdas)
  BY CombinationSteps
<1>1. /\ t[0] = NoSum /\ Combination(cons, lambdas) = t[N]
      /\ \A k \in 1..N : t[k] = Added(cons[k], lambdas[k], t[k - 1])
  BY <1>0 DEF IsSum
<1>2. Point(v)
  BY PointsAssumption DEF Point
<1> DEFINE T == {k \in 0..N : Meets(t[k], v)}
<1>3. 0 \in T
  <2>1. DOMAIN NoSum.row = {} /\ NoSum.b = Zero /\ NoSum.strict = FALSE
    BY DEF NoSum
  <2>2. IsRow(NoSum.row) /\ ValueAt(NoSum.row, v) \in Rats /\ ValueAt(NoSum.row, v)[1] = 0
    BY <1>2, <2>1, ValueOfNothing
  <2> DEFINE x == ValueAt(NoSum.row, v)
  <2>3. RatLeq(x, Zero)
    <3> HIDE DEF x
    <3>1. x[2] \in Nat /\ x[1] = 0
      BY <2>2, RatParts DEF x
    <3>2. QED BY <3>1, ZeroIs DEF RatLeq, RatLess
  <2>4. Meets(NoSum, v)
    BY <2>1, <2>2, <2>3, ZeroIs DEF Meets, Bound
  <2>5. QED BY <1>1, <2>4
<1>4. \A k \in 1..N : k - 1 \in T => k \in T
  <2> SUFFICES ASSUME NEW k \in 1..N, Meets(t[k - 1], v) PROVE Meets(t[k], v)
    OBVIOUS
  <2>1. Meets(cons[k], v) /\ lambdas[k] \in Rats /\ RatLeq(Zero, lambdas[k])
    BY DEF FarkasRefutes
  <2>2. Meets(Added(cons[k], lambdas[k], t[k - 1]), v)
    BY <2>1, AddedMeets
  <2>3. QED BY <1>1, <2>2
<1>5. N \in T
  <2> HIDE DEF T, N
  <2>0. N \in Nat
    BY DEF N
  <2>1. \A k \in 0..N : k \in T
    BY <1>3, <1>4, <2>0, Climb
  <2>2. QED BY <2>0, <2>1
<1> DEFINE con == t[N]  x == ValueAt(con.row, v)
<1>6. Contradicts(con)
  <2>1. Combination(cons, lambdas) = con
    BY <1>1
  <2> HIDE DEF con
  <2>2. QED BY <2>1 DEF FarkasRefutes
<1>7. Meets(con, v)
  BY <1>5
<1> HIDE DEF con, T
<1>8. DOMAIN con.row = {} /\ con.b \in Rats /\ con.strict \in BOOLEAN /\ Bound(x, con.b, con.strict)
  BY <1>6, <1>7 DEF Contradicts, Meets
<1>9. x \in Rats /\ x[1] = 0
  BY <1>2, <1>8, ValueOfNothing
<1> HIDE DEF x
<1>10. Same(x, Zero)
  BY <1>9, ZeroSame
<1>11. Bound(Zero, con.b, con.strict)
  BY <1>8, <1>9, <1>10, ZeroIs, SameBound
<1>12. con.b[1] \in Int /\ con.b[2] \in Nat
  BY <1>8, RatParts
<1>13. IF con.strict THEN RatLeq(con.b, Zero) ELSE RatLess(con.b, Zero)
  BY <1>6 DEF Contradicts
<1>14. QED BY <1>8, <1>11, <1>13 DEF Bound, RatLeq

-----------------------------------------------------------------------------
(* Saturation. *)
IsTurns(t, conj) == /\ t[0] = Unsorted(conj) /\ Saturation(conj) = t[MaxPops]
                    /\ \A k \in 1..MaxPops : t[k] = Popped(t[k - 1])

\* There are such turns.
LEMMA SaturationSteps ==
  ASSUME NEW conj
  PROVE  \E t : IsTurns(t, conj)
<1> DEFINE Start == Unsorted(conj)
           Eq(g, m) == g = [k \in 0..m |-> IF k = 0 THEN Start ELSE Popped(g[k - 1])]
           T == {m \in 0..MaxPops : \E g : Eq(g, m)}
           S == CHOOSE g : Eq(g, MaxPops)
<1>1. Saturation(conj) = S[MaxPops]
  BY DEF Saturation
<1> HIDE DEF Start
<1>2. MaxPops \in Nat
  BY SizesAssumption
<1>3. 0 \in T
  <2> DEFINE h == [k \in 0..0 |-> Start]
  <2>1. \A k \in 0..0 : k = 0
    OBVIOUS
  <2>2. Eq(h, 0)
    BY <2>1
  <2> HIDE DEF h, Eq
  <2>3. QED BY <1>2, <2>2
<1>4. ASSUME NEW m \in 1..MaxPops, m - 1 \in T PROVE m \in T
  <2>1. PICK g : Eq(g, m - 1)
    BY <1>4
  <2> DEFINE h == [k \in 0..m |-> IF k = m THEN Popped(g[m - 1]) ELSE g[k]]
  <2>2. \A k \in 0..m : k # 0 => h[k - 1] = g[k - 1]
    OBVIOUS
  <2>3. \A k \in 0..m : h[k] = IF k = 0 THEN Start ELSE Popped(h[k - 1])
    BY <2>1, <2>2
  <2>4. Eq(h, m)
    <3>1. h = [k \in 0..m |-> h[k]]
      OBVIOUS
    <3> HIDE DEF h
    <3>2. QED BY <2>3, <3>1
  <2> HIDE DEF h, Eq
  <2>5. QED BY <2>4
<1>5. MaxPops \in T
  <2> HIDE DEF T
  <2>1. \A m \in 0..MaxPops : m \in T
    BY <1>2, <1>3, <1>4, Climb
  <2>2. QED BY <1>2, <2>1
<1>6. Eq(S, MaxPops)
  <2> HIDE DEF Eq
  <2>1. QED BY <1>5
<1> HIDE DEF S
<1>7. S[0] = Start /\ \A k \in 1..MaxPops : S[k] = Popped(S[k - 1])
  BY <1>2, <1>6
<1>8. QED BY <1>1, <1>7 DEF Start, IsTurns

\* Work on formulas that a point satisfies.
Works(v) == [stack: Seq(Satisfied(v)), items: Seq(Settled(v)), hasFalse: {FALSE}]

\* What leaves the stack leaves formulas that the point satisfies.
LEMMA SortedWorks ==
  ASSUME NEW v \in Points, NEW f \in Satisfied(v), NEW rest \in Seq(Satisfied(v)), NEW w \in Works(v)
  PROVE  Sorted(f, rest, w) \in Works(v)
<1>1. f \in Formulas /\ Sat(f, v)
  BY DEF Satisfied
<1>2. w = [stack |-> w.stack, items |-> w.items, hasFalse |-> FALSE] /\ w.items \in Seq(Settled(v))
  BY DEF Works
<1>3. \/ f \in {TrueF, FalseF}
      \/ f.f \in {"and", "or"} /\ f.parts \in Seq(Formulas)
      \/ /\ f.f = "atom" /\ f.k \in Rats /\ f.rel \in Bounding \cup {"eq", "ne"}
         /\ f.rel = "eq" => AsBounds(f) \in Seq(Formulas)
         /\ f.rel = "ne" => AsSplit(f) \in Formulas
  BY <1>1, FormulasAssumption
<1>4. CASE f = TrueF
  <2>1. Sorted(f, rest, w) = [w EXCEPT !.stack = rest]
    BY <1>4 DEF Sorted, TrueF
  <2>2. QED BY <1>2, <2>1 DEF Works
<1>5. f # FalseF
  BY <1>1, ReadingAssumption
<1>6. CASE f.f = "and" /\ f.parts \in Seq(Formulas)
  <2>1. Sorted(f, rest, w) = [w EXCEPT !.stack = f.parts \o rest]
    BY <1>6 DEF Sorted
  <2>2. f.parts \in Seq(Satisfied(v))
    <3>1. \A i \in DOMAIN f.parts : Sat(f.parts[i], v)
      BY <1>1, <1>6, ReadingAssumption
    <3> DEFINE p == f.parts
    <3>2. p \in Seq(Formulas) /\ \A i \in DOMAIN p : Sat(p[i], v)
      BY <1>6, <3>1
    <3> HIDE DEF p
    <3>3. \A i \in 1..Len(p) : p[i] \in Satisfied(v)
      BY <3>2 DEF Satisfied
    <3>4. p \in Seq(Satisfied(v))
      BY <3>2, <3>3
    <3>5. QED BY <3>4 DEF p
  <2>3. f.parts \o rest \in Seq(Satisfied(v))
    BY <2>2, ConcatProperties
  <2>4. QED BY <1>2, <2>1, <2>3 DEF Works
<1>7. CASE f.f = "or" /\ f.parts \in Seq(Formulas)
  <2>1. Sorted(f, rest, w) = [w EXCEPT !.stack = rest, !.items = Append(@, f)]
    BY <1>7 DEF Sorted
  <2>2. f \in Settled(v)
    BY <1>7 DEF Settled
  <2>3. Append(w.items, f) \in Seq(Settled(v))
    BY <1>2, <2>2, AppendProperties
  <2>4. QED BY <1>2, <2>1, <2>3 DEF Works
<1>8. CASE f.f = "atom" /\ f.rel \in Bounding
  <2>1. Sorted(f, rest, w) = [w EXCEPT !.stack = rest, !.items = Append(@, f)]
    BY <1>8 DEF Sorted, Bounding
  <2>2. f \in Settled(v)
    BY <1>8 DEF Settled
  <2>3. Append(w.items, f) \in Seq(Settled(v))
    BY <1>2, <2>2, AppendProperties
  <2>4. QED BY <1>2, <2>1, <2>3 DEF Works
<1>9. CASE f.f = "atom" /\ f.rel = "eq" /\ AsBounds(f) \in Seq(Formulas)
  <2> DEFINE le == Retagged(f, "le")  ge == Retagged(f, "ge")
  <2>1. Sorted(f, rest, w) = [w EXCEPT !.stack = rest, !.items = @ \o AsBounds(f)]
    BY <1>9 DEF Sorted
  <2>2. le.f = "atom" /\ le.rel = "le" /\ ge.f = "atom" /\ ge.rel = "ge" /\ AsBounds(f) = <<le, ge>>
    BY DEF Retagged, Atom, AsBounds
  <2> HIDE DEF le, ge
  <2>3. \A i \in {1, 2} : Sat(AsBounds(f)[i], v)
    BY <1>1, <1>9, ReadingAssumption
  <2>4. Sat(le, v) /\ Sat(ge, v)
    BY <2>2, <2>3
  <2>5. le \in Formulas /\ ge \in Formulas
    <3>1. Len(<<le, ge>>) = 2 /\ <<le, ge>>[1] = le /\ <<le, ge>>[2] = ge /\ <<le, ge>> \in Seq(Formulas)
      BY <1>9, <2>2
    <3>2. QED BY <3>1, ElementOfSeq
  <2>6. le \in Settled(v) /\ ge \in Settled(v)
    BY <2>2, <2>4, <2>5 DEF Settled, Satisfied, Bounding
  <2>7. w.items \o <<le, ge>> \in Seq(Settled(v))
    <3>1. <<le, ge>> \in Seq(Settled(v))
      BY <2>6
    <3>2. QED BY <1>2, <3>1, ConcatProperties
  <2>8. QED BY <1>2, <2>1, <2>2, <2>7 DEF Works
<1>10. CASE f.f = "atom" /\ f.rel = "ne" /\ AsSplit(f) \in Formulas
  <2>1. Sorted(f, rest, w) = [w EXCEPT !.stack = rest, !.items = Append(@, AsSplit(f))]
    BY <1>10 DEF Sorted
  <2>2. AsSplit(f) \in Settled(v)
    <3>1. AsSplit(f).f = "or"
      BY DEF AsSplit, Or
    <3>2. Sat(AsSplit(f), v)
      BY <1>1, <1>10, ReadingAssumption
    <3>3. QED BY <1>10, <3>1, <3>2 DEF Settled, Satisfied
  <2>3. Append(w.items, AsSplit(f)) \in Seq(Settled(v))
    BY <1>2, <2>2, AppendProperties
  <2>4. QED BY <1>2, <2>1, <2>3 DEF Works
<1>11. QED BY <1>3, <1>4, <1>5, <1>6, <1>7, <1>8, <1>9, <1>10

\* Saturation keeps every point of the conjunction.
LEMMA SaturationSound ==
  ASSUME NEW v \in Points, NEW conj \in Seq(Satisfied(v))
  PROVE  Saturation(conj) \in Works(v)
<1>1. PICK t : IsTurns(t, conj)
  BY SaturationSteps
<1> DEFINE T == {k \in 0..MaxPops : t[k] \in Works(v)}
<1>2. MaxPops \in Nat
  BY SizesAssumption
<1>3. 0 \in T
  <2>1. <<>> \in Seq(Settled(v))
    OBVIOUS
  <2>2. Unsorted(conj) \in Works(v)
    <3> HIDE DEF Settled, Satisfied
    <3>1. QED BY <2>1 DEF Unsorted, Works
  <2>3. QED BY <1>1, <1>2, <2>2 DEF IsTurns
<1>4. ASSUME NEW k \in 1..MaxPops, k - 1 \in T PROVE k \in T
  <2> DEFINE w == t[k - 1]
  <2>1. w \in Works(v) /\ t[k] = Popped(w)
    BY <1>1, <1>4 DEF IsTurns
  <2> HIDE DEF w
  <2>2. Popped(w) \in Works(v)
    <3>1. CASE w.stack = <<>>
      BY <2>1, <3>1 DEF Popped
    <3>2. CASE w.stack # <<>>
      <4>1. w.stack \in Seq(Satisfied(v))
        BY <2>1 DEF Works
      <4>2. Head(w.stack) \in Satisfied(v) /\ Tail(w.stack) \in Seq(Satisfied(v))
        BY <3>2, <4>1, HeadTailProperties
      <4>3. QED BY <2>1, <3>2, <4>2, SortedWorks DEF Popped
    <3>3. QED BY <3>1, <3>2
  <2>3. QED BY <2>1, <2>2
<1> HIDE DEF T
<1>5. MaxPops \in T
  <2>1. \A k \in 0..MaxPops : k \in T
    BY <1>2, <1>3, <1>4, Climb
  <2>2. QED BY <1>2, <2>1
<1>6. QED BY <1>1, <1>5 DEF T, IsTurns

-----------------------------------------------------------------------------
(* Replay. *)
IsLevels(t, cert, conj) ==
    /\ t[0] = Outermost(cert, conj) /\ (Replay(cert, conj) <=> t[MaxDepth + 1] = [ok |-> TRUE, calls |-> {}])
    /\ \A k \in 1..(MaxDepth + 1) : t[k] = Descended(t[k - 1])

\* There are such levels.
LEMMA ReplaySteps ==
  ASSUME NEW cert, NEW conj
  PROVE  \E t : IsLevels(t, cert, conj)
<1> DEFINE Start == Outermost(cert, conj)
           N == MaxDepth + 1
           Eq(g, m) == g = [k \in 0..m |-> IF k = 0 THEN Start ELSE Descended(g[k - 1])]
           T == {m \in 0..N : \E g : Eq(g, m)}
           S == CHOOSE g : Eq(g, N)
<1>1. Replay(cert, conj) <=> S[N] = [ok |-> TRUE, calls |-> {}]
  BY DEF Replay
<1> HIDE DEF Start
<1>2. N \in Nat
  BY SizesAssumption
<1> HIDE DEF N
<1>3. 0 \in T
  <2> DEFINE h == [k \in 0..0 |-> Start]
  <2>1. \A k \in 0..0 : k = 0
    OBVIOUS
  <2>2. Eq(h, 0)
    BY <2>1
  <2> HIDE DEF h, Eq
  <2>3. QED BY <1>2, <2>2
<1>4. ASSUME NEW m \in 1..N, m - 1 \in T PROVE m \in T
  <2>1. PICK g : Eq(g, m - 1)
    BY <1>4
  <2> DEFINE h == [k \in 0..m |-> IF k = m THEN Descended(g[m - 1]) ELSE g[k]]
  <2>2. \A k \in 0..m : k # 0 => h[k - 1] = g[k - 1]
    OBVIOUS
  <2>3. \A k \in 0..m : h[k] = IF k = 0 THEN Start ELSE Descended(h[k - 1])
    BY <2>1, <2>2
  <2>4. Eq(h, m)
    <3>1. h = [k \in 0..m |-> h[k]]
      OBVIOUS
    <3> HIDE DEF h
    <3>2. QED BY <2>3, <3>1
  <2> HIDE DEF h, Eq
  <2>5. QED BY <2>4
<1>5. N \in T
  <2> HIDE DEF T
  <2>1. \A m \in 0..N : m \in T
    BY <1>2, <1>3, <1>4, Climb
  <2>2. QED BY <1>2, <2>1
<1>6. Eq(S, N)
  <2> HIDE DEF Eq
  <2>1. QED BY <1>5
<1> HIDE DEF S
<1>7. S[0] = Start /\ \A k \in 1..N : S[k] = Descended(S[k - 1])
  BY <1>2, <1>6
<1>8. QED BY <1>1, <1>7 DEF Start, IsLevels, N

\* A sequence without one element.
LEMMA RemoveAtSeq ==
  ASSUME NEW S, NEW s \in Seq(S), NEW i \in 1..Len(s)
  PROVE  RemoveAt(s, i) \in Seq(S)
<1> DEFINE n == Len(s)  a == SubSeq(s, 1, i - 1)  b == SubSeq(s, i + 1, n)
<1>1. n \in Nat /\ i \in Int /\ \A k \in 1..n : s[k] \in S
  BY ElementOfSeq, LenProperties
<1>2. a \in Seq(S)
  <2>1. 1 \in Int /\ i - 1 \in Int /\ \A k \in 1..(i - 1) : s[k] \in S
    BY <1>1
  <2>2. QED BY <2>1, SubSeqProperties
<1>3. b \in Seq(S)
  <2>1. n \in Int /\ i + 1 \in Int /\ \A k \in (i + 1)..n : s[k] \in S
    BY <1>1
  <2>2. QED BY <2>1, SubSeqProperties
<1>4. RemoveAt(s, i) = a \o b
  BY DEF RemoveAt
<1> HIDE DEF a, b
<1>5. QED BY <1>2, <1>3, <1>4, ConcatProperties

\* A call that is in order does not lose a point: it passes it on to a branch.
LEMMA CallPassesOn ==
  ASSUME NEW v \in Points, NEW call, call.conj \in Seq(Satisfied(v)), Verifies(call)
  PROVE  \E c \in SubCalls(call) : c.conj \in Seq(Satisfied(v))
<1> DEFINE sat == Saturation(call.conj)
           items == sat.items
           cert == call.cert
<1>1. sat \in Works(v)
  BY SaturationSound
<1>2. sat.hasFalse = FALSE /\ items \in Seq(Settled(v))
  <2> HIDE DEF sat
  <2>1. QED BY <1>1 DEF Works
<1>3. Fits(cert, sat)
  BY DEF Verifies
<1>4. items \in Seq(Satisfied(v)) /\ Len(items) \in Nat /\ DOMAIN items = 1..Len(items)
  <2> HIDE DEF items
  <2>1. Len(items) \in Nat /\ DOMAIN items = 1..Len(items) /\ \A i \in 1..Len(items) : items[i] \in Satisfied(v)
    BY <1>2, ElementOfSeq, LenProperties DEF Settled
  <2>2. QED BY <1>2, <2>1
<1>5. \A i \in DOMAIN items : items[i] \in Settled(v)
  <2> HIDE DEF items
  <2>1. QED BY <1>2, <1>4, ElementOfSeq
<1>6. Splits(items) # {}
  <2> SUFFICES ASSUME Splits(items) = {} PROVE FALSE
    OBVIOUS
  <2> DEFINE cons == Constraints(items)
  <2>1. FarkasRefutes(cons, cert.multipliers)
    BY <1>2, <1>3 DEF Fits
  <2>2. \A i \in DOMAIN items : items[i].f = "atom"
    BY <1>5 DEF Splits, Settled
  <2> HIDE DEF items, sat, cert
  <2>3. \A i \in DOMAIN items : Meets(Canonical(items[i]), v)
    BY <1>5, <2>2, CanonicalMeets
  <2>4. cons = [i \in 1..Len(items) |-> Canonical(items[i])]
    BY <1>4 DEF Constraints
  <2>5. Len(cons) = Len(items) /\ DOMAIN cons = 1..Len(cons)
    <3>1. cons \in Seq({Canonical(items[i]) : i \in 1..Len(items)})
      BY <1>4, <2>4
    <3> HIDE DEF cons
    <3>2. DOMAIN cons = 1..Len(items) /\ DOMAIN cons = 1..Len(cons) /\ Len(cons) \in Nat
      BY <2>4, <3>1
    <3>3. QED BY <1>4, <3>2
  <2>6. \A i \in DOMAIN cons : Meets(cons[i], v)
    BY <1>4, <2>3, <2>4
  <2> HIDE DEF cons
  <2>7. QED BY <1>4, <2>1, <2>5, <2>6, FarkasSound
<1> DEFINE j == Leftmost(items)
           ds == Disjuncts(items)
<1>7. j \in Splits(items)
  <2> HIDE DEF items
  <2>1. Splits(items) \subseteq Nat
    BY <1>4 DEF Splits
  <2>2. \E i \in Splits(items) : \A k \in Splits(items) : i <= k
    BY <1>6, <2>1, LeastNatural
  <2>3. QED BY <2>2 DEF Leftmost
<1>8. DOMAIN cert.branches = DOMAIN ds
  BY <1>2, <1>3, <1>6 DEF Fits, Covers
<1>9. SubCalls(call) = Branches(cert, items)
  BY <1>2, <1>6 DEF SubCalls
<1> HIDE DEF items, sat, cert
<1>10. j \in 1..Len(items) /\ items[j].f = "or" /\ items[j] \in Formulas /\ Sat(items[j], v)
  BY <1>4, <1>5, <1>7 DEF Splits, Settled, Satisfied
<1>11. ds = items[j].parts
  BY DEF Disjuncts
<1>12. PICK i \in DOMAIN ds : Sat(ds[i], v)
  BY <1>10, <1>11, ReadingAssumption
<1>13. ds[i] \in Satisfied(v)
  <2>1. items[j] \notin {TrueF, FalseF} /\ items[j].f # "atom"
    BY <1>10 DEF TrueF, FalseF
  <2>2. items[j].parts \in Seq(Formulas)
    BY <1>10, <2>1, FormulasAssumption
  <2> HIDE DEF ds
  <2>3. ds[i] \in Formulas
    BY <1>11, <1>12, <2>2, ElementOfSeq
  <2>4. QED BY <1>12, <2>3 DEF Satisfied
<1> DEFINE child == BuildChild(items, j, ds[i])
           c == [cert |-> cert.branches[i], conj |-> child]
<1>14. child \in Seq(Satisfied(v))
  <2> HIDE DEF ds, j
  <2>1. RemoveAt(items, j) \in Seq(Satisfied(v))
    BY <1>4, <1>10, RemoveAtSeq
  <2>2. QED BY <1>13, <2>1, AppendProperties DEF BuildChild
<1>15. c \in Branches(cert, items)
  BY <1>8, <1>12 DEF Branches
<1>16. QED
  <2> HIDE DEF child
  <2>1. c.conj = child
    OBVIOUS
  <2> HIDE DEF c
  <2>2. QED BY <1>9, <1>14, <1>15, <2>1

\* What replays refutes: no point satisfies every formula, whatever the certificate
\* and however it came about (Certificate::replay).
THEOREM ReplaySound ==
  ASSUME NEW cert, NEW conj \in Seq(Formulas), Replay(cert, conj)
  PROVE  Conflict(conj)
<1> SUFFICES ASSUME NEW v \in Points, \A i \in DOMAIN conj : Sat(conj[i], v)
             PROVE  FALSE
  BY DEF Conflict
<1>1. conj \in Seq(Satisfied(v))
  <2>1. \A i \in 1..Len(conj) : conj[i] \in Satisfied(v)
    BY ElementOfSeq, LenProperties DEF Satisfied
  <2>2. QED BY <2>1
<1>2. PICK t : IsLevels(t, cert, conj)
  BY ReplaySteps
<1> DEFINE N == MaxDepth + 1
           Reached(l) == l.ok = FALSE \/ \E call \in l.calls : call.conj \in Seq(Satisfied(v))
           T == {k \in 0..N : Reached(t[k])}
<1>3. N \in Nat
  BY SizesAssumption
<1>4. 0 \in T
  <2> DEFINE call == [cert |-> cert, conj |-> conj]
  <2>1. t[0].calls = {call} /\ call.conj = conj
    BY <1>2 DEF IsLevels, Outermost
  <2> HIDE DEF call
  <2>2. call \in t[0].calls
    BY <2>1
  <2>3. Reached(t[0])
    BY <1>1, <2>1, <2>2
  <2>4. 0 \in 0..N
    <3> HIDE DEF N
    <3>1. QED BY <1>3
  <2> HIDE DEF N, Reached
  <2>5. QED BY <2>3, <2>4
<1>5. ASSUME NEW k \in 1..N, k - 1 \in T PROVE k \in T
  <2> DEFINE l == t[k - 1]
  <2>1. Reached(l) /\ t[k] = Descended(l)
    BY <1>2, <1>5 DEF IsLevels
  <2> HIDE DEF l
  <2>2. Reached(Descended(l))
    <3>1. CASE \A call \in l.calls : Verifies(call)
      <4>1. Descended(l) = [ok |-> l.ok, calls |-> UNION {SubCalls(call) : call \in l.calls}]
        BY <3>1 DEF Descended
      <4>2. CASE l.ok = FALSE
        BY <4>1, <4>2
      <4>3. ASSUME NEW call \in l.calls, call.conj \in Seq(Satisfied(v)) PROVE Reached(Descended(l))
        <5>1. PICK c \in SubCalls(call) : c.conj \in Seq(Satisfied(v))
          BY <3>1, <4>3, CallPassesOn
        <5>2. c \in Descended(l).calls
          BY <4>1, <5>1
        <5>3. QED BY <5>1, <5>2
      <4>4. QED BY <2>1, <4>2, <4>3
    <3>2. CASE ~\A call \in l.calls : Verifies(call)
      BY <3>2 DEF Descended
    <3>3. QED BY <3>1, <3>2
  <2>3. QED BY <2>1, <2>2
<1>6. N \in T
  <2> HIDE DEF T, N
  <2>1. \A k \in 0..N : k \in T
    BY <1>3, <1>4, <1>5, Climb
  <2>2. QED BY <1>3, <2>1
<1>7. t[N] = [ok |-> TRUE, calls |-> {}]
  BY <1>2 DEF IsLevels
<1>8. QED BY <1>6, <1>7

-----------------------------------------------------------------------------
(* The engine and the bundle. *)
Asserts == [f: Formulas, xr: BOOLEAN, link: {Plain} \cup {<<f>> : f \in Facts}, recon: BOOLEAN]
DerivationIn(e) == e \in [premises: Seq(Formulas), cert: {e.cert}]
FactIn(d) == /\ d \in [name: {d.name}, f: {d.f}, derivations: {d.derivations}]
             /\ \E S : d.derivations \in Seq(S) /\ \A e \in S : DerivationIn(e)

Known(a, derived) == a.f \in Cuts \cup Facts /\ (a.recon = TRUE => a.f \in derived)

\* What the engine has: a query of cuts and facts, every fact it uses derived.
EngineInv ==
    /\ asserts \in Seq(Asserts) /\ Len(asserts) <= MaxAsserts
    /\ \A i \in DOMAIN asserts : Known(asserts[i], DOMAIN chains)
    /\ \A x \in DOMAIN chains : FactIn(chains[x])

\* What a bundle is made of, edited or not.
BundleIn(b) == /\ b \in [asserts: Seq(Asserts), facts: {b.facts}, cert: {b.cert}]
               /\ b.facts = [x \in DOMAIN b.facts |-> b.facts[x]]
               /\ \A x \in DOMAIN b.facts : FactIn(b.facts[x])
IInv == EngineInv /\ (bundle # NoBundle => BundleIn(bundle))

\* The formulas of a query are formulas, in its order.
LEMMA FormulasOfAsserts ==
  ASSUME NEW as \in Seq(Asserts)
  PROVE  FormulasOf(as) \in Seq(Formulas) /\ FormulasOf(as) = [i \in 1..Len(as) |-> as[i].f]
<1> DEFINE n == Len(as)  e(i) == as[i].f
<1>1. n \in Nat /\ DOMAIN as = 1..n /\ \A i \in 1..n : as[i] \in Asserts
  BY ElementOfSeq, LenProperties
<1>2. FormulasOf(as) = [i \in 1..n |-> e(i)]
  BY <1>1 DEF FormulasOf
<1>3. \A i \in 1..n : e(i) \in Formulas
  BY <1>1 DEF Asserts
<1> HIDE DEF n, e
<1>4. [i \in 1..n |-> e(i)] \in Seq(Formulas)
  BY <1>1, <1>3
<1>5. QED BY <1>2, <1>4 DEF n, e

\* Every derivation of a fact has formulas for premises.
LEMMA PremisesAreFormulas ==
  ASSUME NEW d, FactIn(d), NEW k \in DOMAIN d.derivations
  PROVE  d.derivations[k].premises \in Seq(Formulas)
<1>1. PICK S : d.derivations \in Seq(S) /\ \A e \in S : DerivationIn(e)
  BY DEF FactIn
<1>2. DerivationIn(d.derivations[k])
  BY <1>1, ElementOfSeq, LenProperties
<1>3. QED BY <1>2 DEF DerivationIn

\* A fact that replays rests on refutations.
LEMMA ReplayDerives ==
  ASSUME NEW d, FactIn(d), FactReplays(d)
  PROVE  Derived(d)
<1>1. ASSUME NEW k \in DOMAIN d.derivations PROVE Conflict(d.derivations[k].premises)
  <2>1. Replay(d.derivations[k].cert, d.derivations[k].premises)
    BY DEF FactReplays
  <2>2. QED BY <2>1, PremisesAreFormulas, ReplaySound
<1>2. QED BY <1>1 DEF Derived, FactReplays

\* A bundle that replays is a refutation, and what it states as a fact is derived.
LEMMA AcceptedBundle ==
  ASSUME NEW b, BundleIn(b), Accepted(b)
  PROVE  /\ Conflict(FormulasOf(b.asserts))
         /\ \A i \in DOMAIN b.asserts :
              b.asserts[i].xr \/ b.asserts[i].link # Plain => IsDerived(b, b.asserts[i])
<1>1. FormulasOf(b.asserts) \in Seq(Formulas)
  BY FormulasOfAsserts DEF BundleIn
<1>2. Conflict(FormulasOf(b.asserts))
  BY <1>1, ReplaySound DEF Accepted
<1>3. ASSUME NEW i \in DOMAIN b.asserts, b.asserts[i].xr \/ b.asserts[i].link # Plain
      PROVE  IsDerived(b, b.asserts[i])
  <2> DEFINE a == b.asserts[i]
  <2>1. IF a.link = Plain THEN ~a.xr ELSE \E x \in FactsNamed(b, a.link[1]) : b.facts[x].f = a.f
    BY DEF Accepted, ChainComplete
  <2>2. a.link # Plain
    BY <1>3, <2>1
  <2> HIDE DEF a
  <2>3. PICK x \in FactsNamed(b, a.link[1]) : b.facts[x].f = a.f
    BY <2>1, <2>2
  <2>4. x \in DOMAIN b.facts /\ b.facts[x].name = a.link[1]
    BY DEF FactsNamed
  <2>5. FactsNamed(b, a.link[1]) = {x}
    BY <2>4 DEF Accepted, ChainComplete, FactsNamed
  <2>6. FactIn(b.facts[x]) /\ FactReplays(b.facts[x])
    BY <2>4 DEF Accepted, BundleIn
  <2>7. Derived(b.facts[x])
    BY <2>6, ReplayDerives
  <2>8. IsDerived(b, a)
    BY <2>2, <2>3, <2>4, <2>5, <2>7 DEF IsDerived
  <2>9. QED BY <2>8 DEF a
<1>4. QED BY <1>2, <1>3

\* At first there is no query and no bundle.
LEMMA InitIInv == Init => IInv
<1> SUFFICES ASSUME Init PROVE IInv
  OBVIOUS
<1>1. asserts \in Seq(Asserts) /\ Len(asserts) = 0 /\ DOMAIN asserts = {}
  BY DEF Init
<1>2. DOMAIN chains = {} /\ bundle = NoBundle
  BY DEF Init
<1>3. QED BY <1>1, <1>2, BoundsAssumption DEF IInv, EngineInv

\* A query may grow by what is known.
LEMMA QueryGrows ==
  ASSUME IInv, NEW a \in Asserts, Known(a, DOMAIN chains), Len(asserts) < MaxAsserts,
         asserts' = Append(asserts, a), chains' = chains, bundle' = NoBundle
  PROVE  IInv'
<1>1. asserts \in Seq(Asserts) /\ Len(asserts) \in Nat /\ DOMAIN asserts = 1..Len(asserts)
  BY LenProperties DEF IInv, EngineInv
<1>2. asserts' \in Seq(Asserts) /\ Len(asserts') = Len(asserts) + 1 /\ Len(asserts') <= MaxAsserts
  BY <1>1, AppendProperties, BoundsAssumption
<1>3. DOMAIN asserts' = 1..(Len(asserts) + 1) /\ asserts'[Len(asserts) + 1] = a
  BY <1>1, <1>2, AppendProperties, LenProperties
<1>4. \A i \in 1..Len(asserts) : asserts'[i] = asserts[i]
  BY <1>1, AppendProperties
<1>5. ASSUME NEW i \in DOMAIN asserts' PROVE Known(asserts'[i], DOMAIN chains)
  <2>1. i = Len(asserts) + 1 \/ i \in 1..Len(asserts)
    BY <1>1, <1>3
  <2>2. QED BY <1>1, <1>3, <1>4, <2>1 DEF IInv, EngineInv
<1>6. QED BY <1>2, <1>5 DEF IInv, EngineInv

\* A cut is known.
LEMMA AssertCutKeeps ==
  ASSUME IInv, NEW f \in Cuts, AssertCut(f)
  PROVE  IInv'
<1> DEFINE a == CutAssert(f)
<1>1. a \in Asserts /\ a.f = f /\ a.recon = FALSE
  BY CutsAssumption DEF CutAssert, Asserts
<1>2. Known(a, DOMAIN chains)
  BY <1>1 DEF Known
<1>3. asserts' = Append(asserts, a) /\ chains' = chains /\ bundle' = NoBundle /\ Len(asserts) < MaxAsserts
  BY DEF AssertCut
<1> HIDE DEF a
<1>4. QED BY <1>1, <1>2, <1>3, QueryGrows

\* A fact is used only if it was derived.
LEMMA UseFactKeeps ==
  ASSUME IInv, NEW f \in Facts, UseFact(f)
  PROVE  IInv'
<1> DEFINE a == [f |-> f, xr |-> TRUE, link |-> <<f>>, recon |-> TRUE]
<1>1. a \in Asserts /\ a.f = f
  BY CutsAssumption DEF Asserts
<1>2. Known(a, DOMAIN chains)
  BY <1>1 DEF Known, UseFact
<1>3. asserts' = Append(asserts, a) /\ chains' = chains /\ bundle' = NoBundle /\ Len(asserts) < MaxAsserts
  BY DEF UseFact
<1> HIDE DEF a
<1>4. QED BY <1>1, <1>2, <1>3, QueryGrows

\* reconcile: a derived fact keeps its premises, which are formulas.
LEMMA DeriveKeeps ==
  ASSUME IInv, NEW f \in Facts, NEW p \in Premises, Derive(f, p)
  PROVE  IInv'
<1> DEFINE Refutation(c) == [premises |-> p, cert |-> c]
           Fact(c) == DerivedFact(f, <<Refutation(c)>>)
<1>1. PICK c : chains' = [x \in DOMAIN chains \cup {f} |-> IF x = f THEN Fact(c) ELSE chains[x]]
  BY DEF Derive
<1> DEFINE d == Fact(c)
<1>2. FactIn(d)
  <2> DEFINE e == Refutation(c)  s == <<e>>
  <2>1. DerivationIn(e)
    BY CutsAssumption DEF DerivationIn
  <2> HIDE DEF e
  <2>2. s \in Seq({e}) /\ \A g \in {e} : DerivationIn(g)
    BY <2>1
  <2> HIDE DEF s
  <2>3. FactIn(DerivedFact(f, s))
    BY <2>2 DEF FactIn, DerivedFact
  <2>4. QED BY <2>3 DEF s, e
<1> HIDE DEF d
<1>3. chains' = [x \in DOMAIN chains \cup {f} |-> IF x = f THEN d ELSE chains[x]]
  BY <1>1 DEF d
<1>4. asserts' = <<>> /\ bundle' = NoBundle
  BY DEF Derive
<1>5. asserts' \in Seq(Asserts) /\ Len(asserts') = 0 /\ DOMAIN asserts' = {}
  BY <1>4
<1>6. \A x \in DOMAIN chains' : FactIn(chains'[x])
  BY <1>2, <1>3 DEF IInv, EngineInv
<1>7. QED BY <1>4, <1>5, <1>6, BoundsAssumption DEF IInv, EngineInv

\* What is written is made of what the engine has.
LEMMA PushKeeps ==
  ASSUME IInv, NEW as \in Seq(Asserts), NEW cert, Push(as, cert),
         \A i \in DOMAIN as : as[i].recon => as[i].f \in DOMAIN chains
  PROVE  IInv'
<1> DEFINE b == Packed(as, cert)
<1>1. bundle' = b /\ asserts' = asserts /\ chains' = chains
  BY DEF Push
<1>2. b \in [asserts: Seq(Asserts), facts: {b.facts}, cert: {b.cert}]
  BY DEF Packed
<1>3. b.asserts = as /\ b.facts = [i \in FirstUses(as) |-> chains[as[i].f]]
  BY DEF Packed
<1> HIDE DEF b
<1>4. DOMAIN b.facts = FirstUses(as) /\ \A x \in DOMAIN b.facts : FactIn(b.facts[x])
  BY <1>3 DEF IInv, EngineInv, FirstUses
<1>5. b.facts = [x \in DOMAIN b.facts |-> b.facts[x]]
  BY <1>3
<1>6. BundleIn(b)
  BY <1>2, <1>3, <1>4, <1>5 DEF BundleIn
<1>7. QED BY <1>1, <1>6 DEF IInv, EngineInv

\* certify_named_formulas: the facts that the query uses were derived.
LEMMA SearchKeeps ==
  ASSUME IInv, Search
  PROVE  IInv'
<1>1. PICK cert : Push(asserts, cert)
  BY DEF Search
<1>2. ASSUME NEW i \in DOMAIN asserts, asserts[i].recon
      PROVE  asserts[i].f \in DOMAIN chains
  <2>1. asserts \in Seq(Asserts) /\ Known(asserts[i], DOMAIN chains)
    BY DEF IInv, EngineInv
  <2>2. asserts[i] \in Asserts
    BY <2>1, ElementOfSeq, LenProperties
  <2>3. asserts[i].recon = TRUE
    BY <1>2, <2>2 DEF Asserts
  <2>4. QED BY <2>1, <2>3 DEF Known
<1>3. QED BY <1>1, <1>2, PushKeeps DEF IInv, EngineInv

\* What certify_interval states uses no facts.
LEMMA StatedKeeps ==
  ASSUME IInv, NEW forms \in Seq(Formulas), Stated(forms)
  PROVE  IInv'
<1> DEFINE as == [i \in DOMAIN forms |-> CutAssert(forms[i])]
<1>1. PICK cert : Push(as, cert)
  BY DEF Stated
<1>2. Len(forms) \in Nat /\ DOMAIN forms = 1..Len(forms) /\ \A i \in 1..Len(forms) : CutAssert(forms[i]) \in Asserts
  BY ElementOfSeq, LenProperties DEF CutAssert, Asserts
<1>3. as \in Seq(Asserts)
  BY <1>2
<1>4. \A i \in DOMAIN as : ~as[i].recon
  BY DEF CutAssert
<1> HIDE DEF as
<1>5. QED BY <1>1, <1>3, <1>4, PushKeeps

\* A conjunction of one formula.
LEMMA OneFormula ==
  ASSUME NEW f \in Formulas
  PROVE  <<f>> \in Seq(Formulas)
OBVIOUS

\* A conjunction of two.
LEMMA TwoFormulas ==
  ASSUME NEW f \in Formulas, NEW g \in Formulas
  PROVE  <<f, g>> \in Seq(Formulas)
OBVIOUS

\* certify_interval states whole formulas of the query, or their atoms.
LEMMA IntervalPathKeeps ==
  ASSUME IInv, IntervalPath
  PROVE  IInv'
<1> DEFINE fs == FormulasOf(asserts)
<1>1. fs \in Seq(Formulas) /\ fs = [i \in 1..Len(asserts) |-> asserts[i].f]
  BY FormulasOfAsserts DEF IInv, EngineInv
<1>2. Len(asserts) \in 0..MaxAsserts /\ DOMAIN asserts = 1..Len(asserts)
  BY LenProperties, BoundsAssumption DEF IInv, EngineInv
<1> HIDE DEF fs
<1>3. fs \in Queries
  <2>1. \A i \in 1..Len(asserts) : asserts[i].f \in Cuts \cup Facts
    BY <1>2 DEF IInv, EngineInv, Known
  <2>2. fs \in [1..Len(asserts) -> Cuts \cup Facts]
    BY <1>1, <2>1
  <2>3. QED BY <1>2, <2>2 DEF Queries
<1>4. \A i \in DOMAIN fs : fs[i] \in Formulas
  BY <1>1, ElementOfSeq, LenProperties
<1>5. IntervalPathOf(fs)
  BY DEF IntervalPath, fs
<1>6. CASE \E i \in FalseParts(fs) : Stated(<<fs[i]>>)
  <2>1. PICK i \in FalseParts(fs) : Stated(<<fs[i]>>)
    BY <1>6
  <2>2. fs[i] \in Formulas
    BY <1>3, <1>4, PartsAssumption
  <2>3. QED BY <2>1, <2>2, OneFormula, StatedKeeps
<1>7. CASE \E parts \in CrossingParts(fs) : Stated(Whole(fs, parts)) \/ Stated(Lean(parts))
  <2>1. PICK parts \in CrossingParts(fs) : Stated(Whole(fs, parts)) \/ Stated(Lean(parts))
    BY <1>7
  <2>2. \A i \in {1, 2} : fs[parts[i].src] \in Formulas /\ parts[i].atom \in Formulas
    BY <1>3, <1>4, PartsAssumption
  <2>3. Whole(fs, parts) \in Seq(Formulas)
    BY <2>2, OneFormula, TwoFormulas DEF Whole
  <2>4. Lean(parts) \in Seq(Formulas)
    BY <2>2, TwoFormulas DEF Lean
  <2>5. QED BY <2>1, <2>3, <2>4, StatedKeeps
<1>8. QED BY <1>5, <1>6, <1>7 DEF IntervalPathOf

\* An edit leaves the engine gone and a bundle of the same make.
LEMMA EditKeeps ==
  ASSUME IInv, NEW b, BundleIn(b), Edit(b)
  PROVE  IInv'
<1>1. asserts' = <<>> /\ chains' = <<>> /\ bundle' = b
  BY DEF Edit
<1>2. asserts' \in Seq(Asserts) /\ Len(asserts') = 0 /\ DOMAIN asserts' = {} /\ DOMAIN chains' = {}
  BY <1>1
<1>3. QED BY <1>1, <1>2, BoundsAssumption DEF IInv, EngineInv

\* A bundle with other asserts is of the same make.
LEMMA OtherAsserts ==
  ASSUME NEW b, BundleIn(b), NEW as \in Seq(Asserts)
  PROVE  BundleIn([b EXCEPT !.asserts = as])
<1> DEFINE c == [b EXCEPT !.asserts = as]
<1>1. c \in [asserts: Seq(Asserts), facts: {b.facts}, cert: {b.cert}] /\ c.facts = b.facts /\ c.cert = b.cert
  BY DEF BundleIn
<1> HIDE DEF c
<1>2. BundleIn(c)
  BY <1>1 DEF BundleIn
<1>3. QED BY <1>2 DEF c

\* With other facts.
LEMMA OtherFacts ==
  ASSUME NEW b, BundleIn(b), NEW T, NEW facts,
         facts = [x \in T |-> facts[x]], \A x \in T : FactIn(facts[x])
  PROVE  BundleIn([b EXCEPT !.facts = facts])
<1> DEFINE c == [b EXCEPT !.facts = facts]
<1>1. c \in [asserts: Seq(Asserts), facts: {facts}, cert: {b.cert}] /\ c.facts = facts /\ c.cert = b.cert
  BY DEF BundleIn
<1>2. DOMAIN facts = T
  OBVIOUS
<1> HIDE DEF c
<1>3. BundleIn(c)
  BY <1>1, <1>2 DEF BundleIn
<1>4. QED BY <1>3 DEF c

\* With another certificate.
LEMMA OtherCertificate ==
  ASSUME NEW b, BundleIn(b), NEW cert
  PROVE  BundleIn([b EXCEPT !.cert = cert])
<1> DEFINE c == [b EXCEPT !.cert = cert]
<1>1. c \in [asserts: Seq(Asserts), facts: {b.facts}, cert: {cert}] /\ c.facts = b.facts /\ c.cert = cert
  BY DEF BundleIn
<1> HIDE DEF c
<1>2. BundleIn(c)
  BY <1>1 DEF BundleIn
<1>3. QED BY <1>2 DEF c

\* One assert changed.
LEMMA EditAssertKeeps ==
  ASSUME IInv, bundle # NoBundle, NEW i \in DOMAIN bundle.asserts, NEW a \in Asserts,
         Edit([bundle EXCEPT !.asserts = [bundle.asserts EXCEPT ![i] = a]])
  PROVE  IInv'
<1> DEFINE as == [bundle.asserts EXCEPT ![i] = a]
<1>1. BundleIn(bundle)
  BY DEF IInv
<1>2. bundle.asserts \in Seq(Asserts) /\ i \in 1..Len(bundle.asserts)
  BY <1>1, LenProperties DEF BundleIn
<1>3. as \in Seq(Asserts)
  BY <1>2, ExceptSeq
<1> HIDE DEF as
<1>4. BundleIn([bundle EXCEPT !.asserts = as])
  BY <1>1, <1>3, OtherAsserts
<1>5. QED BY <1>4, EditKeeps DEF as

\* The formula of an assert edited.
LEMMA EditFormulaKeeps ==
  ASSUME IInv, bundle # NoBundle, EditFormula
  PROVE  IInv'
<1>1. PICK i \in DOMAIN bundle.asserts, f \in Cuts \cup Facts : Edit([bundle EXCEPT !.asserts[i].f = f])
  BY DEF EditFormula
<1> DEFINE a == bundle.asserts[i]  b == [a EXCEPT !.f = f]
<1>2. bundle.asserts \in Seq(Asserts)
  BY DEF IInv, BundleIn
<1>3. a \in Asserts /\ f \in Formulas
  BY <1>2, ElementOfSeq, LenProperties, CutsAssumption
<1>4. b \in Asserts
  <2> HIDE DEF a
  <2>1. QED BY <1>3 DEF Asserts
<1>5. Edit([bundle EXCEPT !.asserts = [bundle.asserts EXCEPT ![i] = b]])
  BY <1>1
<1> HIDE DEF b
<1>6. QED BY <1>4, <1>5, EditAssertKeeps

\* The name of an assert edited.
LEMMA EditNameKeeps ==
  ASSUME IInv, bundle # NoBundle, EditName
  PROVE  IInv'
<1>1. PICK i \in DOMAIN bundle.asserts : Edit([bundle EXCEPT !.asserts[i].xr = ~@])
  BY DEF EditName
<1> DEFINE a == bundle.asserts[i]  b == [a EXCEPT !.xr = ~@]
<1>2. bundle.asserts \in Seq(Asserts)
  BY DEF IInv, BundleIn
<1>3. a \in Asserts
  BY <1>2, ElementOfSeq, LenProperties
<1>4. b \in Asserts
  <2> HIDE DEF a
  <2>1. QED BY <1>3 DEF Asserts
<1>5. Edit([bundle EXCEPT !.asserts = [bundle.asserts EXCEPT ![i] = b]])
  BY <1>1
<1> HIDE DEF b
<1>6. QED BY <1>4, <1>5, EditAssertKeeps

\* The fact an assert claims to be.
LEMMA EditLinkKeeps ==
  ASSUME IInv, bundle # NoBundle, EditLink
  PROVE  IInv'
<1>1. PICK i \in DOMAIN bundle.asserts, l \in {Plain} \cup {<<f>> : f \in Facts} :
           Edit([bundle EXCEPT !.asserts[i].link = l])
  BY DEF EditLink
<1> DEFINE a == bundle.asserts[i]  b == [a EXCEPT !.link = l]
<1>2. bundle.asserts \in Seq(Asserts)
  BY DEF IInv, BundleIn
<1>3. a \in Asserts
  BY <1>2, ElementOfSeq, LenProperties
<1>4. b \in Asserts
  <2> HIDE DEF a
  <2>1. QED BY <1>3 DEF Asserts
<1>5. Edit([bundle EXCEPT !.asserts = [bundle.asserts EXCEPT ![i] = b]])
  BY <1>1
<1> HIDE DEF b
<1>6. QED BY <1>4, <1>5, EditAssertKeeps

\* An assert removed.
LEMMA EditAssertsKeeps ==
  ASSUME IInv, bundle # NoBundle, EditAsserts
  PROVE  IInv'
<1>1. BundleIn(bundle)
  BY DEF IInv
<1>2. PICK i \in DOMAIN bundle.asserts : Edit([bundle EXCEPT !.asserts = RemoveAt(bundle.asserts, i)])
  BY DEF EditAsserts
<1>3. bundle.asserts \in Seq(Asserts) /\ i \in 1..Len(bundle.asserts)
  BY <1>1, LenProperties DEF BundleIn
<1>4. RemoveAt(bundle.asserts, i) \in Seq(Asserts)
  BY <1>3, RemoveAtSeq
<1>5. BundleIn([bundle EXCEPT !.asserts = RemoveAt(bundle.asserts, i)])
  BY <1>1, <1>4, OtherAsserts
<1>6. QED BY <1>2, <1>5, EditKeeps

\* One entry of a bundle's facts changed, or one written once more.
LEMMA OneFactChanged ==
  ASSUME IInv, bundle # NoBundle, NEW x, NEW d, FactIn(d),
         NEW facts, facts = [y \in DOMAIN bundle.facts \cup {x} |-> IF y = x THEN d ELSE bundle.facts[y]],
         Edit([bundle EXCEPT !.facts = facts])
  PROVE  IInv'
<1> DEFINE T == DOMAIN bundle.facts \cup {x}
<1>1. BundleIn(bundle)
  BY DEF IInv
<1>2. facts = [y \in T |-> facts[y]] /\ \A y \in T : FactIn(facts[y])
  BY <1>1 DEF BundleIn
<1> HIDE DEF T
<1>3. BundleIn([bundle EXCEPT !.facts = facts])
  BY <1>1, <1>2, OtherFacts
<1>4. QED BY <1>3, EditKeeps

\* A fact removed, renamed or changed, or written once more.
LEMMA EditFactsKeeps ==
  ASSUME IInv, bundle # NoBundle, EditFacts
  PROVE  IInv'
<1>1. BundleIn(bundle)
  BY DEF IInv
<1> DEFINE F == bundle.facts
           T == DOMAIN F
           Fewer(x) == [y \in T \ {x} |-> F[y]]
           With(x, d) == [F EXCEPT ![x] = d]
           More(n, d) == WithEntry(F, n, d)
<1>2. PICK x \in T :
        \/ Edit([bundle EXCEPT !.facts = Fewer(x)])
        \/ \E f : Edit([bundle EXCEPT !.facts = With(x, [F[x] EXCEPT !.name = f])])
        \/ \E f : Edit([bundle EXCEPT !.facts = With(x, [F[x] EXCEPT !.f = f])])
        \/ \E f : \E n \in {MaxAsserts + 1 + edits} :
              Edit([bundle EXCEPT !.facts = More(n, [F[x] EXCEPT !.f = f])])
  BY DEF EditFacts
<1>3. F = [y \in T |-> F[y]] /\ \A y \in T : FactIn(F[y])
  BY <1>1 DEF BundleIn
<1>4. CASE Edit([bundle EXCEPT !.facts = Fewer(x)])
  <2> DEFINE G == Fewer(x)
  <2>1. G = [y \in T \ {x} |-> G[y]] /\ \A y \in T \ {x} : FactIn(G[y])
    BY <1>3
  <2> HIDE DEF G, F
  <2>2. BundleIn([bundle EXCEPT !.facts = G])
    BY <1>1, <2>1, OtherFacts
  <2>3. QED BY <1>4, <2>2, EditKeeps DEF G
<1>5. ASSUME NEW d, FactIn(d), Edit([bundle EXCEPT !.facts = With(x, d)]) PROVE IInv'
  <2> DEFINE G == With(x, d)
  <2>1. G = [y \in DOMAIN bundle.facts \cup {x} |-> IF y = x THEN d ELSE bundle.facts[y]]
    BY <1>3
  <2> HIDE DEF G
  <2>2. QED BY <1>5, <2>1, OneFactChanged DEF G
<1>6. ASSUME NEW f PROVE FactIn([F[x] EXCEPT !.f = f]) /\ FactIn([F[x] EXCEPT !.name = f])
  <2> DEFINE d == F[x]  e == [d EXCEPT !.f = f]  g == [d EXCEPT !.name = f]
  <2>1. FactIn(d)
    BY <1>3
  <2> HIDE DEF d
  <2>2. e \in [name: {d.name}, f: {f}, derivations: {d.derivations}]
        /\ e.name = d.name /\ e.f = f /\ e.derivations = d.derivations
    BY <2>1 DEF FactIn
  <2>3. g \in [name: {f}, f: {d.f}, derivations: {d.derivations}]
        /\ g.name = f /\ g.f = d.f /\ g.derivations = d.derivations
    BY <2>1 DEF FactIn
  <2> HIDE DEF e, g
  <2>4. FactIn(e) /\ FactIn(g)
    BY <2>1, <2>2, <2>3 DEF FactIn
  <2>5. QED BY <2>4 DEF d, e, g
<1>7. ASSUME NEW n, n = MaxAsserts + 1 + edits, NEW d, FactIn(d), Edit([bundle EXCEPT !.facts = More(n, d)])
      PROVE  IInv'
  <2> DEFINE G == More(n, d)
  <2>1. G = [y \in DOMAIN bundle.facts \cup {n} |-> IF y = n THEN d ELSE bundle.facts[y]]
    BY DEF WithEntry
  <2> HIDE DEF G
  <2>2. QED BY <1>7, <2>1, OneFactChanged DEF G
<1> HIDE DEF With, Fewer, More
<1>8. QED BY <1>2, <1>4, <1>5, <1>6, <1>7

\* A derivation removed, changed or added.
LEMMA EditDerivationsKeeps ==
  ASSUME IInv, bundle # NoBundle, EditDerivations
  PROVE  IInv'
<1>1. BundleIn(bundle)
  BY DEF IInv
<1> DEFINE F == bundle.facts
           On(x, s) == [F EXCEPT ![x] = [F[x] EXCEPT !.derivations = s]]
           Other(e, p) == [e EXCEPT !.premises = p]
<1>0. PICK x \in DOMAIN F : \E k \in DOMAIN F[x].derivations :
        \/ Edit([bundle EXCEPT !.facts = On(x, RemoveAt(F[x].derivations, k))])
        \/ \E p \in Premises :
              \/ Edit([bundle EXCEPT !.facts = On(x, [F[x].derivations EXCEPT ![k] = Other(F[x].derivations[k], p)])])
              \/ Edit([bundle EXCEPT !.facts = On(x, Append(F[x].derivations, Other(F[x].derivations[k], p)))])
  BY DEF EditDerivations
<1>2. PICK k \in DOMAIN F[x].derivations :
        \/ Edit([bundle EXCEPT !.facts = On(x, RemoveAt(F[x].derivations, k))])
        \/ \E p \in Premises :
              \/ Edit([bundle EXCEPT !.facts = On(x, [F[x].derivations EXCEPT ![k] = Other(F[x].derivations[k], p)])])
              \/ Edit([bundle EXCEPT !.facts = On(x, Append(F[x].derivations, Other(F[x].derivations[k], p)))])
  BY <1>0
<1> DEFINE d == F[x]  s == d.derivations
<1>3. F = [y \in DOMAIN F |-> F[y]] /\ FactIn(d)
  BY <1>1 DEF BundleIn
<1>4. PICK S : s \in Seq(S) /\ \A e \in S : DerivationIn(e)
  BY <1>3 DEF FactIn
<1>5. ASSUME NEW t, NEW U, t \in Seq(U), \A e \in U : DerivationIn(e), Edit([bundle EXCEPT !.facts = On(x, t)])
      PROVE  IInv'
  <2> DEFINE e == [d EXCEPT !.derivations = t]  G == On(x, t)
  <2>1. FactIn(e)
    <3> HIDE DEF d
    <3>1. e \in [name: {d.name}, f: {d.f}, derivations: {t}] /\ e.name = d.name /\ e.f = d.f /\ e.derivations = t
      BY <1>3 DEF FactIn
    <3> HIDE DEF e
    <3>2. QED BY <1>5, <3>1 DEF FactIn
  <2>2. G = [y \in DOMAIN bundle.facts \cup {x} |-> IF y = x THEN e ELSE bundle.facts[y]]
    BY <1>3
  <2>3. Edit([bundle EXCEPT !.facts = G])
    BY <1>5
  <2> HIDE DEF e, G, F
  <2>4. QED BY <2>1, <2>2, <2>3, OneFactChanged
<1>6. k \in 1..Len(s) /\ Len(s) \in Nat /\ s[k] \in S
  BY <1>4, ElementOfSeq, LenProperties
<1>7. ASSUME NEW p \in Premises PROVE DerivationIn(Other(s[k], p))
  <2> DEFINE e == s[k]  g == Other(e, p)
  <2>1. DerivationIn(e) /\ p \in Seq(Formulas)
    BY <1>4, <1>6, CutsAssumption
  <2> HIDE DEF e, s
  <2>2. g \in [premises: Seq(Formulas), cert: {e.cert}] /\ g.cert = e.cert
    BY <2>1 DEF DerivationIn
  <2> HIDE DEF g
  <2>3. DerivationIn(g)
    BY <2>2 DEF DerivationIn
  <2>4. QED BY <2>3 DEF g, e
<1> HIDE DEF s, On, Other
<1>8. CASE Edit([bundle EXCEPT !.facts = On(x, RemoveAt(s, k))])
  <2>1. RemoveAt(s, k) \in Seq(S)
    BY <1>4, <1>6, RemoveAtSeq
  <2>2. QED BY <1>4, <1>5, <1>8, <2>1
<1>9. ASSUME NEW p \in Premises,
             \/ Edit([bundle EXCEPT !.facts = On(x, [s EXCEPT ![k] = Other(s[k], p)])])
             \/ Edit([bundle EXCEPT !.facts = On(x, Append(s, Other(s[k], p)))])
      PROVE  IInv'
  <2> DEFINE g == Other(s[k], p)  U == S \cup {g}
  <2>1. DerivationIn(g)
    BY <1>7
  <2> HIDE DEF g
  <2>2. s \in Seq(U) /\ g \in U /\ \A e \in U : DerivationIn(e)
    BY <1>4, <2>1
  <2> HIDE DEF U
  <2>3. [s EXCEPT ![k] = g] \in Seq(U)
    BY <1>6, <2>2, ExceptSeq
  <2>4. Append(s, g) \in Seq(U)
    BY <2>2, AppendProperties
  <2>5. QED BY <1>5, <1>9, <2>2, <2>3, <2>4 DEF g
<1>10. QED BY <1>2, <1>8, <1>9 DEF s

\* The certificate edited.
LEMMA EditCertificateKeeps ==
  ASSUME IInv, bundle # NoBundle, EditCertificate
  PROVE  IInv'
<1>1. PICK c : Edit([bundle EXCEPT !.cert = c])
  BY DEF EditCertificate
<1>2. BundleIn([bundle EXCEPT !.cert = c])
  BY OtherCertificate DEF IInv
<1>3. QED BY <1>1, <1>2, EditKeeps

\* A stutter changes nothing.
LEMMA StutterKeeps ==
  ASSUME IInv, UNCHANGED vars
  PROVE  IInv'
BY DEF IInv, EngineInv, vars

\* Every step keeps the invariant.
LEMMA NextIInv == IInv /\ [Next]_vars => IInv'
<1> SUFFICES ASSUME IInv, [Next]_vars PROVE IInv'
  OBVIOUS
<1>1. CASE \E f \in Cuts : AssertCut(f)
  BY <1>1, AssertCutKeeps
<1>2. CASE \E f \in Facts : UseFact(f)
  BY <1>2, UseFactKeeps
<1>3. CASE \E f \in Facts, p \in Premises : Derive(f, p)
  BY <1>3, DeriveKeeps
<1>4. CASE Search
  BY <1>4, SearchKeeps
<1>5. CASE IntervalPath
  BY <1>5, IntervalPathKeeps
<1>6. CASE bundle # NoBundle /\ EditFormula
  BY <1>6, EditFormulaKeeps
<1>7. CASE bundle # NoBundle /\ EditLink
  BY <1>7, EditLinkKeeps
<1>8. CASE bundle # NoBundle /\ EditAsserts
  BY <1>8, EditAssertsKeeps
<1>9. CASE bundle # NoBundle /\ EditFacts
  BY <1>9, EditFactsKeeps
<1>10. CASE bundle # NoBundle /\ EditCertificate
  BY <1>10, EditCertificateKeeps
<1>11. CASE bundle # NoBundle /\ EditName
  BY <1>11, EditNameKeeps
<1>12. CASE bundle # NoBundle /\ EditDerivations
  BY <1>12, EditDerivationsKeeps
<1>13. CASE UNCHANGED vars
  BY <1>13, StutterKeeps
<1>14. QED BY <1>1, <1>2, <1>3, <1>4, <1>5, <1>6, <1>7, <1>8, <1>9, <1>10, <1>11, <1>12, <1>13 DEF Next

\* The engine and the bundle are always of this make.
LEMMA SpecIInv == Spec => []IInv
BY InitIInv, NextIInv, PTL DEF Spec

\* AcceptedIsRefuted for all formulas, points and certificates: a bundle that replays states
\* a contradiction, as the engine wrote it or edited ("the entire meaning of PROVEN DISJOINT").
THEOREM BundlesRefute == Spec => []AcceptedIsRefuted
<1>1. IInv => AcceptedIsRefuted
  BY AcceptedBundle DEF IInv, AcceptedIsRefuted
<1>2. QED BY <1>1, SpecIInv, PTL

\* AcceptedIsDerived: what a bundle states as a derived fact, by its name or by the fact it
\* names, is in it once, with its own formula, on at least one derivation, and the premises
\* of each contradict each other (chain_is_complete, DerivedFact::replay).
THEOREM BundlesDerive == Spec => []AcceptedIsDerived
<1>1. IInv => AcceptedIsDerived
  BY AcceptedBundle DEF IInv, AcceptedIsDerived
<1>2. QED BY <1>1, SpecIInv, PTL
=============================================================================
