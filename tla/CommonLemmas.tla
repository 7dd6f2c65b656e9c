---------------------------- MODULE CommonLemmas ----------------------------
(* What several proofs need of numbers, finite sets and sequences. *)
EXTENDS Sequences, SequenceTheorems, FiniteSetTheorems, FunctionTheorems, WellFoundedInduction, TLAPS

-----------------------------------------------------------------------------
(* Sets of naturals. *)

\* Every non-empty set of naturals has a least element.
LEMMA LeastNatural ==
  ASSUME NEW T, T \subseteq Nat, T # {}
  PROVE  \E x \in T : \A y \in T : x <= y
<1> DEFINE R == OpToRel(<, Nat)
<1>1. IsWellFoundedOn(R, Nat)
  BY NatLessThanWellFounded
<1>2. R = {ss \in Nat \X Nat : ss[1] < ss[2]}
  BY DEF OpToRel
<1> HIDE DEF R
<1>3. \E x \in T : \A y \in T : ~ (<<y, x>> \in R)
  BY <1>1, WFMin, Zenon
<1>4. \A x, y \in Nat : <<y, x>> \notin R => x <= y
  BY <1>2, SMT
<1>5. QED
  BY <1>3, <1>4, Zenon

\* One that is bounded has a greatest.
LEMMA GreatestNatural ==
  ASSUME NEW T, T \subseteq Nat, T # {}, NEW n \in Nat, \A x \in T : x <= n
  PROVE  \E x \in T : \A y \in T : y <= x
<1> DEFINE D == {n - x : x \in T}
<1>1. D \subseteq Nat /\ D # {}
  <2>1. \A x \in T : n - x \in Nat
    OBVIOUS
  <2>2. QED  BY <2>1
<1>2. PICK d \in D : \A y \in D : d <= y
  BY <1>1, LeastNatural
<1>3. PICK x \in T : d = n - x
  OBVIOUS
<1>4. \A y \in T : n - x <= n - y
  BY <1>2, <1>3
<1>5. QED  BY <1>4

\* The rank of an element of a set is the number of elements below it: the
\* ranks below a are those of a elements.
LEMMA RankCount ==
  ASSUME NEW S, IsFiniteSet(S), S \subseteq Nat, NEW a \in Nat, a <= Cardinality(S)
  PROVE  Cardinality({i \in S : Cardinality({j \in S : j < i}) < a}) = a
<1> DEFINE n == Cardinality(S)
           Below(i) == {j \in S : j < i}
           rank == [i \in S |-> Cardinality(Below(i))]
           R == 0..n - 1
           First == {i \in S : rank[i] < a}
<1>1. n \in Nat
  BY FS_CardinalityType
<1>2. \A i : IsFiniteSet(Below(i)) /\ Cardinality(Below(i)) \in Nat
  BY FS_Subset, FS_CardinalityType
<1>3. \A i \in S : rank[i] \in Nat /\ rank[i] < n
  <2> SUFFICES ASSUME NEW i \in S PROVE Cardinality(Below(i)) < n
    BY <1>2
  <2>1. Below(i) \subseteq S /\ Below(i) # S
    BY i \notin Below(i)
  <2>2. Cardinality(Below(i)) \in Nat
    BY <1>2
  <2> HIDE DEF Below
  <2>3. QED  BY <1>1, <2>1, <2>2, FS_Subset
<1>4. \A i, k \in S : i < k => rank[i] < rank[k]
  <2> HIDE DEF rank
  <2> SUFFICES ASSUME NEW i \in S, NEW k \in S, i < k
               PROVE  rank[i] < rank[k]
    OBVIOUS
  <2>0. i \in Nat /\ k \in Nat /\ \A j \in S : j \in Nat
    OBVIOUS
  <2>a. \A j \in S : j < i => j < k
    BY <2>0
  <2>1. Below(i) \subseteq Below(k) /\ i \in Below(k) /\ i \notin Below(i)
    <3>1. Below(i) \subseteq Below(k)
      BY <2>a
    <3>2. i \in Below(k)
      OBVIOUS
    <3>3. i \notin Below(i)
      BY <2>0
    <3>4. QED  BY <3>1, <3>2, <3>3
  <2>2. IsFiniteSet(Below(k)) /\ Cardinality(Below(k)) \in Nat /\ Cardinality(Below(i)) \in Nat
    BY <1>2
  <2>3. rank[i] = Cardinality(Below(i)) /\ rank[k] = Cardinality(Below(k))
    BY DEF rank
  <2> HIDE DEF Below
  <2>4. Below(i) # Below(k)
    BY <2>1
  <2>5. QED  BY <2>1, <2>2, <2>3, <2>4, FS_Subset
<1>5. rank \in [S -> R]
  BY <1>1, <1>3
<1>6. \A i, k \in S : rank[i] = rank[k] => i = k
  BY <1>3, <1>4
<1> HIDE DEF rank
<1>7. IsFiniteSet(R) /\ Cardinality(R) = n
  <2>1. 0 \in Int /\ n - 1 \in Int /\ (0 > n - 1 => n = 0)
    BY <1>1
  <2>2. QED  BY <1>1, <2>1, FS_Interval
<1>8. rank \in Surjection(S, R)
  <2>1. rank \in Injection(S, R)
    BY <1>5, <1>6, Fun_IsInj
  <2>2. QED  BY <1>7, <2>1, FS_Injection
<1>9. \A r \in R : \E i \in S : rank[i] = r
  <2> HIDE DEF R
  <2>1. QED  BY <1>8, Fun_SurjectionProperties
<1> DEFINE low == [i \in First |-> rank[i]]
<1>10. low \in [First -> 0..a - 1]
  <2>1. \A i \in First : rank[i] \in 0..a - 1
    BY <1>3
  <2>2. QED  BY <2>1
<1>11. \A i, k \in First : low[i] = low[k] => i = k
  BY <1>6
<1>12. \A r \in 0..a - 1 : \E i \in First : low[i] = r
  <2> SUFFICES ASSUME NEW r \in 0..a - 1 PROVE \E i \in First : low[i] = r
    OBVIOUS
  <2>1. r \in R /\ r < a
    BY <1>1
  <2>2. PICK i \in S : rank[i] = r
    BY <1>9, <2>1
  <2>3. QED  BY <2>1, <2>2
<1>13. ExistsBijection(First, 0..a - 1)
  <2> HIDE DEF low, First
  <2>1. low \in Bijection(First, 0..a - 1)
    BY <1>10, <1>11, <1>12, Fun_IsBij
  <2>2. QED  BY <2>1, Fun_ExistsBij
<1>14. IsFiniteSet(First)
  BY FS_Subset
<1>15. IsFiniteSet(0..a - 1) /\ Cardinality(0..a - 1) = a
  <2>1. 0 \in Int /\ a - 1 \in Int /\ (0 > a - 1 => a = 0)
    OBVIOUS
  <2>2. QED  BY <2>1, FS_Interval
<1>16. Cardinality(0..a - 1) = Cardinality(First)
  <2> HIDE DEF First
  <2>1. QED  BY <1>13, <1>14, FS_Bijection
<1>17. First = {i \in S : Cardinality({j \in S : j < i}) < a}
  BY DEF rank
<1>18. QED
  BY <1>15, <1>16, <1>17

\* A one-to-one image of a finite set has its size.
LEMMA ImageSize ==
  ASSUME NEW S, IsFiniteSet(S), NEW f, \A x, y \in S : f[x] = f[y] => x = y
  PROVE  Cardinality({f[x] : x \in S}) = Cardinality(S)
<1> DEFINE T == {f[x] : x \in S}
           g == [x \in S |-> f[x]]
<1>1. g \in Bijection(S, T)
  <2>1. g \in [S -> T] /\ (\A x, y \in S : g[x] = g[y] => x = y) /\ \A t \in T : \E x \in S : g[x] = t
    OBVIOUS
  <2> HIDE DEF g, T
  <2>2. QED  BY <2>1, Fun_IsBij
<1>2. QED
  BY <1>1, Fun_ExistsBij, FS_Bijection

\* The quotient of a number by c.
LEMMA QuotientIs ==
  ASSUME NEW n \in Nat, NEW k \in Nat, NEW c \in Nat \ {0}
  PROVE  n \div c = k <=> k * c <= n /\ n < k * c + c
<1> DEFINE q == n \div c
<1>1. q \in Nat /\ q * c <= n /\ n < q * c + c
  OBVIOUS
<1> HIDE DEF q
<1>2. k < q => k * c + c <= q * c
  BY <1>1
<1>3. q < k => q * c + c <= k * c
  BY <1>1
<1>4. k * c \in Nat /\ q * c \in Nat
  BY <1>1
<1>5. QED
  BY <1>1, <1>2, <1>3, <1>4 DEF q

-----------------------------------------------------------------------------
(* A stack of one frame, under a push and a pop. *)

\* A frame pushed on one frame makes two.
LEMMA AppendOne ==
  ASSUME NEW B, NEW F
  PROVE  Append(<<B>>, F) = <<B, F>>
<1> DEFINE long == Append(<<B>>, F)
           two == <<B, F>>
<1>1. <<B>> \in Seq({B, F}) /\ F \in {B, F}
  OBVIOUS
<1>2. long \in Seq({B, F})
  BY <1>1, AppendProperties
<1>3. Len(long) = 2
  BY <1>1, AppendProperties
<1>4. long[1] = B /\ long[2] = F
  BY <1>1, AppendProperties
<1>5. two \in Seq({B, F}) /\ Len(two) = 2 /\ two[1] = B /\ two[2] = F
  OBVIOUS
<1> HIDE DEF long, two
<1>6. \A i \in 1..Len(long) : long[i] = two[i]
  BY <1>3, <1>4, <1>5
<1>7. long = two
  BY <1>2, <1>3, <1>5, <1>6, SeqEqual
<1>8. QED BY <1>7 DEF long, two

\* A frame popped off two leaves the first.
LEMMA FirstOfTwo ==
  ASSUME NEW B, NEW F
  PROVE  SubSeq(<<B, F>>, 1, Len(<<B, F>>) - 1) = <<B>>
<1> DEFINE two == <<B, F>>
           one == <<B>>
           short == SubSeq(two, 1, 1)
<1>1. Len(two) = 2 /\ two[1] = B
  OBVIOUS
<1>2. one \in Seq({B}) /\ Len(one) = 1 /\ one[1] = B
  OBVIOUS
<1> HIDE DEF two, one
<1>3. \A i \in 1..1 : two[i] \in {B}
  BY <1>1
<1>4. short \in Seq({B}) /\ Len(short) = 1 /\ short[1] = two[1]
  BY <1>3, SubSeqProperties
<1> HIDE DEF short
<1>5. \A i \in 1..Len(short) : short[i] = one[i]
  BY <1>1, <1>2, <1>4
<1>6. short = one
  BY <1>2, <1>4, <1>5, SeqEqual
<1>7. Len(two) - 1 = 1
  BY <1>1
<1>8. QED BY <1>6, <1>7 DEF short, one, two
=============================================================================
