--------------------------- MODULE Capture_proofs ---------------------------
(***************************************************************************)
(* Lemmas about the operators of Mir and Capture, for every set of integer *)
(* types: two's complement at every width, and the walk that captures the  *)
(* value of a local.                                                       *)
(***************************************************************************)
EXTENDS Capture, TLAPS, WellFoundedInduction, FiniteSetTheorems

(***************************************************************************)
(* Induction over the natural numbers, with a set in place of a predicate. *)
(***************************************************************************)
LEMMA SetInduction ==
  ASSUME NEW S, 0 \in S, \A n \in Nat : n \in S => n + 1 \in S
  PROVE  Nat \subseteq S
<1> DEFINE T == Nat \ S
           R == OpToRel(<, Nat)
<1> SUFFICES ASSUME T # {} PROVE FALSE
  OBVIOUS
<1>1. IsWellFoundedOn(R, Nat)
  BY NatLessThanWellFounded
<1>2. T \subseteq Nat
  OBVIOUS
<1> HIDE DEF R
<1>3. PICK x \in T : \A y \in T : ~ (<<y, x>> \in R)
  BY <1>1, <1>2, WFMin
<1> USE DEF R
<1>4. x # 0 /\ x \in Nat
  OBVIOUS
<1>5. x - 1 \in Nat /\ x - 1 < x /\ (x - 1) + 1 = x
  BY <1>4
<1>6. <<x - 1, x>> \in R
  BY <1>4, <1>5 DEF OpToRel
<1>7. x - 1 \in S
  BY <1>3, <1>5, <1>6
<1> QED
  BY <1>4, <1>5, <1>7

(* The same for a statement about the numbers up to a bound. *)
LEMMA BoundedInduction ==
  ASSUME NEW m \in Nat, NEW S, 0 \in S, \A n \in 0..m : n \in S /\ n + 1 <= m => n + 1 \in S
  PROVE  0..m \subseteq S
<1> DEFINE T == {n \in Nat : n <= m => n \in S}
<1>1. 0 \in T
  OBVIOUS
<1>2. ASSUME NEW n \in Nat, n \in T PROVE n + 1 \in T
  BY <1>2
<1> HIDE DEF T
<1>3. Nat \subseteq T
  BY <1>1, <1>2, SetInduction
<1> QED
  BY <1>3 DEF T

LEMMA TupleFacts ==
  ASSUME NEW s, IsTuple(s)
  PROVE  Len(s) \in Nat /\ DOMAIN s = 1..Len(s)
BY DEF IsTuple
-----------------------------------------------------------------------------
(***************************************************************************)
(* Powers of two: one more bit doubles the number of patterns.             *)
(***************************************************************************)
Patterns(n) == SUBSET (1..n)

LEMMA OneMoreBit ==
  ASSUME NEW n \in Nat, IsFiniteSet(Patterns(n))
  PROVE  IsFiniteSet(Patterns(n + 1)) /\ Cardinality(Patterns(n + 1)) = 2 * Cardinality(Patterns(n))
<1> DEFINE Lower == Patterns(n)
           Upper == {A \cup {n + 1} : A \in Lower}
           F == [A \in Lower |-> A \cup {n + 1}]
<1>1. n + 1 \notin 1..n /\ 1..(n + 1) = (1..n) \cup {n + 1}
  OBVIOUS
<1>2. \A A, B \in Lower : A \cup {n + 1} = B \cup {n + 1} => A = B
  <2> SUFFICES ASSUME NEW A \in Lower, NEW B \in Lower, A \cup {n + 1} = B \cup {n + 1}
               PROVE  A = B
    OBVIOUS
  <2>1. A = (A \cup {n + 1}) \ {n + 1} /\ B = (B \cup {n + 1}) \ {n + 1}
    BY <1>1 DEF Patterns
  <2> QED
    BY <2>1
<1>3. ExistsBijection(Lower, Upper)
  <2>1. F \in [Lower -> Upper]
    OBVIOUS
  <2>2. \A A, B \in Lower : F[A] = F[B] => A = B
    BY <1>2
  <2>3. \A U \in Upper : \E A \in Lower : F[A] = U
    OBVIOUS
  <2> HIDE DEF F, Lower, Upper
  <2>4. F \in Bijection(Lower, Upper)
    BY <2>1, <2>2, <2>3 DEF Bijection, Injection, Surjection, IsInjective
  <2> QED
    BY <2>4 DEF ExistsBijection
<1>4. IsFiniteSet(Upper) /\ Cardinality(Upper) = Cardinality(Lower)
  <2> HIDE DEF Upper, Lower
  <2>1. IsFiniteSet(Lower)
    BY DEF Lower
  <2> QED
    BY <2>1, <1>3, FS_Bijection
<1>5. Patterns(n + 1) = Lower \cup Upper
  <2>1. ASSUME NEW A \in Patterns(n + 1) PROVE A \in Lower \cup Upper
    <3>1. CASE n + 1 \in A
      <4>1. A \ {n + 1} \in Lower /\ A = (A \ {n + 1}) \cup {n + 1}
        BY <3>1, <2>1, <1>1 DEF Patterns
      <4> QED
        BY <4>1
    <3>2. CASE n + 1 \notin A
      BY <3>2, <2>1, <1>1 DEF Patterns
    <3> QED
      BY <3>1, <3>2
  <2>2. ASSUME NEW A \in Lower PROVE A \in Patterns(n + 1) /\ A \cup {n + 1} \in Patterns(n + 1)
    BY <2>2, <1>1 DEF Patterns
  <2> QED
    BY <2>1, <2>2
<1>6. Lower \cap Upper = {}
  BY <1>1 DEF Patterns
<1> HIDE DEF Lower, Upper
<1>7. IsFiniteSet(Lower) /\ Cardinality(Lower) \in Nat
  BY FS_CardinalityType DEF Lower
<1>8. IsFiniteSet(Lower \cup Upper)
      /\ Cardinality(Lower \cup Upper)
           = Cardinality(Lower) + Cardinality(Upper) - Cardinality(Lower \cap Upper)
  BY <1>4, <1>7, FS_Union
<1>9. Cardinality(Lower \cap Upper) = 0
  BY <1>6, FS_EmptySet
<1>10. IsFiniteSet(Lower \cup Upper) /\ Cardinality(Lower \cup Upper) = 2 * Cardinality(Lower)
  BY <1>4, <1>7, <1>8, <1>9
<1> QED
  BY <1>5, <1>10 DEF Lower

LEMMA NoBits == IsFiniteSet(Patterns(0)) /\ Cardinality(Patterns(0)) = 1
<1> DEFINE E == {}
           One == E \cup {E}
<1>1. Patterns(0) = One
  BY DEF Patterns
<1>2. IsFiniteSet(E) /\ Cardinality(E) = 0
  BY FS_EmptySet
<1>3. E \notin E
  OBVIOUS
<1> HIDE DEF E
<1>4. IsFiniteSet(One) /\ Cardinality(One) = 0 + 1
  BY <1>2, <1>3, FS_AddElement
<1> QED
  BY <1>1, <1>4

LEMMA FinitePatterns == \A n \in Nat : IsFiniteSet(Patterns(n))
<1> DEFINE S == {n \in Nat : IsFiniteSet(Patterns(n))}
<1>1. 0 \in S
  BY NoBits
<1>2. ASSUME NEW n \in Nat, n \in S PROVE n + 1 \in S
  BY <1>2, OneMoreBit
<1> HIDE DEF S
<1>3. Nat \subseteq S
  BY <1>1, <1>2, SetInduction
<1> QED
  BY <1>3 DEF S

LEMMA Pow2Step ==
  /\ pow2(0) = 1
  /\ \A n \in Nat : pow2(n + 1) = 2 * pow2(n)
<1>1. pow2(0) = 1
  BY NoBits DEF pow2, Patterns
<1>2. ASSUME NEW n \in Nat PROVE pow2(n + 1) = 2 * pow2(n)
  <2>1. Cardinality(Patterns(n + 1)) = 2 * Cardinality(Patterns(n))
    BY FinitePatterns, OneMoreBit
  <2> QED
    BY <2>1 DEF pow2, Patterns
<1> QED
  BY <1>1, <1>2

LEMMA Pow2Type == \A n \in Nat : pow2(n) \in Nat /\ pow2(n) > 0
<1> DEFINE S == {n \in Nat : pow2(n) \in Nat /\ pow2(n) > 0}
<1>1. 0 \in S
  BY Pow2Step
<1>2. ASSUME NEW n \in Nat, n \in S PROVE n + 1 \in S
  BY <1>2, Pow2Step
<1> HIDE DEF S
<1>3. Nat \subseteq S
  BY <1>1, <1>2, SetInduction
<1> QED
  BY <1>3 DEF S

LEMMA Pow2Grows == \A n \in Nat : \A m \in 0..n : pow2(m) <= pow2(n)
<1> DEFINE S == {n \in Nat : \A m \in 0..n : pow2(m) <= pow2(n)}
<1>1. 0 \in S
  BY Pow2Type
<1>2. ASSUME NEW n \in Nat, n \in S PROVE n + 1 \in S
  <2>1. pow2(n + 1) \in Nat /\ pow2(n) \in Nat /\ pow2(n) <= pow2(n + 1)
    BY Pow2Step, Pow2Type
  <2>2. ASSUME NEW m \in 0..(n + 1) PROVE pow2(m) <= pow2(n + 1)
    <3>1. pow2(m) \in Nat
      BY Pow2Type
    <3>2. CASE m = n + 1
      BY <3>2, <2>1
    <3>3. CASE m # n + 1
      <4>1. m \in 0..n
        BY <3>3
      <4>2. pow2(m) <= pow2(n)
        BY <4>1, <1>2
      <4> QED
        BY <4>2, <3>1, <2>1
    <3> QED
      BY <3>2, <3>3
  <2> QED
    BY <2>2
<1> HIDE DEF S
<1>3. Nat \subseteq S
  BY <1>1, <1>2, SetInduction
<1> QED
  BY <1>3 DEF S

LEMMA Pow2Large == \A n \in Nat : n >= 2 => pow2(n) >= n + 2
<1> DEFINE S == {n \in Nat : n >= 2 => pow2(n) >= n + 2}
<1>0. pow2(0) = 1 /\ pow2(0 + 1) = 2 * pow2(0) /\ pow2(1 + 1) = 2 * pow2(1)
  BY Pow2Step
<1>1. 0 \in S
  OBVIOUS
<1>2. ASSUME NEW n \in Nat, n \in S PROVE n + 1 \in S
  <2>1. CASE n = 0
    BY <2>1
  <2>2. CASE n = 1
    BY <2>2, <1>0
  <2>3. CASE n >= 2
    <3>1. pow2(n + 1) = 2 * pow2(n) /\ pow2(n) \in Nat /\ pow2(n) >= n + 2
      BY <1>2, <2>3, Pow2Step, Pow2Type
    <3> QED
      BY <3>1
  <2> QED
    BY <2>1, <2>2, <2>3
<1> HIDE DEF S
<1>3. Nat \subseteq S
  BY <1>1, <1>2, SetInduction
<1> QED
  BY <1>3 DEF S
-----------------------------------------------------------------------------
(***************************************************************************)
(* Integer types.                                                          *)
(***************************************************************************)
LEMMA Division ==
  ASSUME NEW a \in Int, NEW b \in Nat, b > 0
  PROVE  /\ a \div b \in Int /\ a % b \in 0..(b - 1)
         /\ a = b * (a \div b) + (a % b)
OBVIOUS

LEMMA RemainderIsUnique ==
  ASSUME NEW b \in Nat, b > 0, NEW q \in Int, NEW r \in 0..(b - 1)
  PROVE  (b * q + r) % b = r
<1> DEFINE a == b * q + r
           d == a \div b
           m == a % b
<1>1. a \in Int
  OBVIOUS
<1> HIDE DEF a
<1>2. d \in Int /\ m \in 0..(b - 1) /\ a = b * d + m
  BY <1>1, Division
<1> HIDE DEF d, m
<1>3. b * d + m = b * q + r
  BY <1>2 DEF a
<1>4. d = q
  <2>1. b * (d - q) = r - m
    BY <1>2, <1>3
  <2>2. r - m < b /\ r - m > -b
    BY <1>2
  <2>3. CASE d - q >= 1
    <3>1. b * (d - q) >= b
      BY <1>2, <2>3
    <3> QED
      BY <3>1, <2>1, <2>2, <1>2
  <2>4. CASE d - q <= -1
    <3>1. b * (d - q) <= -b
      BY <1>2, <2>4
    <3> QED
      BY <3>1, <2>1, <2>2, <1>2
  <2> QED
    BY <2>3, <2>4, <1>2
<1>5. m = r
  BY <1>2, <1>3, <1>4
<1> QED
  BY <1>5 DEF a, m

(* The range of an integer type, and that its width is one of its values. *)
LEMMA IntegerTypes ==
  ASSUME NEW ty \in IntTy
  PROVE  /\ Signed(ty) \in BOOLEAN /\ Bits(ty) \in Nat /\ Bits(ty) >= 3
         /\ Size(ty) = 2 * pow2(Bits(ty) - 1)
         /\ pow2(Bits(ty) - 1) \in Nat /\ pow2(Bits(ty) - 1) > Bits(ty)
         /\ Lowest(ty) = (IF Signed(ty) THEN -pow2(Bits(ty) - 1) ELSE 0)
         /\ Highest(ty) = (IF Signed(ty) THEN pow2(Bits(ty) - 1) - 1 ELSE Size(ty) - 1)
<1> DEFINE n == Bits(ty) - 1
           half == pow2(n)
<1>1. Signed(ty) \in BOOLEAN /\ Bits(ty) \in Nat /\ Bits(ty) >= 3
  BY IntTypesAssumption
<1>2. n \in Nat /\ n >= 2 /\ Bits(ty) = n + 1
  BY <1>1
<1>3. pow2(n + 1) = 2 * pow2(n) /\ half \in Nat /\ half >= n + 2
  BY <1>2, Pow2Step, Pow2Type, Pow2Large
<1>4. Size(ty) = 2 * half
  BY <1>2, <1>3 DEF Size
<1> HIDE DEF half
<1>5. (2 * half) \div 2 = half
  BY <1>3
<1>6. Lowest(ty) = IF Signed(ty) THEN -half ELSE 0
  BY <1>4, <1>5 DEF Lowest
<1>7. Highest(ty) = IF Signed(ty) THEN half - 1 ELSE Size(ty) - 1
  BY <1>3, <1>4, <1>6 DEF Highest
<1>8. half > Bits(ty)
  BY <1>2, <1>3
<1> QED
  BY <1>1, <1>3, <1>4, <1>6, <1>7, <1>8 DEF half

LEMMA Ranges ==
  ASSUME NEW ty \in IntTy
  PROVE  /\ Lowest(ty) \in Int /\ Highest(ty) \in Int /\ Size(ty) \in Nat /\ Size(ty) > 0
         /\ Highest(ty) = Lowest(ty) + Size(ty) - 1
         /\ Lowest(ty) <= 0 /\ Bits(ty) < Highest(ty) + 1 /\ Bits(ty) >= 3 /\ Bits(ty) \in Nat
         /\ ~Signed(ty) => Lowest(ty) = 0
BY IntegerTypes DEF Highest

LEMMA ValuesFacts ==
  ASSUME NEW ty \in IntTy
  PROVE  /\ Values(ty) \subseteq Int
         /\ Bits(ty) \in Values(ty) /\ Highest(ty) \in Values(ty) /\ Lowest(ty) \in Values(ty)
         /\ 0 \in Values(ty) /\ 1 \in Values(ty)
BY Ranges DEF Values

LEMMA WrapInRange ==
  ASSUME NEW ty \in IntTy, NEW v \in Int
  PROVE  Wrap(v, ty) \in Values(ty)
<1> DEFINE r == (v - Lowest(ty)) % Size(ty)
<1>1. r \in 0..(Size(ty) - 1)
  BY Ranges, Division
<1> HIDE DEF r
<1>2. Lowest(ty) + r \in Lowest(ty)..Highest(ty)
  BY <1>1, Ranges
<1> QED
  BY <1>2 DEF Wrap, Values, r

(* Wrapping keeps the bits. *)
LEMMA WrapKeepsPattern ==
  ASSUME NEW ty \in IntTy, NEW v \in Int
  PROVE  Pattern(Wrap(v, ty), ty) = Pattern(v, ty)
<1> DEFINE low == Lowest(ty)
           n == Size(ty)
           q == (v - low) \div n
           r == (v - low) % n
           d == v \div n
           m == v % n
<1>1. low \in Int /\ n \in Nat /\ n > 0
  BY Ranges
<1>2. q \in Int /\ r \in Int /\ v - low = n * q + r
  <2> HIDE DEF low, n
  <2>1. v - low \in Int
    BY <1>1
  <2> HIDE DEF q, r
  <2>2. q \in Int /\ r \in 0..(n - 1) /\ v - low = n * q + r
    BY <2>1, <1>1, Division DEF q, r
  <2> QED
    BY <2>2, <1>1
<1>3. d \in Int /\ m \in 0..(n - 1) /\ v = n * d + m
  BY <1>1, Division
<1> HIDE DEF low, n, q, r, d, m
<1>4. low + r = v - n * q
  BY <1>1, <1>2
<1>5. n * q \in Int /\ n * d \in Int /\ d - q \in Int
  BY <1>1, <1>2, <1>3
<1>a. n * (d - q) = n * d - n * q
  BY <1>1, <1>2, <1>3
<1>6. low + r = n * (d - q) + m
  BY <1>1, <1>3, <1>4, <1>5, <1>a
<1>7. (low + r) % n = m
  BY <1>1, <1>3, <1>5, <1>6, RemainderIsUnique
<1> QED
  BY <1>7 DEF Pattern, Wrap, low, n, r, m

LEMMA PatternType ==
  ASSUME NEW ty \in IntTy, NEW v \in Int
  PROVE  Pattern(v, ty) \in Nat
<1>1. v % Size(ty) \in 0..(Size(ty) - 1)
  BY Ranges, Division
<1> QED
  BY <1>1, Ranges DEF Pattern
-----------------------------------------------------------------------------
LEMMA QuotientFacts ==
  ASSUME NEW a \in Int, NEW b \in Int, b # 0
  PROVE  /\ Quotient(a, b) \in Int
         /\ a - b * Quotient(a, b) \in Int
         /\ a >= 0 => a - b * Quotient(a, b) \in 0..a
         /\ a < 0 => a - b * Quotient(a, b) \in a..0
<1> DEFINE x == Magnitude(a)
           y == Magnitude(b)
           q == x \div y
           r == x % y
           p == y * q
<1>1. x \in Nat /\ y \in Nat /\ y > 0
  BY DEF Magnitude
<1> HIDE DEF x, y, q, r
<1>2. q \in Int /\ r \in 0..(y - 1) /\ x = y * q + r
  BY <1>1, Division DEF q, r
<1>3. r <= x
  BY <1>1 DEF r
<1>4. p \in 0..x
  BY <1>1, <1>2, <1>3
<1> USE DEF x, y
<1>5. Quotient(a, b) = IF (a < 0) = (b < 0) THEN q ELSE -q
  BY DEF Quotient, q
<1>6. b * Quotient(a, b) = IF a < 0 THEN -p ELSE p
  <2>1. CASE a < 0 /\ b < 0
    <3>1. y = -b /\ Quotient(a, b) = q
      BY <2>1, <1>5 DEF Magnitude
    <3>2. b * q = -((-b) * q)
      BY <1>2
    <3> QED
      BY <3>1, <3>2, <2>1
  <2>2. CASE a < 0 /\ ~(b < 0)
    <3>1. y = b /\ Quotient(a, b) = -q
      BY <2>2, <1>5 DEF Magnitude
    <3>2. b * (-q) = -(b * q)
      BY <1>2
    <3> QED
      BY <3>1, <3>2, <2>2
  <2>3. CASE ~(a < 0) /\ b < 0
    <3>1. y = -b /\ Quotient(a, b) = -q
      BY <2>3, <1>5 DEF Magnitude
    <3>2. b * (-q) = (-b) * q
      BY <1>2
    <3> QED
      BY <3>1, <3>2, <2>3
  <2>4. CASE ~(a < 0) /\ ~(b < 0)
    <3>1. y = b /\ Quotient(a, b) = q
      BY <2>4, <1>5 DEF Magnitude
    <3> QED
      BY <3>1, <2>4
  <2> QED
    BY <2>1, <2>2, <2>3, <2>4
<1>7. Quotient(a, b) \in Int
  BY <1>2, <1>5
<1> HIDE DEF p, x
<1>8. x = IF a < 0 THEN -a ELSE a
  BY DEF x, Magnitude
<1> QED
  BY <1>4, <1>6, <1>7, <1>8

(* What an operation computes is a value of the type it works at. *)
LEMMA ComputedInRange ==
  ASSUME NEW ty \in IntTy, NEW op \in ArithOp, NEW a \in Values(ty), NEW b \in Int
  PROVE  Computed(op, a, b, ty) \in Values(ty)
<1>0. a \in Int /\ Lowest(ty) \in Int /\ Highest(ty) \in Int /\ a >= Lowest(ty) /\ a <= Highest(ty)
      /\ Lowest(ty) <= 0 /\ 0 \in Values(ty) /\ 1 \in Values(ty) /\ Highest(ty) >= 0
  BY Ranges, ValuesFacts DEF Values
<1>1. CASE op \in {"Add", "Sub", "Mul"}
  <2>1. a + b \in Int /\ a - b \in Int /\ a * b \in Int
    BY <1>0
  <2>2. Exact(op, a, b) \in Int
    BY <1>1, <2>1 DEF Exact
  <2>3. Computed(op, a, b, ty) = Wrap(Exact(op, a, b), ty)
    BY <1>1 DEF Computed
  <2> QED
    BY <2>2, <2>3, WrapInRange
<1>2. CASE op = "Div"
  <2>1. CASE b = 0
    BY <1>0, <1>2, <2>1, WrapInRange DEF Computed
  <2>2. CASE b # 0
    <3>1. Computed(op, a, b, ty) = Wrap(Quotient(a, b), ty)
      BY <1>2, <2>2 DEF Computed
    <3> QED
      BY <3>1, <1>0, <2>2, QuotientFacts, WrapInRange
  <2> QED
    BY <2>1, <2>2
<1>3. CASE op = "Rem"
  <2>1. CASE b = 0
    BY <1>3, <2>1 DEF Computed
  <2>2. CASE b # 0
    <3> DEFINE r == a - b * Quotient(a, b)
    <3>1. Computed(op, a, b, ty) = r
      BY <1>3, <2>2 DEF Computed
    <3>2. (a >= 0 => r \in 0..a) /\ (a < 0 => r \in a..0)
      BY <1>0, <2>2, QuotientFacts
    <3> HIDE DEF r
    <3>3. r \in Lowest(ty)..Highest(ty)
      BY <1>0, <3>2
    <3> QED
      BY <3>1, <3>3 DEF Values
  <2> QED
    BY <2>1, <2>2
<1>4. CASE op = "Shl"
  <2>1. pow2(Pattern(b, ty)) \in Nat
    BY PatternType, Pow2Type
  <2>2. a * pow2(Pattern(b, ty)) \in Int
    BY <1>0, <2>1
  <2>3. Computed(op, a, b, ty) = Wrap(a * pow2(Pattern(b, ty)), ty)
    BY <1>4 DEF Computed
  <2> QED
    BY <2>2, <2>3, WrapInRange
<1>5. CASE op = "Shr"
  <2> DEFINE p == pow2(Pattern(b, ty))
             q == a \div p
  <2>1. p \in Nat /\ p > 0
    BY PatternType, Pow2Type
  <2>2. Computed(op, a, b, ty) = q
    BY <1>5 DEF Computed
  <2> HIDE DEF p
  <2>3. q \in Int /\ (a >= 0 => q \in 0..a) /\ (a < 0 => q \in a..0)
    <3> DEFINE r == a % p
    <3> HIDE DEF q, r
    <3>1. q \in Int /\ r \in 0..(p - 1) /\ a = p * q + r
      BY <1>0, <2>1, Division DEF q, r
    <3>2. r \in 0..(p - 1) /\ a = p * q + r
      BY <3>1
    <3>3. CASE a >= 0
      <4>1. q >= 0
        <5> SUFFICES ASSUME q <= -1 PROVE FALSE
          BY <3>1
        <5>1. p * q <= -p
          BY <2>1, <3>1
        <5> QED
          BY <5>1, <3>2, <2>1, <3>3, <3>1
      <4>2. p * q >= q
        BY <4>1, <2>1, <3>1
      <4> QED
        BY <4>1, <4>2, <3>2, <3>3, <3>1, <1>0, <2>1
    <3>4. CASE a < 0
      <4>1. q <= -1
        <5> SUFFICES ASSUME q >= 0 PROVE FALSE
          BY <3>1
        <5>1. p * q >= 0
          BY <2>1, <3>1
        <5> QED
          BY <5>1, <3>2, <2>1, <3>4, <3>1
      <4>2. q >= a
        <5> SUFFICES ASSUME q <= a - 1 PROVE FALSE
          BY <3>1, <1>0
        <5>1. p * q <= q
          BY <4>1, <2>1, <3>1
        <5>2. p * q <= p * (a - 1)
          BY <2>1, <3>1, <1>0
        <5>3. p * (a - 1) = p * a - p
          BY <2>1, <1>0
        <5>4. p * a <= a
          BY <2>1, <1>0, <3>4
        <5> QED
          BY <5>2, <5>3, <5>4, <3>2, <2>1, <1>0, <3>1
      <4> QED
        BY <4>1, <4>2, <3>4, <3>1, <1>0
    <3> QED
      BY <3>3, <3>4, <3>1, <1>0
  <2> HIDE DEF q
  <2>4. q \in Lowest(ty)..Highest(ty)
    BY <1>0, <2>3
  <2> QED
    BY <2>2, <2>4 DEF Values
<1> QED
  BY <1>1, <1>2, <1>3, <1>4, <1>5 DEF ArithOp

(* A shift depends on the bits of its amount only. *)
LEMMA ShiftByPattern ==
  ASSUME NEW ty, NEW op \in Shifts, NEW a, NEW b, NEW c, Pattern(b, ty) = Pattern(c, ty)
  PROVE  Computed(op, a, b, ty) = Computed(op, a, c, ty)
BY DEF Computed, Shifts
-----------------------------------------------------------------------------
(***************************************************************************)
(* The recursive functions of Capture satisfy their equations.             *)
(***************************************************************************)
\* The states after the first m statements of a block.
Captured(body, at, start, ty, m, g) ==
  /\ g = [j \in 0..m |-> g[j]] /\ g[0] = start
  /\ \A j \in 1..m : g[j] = CaptureStatement(body, g[j - 1], body.blocks[at].statements[j], ty)

LEMMA CapturedExist ==
  ASSUME NEW body, NEW at, NEW start, NEW ty
  PROVE  \A n \in Nat : \E g : Captured(body, at, start, ty, n, g)
<1> DEFINE Step(x, j) == CaptureStatement(body, x, body.blocks[at].statements[j], ty)
           Ok(m, g) == /\ g = [j \in 0..m |-> g[j]] /\ g[0] = start
                       /\ \A j \in 1..m : g[j] = Step(g[j - 1], j)
           S == {m \in Nat : \E g : Ok(m, g)}
<1> HIDE DEF Step
<1>1. 0 \in S
  <2>1. Ok(0, [n \in 0..0 |-> start])
    OBVIOUS
  <2> QED
    BY <2>1
<1>2. ASSUME NEW n \in Nat, n \in S PROVE n + 1 \in S
  <2>1. PICK g : Ok(n, g)
    BY <1>2
  <2> DEFINE h == [j \in 0..(n + 1) |-> IF j = n + 1 THEN Step(g[n], n + 1) ELSE g[j]]
  <2>2. h[0] = start
    BY <2>1
  <2>3. ASSUME NEW j \in 1..(n + 1) PROVE h[j] = Step(h[j - 1], j)
    <3>1. CASE j = n + 1
      BY <3>1
    <3>2. CASE j # n + 1
      <4>1. j \in 1..n /\ j \in 0..(n + 1) /\ j - 1 # n + 1 /\ j - 1 \in 0..(n + 1)
        BY <3>2
      <4> QED
        BY <4>1, <3>2, <2>1
    <3> QED
      BY <3>1, <3>2
  <2>4. h = [j \in 0..(n + 1) |-> h[j]]
    OBVIOUS
  <2>5. Ok(n + 1, h)
    BY <2>2, <2>3, <2>4
  <2> HIDE DEF h, Ok
  <2> QED
    BY <2>5
<1> HIDE DEF S
<1>3. Nat \subseteq S
  BY <1>1, <1>2, SetInduction
<1> QED
  BY <1>3 DEF S, Step, Captured

LEMMA BlockStatesDef ==
  ASSUME NEW body, NEW at, NEW start, NEW ty, IsTuple(body.blocks[at].statements)
  PROVE  Captured(body, at, start, ty, Len(body.blocks[at].statements),
                  BlockStates(body, at, start, ty))
<1> DEFINE statements == body.blocks[at].statements
           n == Len(statements)
           states == BlockStates(body, at, start, ty)
           P(g) == g = [j \in 0..n |-> IF j = 0 THEN start
                                       ELSE CaptureStatement(body, g[j - 1], statements[j], ty)]
<1>1. n \in Nat
  BY TupleFacts
<1>2. PICK h : Captured(body, at, start, ty, n, h)
  BY <1>1, CapturedExist
<1>3. P(h)
  <2> DEFINE H == [j \in 0..n |-> IF j = 0 THEN start
                                  ELSE CaptureStatement(body, h[j - 1], statements[j], ty)]
  <2>1. ASSUME NEW j \in 0..n PROVE h[j] = H[j]
    <3>1. CASE j = 0
      BY <3>1, <1>2 DEF Captured
    <3>2. CASE j # 0
      <4>1. j \in 1..n
        BY <3>2, <1>1
      <4> QED
        BY <4>1, <3>2, <1>2 DEF Captured
    <3> QED
      BY <3>1, <3>2
  <2>3. h = [j \in 0..n |-> h[j]]
    BY <1>2 DEF Captured
  <2> QED
    BY <2>1, <2>3
<1>4. states = CHOOSE g : P(g)
  BY DEF BlockStates
<1> HIDE DEF P
<1>5. P(states)
  BY <1>3, <1>4
<1> HIDE DEF states
<1>6. /\ states = [j \in 0..n |-> states[j]]
      /\ \A j \in 0..n : states[j] = IF j = 0 THEN start
                                     ELSE CaptureStatement(body, states[j - 1], statements[j], ty)
  BY <1>5 DEF P
<1>7. Captured(body, at, start, ty, n, states)
  <2>1. states[0] = start
    BY <1>1, <1>6
  <2>2. ASSUME NEW j \in 1..n
        PROVE  states[j] = CaptureStatement(body, states[j - 1], statements[j], ty)
    <3>1. j \in 0..n /\ j # 0
      BY <1>1
    <3> QED
      BY <3>1, <1>6
  <2> QED
    BY <1>6, <2>1, <2>2, Zenon DEF Captured
<1> QED
  BY <1>7 DEF states

\* The walk after the first m blocks.
Walked(body, seeds, ends, admitted, ty, m, w) ==
  /\ w = [k \in 0..m |-> w[k]]
  /\ w[0] = [status |-> "walking", at |-> 1, visited |-> {}, state |-> Seeded(body, seeds)]
  /\ \A k \in 1..m : w[k] = IF w[k - 1].status = "walking"
                            THEN WalkBlock(body, w[k - 1], ends, admitted, ty)
                            ELSE w[k - 1]

LEMMA WalkedExist ==
  ASSUME NEW body, NEW seeds, NEW ends, NEW admitted, NEW ty
  PROVE  \A n \in Nat : \E w : Walked(body, seeds, ends, admitted, ty, n, w)
<1> DEFINE start == [status |-> "walking", at |-> 1, visited |-> {}, state |-> Seeded(body, seeds)]
           Step(x) == IF x.status = "walking" THEN WalkBlock(body, x, ends, admitted, ty) ELSE x
           Ok(m, g) == /\ g = [k \in 0..m |-> g[k]] /\ g[0] = start
                       /\ \A k \in 1..m : g[k] = Step(g[k - 1])
           S == {m \in Nat : \E g : Ok(m, g)}
<1> HIDE DEF start, Step
<1>1. 0 \in S
  <2>1. Ok(0, [k \in 0..0 |-> start])
    OBVIOUS
  <2> QED
    BY <2>1
<1>2. ASSUME NEW n \in Nat, n \in S PROVE n + 1 \in S
  <2>1. PICK g : Ok(n, g)
    BY <1>2
  <2> DEFINE h == [k \in 0..(n + 1) |-> IF k = n + 1 THEN Step(g[n]) ELSE g[k]]
  <2>2. h[0] = start
    BY <2>1
  <2>3. ASSUME NEW k \in 1..(n + 1) PROVE h[k] = Step(h[k - 1])
    <3>1. CASE k = n + 1
      BY <3>1
    <3>2. CASE k # n + 1
      <4>1. k \in 1..n /\ k \in 0..(n + 1) /\ k - 1 # n + 1 /\ k - 1 \in 0..(n + 1)
        BY <3>2
      <4> QED
        BY <4>1, <3>2, <2>1
    <3> QED
      BY <3>1, <3>2
  <2>4. h = [k \in 0..(n + 1) |-> h[k]]
    OBVIOUS
  <2>5. Ok(n + 1, h)
    BY <2>2, <2>3, <2>4
  <2> HIDE DEF h, Ok
  <2> QED
    BY <2>5
<1> HIDE DEF S
<1>3. Nat \subseteq S
  BY <1>1, <1>2, SetInduction
<1> QED
  BY <1>3 DEF S, start, Step, Walked

LEMMA ChainWalkDef ==
  ASSUME NEW body, NEW seeds, NEW ends, NEW admitted, NEW ty, IsTuple(body.blocks)
  PROVE  Walked(body, seeds, ends, admitted, ty, Len(body.blocks) + 1,
                ChainWalk(body, seeds, ends, admitted, ty))
<1> DEFINE n == Len(body.blocks) + 1
           walk == ChainWalk(body, seeds, ends, admitted, ty)
           start == [status |-> "walking", at |-> 1, visited |-> {}, state |-> Seeded(body, seeds)]
           P(w) == w = [k \in 0..n |->
                          IF k = 0 THEN start
                          ELSE IF w[k - 1].status = "walking"
                               THEN WalkBlock(body, w[k - 1], ends, admitted, ty)
                               ELSE w[k - 1]]
<1>1. n \in Nat
  BY TupleFacts
<1> HIDE DEF n, start
<1>2. PICK h : Walked(body, seeds, ends, admitted, ty, n, h)
  BY <1>1, WalkedExist
<1>3. P(h)
  <2> DEFINE H == [k \in 0..n |-> IF k = 0 THEN start
                                  ELSE IF h[k - 1].status = "walking"
                                       THEN WalkBlock(body, h[k - 1], ends, admitted, ty)
                                       ELSE h[k - 1]]
  <2>1. ASSUME NEW k \in 0..n PROVE h[k] = H[k]
    <3>1. CASE k = 0
      BY <3>1, <1>2 DEF Walked, start
    <3>2. CASE k # 0
      <4>1. k \in 1..n
        BY <3>2, <1>1
      <4> QED
        BY <4>1, <3>2, <1>2 DEF Walked
    <3> QED
      BY <3>1, <3>2
  <2>2. h = [k \in 0..n |-> h[k]]
    BY <1>2 DEF Walked
  <2> QED
    BY <2>1, <2>2
<1>4. walk = CHOOSE w : P(w)
  BY DEF ChainWalk, n, start
<1> HIDE DEF P
<1>5. P(walk)
  BY <1>3, <1>4
<1> HIDE DEF walk
<1>6. /\ walk = [k \in 0..n |-> walk[k]]
      /\ \A k \in 0..n : walk[k] = IF k = 0 THEN start
                                   ELSE IF walk[k - 1].status = "walking"
                                        THEN WalkBlock(body, walk[k - 1], ends, admitted, ty)
                                        ELSE walk[k - 1]
  BY <1>5 DEF P
<1>7. Walked(body, seeds, ends, admitted, ty, n, walk)
  <2>1. walk[0] = start
    BY <1>1, <1>6
  <2>2. ASSUME NEW k \in 1..n
        PROVE  walk[k] = IF walk[k - 1].status = "walking"
                         THEN WalkBlock(body, walk[k - 1], ends, admitted, ty)
                         ELSE walk[k - 1]
    <3>1. k \in 0..n /\ k # 0
      BY <1>1
    <3> QED
      BY <3>1, <1>6
  <2> QED
    BY <1>6, <2>1, <2>2, Zenon DEF Walked, start
<1> QED
  BY <1>7 DEF walk, n
-----------------------------------------------------------------------------
(***************************************************************************)
(* Bodies that type check.                                                 *)
(***************************************************************************)
LEMMA BodyFacts ==
  ASSUME NEW body, IsBody(body)
  PROVE  /\ Len(body.blocks) \in Nat /\ Len(body.blocks) > 0
         /\ DOMAIN body.blocks = 1..Len(body.blocks)
         /\ Params(body) = 1..Len(body.args) /\ Len(body.args) \in Nat
         /\ Len(body.locals) \in Nat /\ 0 \in Locals(body) /\ Params(body) \subseteq Locals(body)
         /\ 0 \notin Params(body)
<1>1. /\ Len(body.blocks) \in Nat /\ DOMAIN body.blocks = 1..Len(body.blocks)
      /\ Len(body.args) \in Nat /\ DOMAIN body.args = 1..Len(body.args)
      /\ Len(body.locals) \in Nat /\ Len(body.args) < Len(body.locals)
  BY TupleFacts DEF IsBody
<1>2. Len(body.blocks) > 0
  <2> DEFINE s == body.blocks
             S == ToSet(body.blocks)
  <2>1. s \in Seq(S) /\ s # <<>>
    BY DEF IsBody, IsTuple
  <2> HIDE DEF s, S
  <2>2. Len(s) > 0
    BY <2>1
  <2> QED
    BY <2>2 DEF s
<1> QED
  BY <1>1, <1>2 DEF Params, Locals

LEMMA BlockFacts ==
  ASSUME NEW body, IsBody(body), NEW b \in DOMAIN body.blocks
  PROVE  LET block == body.blocks[b]
         IN /\ IsTuple(block.statements)
            /\ Len(block.statements) \in Nat /\ DOMAIN block.statements = 1..Len(block.statements)
            /\ \A j \in 1..Len(block.statements) : IsStatement(body, block.statements[j])
            /\ IsTerminator(body, block.terminator)
            /\ ToSet(terminator_successors(block.terminator)) \subseteq DOMAIN body.blocks
<1> DEFINE block == body.blocks[b]
<1>1. block \in ToSet(body.blocks)
  BY DEF ToSet
<1>2. /\ IsTuple(block.statements)
      /\ \A s \in ToSet(block.statements) : IsStatement(body, s)
      /\ IsTerminator(body, block.terminator)
      /\ ToSet(terminator_successors(block.terminator)) \subseteq DOMAIN body.blocks
  BY <1>1 DEF IsBody
<1> HIDE DEF block
<1>3. Len(block.statements) \in Nat /\ DOMAIN block.statements = 1..Len(block.statements)
  BY <1>2, TupleFacts
<1>4. \A j \in 1..Len(block.statements) : IsStatement(body, block.statements[j])
  BY <1>2, <1>3 DEF ToSet
<1> QED
  BY <1>2, <1>3, <1>4 DEF block

(* Where a terminator leads. *)
LEMMA Successors ==
  ASSUME NEW body, NEW t, IsTerminator(body, t)
  PROVE  /\ t.kind \in {"goto", "assert", "call"} =>
              DOMAIN terminator_successors(t) = {1} /\ terminator_successors(t)[1] = t.target
         /\ t.kind = "switch" =>
              DOMAIN terminator_successors(t) = {1, 2} /\ terminator_successors(t) = t.targets
         /\ t.kind = "return" => DOMAIN terminator_successors(t) = {}
<1>1. t.kind \in {"goto", "assert", "call"} =>
        DOMAIN terminator_successors(t) = {1} /\ terminator_successors(t)[1] = t.target
  BY DEF terminator_successors
<1>2. ASSUME t.kind = "switch"
      PROVE  DOMAIN terminator_successors(t) = {1, 2} /\ terminator_successors(t) = t.targets
  <2>1. terminator_successors(t) = t.targets
    BY <1>2 DEF terminator_successors
  <2>2. Len(t.targets) = 2 /\ IsTuple(t.targets)
    BY <1>2 DEF IsTerminator
  <2>3. DOMAIN t.targets = 1..2
    BY <2>2, TupleFacts
  <2> QED
    BY <2>1, <2>3
<1>3. t.kind = "return" => DOMAIN terminator_successors(t) = {}
  BY DEF terminator_successors
<1> QED
  BY <1>1, <1>2, <1>3

LEMMA SuccessorsAreBlocks ==
  ASSUME NEW body, IsBody(body), NEW b \in DOMAIN body.blocks,
         NEW i \in DOMAIN terminator_successors(body.blocks[b].terminator)
  PROVE  /\ terminator_successors(body.blocks[b].terminator)[i] \in DOMAIN body.blocks
         /\ i \in 1..2
<1> DEFINE t == body.blocks[b].terminator
<1>1. IsTerminator(body, t) /\ ToSet(terminator_successors(t)) \subseteq DOMAIN body.blocks
  BY BlockFacts
<1>2. DOMAIN terminator_successors(t) \subseteq 1..2
  BY <1>1, Successors DEF IsTerminator
<1> QED
  BY <1>1, <1>2 DEF ToSet

(* A block with one edge into it is entered from one place, a block with none
   from nowhere. *)
LEMMA InEdges ==
  ASSUME NEW body, IsBody(body), NEW target \in DOMAIN body.blocks,
         NEW b \in DOMAIN body.blocks,
         NEW i \in DOMAIN terminator_successors(body.blocks[b].terminator),
         terminator_successors(body.blocks[b].terminator)[i] = target
  PROVE  /\ block_in_edge_counts(body)[target] # 0
         /\ block_in_edge_counts(body)[target] = 1 =>
              \A c \in DOMAIN body.blocks :
                \A j \in DOMAIN terminator_successors(body.blocks[c].terminator) :
                  terminator_successors(body.blocks[c].terminator)[j] = target => c = b
<1> DEFINE Succ(k) == terminator_successors(body.blocks[k].terminator)
           edges == UNION {{k} \X DOMAIN Succ(k) : k \in DOMAIN body.blocks}
           into == {x \in edges : Succ(x[1])[x[2]] = target}
<1>1. edges \subseteq (1..Len(body.blocks)) \X (1..2)
  <2> SUFFICES ASSUME NEW k \in DOMAIN body.blocks, NEW j \in DOMAIN Succ(k)
               PROVE  <<k, j>> \in (1..Len(body.blocks)) \X (1..2)
    OBVIOUS
  <2>1. j \in 1..2
    BY SuccessorsAreBlocks
  <2> QED
    BY <2>1, BodyFacts
<1>2. IsFiniteSet(into)
  <2> DEFINE n == Len(body.blocks)
             two == 2
  <2>0. n \in Int /\ two \in Int
    BY BodyFacts
  <2> HIDE DEF n, two
  <2>1. IsFiniteSet(1..n)
    BY <2>0, FS_Interval
  <2>a. IsFiniteSet(1..two)
    BY <2>0, FS_Interval
  <2> USE DEF n, two
  <2>2. IsFiniteSet((1..Len(body.blocks)) \X (1..2))
    BY <2>1, <2>a, FS_Product
  <2>3. into \in SUBSET ((1..Len(body.blocks)) \X (1..2))
    BY <1>1
  <2> QED
    BY <2>2, <2>3, FS_Subset
<1>3. block_in_edge_counts(body)[target] = Cardinality(into)
  BY DEF block_in_edge_counts
<1>4. \A c \in DOMAIN body.blocks : \A j \in DOMAIN Succ(c) :
        Succ(c)[j] = target => <<c, j>> \in into
  OBVIOUS
<1>5. <<b, i>> \in into
  BY <1>4
<1> HIDE DEF into
<1>6. Cardinality(into) # 0
  BY <1>2, <1>5, FS_EmptySet
<1>7. ASSUME Cardinality(into) = 1,
             NEW c \in DOMAIN body.blocks, NEW j \in DOMAIN Succ(c), Succ(c)[j] = target
      PROVE  c = b
  <2>1. \E x : into = {x}
    BY <1>2, <1>7, FS_Singleton
  <2>2. <<c, j>> = <<b, i>>
    BY <2>1, <1>4, <1>5, <1>7
  <2> QED
    BY <2>2
<1> QED
  BY <1>3, <1>6, <1>7
-----------------------------------------------------------------------------
(***************************************************************************)
(* The walk: while it goes on, each step follows the only way out of a     *)
(* block; once it stops, nothing changes.                                  *)
(***************************************************************************)
Follows(body, admitted, ty, x, y) ==
  LET t == body.blocks[x.at].terminator
  IN /\ t.kind \in {"goto", "assert"} /\ t.target \in admitted
     /\ y.status = "walking" /\ y.at = t.target
     /\ y.state = AfterBlock(body, x.at, x.state, ty)

Ends(body, ends, ty, x, y) ==
  x.at \in ends /\ y.status = "ended" /\ y.state = AfterBlock(body, x.at, x.state, ty)

LEMMA WalkBlockCases ==
  ASSUME NEW body, NEW ends, NEW admitted, NEW ty, NEW x,
         DOMAIN x = {"status", "at", "visited", "state"},
         x = [f \in {"status", "at", "visited", "state"} |-> x[f]], x.status = "walking"
  PROVE  LET y == WalkBlock(body, x, ends, admitted, ty)
         IN /\ y = [f \in {"status", "at", "visited", "state"} |-> y[f]]
            /\ \/ y.status = "abandoned" /\ y.at = x.at
               \/ Ends(body, ends, ty, x, y) /\ y.at = x.at
               \/ x.at \notin ends /\ Follows(body, admitted, ty, x, y)
<1> DEFINE y == WalkBlock(body, x, ends, admitted, ty)
           after == AfterBlock(body, x.at, x.state, ty)
           t == body.blocks[x.at].terminator
<1>1. y = IF x.at \in x.visited THEN [x EXCEPT !.status = "abandoned"]
          ELSE IF x.at \in ends THEN [x EXCEPT !.status = "ended", !.state = after]
          ELSE IF t.kind \in {"goto", "assert"} /\ t.target \in admitted
          THEN [x EXCEPT !.at = t.target, !.visited = @ \cup {x.at}, !.state = after]
          ELSE [x EXCEPT !.status = "abandoned"]
  BY DEF WalkBlock
<1> HIDE DEF y, after
<1>2. y = [f \in {"status", "at", "visited", "state"} |-> y[f]]
  BY <1>1
<1>3. \/ y.status = "abandoned" /\ y.at = x.at
      \/ Ends(body, ends, ty, x, y) /\ y.at = x.at
      \/ x.at \notin ends /\ Follows(body, admitted, ty, x, y)
  <2>1. CASE x.at \in x.visited
    BY <1>1, <2>1
  <2>2. CASE x.at \notin x.visited /\ x.at \in ends
    <3>1. y = [x EXCEPT !.status = "ended", !.state = after]
      BY <1>1, <2>2
    <3>2. y.status = "ended" /\ y.state = after /\ y.at = x.at
      BY <3>1
    <3> QED
      BY <3>2, <2>2 DEF Ends, after
  <2>3. CASE /\ x.at \notin x.visited /\ x.at \notin ends
             /\ t.kind \in {"goto", "assert"} /\ t.target \in admitted
    <3>1. y = [x EXCEPT !.at = t.target, !.visited = @ \cup {x.at}, !.state = after]
      BY <1>1, <2>3
    <3>2. y.status = "walking" /\ y.state = after /\ y.at = t.target
      BY <3>1
    <3> QED
      BY <3>2, <2>3 DEF Follows, after
  <2>4. CASE /\ x.at \notin x.visited /\ x.at \notin ends
             /\ ~(t.kind \in {"goto", "assert"} /\ t.target \in admitted)
    BY <1>1, <2>4
  <2> QED
    BY <2>1, <2>2, <2>3, <2>4
<1> QED
  BY <1>2, <1>3 DEF y

\* What is known of a walk of n blocks.
WalkLaws(body, ends, admitted, ty, n, w) ==
  /\ w[0].status = "walking" /\ w[0].at = 1
  /\ \A k \in 0..n : w[k].at \in DOMAIN body.blocks
  /\ \A k \in 0..n : k # n /\ w[k].status = "walking" =>
       \/ w[k + 1].status = "abandoned"
       \/ Ends(body, ends, ty, w[k], w[k + 1])
       \/ w[k].at \notin ends /\ Follows(body, admitted, ty, w[k], w[k + 1])
  /\ \A k \in 0..n : k # n /\ w[k].status # "walking" => w[k + 1] = w[k]

LEMMA WalkFacts ==
  ASSUME NEW body, IsBody(body), NEW seeds, NEW ends, NEW admitted \in SUBSET DOMAIN body.blocks,
         NEW ty, NEW n \in Nat, NEW w, Walked(body, seeds, ends, admitted, ty, n, w)
  PROVE  WalkLaws(body, ends, admitted, ty, n, w)
<1> DEFINE Fields == {"status", "at", "visited", "state"}
           Good(x) == /\ x = [f \in Fields |-> x[f]] /\ x.at \in DOMAIN body.blocks
                      /\ x.status \in {"walking", "ended", "abandoned"}
           S == {k \in 0..n : Good(w[k])}
<1>1. 0 \in S
  <2>1. w[0] = [status |-> "walking", at |-> 1, visited |-> {}, state |-> Seeded(body, seeds)]
    BY DEF Walked
  <2>2. w[0] = [f \in Fields |-> w[0][f]] /\ w[0].at = 1 /\ w[0].status = "walking"
    BY <2>1
  <2>3. 1 \in DOMAIN body.blocks
    BY BodyFacts
  <2> QED
    BY <2>2, <2>3
<1>2. ASSUME NEW k \in 0..n, k # n
      PROVE  /\ k + 1 \in 1..n
             /\ w[k].status # "walking" => w[k + 1] = w[k]
             /\ w[k].status = "walking" => w[k + 1] = WalkBlock(body, w[k], ends, admitted, ty)
  <2>1. k + 1 \in 1..n /\ (k + 1) - 1 = k
    BY <1>2
  <2> QED
    BY <2>1 DEF Walked
<1>3. ASSUME NEW k \in 0..n, k # n, Good(w[k])
      PROVE  /\ Good(w[k + 1])
             /\ w[k].status = "walking" =>
                  \/ w[k + 1].status = "abandoned"
                  \/ Ends(body, ends, ty, w[k], w[k + 1])
                  \/ w[k].at \notin ends /\ Follows(body, admitted, ty, w[k], w[k + 1])
  <2>1. CASE w[k].status # "walking"
    BY <1>2, <1>3, <2>1
  <2>2. CASE w[k].status = "walking"
    <3>1. w[k + 1] = WalkBlock(body, w[k], ends, admitted, ty)
      BY <1>2, <1>3, <2>2
    <3>2. /\ w[k + 1] = [f \in Fields |-> w[k + 1][f]]
          /\ \/ w[k + 1].status = "abandoned" /\ w[k + 1].at = w[k].at
             \/ Ends(body, ends, ty, w[k], w[k + 1]) /\ w[k + 1].at = w[k].at
             \/ w[k].at \notin ends /\ Follows(body, admitted, ty, w[k], w[k + 1])
      BY <3>1, <2>2, <1>3, WalkBlockCases
    <3> QED
      BY <3>2, <1>3 DEF Ends, Follows
  <2> QED
    BY <2>1, <2>2
<1> HIDE DEF Good
<1>4. ASSUME NEW k \in 0..n, k \in S, k + 1 <= n PROVE k + 1 \in S
  BY <1>3, <1>4
<1> HIDE DEF S
<1>5. 0..n \subseteq S
  BY <1>1, <1>4, BoundedInduction
<1>6. \A k \in 0..n : Good(w[k])
  BY <1>5 DEF S
<1>7. \A k \in 0..n : w[k].at \in DOMAIN body.blocks
  BY <1>6 DEF Good
<1>8. w[0].status = "walking" /\ w[0].at = 1
  BY DEF Walked
<1> QED
  BY <1>2, <1>3, <1>6, <1>7, <1>8 DEF WalkLaws

LEMMA WalkSettles ==
  ASSUME NEW body, NEW ends, NEW admitted, NEW ty, NEW n \in Nat, NEW w,
         WalkLaws(body, ends, admitted, ty, n, w),
         NEW k \in 0..n, w[k].status # "walking"
  PROVE  w[n] = w[k]
<1> DEFINE S == {m \in 0..n : m >= k => w[m] = w[k]}
<1>1. 0 \in S
  OBVIOUS
<1>2. ASSUME NEW m \in 0..n, m \in S, m + 1 <= n PROVE m + 1 \in S
  <2>1. CASE m + 1 = k
    BY <1>2, <2>1
  <2>2. CASE m >= k
    <3>1. w[m + 1] = w[m]
      BY <1>2, <2>2 DEF WalkLaws
    <3> QED
      BY <3>1, <1>2, <2>2
  <2>3. CASE m + 1 < k
    BY <1>2, <2>3
  <2> QED
    BY <2>1, <2>2, <2>3
<1> HIDE DEF S
<1>3. 0..n \subseteq S
  BY <1>1, <1>2, BoundedInduction
<1>4. n \in S
  BY <1>3
<1> QED
  BY <1>4 DEF S

(* How a walk that ends goes on, and where it came from. *)
LEMMA WalkGoesOn ==
  ASSUME NEW body, NEW ends, NEW admitted, NEW ty, NEW n \in Nat, NEW w,
         WalkLaws(body, ends, admitted, ty, n, w),
         w[n].status = "ended", NEW k \in 0..n, w[k].status = "walking"
  PROVE  /\ k + 1 \in 0..n
         /\ \/ Ends(body, ends, ty, w[k], w[n])
            \/ w[k].at \notin ends /\ Follows(body, admitted, ty, w[k], w[k + 1])
<1>1. k # n /\ k + 1 \in 0..n
  OBVIOUS
<1>2. \/ w[k + 1].status = "abandoned"
      \/ Ends(body, ends, ty, w[k], w[k + 1])
      \/ w[k].at \notin ends /\ Follows(body, admitted, ty, w[k], w[k + 1])
  BY <1>1 DEF WalkLaws
<1>3. w[k + 1].status # "walking" => w[n] = w[k + 1]
  BY <1>1, WalkSettles
<1> QED
  BY <1>1, <1>2, <1>3 DEF Ends

LEMMA WalkCameFrom ==
  ASSUME NEW body, NEW ends, NEW admitted, NEW ty, NEW n \in Nat, NEW w,
         WalkLaws(body, ends, admitted, ty, n, w),
         NEW k \in 1..n, w[k].status = "walking"
  PROVE  k - 1 \in 0..n /\ w[k - 1].status = "walking" /\ Follows(body, admitted, ty, w[k - 1], w[k])
<1>1. k - 1 \in 0..n /\ k - 1 # n /\ (k - 1) + 1 = k
  OBVIOUS
<1>2. w[k - 1].status = "walking"
  <2>1. w[k - 1].status # "walking" => w[k] = w[k - 1]
    BY <1>1 DEF WalkLaws
  <2> QED
    BY <2>1
<1> QED
  BY <1>1, <1>2 DEF WalkLaws, Ends

LEMMA WalkReachesEnd ==
  ASSUME NEW body, NEW ends, NEW admitted, NEW ty, NEW n \in Nat, NEW w,
         WalkLaws(body, ends, admitted, ty, n, w),
         w[n].status = "ended"
  PROVE  \E k \in 0..n : w[k].status = "walking" /\ Ends(body, ends, ty, w[k], w[n])
<1> DEFINE S == {m \in 0..n : w[m].status = "ended" =>
                   \E k \in 0..n : w[k].status = "walking" /\ Ends(body, ends, ty, w[k], w[m])}
<1>1. 0 \in S
  BY DEF WalkLaws
<1>2. ASSUME NEW m \in 0..n, m \in S, m + 1 <= n PROVE m + 1 \in S
  <2>1. CASE w[m].status = "walking"
    <3>1. \/ w[m + 1].status = "abandoned"
          \/ Ends(body, ends, ty, w[m], w[m + 1])
          \/ Follows(body, admitted, ty, w[m], w[m + 1])
      BY <1>2, <2>1 DEF WalkLaws
    <3>2. w[m + 1].status = "ended" => Ends(body, ends, ty, w[m], w[m + 1])
      BY <3>1 DEF Follows
    <3> QED
      BY <3>2, <2>1, <1>2
  <2>2. CASE w[m].status # "walking"
    <3>1. w[m + 1] = w[m]
      BY <1>2, <2>2 DEF WalkLaws
    <3> QED
      BY <3>1, <1>2
  <2> QED
    BY <2>1, <2>2
<1> HIDE DEF S
<1>3. 0..n \subseteq S
  BY <1>1, <1>2, BoundedInduction
<1>4. n \in S
  BY <1>3
<1> QED
  BY <1>4 DEF S

LEMMA ChainWalkLaws ==
  ASSUME NEW body, IsBody(body), NEW seeds, NEW ends, NEW admitted \in SUBSET DOMAIN body.blocks,
         NEW ty
  PROVE  LET n == Len(body.blocks) + 1
             w == ChainWalk(body, seeds, ends, admitted, ty)
         IN /\ n \in Nat /\ WalkLaws(body, ends, admitted, ty, n, w)
            /\ w[0].state = Seeded(body, seeds)
            /\ WalkEnd(body, seeds, ends, admitted, ty) = w[n]
<1> DEFINE n == Len(body.blocks) + 1
           w == ChainWalk(body, seeds, ends, admitted, ty)
<1>1. n \in Nat
  BY BodyFacts
<1>2. Walked(body, seeds, ends, admitted, ty, n, w)
  BY ChainWalkDef DEF IsBody
<1>3. WalkEnd(body, seeds, ends, admitted, ty) = w[n]
  BY DEF WalkEnd
<1> HIDE DEF n, w
<1>4. WalkLaws(body, ends, admitted, ty, n, w)
  BY <1>1, <1>2, WalkFacts
<1>5. w[0].state = Seeded(body, seeds)
  BY <1>2 DEF Walked
<1> QED
  BY <1>1, <1>3, <1>4, <1>5 DEF n, w
-----------------------------------------------------------------------------
(***************************************************************************)
(* What is captured is true: a memory agrees with a captured state when    *)
(* every local holds, for the entry the body was called with, the value of *)
(* the expression kept for it.                                             *)
(***************************************************************************)
Agree(body, state, e, memory, ty) ==
  /\ state = [env |-> state.env, checked |-> state.checked]
  /\ state.env = [l \in Locals(body) |-> state.env[l]]
  /\ state.checked = [l \in Locals(body) |-> state.checked[l]]
  /\ \A l \in Locals(body) :
       /\ \A x \in state.env[l] \cup state.checked[l] :
            memory[l] # <<>> /\ memory[l][1] = x.value[e]
       /\ state.checked[l] # {} => InnerTy(body, l) = ty

LEMMA SeedsAgree ==
  ASSUME NEW body, IsBody(body), NEW e \in Entries(body), NEW seeds \in SUBSET Params(body), NEW ty
  PROVE  Agree(body, Seeded(body, seeds), e, OnEntry(body, e), ty)
<1> DEFINE state == Seeded(body, seeds)
<1>1. /\ state = [env |-> state.env, checked |-> state.checked]
      /\ state.env = [l \in Locals(body) |-> IF l \in seeds THEN {Parameter(body, l)} ELSE {}]
      /\ state.checked = [l \in Locals(body) |-> {}]
  BY DEF Seeded
<1> HIDE DEF state
<1>2. ASSUME NEW l \in Locals(body), NEW x \in state.env[l] \cup state.checked[l]
      PROVE  OnEntry(body, e)[l] # <<>> /\ OnEntry(body, e)[l][1] = x.value[e]
  <2>1. l \in seeds /\ x = Parameter(body, l)
    BY <1>1, <1>2
  <2>2. OnEntry(body, e)[l] = <<e[l]>> /\ x.value[e] = e[l]
    BY <2>1 DEF OnEntry, Parameter
  <2> QED
    BY <2>2
<1> QED
  BY <1>1, <1>2 DEF Agree, state

LEMMA ScalarLocals ==
  ASSUME NEW body, IsBody(body), NEW l \in Locals(body)
  PROVE  /\ LocalTy(body, l) \in IntTy \cup {"bool"} => InnerTy(body, l) = LocalTy(body, l)
         /\ LocalTy(body, l) \in {"pair", "ref"} => InnerTy(body, l) \in IntTy
         /\ LocalTy(body, l) \in IntTy \cup {"bool", "pair", "ref"}
BY IntTypesAssumption DEF IsBody

LEMMA OperandAgrees ==
  ASSUME NEW body, IsBody(body), NEW state, NEW e \in Entries(body), NEW memory, NEW ty \in IntTy,
         Agree(body, state, e, memory, ty),
         NEW a, IsOperand(body, a), NEW x \in capture_operand(body, a, state, ty)
  PROVE  /\ OperandValue(memory, a) # <<>> /\ OperandValue(memory, a)[1] = x.value[e]
         /\ OperandTy(body, a) = ty
<1>1. CASE a.kind = "const"
  <2>1. x = Literal(body, a.value) /\ a.ty = ty
    BY <1>1 DEF capture_operand
  <2> QED
    BY <1>1, <2>1 DEF Literal, OperandValue, OperandTy
<1>2. CASE a.kind = "place" /\ a.proj = "none"
  <2>1. x \in state.env[a.local] /\ LocalTy(body, a.local) = ty /\ a.local \in Locals(body)
    BY <1>2 DEF capture_operand, IsOperand, IsPlace
  <2>2. memory[a.local] # <<>> /\ memory[a.local][1] = x.value[e]
    BY <2>1 DEF Agree
  <2>3. OperandValue(memory, a) = memory[a.local] /\ OperandTy(body, a) = LocalTy(body, a.local)
    BY <1>2 DEF OperandValue, ReadPlace, Target, OperandTy, PlaceTy
  <2> QED
    BY <2>1, <2>2, <2>3
<1>3. CASE a.kind = "place" /\ a.proj = "field0"
  <2>1. x \in state.checked[a.local] /\ a.local \in Locals(body)
    BY <1>3 DEF capture_operand, IsOperand, IsPlace
  <2>2. memory[a.local][1] = x.value[e] /\ InnerTy(body, a.local) = ty
    BY <2>1 DEF Agree
  <2>3. OperandValue(memory, a) = <<memory[a.local][1]>> /\ OperandTy(body, a) = InnerTy(body, a.local)
    BY <1>3 DEF OperandValue, ReadPlace, Target, OperandTy, PlaceTy
  <2> QED
    BY <2>2, <2>3
<1>4. CASE a.kind = "place" /\ a.proj \notin {"none", "field0"}
  BY <1>4 DEF capture_operand
<1> QED
  BY <1>1, <1>2, <1>3, <1>4 DEF IsOperand

LEMMA RvalueAgrees ==
  ASSUME NEW body, IsBody(body), NEW state, NEW e \in Entries(body), NEW memory, NEW ty \in IntTy,
         Agree(body, state, e, memory, ty),
         NEW s, IsStatement(body, s), s.proj = "none",
         NEW x \in capture_rvalue(body, s.rvalue, state, ty)
  PROVE  LET v == RvalueValue(body, memory, s.local, s.rvalue)
         IN v # <<>> /\ v[1] = x.value[e] /\ InnerTy(body, s.local) = ty
<1> DEFINE r == s.rvalue
           v == RvalueValue(body, memory, s.local, r)
<1>0. s.local \in Locals(body) /\ PlaceTy(body, s.local, s.proj) = LocalTy(body, s.local)
  BY DEF IsStatement, IsPlace, PlaceTy
<1>1. CASE r.kind = "use"
  <2>1. x \in capture_operand(body, r.a, state, ty)
    BY <1>1 DEF capture_rvalue
  <2>2. IsOperand(body, r.a) /\ PlaceTy(body, s.local, s.proj) = OperandTy(body, r.a)
    BY <1>1 DEF IsStatement, IsUse, IsBorrow, IsBinary
  <2>3. /\ OperandValue(memory, r.a) # <<>> /\ OperandValue(memory, r.a)[1] = x.value[e]
        /\ OperandTy(body, r.a) = ty
    BY <2>1, <2>2, OperandAgrees
  <2>4. v = OperandValue(memory, r.a)
    BY <1>1 DEF RvalueValue
  <2>5. InnerTy(body, s.local) = ty
    BY <1>0, <2>2, <2>3, ScalarLocals
  <2> QED
    BY <2>3, <2>4, <2>5
<1>2. CASE r.kind = "binary" /\ r.op \in ArithOp
  <2> DEFINE rhs == IF r.op \in Shifts THEN capture_shift_amount(body, r.b, state, ty)
                                       ELSE capture_operand(body, r.b, state, ty)
             a == OperandValue(memory, r.a)[1]
             b == OperandValue(memory, r.b)[1]
             c == Computed(r.op, a, b, ty)
  <2>1. PICK y \in capture_operand(body, r.a, state, ty), z \in rhs :
           x = [value |-> [f \in Entries(body) |-> Computed(r.op, y.value[f], z.value[f], ty)],
                callers |-> y.callers \cup z.callers]
    BY <1>2 DEF capture_rvalue
  <2>2. x.value[e] = Computed(r.op, y.value[e], z.value[e], ty)
    BY <2>1
  <2>3. IsBinary(body, s)
    BY <1>2 DEF IsStatement, IsUse, IsBorrow
  <2>4. IsOperand(body, r.a) /\ IsOperand(body, r.b) /\ OperandTy(body, r.b) \in IntTy
    BY <2>3 DEF IsBinary, IsInteger
  <2>5. a = y.value[e] /\ OperandTy(body, r.a) = ty
    BY <2>1, <2>4, OperandAgrees
  <2>6. Computed(r.op, a, b, ty) = x.value[e]
    <3>1. CASE r.op \in Shifts /\ r.b.kind = "const"
      <4>1. z = Literal(body, Wrap(r.b.value, ty))
        BY <2>1, <3>1 DEF capture_shift_amount
      <4>2. z.value[e] = Wrap(r.b.value, ty) /\ b = r.b.value
        BY <3>1, <4>1 DEF Literal, OperandValue
      <4>3. r.b.value \in Int
        BY <3>1, <2>4, ValuesFacts DEF IsOperand, OperandTy, Scalars
      <4>4. Pattern(b, ty) = Pattern(z.value[e], ty)
        BY <4>2, <4>3, WrapKeepsPattern
      <4> QED
        BY <4>4, <3>1, <2>2, <2>5, ShiftByPattern
    <3>2. CASE ~(r.op \in Shifts /\ r.b.kind = "const")
      <4>1. z \in capture_operand(body, r.b, state, ty)
        BY <2>1, <3>2 DEF capture_shift_amount
      <4>2. b = z.value[e]
        BY <4>1, <2>4, OperandAgrees
      <4> QED
        BY <4>2, <2>2, <2>5
    <3> QED
      BY <3>1, <3>2
  <2>7. v = IF LocalTy(body, s.local) = "pair"
            THEN <<c, IF Panics(r.op, a, b, ty) THEN 1 ELSE 0>>
            ELSE <<c>>
    BY <1>2, <2>5 DEF RvalueValue
  <2>8. v # <<>> /\ v[1] = c
    BY <2>7
  <2>9. InnerTy(body, s.local) = ty
    <3>1. \/ PlaceTy(body, s.local, s.proj) = OperandTy(body, r.a)
          \/ InnerTy(body, s.local) = OperandTy(body, r.a)
      BY <2>3, <1>2 DEF IsBinary, ArithOp
    <3> QED
      BY <3>1, <2>5, <1>0, ScalarLocals
  <2> QED
    BY <2>6, <2>8, <2>9
<1>3. CASE r.kind # "use" /\ ~(r.kind = "binary" /\ r.op \in ArithOp)
  BY <1>3 DEF capture_rvalue
<1> QED
  BY <1>1, <1>2, <1>3

(* A statement keeps the agreement, whatever it does to the local it names. *)
LEMMA StatementAgrees ==
  ASSUME NEW body, IsBody(body), NEW state, NEW e \in Entries(body), NEW memory, NEW ty \in IntTy,
         Agree(body, state, e, memory, ty),
         NEW s, IsStatement(body, s), NEW after,
         \A l \in Locals(body) : l # s.local => after[l] = memory[l],
         s.proj = "none" => after[s.local] = RvalueValue(body, memory, s.local, s.rvalue)
  PROVE  Agree(body, CaptureStatement(body, state, s, ty), e, after, ty)
<1> DEFINE captured == IF s.proj = "none" THEN capture_rvalue(body, s.rvalue, state, ty) ELSE {}
           new == CaptureStatement(body, state, s, ty)
<1>0. s.local \in Locals(body)
  BY DEF IsStatement, IsPlace
<1>1. new = [state EXCEPT !.env[s.local] = captured, !.checked[s.local] = captured]
  BY DEF CaptureStatement
<1>2. ASSUME NEW x \in captured
      PROVE  after[s.local] # <<>> /\ after[s.local][1] = x.value[e] /\ InnerTy(body, s.local) = ty
  <2>1. s.proj = "none" /\ x \in capture_rvalue(body, s.rvalue, state, ty)
    BY <1>2
  <2> QED
    BY <2>1, RvalueAgrees
<1> HIDE DEF captured, new
<1>3. /\ state = [env |-> state.env, checked |-> state.checked]
      /\ state.env = [l \in Locals(body) |-> state.env[l]]
      /\ state.checked = [l \in Locals(body) |-> state.checked[l]]
  BY DEF Agree
<1>4. new = [env |-> [state.env EXCEPT ![s.local] = captured],
             checked |-> [state.checked EXCEPT ![s.local] = captured]]
  BY <1>1, <1>3
<1>5. /\ new.env = [l \in Locals(body) |-> IF l = s.local THEN captured ELSE state.env[l]]
      /\ new.checked = [l \in Locals(body) |-> IF l = s.local THEN captured ELSE state.checked[l]]
  BY <1>0, <1>3, <1>4
<1>6. ASSUME NEW l \in Locals(body)
      PROVE  /\ \A x \in new.env[l] \cup new.checked[l] : after[l] # <<>> /\ after[l][1] = x.value[e]
             /\ new.checked[l] # {} => InnerTy(body, l) = ty
  <2>1. CASE l = s.local
    <3>1. new.env[l] = captured /\ new.checked[l] = captured
      BY <1>5, <2>1
    <3> QED
      BY <3>1, <2>1, <1>2
  <2>2. CASE l # s.local
    <3>1. new.env[l] = state.env[l] /\ new.checked[l] = state.checked[l] /\ after[l] = memory[l]
      BY <1>5, <2>2
    <3> QED
      BY <3>1 DEF Agree
  <2> QED
    BY <2>1, <2>2
<1>7. new = [env |-> new.env, checked |-> new.checked]
  BY <1>4
<1> QED
  BY <1>5, <1>6, <1>7 DEF Agree, new
=============================================================================
