---------------------------- MODULE HelperProofs ----------------------------
(***************************************************************************)
(* Lemmas about the helpers of the Move package: the rounding of           *)
(* helpers/math's divisions, the laws of SumOver, each reduced to the      *)
(* cardinality of a union of disjoint sets of units, what a listing of a   *)
(* finite set contains, and what the operations of helpers/rate_limiter    *)
(* return.                                                                 *)
(***************************************************************************)
EXTENDS TokenBucket, FiniteSetTheorems, WellFoundedInduction, TLAPS

-----------------------------------------------------------------------------
(* Multiplication and division.                                              *)

\* Multiplication preserves order.
LEMMA TimesMonotone ==
    ASSUME NEW a \in Nat, NEW b \in Nat, NEW c \in Nat, a <= b
    PROVE  a * c <= b * c /\ c * a <= c * b
  <1> DEFINE d == b - a
  <1>1. d \in Nat /\ b = a + d
    OBVIOUS
  <1> HIDE DEF d
  <1>2. b * c = a * c + d * c /\ d * c \in Nat /\ a * c \in Nat
    BY <1>1
  <1> QED
    BY <1>2

\* A positive factor can be cancelled.
LEMMA TimesCancel ==
    ASSUME NEW a \in Nat, NEW b \in Nat, NEW c \in Nat \ {0}, a * c <= b * c
    PROVE  a <= b
  <1> SUFFICES ASSUME b + 1 <= a PROVE FALSE
    OBVIOUS
  <1>1. (b + 1) * c <= a * c
    BY TimesMonotone
  <1>2. (b + 1) * c = b * c + c /\ b * c \in Nat /\ a * c \in Nat
    OBVIOUS
  <1> QED
    BY <1>1, <1>2

\* What the quotient of an integer division satisfies.
LEMMA DivBounds ==
    ASSUME NEW p \in Nat, NEW n \in Nat \ {0}
    PROVE  /\ p \div n \in Nat
           /\ (p \div n) * n <= p
           /\ p < (p \div n) * n + n
           /\ p % n = p - (p \div n) * n
  OBVIOUS

\* Division preserves order.
LEMMA DivMonotone ==
    ASSUME NEW p \in Nat, NEW q \in Nat, NEW n \in Nat \ {0}, p <= q
    PROVE  p \div n <= q \div n
  <1> DEFINE x == p \div n
             y == q \div n
  <1>1. x \in Nat /\ y \in Nat /\ x * n <= p /\ q < y * n + n
    BY DivBounds
  <1> HIDE DEF x, y
  <1>2. x * n \in Nat /\ (y + 1) * n = y * n + n /\ y * n \in Nat
    BY <1>1
  <1>3. ~(y + 1 <= x)
    <2> SUFFICES ASSUME y + 1 <= x PROVE FALSE
      OBVIOUS
    <2>1. (y + 1) * n <= x * n
      BY <1>1, TimesMonotone
    <2> QED
      BY <1>1, <1>2, <2>1
  <1>4. x <= y
    BY <1>1, <1>3
  <1> QED
    BY <1>4 DEF x, y

\* mul_div_round_down never exceeds the exact quotient, mul_div_round_up never
\* falls below it.
LEMMA MulDivRounding ==
    ASSUME NEW a \in Nat, NEW b \in Nat, NEW c \in Nat \ {0}
    PROVE  /\ MulDivDown(a, b, c) \in Nat /\ MulDivUp(a, b, c) \in Nat
           /\ MulDivDown(a, b, c) * c <= a * b
           /\ a * b <= MulDivUp(a, b, c) * c
  <1> DEFINE p == a * b
             x == p \div c
  <1>1. p \in Nat
    OBVIOUS
  <1>2. x \in Nat /\ x * c <= p /\ p < x * c + c /\ p % c = p - x * c
    BY <1>1, DivBounds
  <1>3. MulDivDown(a, b, c) = x /\ MulDivUp(a, b, c) = IF p % c = 0 THEN x ELSE x + 1
    BY DEF MulDivDown, MulDivUp
  <1> HIDE DEF p, x
  <1>4. (x + 1) * c = x * c + c /\ x * c \in Nat
    BY <1>2
  <1>5. p <= MulDivUp(a, b, c) * c /\ MulDivUp(a, b, c) \in Nat
    BY <1>1, <1>2, <1>3, <1>4
  <1> QED
    BY <1>2, <1>3, <1>5 DEF p

\* mul_div_round_up is the least number of units that covers the product: it never
\* takes more than a number that already does.
LEMMA MulDivUpLeast ==
    ASSUME NEW a \in Nat, NEW b \in Nat, NEW c \in Nat \ {0}, NEW n \in Nat, a * b <= n * c
    PROVE  MulDivUp(a, b, c) <= n
  <1> DEFINE p == a * b
             x == p \div c
  <1>1. p \in Nat /\ p <= n * c
    OBVIOUS
  <1>2. x \in Nat /\ x * c <= p /\ p < x * c + c /\ p % c = p - x * c
    BY <1>1, DivBounds
  <1>3. MulDivUp(a, b, c) = IF p % c = 0 THEN x ELSE x + 1
    BY DEF MulDivUp
  <1> HIDE DEF p, x
  <1>4. x * c \in Nat /\ n * c \in Nat
    BY <1>2
  <1>5. CASE p % c = 0
    <2>1. x * c <= n * c
      BY <1>1, <1>2, <1>4
    <2> QED
      BY <1>2, <1>3, <1>5, <2>1, TimesCancel
  <1>6. CASE p % c # 0
    <2>1. x * c < n * c
      BY <1>1, <1>2, <1>4, <1>6
    <2>2. ~(n <= x)
      <3> SUFFICES ASSUME n <= x PROVE FALSE
        OBVIOUS
      <3>1. n * c <= x * c
        BY <1>2, TimesMonotone
      <3> QED
        BY <1>4, <2>1, <3>1
    <2> QED
      BY <1>2, <1>3, <1>6, <2>2
  <1> QED
    BY <1>5, <1>6

-----------------------------------------------------------------------------
(* Sums.                                                                     *)

\* Membership in Units, once and for all.
LEMMA UnitsMember ==
    ASSUME NEW S, NEW f, NEW p
    PROVE  p \in Units(S, f) <=> \E x \in S : p \in {x} \X (1 .. f[x])
  BY DEF Units

\* f has natural values on S.
NatValued(f, S) == \A x \in S : f[x] \in Nat

\* A set of naturals has a least member.
LEMMA LeastNatural ==
    ASSUME NEW D \in SUBSET Nat, D # {}
    PROVE  \E d \in D : \A e \in D : d <= e
  <1> DEFINE R == OpToRel(<, Nat)
  <1>1. \A a, b \in Nat : a < b => <<a, b>> \in R
    BY DEF OpToRel
  <1>2. IsWellFoundedOn(R, Nat)
    BY NatLessThanWellFounded
  <1> HIDE DEF R
  <1>3. PICK d \in D : \A e \in D : ~ (<<e, d>> \in R)
    BY <1>2, WFMin
  <1>4. \A e \in D : ~ (e < d)
    BY <1>1, <1>3, Zenon
  <1>5. \A e \in D : d <= e
    BY <1>4
  <1> QED
    BY <1>5

\* Finitely many naturals have an upper bound.  Of the subsets without one, a smallest
\* would lose a member and still be without one.
LEMMA FiniteBound ==
    ASSUME NEW S, IsFiniteSet(S), NEW f, NatValued(f, S)
    PROVE  \E b \in Nat : \A x \in S : f[x] <= b
  <1> DEFINE Bounded(T) == \E b \in Nat : \A x \in T : f[x] <= b
             D == {n \in Nat : \E T \in SUBSET S : Cardinality(T) = n /\ ~Bounded(T)}
  <1>1. \A T \in SUBSET S : IsFiniteSet(T) /\ Cardinality(T) \in Nat
    BY FS_Subset, FS_CardinalityType
  <1>2. CASE D = {}
    BY <1>1, <1>2
  <1>3. CASE D # {}
    <2>1. PICK d \in D : \A e \in D : d <= e
      <3>1. D \in SUBSET Nat
        OBVIOUS
      <3> HIDE DEF D
      <3> QED
        BY <1>3, <3>1, LeastNatural
    <2>2. PICK T \in SUBSET S : Cardinality(T) = d /\ ~Bounded(T)
      BY <2>1
    <2>3. T # {}
      BY <2>2
    <2>4. PICK x \in T : TRUE
      BY <2>3
    <2>5. T \ {x} \in SUBSET S /\ Cardinality(T \ {x}) = d - 1 /\ d - 1 \in Nat
      <3>1. IsFiniteSet(T) /\ Cardinality(T \ {x}) = Cardinality(T) - 1
        BY <1>1, FS_RemoveElement
      <3>2. Cardinality(T \ {x}) \in Nat /\ d \in Nat
        BY <1>1, <2>1
      <3> HIDE DEF D, Bounded
      <3> QED
        BY <2>2, <3>1, <3>2
    <2>6. Bounded(T \ {x})
      BY <2>1, <2>5
    <2>7. PICK b \in Nat : \A y \in T \ {x} : f[y] <= b
      BY <2>6
    <2>8. f[x] \in Nat /\ \A y \in T : f[y] <= b + f[x]
      BY <2>7 DEF NatValued
    <2>9. Bounded(T)
      <3>1. b + f[x] \in Nat
        BY <2>8
      <3> QED
        BY <2>8, <3>1
    <2> QED
      BY <2>2, <2>9
  <1> QED
    BY <1>2, <1>3

\* The units of natural balances are finitely many.
LEMMA UnitsFinite ==
    ASSUME NEW S, IsFiniteSet(S), NEW f, NatValued(f, S)
    PROVE  IsFiniteSet(Units(S, f))
  <1>1. PICK b \in Nat : \A x \in S : f[x] <= b
    BY FiniteBound
  <1>2. IsFiniteSet(S \X (1 .. b))
    <2>1. IsFiniteSet(1 .. b)
      BY FS_Interval
    <2> QED
      BY <2>1, FS_Product
  <1>3. \A x \in S : 1 .. f[x] \subseteq 1 .. b
    BY <1>1 DEF NatValued
  <1>4. Units(S, f) \subseteq S \X (1 .. b)
    BY <1>3, UnitsMember
  <1> QED
    BY <1>2, <1>4, FS_Subset

\* A sum is a natural number.
LEMMA SumType ==
    ASSUME NEW S, IsFiniteSet(S), NEW f, NatValued(f, S)
    PROVE  SumOver(S, f) \in Nat
  BY UnitsFinite, FS_CardinalityType DEF SumOver

\* The empty sum.
LEMMA SumEmpty ==
    ASSUME NEW f
    PROVE  SumOver({}, f) = 0
  BY FS_EmptySet DEF SumOver, Units

\* Functions that agree on S have the same sum over S.
LEMMA SumSame ==
    ASSUME NEW S, NEW f, NEW g, \A x \in S : f[x] = g[x]
    PROVE  SumOver(S, f) = SumOver(S, g)
  <1>1. \A p : p \in Units(S, f) <=> p \in Units(S, g)
    BY UnitsMember
  <1>2. Units(S, f) = Units(S, g)
    BY <1>1
  <1> QED
    BY <1>2 DEF SumOver

\* The sum over a disjoint union.
LEMMA SumUnion ==
    ASSUME NEW A, IsFiniteSet(A), NEW B, IsFiniteSet(B), A \cap B = {},
           NEW f, NatValued(f, A \cup B)
    PROVE  SumOver(A \cup B, f) = SumOver(A, f) + SumOver(B, f)
  <1>1. \A p : p \in Units(A \cup B, f) <=> p \in Units(A, f) \cup Units(B, f)
    BY UnitsMember
  <1>2. Units(A \cup B, f) = Units(A, f) \cup Units(B, f)
    BY <1>1
  <1>3. Units(A, f) \cap Units(B, f) = {}
    <2> SUFFICES ASSUME NEW p \in Units(A, f), p \in Units(B, f) PROVE FALSE
      OBVIOUS
    <2>1. PICK x \in A : p \in {x} \X (1 .. f[x])
      BY UnitsMember
    <2>2. PICK y \in B : p \in {y} \X (1 .. f[y])
      BY UnitsMember
    <2>3. x = p[1] /\ y = p[1]
      BY <2>1, <2>2
    <2> QED
      BY <2>3
  <1>4. IsFiniteSet(Units(A, f)) /\ IsFiniteSet(Units(B, f))
    BY UnitsFinite DEF NatValued
  <1>5. Cardinality(Units(A, f) \cup Units(B, f))
          = Cardinality(Units(A, f)) + Cardinality(Units(B, f))
              - Cardinality(Units(A, f) \cap Units(B, f))
    BY <1>4, FS_Union
  <1>6. Cardinality(Units(A, f)) \in Nat /\ Cardinality(Units(B, f)) \in Nat
    BY <1>4, FS_CardinalityType
  <1>7. Cardinality(Units(A, f) \cap Units(B, f)) = 0
    BY <1>3, FS_EmptySet
  <1> DEFINE a == Cardinality(Units(A, f))
             b == Cardinality(Units(B, f))
             c == Cardinality(Units(A, f) \cap Units(B, f))
             u == Cardinality(Units(A, f) \cup Units(B, f))
  <1>8. u = a + b
    <2>1. a \in Nat /\ b \in Nat /\ c = 0 /\ u = a + b - c
      BY <1>5, <1>6, <1>7
    <2> HIDE DEF a, b, c, u
    <2> QED
      BY <2>1
  <1>9. Cardinality(Units(A \cup B, f)) = a + b
    BY <1>2, <1>8, Zenon
  <1> QED
    BY <1>9, Zenon DEF SumOver

\* The sum over a singleton is its one value.
LEMMA SumSingle ==
    ASSUME NEW x, NEW f, f[x] \in Nat
    PROVE  SumOver({x}, f) = f[x]
  <1>1. f[x] \in Nat
    OBVIOUS
  <1>2. \A p : p \in Units({x}, f) <=> p \in {x} \X (1 .. f[x])
    BY UnitsMember
  <1>3. Units({x}, f) = {x} \X (1 .. f[x])
    BY <1>2
  <1>4. IsFiniteSet(1 .. f[x]) /\ Cardinality(1 .. f[x]) = f[x]
    BY <1>1, FS_Interval
  <1>5. IsFiniteSet({x}) /\ Cardinality({x}) = 1
    BY FS_Singleton
  <1>6. Cardinality({x} \X (1 .. f[x])) = Cardinality({x}) * Cardinality(1 .. f[x])
    BY <1>4, <1>5, FS_Product
  <1>7. 1 * f[x] = f[x]
    BY <1>1
  <1>8. Cardinality({x} \X (1 .. f[x])) = f[x]
    BY <1>4, <1>5, <1>6, <1>7, Zenon
  <1> QED
    BY <1>3, <1>8, Zenon DEF SumOver

\* One element's share of the sum.
LEMMA SumSplit ==
    ASSUME NEW S, IsFiniteSet(S), NEW x \in S, NEW f, NatValued(f, S)
    PROVE  /\ SumOver(S, f) = SumOver(S \ {x}, f) + f[x]
           /\ SumOver(S \ {x}, f) \in Nat
  <1>1. IsFiniteSet(S \ {x}) /\ IsFiniteSet({x})
    BY FS_RemoveElement, FS_Singleton
  <1>2. S = (S \ {x}) \cup {x} /\ (S \ {x}) \cap {x} = {}
    OBVIOUS
  <1>3. SumOver((S \ {x}) \cup {x}, f) = SumOver(S \ {x}, f) + SumOver({x}, f)
    BY <1>1, <1>2, SumUnion
  <1>4. SumOver({x}, f) = f[x]
    BY SumSingle DEF NatValued
  <1> QED
    BY <1>1, <1>2, <1>3, <1>4, SumType DEF NatValued

\* Changing one value changes the sum by the difference.
LEMMA SumUpdate ==
    ASSUME NEW S, IsFiniteSet(S), NEW x \in S,
           NEW f, NatValued(f, S),
           NEW g, NatValued(g, S),
           \A y \in S \ {x} : g[y] = f[y]
    PROVE  /\ SumOver(S, g) = SumOver(S, f) - f[x] + g[x]
           /\ SumOver(S, f) \in Nat /\ SumOver(S, g) \in Nat
           /\ f[x] <= SumOver(S, f)
  <1>1. SumOver(S, f) = SumOver(S \ {x}, f) + f[x] /\ SumOver(S \ {x}, f) \in Nat
    BY SumSplit
  <1>2. SumOver(S, g) = SumOver(S \ {x}, g) + g[x]
    BY SumSplit
  <1>3. SumOver(S \ {x}, f) = SumOver(S \ {x}, g)
    BY SumSame
  <1>4. f[x] \in Nat /\ g[x] \in Nat
    BY DEF NatValued
  <1> QED
    BY <1>1, <1>2, <1>3, <1>4

\* A sum of zeros.
LEMMA SumZero ==
    ASSUME NEW S, NEW f, \A x \in S : f[x] = 0
    PROVE  SumOver(S, f) = 0
  <1>1. \A p : p \notin Units(S, f)
    BY UnitsMember
  <1>2. Units(S, f) = {}
    BY <1>1
  <1> QED
    BY <1>2, FS_EmptySet DEF SumOver

\* A sum of equal values.
LEMMA SumConstant ==
    ASSUME NEW S, IsFiniteSet(S), NEW f, NEW a \in Nat, \A x \in S : f[x] = a
    PROVE  SumOver(S, f) = Cardinality(S) * a
  <1>1. \A p : p \in Units(S, f) <=> p \in S \X (1 .. a)
    BY UnitsMember
  <1>2. Units(S, f) = S \X (1 .. a)
    BY <1>1
  <1>3. IsFiniteSet(1 .. a) /\ Cardinality(1 .. a) = a
    BY FS_Interval
  <1>4. Cardinality(S \X (1 .. a)) = Cardinality(S) * Cardinality(1 .. a)
    BY <1>3, FS_Product
  <1> QED
    BY <1>2, <1>3, <1>4, Zenon DEF SumOver

\* Rows of R, a part of S, are replaced by one value at an element x of R; the
\* rest of S is untouched.
LEMMA SumReplace ==
    ASSUME NEW S, IsFiniteSet(S), NEW R \in SUBSET S, NEW x \in R,
           NEW f, NatValued(f, S),
           NEW g, \A y \in S \ R : g[y] = f[y], \A y \in R \ {x} : g[y] = 0, g[x] \in Nat
    PROVE  /\ SumOver(S, g) = SumOver(S, f) - SumOver(R, f) + g[x]
           /\ SumOver(R, f) \in Nat /\ SumOver(S, f) \in Nat
           /\ SumOver(R, f) <= SumOver(S, f)
  <1> DEFINE T == S \ R
  <1>1. IsFiniteSet(R) /\ IsFiniteSet(T) /\ R \cup T = S /\ R \cap T = {}
    BY FS_Subset
  <1>2. NatValued(g, S)
    BY DEF NatValued
  <1>3. SumOver(S, f) = SumOver(R, f) + SumOver(T, f)
    BY <1>1, SumUnion
  <1>4. SumOver(S, g) = SumOver(R, g) + SumOver(T, g)
    BY <1>1, <1>2, SumUnion
  <1>5. SumOver(T, g) = SumOver(T, f)
    BY SumSame
  <1>6. SumOver(R, g) = SumOver(R \ {x}, g) + g[x]
    BY <1>1, <1>2, SumSplit DEF NatValued
  <1>7. SumOver(R \ {x}, g) = 0
    BY SumZero
  <1>8. SumOver(R, f) \in Nat /\ SumOver(T, f) \in Nat
    BY <1>1, SumType DEF NatValued
  <1>9. g[x] \in Nat
    OBVIOUS
  <1>10. SumOver(R, g) = g[x]
    BY <1>6, <1>7, <1>9
  <1> HIDE DEF T
  <1> QED
    BY <1>3, <1>4, <1>5, <1>8, <1>9, <1>10

\* Replacing rows by one that is worth as much as one of them never raises the sum.
LEMMA SumReplaceByOne ==
    ASSUME NEW S, IsFiniteSet(S), NEW R \in SUBSET S, NEW x \in R, NEW z \in R,
           NEW f, NatValued(f, S),
           NEW g, \A y \in S \ R : g[y] = f[y], \A y \in R \ {x} : g[y] = 0, g[x] = f[z]
    PROVE  SumOver(S, g) <= SumOver(S, f)
  <1>1. f[z] \in Nat /\ g[x] \in Nat
    BY DEF NatValued
  <1>2. /\ SumOver(S, g) = SumOver(S, f) - SumOver(R, f) + g[x]
        /\ SumOver(R, f) \in Nat /\ SumOver(S, f) \in Nat
    BY ONLY <1>1, IsFiniteSet(S), NatValued(f, S), R \in SUBSET S, x \in R,
         \A y \in S \ R : g[y] = f[y], \A y \in R \ {x} : g[y] = 0, SumReplace
  <1>3. IsFiniteSet(R) /\ NatValued(f, R)
    BY FS_Subset DEF NatValued
  <1>4. SumOver(R, f) = SumOver(R \ {z}, f) + f[z] /\ SumOver(R \ {z}, f) \in Nat
    BY <1>3, SumSplit
  <1> QED
    BY <1>1, <1>2, <1>4

-----------------------------------------------------------------------------
(* Listings.                                                                 *)

\* R is a strict total order of S.
Orders(R, S) ==
    /\ \A x \in S : <<x, x>> \notin R
    /\ \A x, y \in S : x # y => <<x, y>> \in R \/ <<y, x>> \in R
    /\ \A x, y, z \in S : <<x, y>> \in R /\ <<y, z>> \in R => <<x, z>> \in R

\* A listing has each member of the set at one place, behind all that are before it:
\* ranks are different, so the places are all taken.
LEMMA InOrderLists ==
    ASSUME NEW S, IsFiniteSet(S), NEW R, Orders(R, S)
    PROVE  LET s == InOrder(S, R)
           IN  /\ s \in [1 .. Cardinality(S) -> S]
               /\ \A i, j \in 1 .. Cardinality(S) : s[i] = s[j] => i = j
               /\ \A x \in S : \E i \in 1 .. Cardinality(S) : s[i] = x
               /\ \A i, j \in 1 .. Cardinality(S) : i < j => <<s[i], s[j]>> \in R
  <1> DEFINE n == Cardinality(S)
             Before(x) == {y \in S : <<y, x>> \in R}
             r == [x \in S |-> Rank(S, R, x)]
             s == InOrder(S, R)
  <1>1. n \in Nat
    BY FS_CardinalityType
  <1>2. ASSUME NEW x \in S
        PROVE  /\ IsFiniteSet(Before(x)) /\ Cardinality(Before(x)) \in Nat
               /\ Cardinality(Before(x)) < n
    <2>1. Before(x) \in SUBSET (S \ {x})
      BY DEF Orders
    <2>2. IsFiniteSet(S \ {x}) /\ Cardinality(S \ {x}) = n - 1
      BY FS_RemoveElement
    <2>3. IsFiniteSet(Before(x)) /\ Cardinality(Before(x)) <= Cardinality(S \ {x})
      BY <2>1, <2>2, FS_Subset
    <2>4. Cardinality(Before(x)) \in Nat
      BY <2>3, FS_CardinalityType
    <2> QED
      BY <1>1, <2>2, <2>3, <2>4
  <1>3. ASSUME NEW x \in S, NEW y \in S, <<x, y>> \in R
        PROVE  Cardinality(Before(x)) < Cardinality(Before(y))
    <2>1. Before(x) \cup {x} \in SUBSET Before(y) /\ x \notin Before(x)
      BY <1>3 DEF Orders
    <2>2. Cardinality(Before(x) \cup {x}) = Cardinality(Before(x)) + 1
      BY <1>2, <2>1, FS_AddElement
    <2>3. Cardinality(Before(x) \cup {x}) <= Cardinality(Before(y))
      BY <1>2, <2>1, FS_Subset
    <2> QED
      BY <1>2, <2>2, <2>3
  <1>4. \A x \in S : r[x] = Cardinality(Before(x)) /\ Rank(S, R, x) = r[x]
    BY DEF Rank
  <1> HIDE DEF Before
  <1>5. \A x, y \in S : <<x, y>> \in R => r[x] < r[y]
    BY <1>3, <1>4
  <1>6. r \in [S -> 0 .. n - 1]
    BY <1>1, <1>2, <1>4
  <1>7. \A x, y \in S : r[x] = r[y] => x = y
    <2>1. \A x \in S : r[x] \in Int
      BY <1>1, <1>6
    <2>2. \A a, b \in Int : a < b => a # b
      OBVIOUS
    <2> HIDE DEF r
    <2> QED
      BY <1>5, <2>1, <2>2, Zenon DEF Orders
  <1>8. r \in Injection(S, 0 .. n - 1)
    <2>1. DOMAIN r = S
      BY <1>6
    <2> HIDE DEF r, n
    <2> QED
      BY <1>6, <1>7, <2>1, Zenon DEF Injection, IsInjective
  <1>9. IsFiniteSet(0 .. n - 1) /\ Cardinality(0 .. n - 1) = n
    BY <1>1, FS_Interval
  <1>10. r \in Surjection(S, 0 .. n - 1)
    BY <1>8, <1>9, FS_Injection
  <1>11. \A k \in 0 .. n - 1 : \E x \in S : r[x] = k
    BY <1>10 DEF Surjection
  <1>12. \A i \in 1 .. n : s[i] \in S /\ r[s[i]] = i - 1
    <2> SUFFICES ASSUME NEW i \in 1 .. n PROVE s[i] \in S /\ r[s[i]] = i - 1
      OBVIOUS
    <2>1. i - 1 \in 0 .. n - 1
      BY <1>1
    <2>2. \E x \in S : Rank(S, R, x) = i - 1
      BY <1>4, <1>11, <2>1
    <2>3. s[i] = CHOOSE x \in S : Rank(S, R, x) = i - 1
      BY DEF InOrder
    <2>4. s[i] \in S /\ Rank(S, R, s[i]) = i - 1
      BY <2>2, <2>3
    <2> QED
      BY <1>4, <2>4
  <1>13. s \in [1 .. n -> S]
    <2>1. s = [i \in 1 .. n |-> s[i]]
      BY DEF InOrder
    <2> QED
      BY <1>12, <2>1
  <1> HIDE DEF r, s
  <1>14. \A i, j \in 1 .. n : s[i] = s[j] => i = j
    BY <1>1, <1>12
  <1>15. \A x \in S : \E i \in 1 .. n : s[i] = x
    <2> SUFFICES ASSUME NEW x \in S PROVE \E i \in 1 .. n : s[i] = x
      OBVIOUS
    <2>1. r[x] + 1 \in 1 .. n /\ (r[x] + 1) - 1 = r[x]
      BY <1>1, <1>6
    <2>2. s[r[x] + 1] = x
      BY <1>7, <1>12, <2>1
    <2> QED
      BY <2>1, <2>2
  <1>16. \A i, j \in 1 .. n : i < j => <<s[i], s[j]>> \in R
    <2> SUFFICES ASSUME NEW i \in 1 .. n, NEW j \in 1 .. n, i < j PROVE <<s[i], s[j]>> \in R
      OBVIOUS
    <2>1. s[i] \in S /\ s[j] \in S /\ r[s[i]] = i - 1 /\ r[s[j]] = j - 1
      BY <1>12
    <2>2. s[i] # s[j] /\ ~(r[s[j]] < r[s[i]])
      BY <1>1, <2>1
    <2> QED
      BY <1>5, <2>1, <2>2 DEF Orders
  <1> QED
    BY <1>13, <1>14, <1>15, <1>16 DEF s

\* The order of numbers is total.
LEMMA AscendingOrders == ASSUME NEW S \in SUBSET Int PROVE Orders(Ascending(S), S)
  BY DEF Orders, Ascending

-----------------------------------------------------------------------------
(* The token bucket.                                                         *)

\* Elapsed time times the refill rate is a natural number.
LEMMA ProductType ==
    ASSUME NEW m \in Nat, NEW n \in Nat
    PROVE  m * n \in Nat
  OBVIOUS

\* The level that available_withdrawal reports is a u64 within the capacity.
LEMMA LevelType ==
    ASSUME NEW b \in Bucket, NEW t \in Nat
    PROVE  Level(b, t) \in U64 /\ Level(b, t) <= b.capacity
  <1>1. /\ b.available \in Nat /\ b.capacity \in U64 /\ b.refill_rate_per_ms \in Nat
        /\ b.last_updated_ms \in Nat
    BY U64MaxAssumption DEF Bucket, U64
  <1>2. ElapsedMs(b.last_updated_ms, t) \in Nat
    BY <1>1 DEF ElapsedMs
  <1> DEFINE p == ElapsedMs(b.last_updated_ms, t) * b.refill_rate_per_ms
  <1>3. p \in Nat
    BY <1>1, <1>2, ProductType
  <1>4. Level(b, t) = MinOf(b.available + p, b.capacity)
    BY DEF Level
  <1> HIDE DEF p
  <1> QED
    BY <1>1, <1>3, <1>4, U64MaxAssumption DEF MinOf, U64

\* The level of the next millisecond, from the level of this one.
LEMMA LevelNext ==
    ASSUME NEW b \in Bucket, NEW t \in Nat, b.last_updated_ms <= t
    PROVE  Level(b, t + 1) = MinOf(Level(b, t) + b.refill_rate_per_ms, b.capacity)
  <1>1. /\ b.available \in Nat /\ b.capacity \in Nat /\ b.refill_rate_per_ms \in Nat
        /\ b.last_updated_ms \in Nat
    BY U64MaxAssumption DEF Bucket, U64
  <1> DEFINE d == t - b.last_updated_ms
             r == b.refill_rate_per_ms
  <1>2. d \in Nat /\ ElapsedMs(b.last_updated_ms, t) = d
        /\ ElapsedMs(b.last_updated_ms, t + 1) = d + 1
    BY <1>1 DEF ElapsedMs
  <1>3. (d + 1) * r = d * r + r /\ d * r \in Nat
    BY <1>1, <1>2
  <1> HIDE DEF d
  <1>4. /\ Level(b, t) = MinOf(b.available + d * r, b.capacity)
        /\ Level(b, t + 1) = MinOf(b.available + (d * r + r), b.capacity)
    BY <1>2, <1>3 DEF Level
  <1> DEFINE p == d * r
  <1>5. p \in Nat /\ r \in Nat
    BY <1>1, <1>3
  <1>6. MinOf(b.available + (p + r), b.capacity)
          = MinOf(MinOf(b.available + p, b.capacity) + r, b.capacity)
    <2> HIDE DEF p, r
    <2> QED
      BY <1>1, <1>5 DEF MinOf
  <1> QED
    BY <1>4, <1>6

\* One millisecond raises the level by at most the refill rate.
LEMMA LevelStep ==
    ASSUME NEW b \in Bucket, NEW t \in Nat, b.last_updated_ms <= t
    PROVE  Level(b, t + 1) <= Level(b, t) + b.refill_rate_per_ms
  <1>1. /\ Level(b, t) \in Nat /\ b.capacity \in Nat /\ b.refill_rate_per_ms \in Nat
    BY LevelType, U64MaxAssumption DEF Bucket, U64
  <1>2. Level(b, t + 1) = MinOf(Level(b, t) + b.refill_rate_per_ms, b.capacity)
    BY LevelNext
  <1> QED
    BY <1>1, <1>2 DEF MinOf

\* refill brings the stored level up to what available_withdrawal reports and
\* leaves the configuration alone.
LEMMA RefillFacts ==
    ASSUME NEW b \in Bucket, NEW t \in Nat,
           b.last_updated_ms <= t, b.available <= b.capacity
    PROVE  /\ Refill(b, t) \in Bucket
           /\ Refill(b, t).available = Level(b, t)
           /\ Refill(b, t).last_updated_ms = t
           /\ Refill(b, t).capacity = b.capacity
           /\ Refill(b, t).refill_rate_per_ms = b.refill_rate_per_ms
           /\ Refill(b, t).enabled = b.enabled
  <1>1. Level(b, t) \in U64
    BY LevelType
  <1>2. CASE b.last_updated_ms < t
    <2>1. Refill(b, t) = [b EXCEPT !.available = Level(b, t), !.last_updated_ms = t]
      BY <1>2 DEF Refill, ElapsedMs, Bucket
    <2> QED
      BY <2>1, <1>1 DEF Bucket
  <1>3. CASE b.last_updated_ms = t
    <2>1. b.available \in Nat /\ b.capacity \in Nat /\ b.refill_rate_per_ms \in Nat
      BY U64MaxAssumption DEF Bucket, U64
    <2>2. Refill(b, t) = b
      BY <1>3 DEF Refill, ElapsedMs
    <2>3. Level(b, t) = MinOf(b.available + 0 * b.refill_rate_per_ms, b.capacity)
      BY <1>3 DEF Level, ElapsedMs
    <2>4. Level(b, t) = b.available
      BY <2>1, <2>3 DEF MinOf
    <2> QED
      BY <1>3, <2>2, <2>4
  <1> QED
    BY <1>2, <1>3 DEF Bucket

\* A bucket that was just updated reports what it stores.
LEMMA LevelNow ==
    ASSUME NEW b \in Bucket, b.available <= b.capacity
    PROVE  Level(b, b.last_updated_ms) = b.available
  <1>1. b.available \in Nat /\ b.capacity \in Nat /\ b.refill_rate_per_ms \in Nat
        /\ b.last_updated_ms \in Nat
    BY U64MaxAssumption DEF Bucket, U64
  <1>2. Level(b, b.last_updated_ms) = MinOf(b.available + 0 * b.refill_rate_per_ms, b.capacity)
    BY <1>1 DEF Level, ElapsedMs
  <1> QED
    BY <1>1, <1>2 DEF MinOf

\* refill returns a bucket, also when the clock stands behind its last update.
LEMMA RefillType ==
    ASSUME NEW b \in Bucket, NEW t \in Nat
    PROVE  /\ Refill(b, t) \in Bucket
           /\ Refill(b, t).capacity = b.capacity
  <1>1. Level(b, t) \in U64
    BY LevelType
  <1>2. Refill(b, t) = b
          \/ Refill(b, t) = [b EXCEPT !.available = Level(b, t), !.last_updated_ms = t]
    BY DEF Refill
  <1>3. [b EXCEPT !.available = Level(b, t), !.last_updated_ms = t] \in Bucket
    BY <1>1 DEF Bucket
  <1>4. [b EXCEPT !.available = Level(b, t), !.last_updated_ms = t].capacity = b.capacity
    BY DEF Bucket
  <1> QED
    BY <1>2, <1>3, <1>4, Zenon

\* new returns a bucket.
LEMMA NewBucketType ==
    ASSUME NEW t \in Nat
    PROVE  NewBucket(t) \in Bucket
  BY U64MaxAssumption DEF NewBucket, Bucket, U64

\* update_config returns a bucket for u64 arguments.
LEMMA UpdateConfigType ==
    ASSUME NEW b \in Bucket, NEW c \in U64, NEW q \in U64, NEW t \in Nat
    PROVE  UpdateConfig(b, c, q, t) \in Bucket
  <1> DEFINE r == Refill(b, t)
             v == MinOf(r.available, c)
  <1>1. r \in Bucket
    BY RefillType
  <1>2. v \in U64
    BY <1>1 DEF MinOf, Bucket
  <1>3. UpdateConfig(b, c, q, t)
          = [r EXCEPT !.capacity = c, !.refill_rate_per_ms = q, !.available = v]
    BY DEF UpdateConfig
  <1> HIDE DEF r, v
  <1> QED
    BY <1>1, <1>2, <1>3 DEF Bucket

\* enable returns a bucket.
LEMMA EnableType ==
    ASSUME NEW b \in Bucket, NEW t \in Nat
    PROVE  Enable(b, t) \in Bucket
  <1>1. Refill(b, t) \in Bucket
    BY RefillType
  <1> QED
    BY <1>1 DEF Enable, Bucket

\* record_deposit returns a bucket for a u64 amount.
LEMMA RecordDepositType ==
    ASSUME NEW b \in Bucket, NEW a \in U64, NEW t \in Nat
    PROVE  RecordDeposit(b, a, t) \in Bucket
  <1> DEFINE r == Refill(b, t)
             v == MinOf(r.available + a, b.capacity)
  <1>1. r \in Bucket
    BY RefillType
  <1>2. v \in U64
    <2>1. r.available \in U64 /\ b.capacity \in U64
      BY <1>1 DEF Bucket
    <2> HIDE DEF r
    <2> QED
      BY <2>1, U64MaxAssumption DEF MinOf, U64
  <1>3. [r EXCEPT !.available = v] \in Bucket
    BY <1>1, <1>2 DEF Bucket
  <1>4. [r EXCEPT !.available = MinOf(@ + a, b.capacity)] = [r EXCEPT !.available = v]
    BY <1>1 DEF Bucket
  <1>5. RecordDeposit(b, a, t) = b \/ RecordDeposit(b, a, t) = [r EXCEPT !.available = v]
    BY <1>4, Zenon DEF RecordDeposit
  <1> HIDE DEF r, v
  <1> QED
    BY <1>3, <1>5

\* consume, where its assertions hold, returns a bucket: its subtraction does
\* not underflow.
LEMMA ConsumeType ==
    ASSUME NEW b \in Bucket, NEW a \in Nat, NEW t \in Nat, ConsumeOK(b, a, t)
    PROVE  Consume(b, a, t) \in Bucket
  <1> DEFINE r == Refill(b, t)
  <1>1. r \in Bucket
    BY RefillType
  <1>2. CASE b.enabled /\ a # 0
    <2>1. a <= r.available
      BY <1>2 DEF ConsumeOK
    <2>2. Consume(b, a, t) = [r EXCEPT !.available = @ - a]
      BY <1>2 DEF Consume
    <2> HIDE DEF r
    <2>3. r.available - a \in U64
      BY <1>1, <2>1, U64MaxAssumption DEF Bucket, U64
    <2> QED
      BY <1>1, <2>2, <2>3 DEF Bucket
  <1>3. CASE ~(b.enabled /\ a # 0)
    BY <1>3 DEF Consume
  <1> QED
    BY <1>2, <1>3

\* available_withdrawal returns a u64.
LEMMA AvailableType ==
    ASSUME NEW b \in Bucket, NEW t \in Nat
    PROVE  AvailableWithdrawal(b, t) \in U64
  BY LevelType, U64MaxAssumption DEF AvailableWithdrawal, U64

\* consume accepts whatever available_withdrawal reports at the same clock reading,
\* also for a bucket whose level is above its capacity.
LEMMA AvailableIsConsumable ==
    ASSUME NEW b \in Bucket, NEW t \in Nat, NEW a \in Nat, a <= AvailableWithdrawal(b, t)
    PROVE  ConsumeOK(b, a, t)
  <1> SUFFICES ASSUME b.enabled, a # 0
               PROVE  a <= b.capacity /\ a <= Refill(b, t).available
    BY DEF ConsumeOK
  <1>1. /\ b.available \in Nat /\ b.capacity \in Nat /\ b.refill_rate_per_ms \in Nat
        /\ b.last_updated_ms \in Nat
    BY U64MaxAssumption DEF Bucket, U64
  <1>2. a <= Level(b, t) /\ Level(b, t) \in Nat /\ Level(b, t) <= b.capacity
    BY LevelType, U64MaxAssumption DEF AvailableWithdrawal, U64
  <1>3. CASE ElapsedMs(b.last_updated_ms, t) > 0
    <2>1. Refill(b, t).available = Level(b, t)
      BY <1>3 DEF Refill, Bucket
    <2> QED
      BY <1>1, <1>2, <2>1
  <1>4. CASE ~(ElapsedMs(b.last_updated_ms, t) > 0)
    <2>1. ElapsedMs(b.last_updated_ms, t) = 0
      BY <1>1, <1>4 DEF ElapsedMs
    <2>2. Level(b, t) = MinOf(b.available + 0 * b.refill_rate_per_ms, b.capacity)
      BY <2>1 DEF Level
    <2>3. Level(b, t) <= b.available
      BY <1>1, <2>2 DEF MinOf
    <2>4. Refill(b, t) = b
      BY <1>4 DEF Refill
    <2> QED
      BY <1>1, <1>2, <2>3, <2>4
  <1> QED
    BY <1>3, <1>4
=============================================================================
