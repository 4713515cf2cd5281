----------------------------- MODULE Arithmetic -----------------------------
(***************************************************************************)
(* Facts about remainders and powers of two that the proofs about rings,   *)
(* phases, address spaces and registers use, and induction over the        *)
(* natural numbers, stated of a set of them because no backend takes an    *)
(* operator for a property.                                                *)
(***************************************************************************)
EXTENDS Integers, FiniteSetTheorems, TLAPS

(* A set of numbers has a least member: the intervals below them are well  *)
(* founded by inclusion.                                                   *)
LEMMA LeastMember ==
  ASSUME NEW T \in SUBSET Nat, T # {}
  PROVE  \E m \in T : \A n \in T : m <= n
<1> DEFINE Below(n) == 0 .. n - 1
           U == {Below(n) : n \in T}
<1>1. IsWellFoundedOn(StrictSubsetOrdering(Nat), FiniteSubsetsOf(Nat))
  BY FS_StrictSubsetOrderingWellFounded
<1>2. U \subseteq FiniteSubsetsOf(Nat) /\ U # {}
  <2>1. \A n \in Nat : Below(n) \in SUBSET Nat /\ IsFiniteSet(Below(n))
    BY FS_Interval
  <2> QED BY <2>1 DEF FiniteSubsetsOf
<1>3. PICK x \in U : \A y \in U : <<y, x>> \notin StrictSubsetOrdering(Nat)
  <2> HIDE DEF U
  <2> QED BY <1>1, <1>2, WFMin
<1>4. PICK m \in T : x = Below(m)
  BY <1>3
<1>5. ASSUME NEW n \in T PROVE m <= n
  <2> SUFFICES ASSUME n < m PROVE FALSE
    OBVIOUS
  <2>1. Below(n) \subseteq Below(m) /\ n \in Below(m) /\ n \notin Below(n)
    OBVIOUS
  <2>2. Below(n) \in SUBSET Nat /\ Below(m) \in SUBSET Nat
    OBVIOUS
  <2>3. <<Below(n), Below(m)>> \in StrictSubsetOrdering(Nat)
    <3> HIDE DEF Below
    <3> QED BY <2>1, <2>2 DEF StrictSubsetOrdering
  <2> QED BY <1>3, <1>4, <2>3
<1> QED BY <1>5

(* What holds of 0, and of n + 1 wherever it holds of n, holds of all.     *)
LEMMA InductionSet ==
  ASSUME NEW T \in SUBSET Nat, 0 \in T, \A n \in T : n + 1 \in T
  PROVE  T = Nat
<1> SUFFICES ASSUME Nat \ T # {} PROVE FALSE
  OBVIOUS
<1>1. PICK m \in Nat \ T : \A n \in Nat \ T : m <= n
  BY LeastMember
<1>2. m - 1 \in Nat
  BY <1>1
<1>3. m - 1 \in T
  BY <1>1, <1>2
<1> QED BY <1>1, <1>3

(* A step can be repeated any number of times: the sequence of states that *)
(* a recursive function over 0 .. n runs through exists.                   *)
Runs(f, n, start, step) == f[0] = start /\ \A k \in 1 .. n : f[k] = step[f[k - 1]]

LEMMA Iteration ==
  ASSUME NEW S, NEW start \in S, NEW step \in [S -> S], NEW n \in Nat
  PROVE  \E f \in [0 .. n -> S] : Runs(f, n, start, step)
<1> DEFINE T == {m \in Nat : \E f \in [0 .. m -> S] : Runs(f, m, start, step)}
<1> USE DEF Runs
<1>1. 0 \in T
  <2> DEFINE f == [k \in 0 .. 0 |-> start]
  <2>1. f \in [0 .. 0 -> S] /\ Runs(f, 0, start, step)
    OBVIOUS
  <2> QED BY <2>1
<1>2. ASSUME NEW m \in T PROVE m + 1 \in T
  <2>1. PICK f \in [0 .. m -> S] : Runs(f, m, start, step)
    OBVIOUS
  <2> DEFINE g == [k \in 0 .. m + 1 |-> IF k = m + 1 THEN step[f[m]] ELSE f[k]]
  <2>2. m \in Nat /\ f[m] \in S
    OBVIOUS
  <2>3. g \in [0 .. m + 1 -> S]
    BY <2>2
  <2>4. \A k \in 0 .. m : g[k] = f[k] /\ k # m + 1
    BY <2>2
  <2>5. g[m + 1] = step[f[m]]
    BY <2>2
  <2> HIDE DEF g
  <2>6. g[0] = start
    BY <2>1, <2>2, <2>4
  <2>7. ASSUME NEW k \in 1 .. m + 1 PROVE g[k] = step[g[k - 1]]
    <3>1. CASE k = m + 1
      BY <2>2, <2>4, <2>5, <3>1
    <3>2. CASE k # m + 1
      <4>1. k \in 1 .. m /\ k \in 0 .. m /\ k - 1 \in 0 .. m
        BY <2>2, <3>2
      <4> QED BY <2>1, <2>4, <4>1
    <3> QED BY <3>1, <3>2
  <2> QED BY <2>2, <2>3, <2>6, <2>7
<1> HIDE DEF T
<1>3. T = Nat
  BY <1>1, <1>2, InductionSet DEF T
<1> QED BY <1>3 DEF T

(* The same for steps that differ, one for each place of a sequence.       *)
RunsThrough(f, n, start, steps) ==
  f[0] = start /\ \A k \in 1 .. n : f[k] = steps[k][f[k - 1]]

LEMMA Traversal ==
  ASSUME NEW S, NEW start \in S, NEW n \in Nat, NEW steps \in [1 .. n -> [S -> S]]
  PROVE  \E f \in [0 .. n -> S] : RunsThrough(f, n, start, steps)
<1> DEFINE T == {m \in Nat : m <= n => \E f \in [0 .. m -> S] : RunsThrough(f, m, start, steps)}
<1> USE DEF RunsThrough
<1>1. 0 \in T
  <2> DEFINE f == [k \in 0 .. 0 |-> start]
  <2>1. f \in [0 .. 0 -> S] /\ RunsThrough(f, 0, start, steps)
    OBVIOUS
  <2> QED BY <2>1
<1>2. ASSUME NEW m \in T PROVE m + 1 \in T
  <2>1. m \in Nat /\ m + 1 \in Nat
    OBVIOUS
  <2>2. ASSUME m + 1 <= n
        PROVE  \E f \in [0 .. m + 1 -> S] : RunsThrough(f, m + 1, start, steps)
    <3>1. PICK f \in [0 .. m -> S] : RunsThrough(f, m, start, steps)
      BY <2>1, <2>2
    <3> DEFINE v == steps[m + 1][f[m]]
               g == [k \in 0 .. m + 1 |-> IF k = m + 1 THEN v ELSE f[k]]
    <3>2. m \in Nat /\ f[m] \in S /\ m + 1 \in 1 .. n
      BY <2>1, <2>2
    <3>3. v \in S
      <4>1. steps[m + 1] \in [S -> S]
        BY <3>2
      <4> QED BY <3>2, <4>1
    <3> HIDE DEF v
    <3>4. g \in [0 .. m + 1 -> S]
      BY <3>2, <3>3
    <3>5. \A k \in 0 .. m : g[k] = f[k] /\ k # m + 1
      BY <3>2
    <3>6. g[m + 1] = v
      BY <3>2
    <3> HIDE DEF g
    <3>7. g[0] = start
      BY <3>1, <3>2, <3>5
    <3>8. ASSUME NEW k \in 1 .. m + 1 PROVE g[k] = steps[k][g[k - 1]]
      <4>1. CASE k = m + 1
        BY <3>2, <3>5, <3>6, <4>1 DEF v
      <4>2. CASE k # m + 1
        <5>1. k \in 1 .. m /\ k \in 0 .. m /\ k - 1 \in 0 .. m
          BY <3>2, <4>2
        <5> QED BY <3>1, <3>5, <5>1
      <4> QED BY <4>1, <4>2
    <3> QED BY <3>2, <3>4, <3>7, <3>8
  <2> QED BY <2>1, <2>2
<1> HIDE DEF T
<1>3. T = Nat
  BY <1>1, <1>2, InductionSet DEF T
<1> QED BY <1>3 DEF T

-----------------------------------------------------------------------------
(* Division with remainder.                                                *)
LEMMA DivMod ==
  ASSUME NEW x \in Nat, NEW d \in Nat \ {0}
  PROVE  x \div d \in Nat /\ x % d \in 0 .. d - 1 /\ x = d * (x \div d) + (x % d)
BY SMT

(* Of negative numbers too: the remainder is never negative.               *)
LEMMA WholeDivMod ==
  ASSUME NEW x \in Int, NEW d \in Nat \ {0}
  PROVE  x \div d \in Int /\ x % d \in 0 .. d - 1 /\ x = d * (x \div d) + (x % d)
BY SMT

(* A multiple of the divisor and a rest below it are its only such parts.  *)
LEMMA WholeUnique ==
  ASSUME NEW x \in Int, NEW d \in Nat \ {0}, NEW k \in Int, NEW r \in 0 .. d - 1,
         x = d * k + r
  PROVE  x \div d = k /\ x % d = r
<1> DEFINE q == x \div d
           m == x % d
<1>1. q \in Int /\ m \in 0 .. d - 1 /\ x = d * q + m
  BY WholeDivMod
<1>2. d * (k - q) = m - r
  BY <1>1, SMT
<1>3. k - q < 1
  <2> SUFFICES ASSUME k - q >= 1 PROVE FALSE
    BY <1>1, SMT
  <2> DEFINE n == k - q
  <2>1. d * n >= d
    <3>1. n \in Int /\ n >= 1
      BY <1>1
    <3> HIDE DEF n
    <3> QED BY <3>1, SMT
  <2> QED BY <1>1, <1>2, <2>1, SMT
<1>4. k - q > -1
  <2> SUFFICES ASSUME k - q <= -1 PROVE FALSE
    BY <1>1, SMT
  <2> DEFINE n == k - q
  <2>1. d * n <= 0 - d
    <3>1. n \in Int /\ n <= -1
      BY <1>1
    <3> HIDE DEF n
    <3> QED BY <3>1, SMT
  <2> QED BY <1>1, <1>2, <2>1, SMT
<1>5. k = q
  BY <1>1, <1>3, <1>4, SMT
<1> QED BY <1>1, <1>5, SMT

LEMMA DivUnique ==
  ASSUME NEW x \in Nat, NEW d \in Nat \ {0}, NEW k \in Int, NEW r \in 0 .. d - 1,
         x = d * k + r
  PROVE  x \div d = k /\ x % d = r
BY WholeUnique, x \in Int

LEMMA ModUnique ==
  ASSUME NEW x \in Nat, NEW d \in Nat \ {0}, NEW k \in Int, NEW r \in 0 .. d - 1,
         x = d * k + r
  PROVE  x % d = r
BY DivUnique

LEMMA ModSmall ==
  ASSUME NEW d \in Nat \ {0}, NEW x \in 0 .. d - 1
  PROVE  x % d = x
BY ModUnique, x = d * 0 + x, SMT

LEMMA ModOver ==
  ASSUME NEW d \in Nat \ {0}, NEW x \in d .. 2 * d - 1
  PROVE  x % d = x - d
<1>1. x = d * 1 + (x - d) /\ x - d \in 0 .. d - 1
  OBVIOUS
<1> QED BY <1>1, ModUnique, SMT

(* A remainder may be taken early.                                         *)
LEMMA ModPlus ==
  ASSUME NEW d \in Nat \ {0}, NEW x \in Nat, NEW y \in Nat
  PROVE  ((x % d) + y) % d = (x + y) % d
<1> DEFINE r == x % d
           z == r + y
           s == z % d
<1>1. x \div d \in Nat /\ r \in 0 .. d - 1 /\ x = d * (x \div d) + r
  BY DivMod
<1>2. z \in Nat /\ z \div d \in Nat /\ s \in 0 .. d - 1 /\ z = d * (z \div d) + s
  <2>1. r + y \in Nat
    BY <1>1
  <2> QED BY <2>1, DivMod
<1>3. x + y = d * ((x \div d) + (z \div d)) + s
  <2> DEFINE p == x \div d
             q == z \div d
  <2>1. p \in Nat /\ q \in Nat /\ s \in Nat /\ x = d * p + r /\ r + y = d * q + s /\ r \in Nat
    BY <1>1, <1>2
  <2> HIDE DEF p, q, r, s
  <2>2. d * (p + q) = d * p + d * q
    BY <2>1, SMT
  <2>3. x + y = d * (p + q) + s
    BY <2>1, <2>2, SMT
  <2> QED BY <2>3 DEF p, q
<1>4. (x + y) % d = s
  <2> DEFINE k == (x \div d) + (z \div d)
  <2>1. k \in Int /\ x + y \in Nat /\ x + y = d * k + s
    BY <1>1, <1>2, <1>3
  <2> HIDE DEF k, s
  <2> QED BY <2>1, <1>2, ModUnique DEF s
<1> QED BY <1>4

(* A number less than one turn outside wraps by one turn.                  *)
LEMMA WrapOnce ==
  ASSUME NEW d \in Nat \ {0}, NEW w \in -d .. 2 * d - 1
  PROVE  w % d = IF w < 0 THEN w + d ELSE IF w < d THEN w ELSE w - d
<1>1. CASE w < 0
  <2>1. w = d * (-1) + (w + d) /\ w + d \in 0 .. d - 1
    BY <1>1
  <2> QED BY <1>1, <2>1, WholeUnique
<1>2. CASE 0 <= w /\ w < d
  <2>1. w = d * 0 + w /\ w \in 0 .. d - 1
    BY <1>2
  <2> QED BY <1>2, <2>1, WholeUnique
<1>3. CASE w >= d
  <2>1. w = d * 1 + (w - d) /\ w - d \in 0 .. d - 1
    BY <1>3
  <2> QED BY <1>3, <2>1, WholeUnique
<1> QED BY <1>1, <1>2, <1>3

-----------------------------------------------------------------------------
(* Numbers of two digits to the base s, and products.                      *)

(* A pair of registers compares as its high register does: a low register  *)
(* cannot make up for it.                                                  *)
LEMMA HighDecides ==
  ASSUME NEW s \in Nat \ {0}, NEW l \in 0 .. s - 1, NEW h \in Int
  PROVE  (l + h * s >= 0) = (h >= 0)
<1>1. CASE h >= 0
  <2>1. h * s >= 0
    BY <1>1, SMT
  <2> QED BY <1>1, <2>1
<1>2. CASE h < 0
  <2>1. h * s <= -s
    BY <1>2, SMT
  <2>2. h * s \in Int
    OBVIOUS
  <2> DEFINE p == h * s
  <2>3. p \in Int /\ p <= -s
    BY <2>1, <2>2
  <2> HIDE DEF p
  <2>4. ~(l + p >= 0)
    BY <2>3
  <2> QED BY <1>2, <2>4 DEF p
<1> QED BY <1>1, <1>2

LEMMA PairParts ==
  ASSUME NEW s \in Nat \ {0}, NEW l \in 0 .. s - 1, NEW h \in 0 .. s - 1
  PROVE  /\ l + h * s \in 0 .. s * s - 1
         /\ (l + h * s) % s = l /\ (l + h * s) \div s = h
<1>1. l + h * s \in Nat
  OBVIOUS
<1>2. l + h * s = s * h + l
  OBVIOUS
<1>3. (l + h * s) % s = l /\ (l + h * s) \div s = h
  BY <1>1, <1>2, WholeUnique
<1>4. (l + (h - s) * s >= 0) = (h - s >= 0)
  BY HighDecides
<1>5. (h - s) * s = h * s - s * s
  OBVIOUS
<1> DEFINE p == h * s
           q == s * s
<1>6. p \in Nat /\ q \in Nat /\ l + (p - q) < 0
  BY <1>4, <1>5
<1> HIDE DEF p, q
<1>7. l + p \in 0 .. q - 1
  BY <1>6
<1> QED BY <1>3, <1>7 DEF p, q

(* The high part of a number of two registers' bits fits a register.       *)
LEMMA HighPart ==
  ASSUME NEW s \in Nat \ {0}, NEW v \in 0 .. s * s - 1
  PROVE  /\ v \div s \in 0 .. s - 1 /\ v % s \in 0 .. s - 1
         /\ v = (v % s) + (v \div s) * s
<1> DEFINE l == v % s
           q == v \div s
           n == s * s
           p == q * s
           h == q - s
<1>1. v \in Int /\ 0 <= v /\ v < n /\ n \in Int
  OBVIOUS
<1>2. l \in 0 .. s - 1 /\ q \in Int /\ v = s * q + l
  BY <1>1, WholeDivMod
<1> HIDE DEF l, q
<1>3. s * q = p /\ p \in Int /\ h \in Int
  BY <1>2
<1>4. (l + p >= 0) = (q >= 0)
  BY <1>2, HighDecides
<1>5. (l + h * s >= 0) = (h >= 0)
  <2> HIDE DEF h
  <2> QED BY <1>2, <1>3, HighDecides
<1>6. h * s = p - n
  BY <1>2
<1>7. q >= 0 /\ q < s
  <2> DEFINE g == h * s
  <2> HIDE DEF g, p, n
  <2>1. g = p - n
    BY <1>6 DEF g
  <2>2. l + g < 0 /\ v = p + l
    BY <1>1, <1>2, <1>3, <2>1
  <2> QED BY <1>1, <1>2, <1>3, <1>4, <1>5, <2>2 DEF g
<1>8. q \in 0 .. s - 1 /\ v = l + p
  <2> HIDE DEF p
  <2> QED BY <1>2, <1>3, <1>7
<1> QED BY <1>2, <1>8, Zenon DEF l, q, p

(* The product of two registers fits a pair of registers.                  *)
LEMMA ProductsFit ==
  ASSUME NEW s \in Nat \ {0}, NEW a \in 0 .. s - 1, NEW b \in 0 .. s - 1
  PROVE  a * b \in 0 .. s * s - 1
<1> DEFINE p == a * s
           q == s * s
           v == a * b
<1>1. 0 + a * s \in 0 .. s * s - 1
  <2>1. 0 \in 0 .. s - 1
    OBVIOUS
  <2> QED BY <2>1, PairParts
<1>2. q \in Nat /\ p \in Nat /\ p < q
  BY <1>1
<1>3. v \in Nat /\ a * (s - b) >= 0 /\ a * (s - b) = p - v
  OBVIOUS
<1> HIDE DEF p, q, v
<1>4. v \in 0 .. q - 1
  BY <1>2, <1>3
<1> QED BY <1>4 DEF q, v

(* A multiple of d smaller than d is zero.                                 *)
LEMMA NoMultiple ==
  ASSUME NEW d \in Int, NEW n \in Int, NEW m \in Int, n * d = m,
         m < (IF d < 0 THEN -d ELSE d), -m < (IF d < 0 THEN -d ELSE d)
  PROVE  n = 0 /\ m = 0
<1>1. ~(n >= 1)
  <2> SUFFICES ASSUME n >= 1 PROVE FALSE
    OBVIOUS
  <2>1. CASE d >= 0
    <3>1. n * d >= d
      BY <2>1, SMT
    <3> QED BY <2>1, <3>1
  <2>2. CASE d < 0
    <3>1. n * d <= d
      BY <2>2, SMT
    <3> QED BY <2>2, <3>1
  <2> QED BY <2>1, <2>2
<1>2. ~(n <= -1)
  <2> SUFFICES ASSUME n <= -1 PROVE FALSE
    OBVIOUS
  <2>1. CASE d >= 0
    <3>1. n * d <= -d
      BY <2>1, SMT
    <3> QED BY <2>1, <3>1
  <2>2. CASE d < 0
    <3>1. n * d >= -d
      BY <2>2, SMT
    <3> QED BY <2>2, <3>1
  <2> QED BY <2>1, <2>2
<1>3. n = 0
  BY <1>1, <1>2
<1> QED BY <1>3

-----------------------------------------------------------------------------
(* Powers of two.                                                          *)

(* A power of two counts the subsets of a set.                             *)
LEMMA PowerCounts ==
  ASSUME NEW n \in Nat
  PROVE  /\ IsFiniteSet(SUBSET (0 .. n - 1))
         /\ Cardinality(SUBSET (0 .. n - 1)) = 2^n
         /\ 2^n \in Nat
<1>1. IsFiniteSet(0 .. n - 1) /\ Cardinality(0 .. n - 1) = n
  <2>1. 0 \in Int /\ n - 1 \in Int
    OBVIOUS
  <2>2. IsFiniteSet(0 .. n - 1)
        /\ Cardinality(0 .. n - 1) = IF 0 > n - 1 THEN 0 ELSE n - 1 - 0 + 1
    BY <2>1, FS_Interval
  <2> QED BY <2>2
<1>2. IsFiniteSet(SUBSET (0 .. n - 1)) /\ Cardinality(SUBSET (0 .. n - 1)) = 2^n
  BY <1>1, FS_SUBSET
<1> QED BY <1>2, FS_CardinalityType

(* With one element more there are twice as many: each with it or without. *)
LEMMA PowerDoubles ==
  ASSUME NEW n \in Nat
  PROVE  2^(n + 1) = 2 * 2^n
<1> DEFINE S == 0 .. n - 1
           Without == SUBSET S
           With == {A \cup {n} : A \in Without}
<1>1. 0 .. (n + 1) - 1 = S \cup {n} /\ n \notin S /\ n + 1 \in Nat
  OBVIOUS
<1>2. /\ IsFiniteSet(Without) /\ Cardinality(Without) = 2^n /\ 2^n \in Nat
      /\ Cardinality(SUBSET (S \cup {n})) = 2^(n + 1)
  BY <1>1, PowerCounts
<1> HIDE DEF S
<1>3. SUBSET (S \cup {n}) = Without \cup With
  <2>1. ASSUME NEW A \in SUBSET (S \cup {n}) PROVE A \in Without \cup With
    <3>1. CASE n \in A
      <4>1. A \ {n} \in Without /\ A = (A \ {n}) \cup {n}
        BY <3>1
      <4> QED BY <4>1
    <3>2. CASE n \notin A
      BY <3>2
    <3> QED BY <3>1, <3>2
  <2>2. Without \cup With \subseteq SUBSET (S \cup {n})
    OBVIOUS
  <2> QED BY <2>1, <2>2
<1>4. Without \cap With = {}
  BY <1>1
<1>5. ExistsBijection(Without, With)
  <2> DEFINE f == [A \in Without |-> A \cup {n}]
  <2>1. f \in [Without -> With]
    OBVIOUS
  <2>2. ASSUME NEW A \in Without, NEW B \in Without, f[A] = f[B]
        PROVE  A = B
    <3>1. A \cup {n} = B \cup {n} /\ n \notin A /\ n \notin B
      BY <1>1, <2>2
    <3> QED BY <3>1
  <2>3. f \in Injection(Without, With)
    BY <2>1, <2>2, Zenon DEF Injection, IsInjective
  <2>4. \A B \in With : \E A \in Without : f[A] = B
    OBVIOUS
  <2>5. f \in Surjection(Without, With)
    BY <2>1, <2>4, Zenon DEF Surjection
  <2> QED BY <2>3, <2>5, Zenon DEF Bijection, ExistsBijection
<1> HIDE DEF Without, With
<1>6. IsFiniteSet(With) /\ Cardinality(With) = 2^n
  BY <1>2, <1>5, FS_Bijection
<1>7. Cardinality(Without \cup With) = Cardinality(Without) + Cardinality(With) - Cardinality({})
  BY <1>2, <1>4, <1>6, FS_Union
<1>8. Cardinality({}) = 0
  BY FS_EmptySet
<1>9. Cardinality(Without \cup With) = 2^(n + 1)
  BY <1>2, <1>3, Zenon
<1> DEFINE p == 2^n
           q == 2^(n + 1)
<1>10. p \in Nat /\ q = p + p - 0
  <2>1. 2^(n + 1) = 2^n + 2^n - 0
    BY <1>2, <1>6, <1>7, <1>8, <1>9, Zenon
  <2> QED BY <1>2, <2>1
<1> HIDE DEF p, q
<1>11. q = 2 * p
  BY <1>10
<1> QED BY <1>11 DEF p, q

(* A power of two is positive.                                             *)
LEMMA PowerPositive ==
  \A n \in Nat : 2^n \in Nat \ {0}
<1> DEFINE T == {n \in Nat : 2^n \in Nat \ {0}}
<1>1. 0 \in T
  OBVIOUS
<1>2. ASSUME NEW n \in T PROVE n + 1 \in T
  <2>1. n \in Nat /\ 2^n \in Nat \ {0} /\ n + 1 \in Nat
    OBVIOUS
  <2>2. 2^(n + 1) = 2 * 2^n
    BY <2>1, PowerDoubles
  <2> QED BY <2>1, <2>2
<1> HIDE DEF T
<1>3. T = Nat
  BY <1>1, <1>2, InductionSet DEF T
<1> QED BY <1>3 DEF T
=============================================================================
