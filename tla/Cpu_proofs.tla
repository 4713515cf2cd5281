----------------------------- MODULE Cpu_proofs -----------------------------
(***************************************************************************)
(* Proofs about CpuAlu: the idioms of the arithmetic unit compute what     *)
(* their authors rely on, for registers of any width and for any flags the *)
(* program starts with.                                                    *)
(*                                                                         *)
(* What a program has computed follows from what each of its instructions  *)
(* did to the registers and flags that the one before it left; so the      *)
(* inductive invariant says that there is such a run of the program so     *)
(* far, from the registers it was loaded with.  Every other lemma is about *)
(* one instruction, or the arithmetic of a few in a row.                   *)
(***************************************************************************)
EXTENDS CpuAlu, Arithmetic

-----------------------------------------------------------------------------
(* What an instruction leaves is a register file, a flag word and a fate.  *)

(* The sizes: a register has a whole number of low nibbles.                *)
LEMMA Sizes ==
  /\ Size \in Nat /\ Top \in Nat /\ Size = 2 * Top /\ Size = Top + Top
  /\ Top % 16 = 0 /\ Top >= 16
<1> DEFINE b == RegisterBits
<1>1. b \in Nat /\ b > 4
  BY AluAssumption
<1>2. \A k \in {1, 2, 3, 4, 5} : b - k \in Nat /\ b - k + 1 = b - (k - 1)
  BY <1>1
<1>3. \A k \in {1, 2, 3, 4, 5} : 2^(b - (k - 1)) = 2 * 2^(b - k)
  <2> TAKE k \in {1, 2, 3, 4, 5}
  <2>1. 2^(b - k + 1) = 2 * 2^(b - k)
    BY <1>2, PowerDoubles
  <2> QED BY <1>2, <2>1
<1> DEFINE v == 2^(b - 5)
<1>4. v \in Nat \ {0}
  BY <1>2, PowerPositive
<1>5. 2^(b - 0) = 2 * 2^(b - 1) /\ 2^(b - 1) = 2 * 2^(b - 2) /\ 2^(b - 2) = 2 * 2^(b - 3)
      /\ 2^(b - 3) = 2 * 2^(b - 4) /\ 2^(b - 4) = 2 * v
  <2>1. 2^(b - (1 - 1)) = 2 * 2^(b - 1)
    BY <1>3
  <2>2. 2^(b - (2 - 1)) = 2 * 2^(b - 2)
    BY <1>3
  <2>3. 2^(b - (3 - 1)) = 2 * 2^(b - 3)
    BY <1>3
  <2>4. 2^(b - (4 - 1)) = 2 * 2^(b - 4)
    BY <1>3
  <2>5. 2^(b - (5 - 1)) = 2 * 2^(b - 5)
    BY <1>3
  <2> QED BY <2>1, <2>2, <2>3, <2>4, <2>5
<1>6. b - 0 = b
  BY <1>1
<1>7. Top = 16 * v /\ Size = 32 * v
  <2> HIDE DEF v
  <2> QED BY <1>4, <1>5, <1>6 DEF Top, Size
<1> HIDE DEF v
<1>8. Top % 16 = 0
  BY <1>4, <1>7
<1> QED BY <1>4, <1>7, <1>8

States == [r : RegisterFile, f : FlagWord, fate : {"running", "trapped", "panicked"}]
Results == [r : Values, f : FlagWord]

LEMMA SizeFacts ==
  /\ Size \in Nat \ {0} /\ Top \in Nat \ {0} /\ Size = Top + Top /\ Top >= 16
  /\ Values = 0 .. Size - 1
BY Sizes DEF Values

LEMMA Modulo ==
  \A v \in Int : v % Size \in Values /\ v % PairSize \in 0 .. PairSize - 1
<1>1. Size * Size \in Nat \ {0}
  BY SizeFacts
<1> DEFINE q == Size * Size
<1>2. q \in Nat \ {0} /\ Size \in Nat \ {0}
  BY <1>1, SizeFacts
<1> HIDE DEF q
<1>3. \A v \in Int : v % Size \in Values /\ v % q \in 0 .. q - 1
  BY <1>2, SizeFacts
<1> QED BY <1>3 DEF q, PairSize

LEMMA WrapSize ==
  ASSUME NEW w \in -Size .. 2 * Size - 1
  PROVE  /\ w % Size = IF w < 0 THEN w + Size ELSE IF w < Size THEN w ELSE w - Size
         /\ w % Size \in Values
<1>1. w % Size = IF w < 0 THEN w + Size ELSE IF w < Size THEN w ELSE w - Size
  BY SizeFacts, WrapOnce
<1>2. w \in Int
  BY SizeFacts
<1> QED BY <1>1, <1>2, Modulo

(* Each flag that an operation sets takes a truth value.                   *)
LEMMA FlagSet ==
  ASSUME NEW f \in FlagWord, NEW b \in BOOLEAN
  PROVE  /\ [f EXCEPT !.carry = b] \in FlagWord
         /\ [f EXCEPT !.aux = b] \in FlagWord
         /\ [f EXCEPT !.overflow = b] \in FlagWord
BY DEF FlagWord

LEMMA ZSPTyped ==
  ASSUME NEW f \in FlagWord, NEW r
  PROVE  /\ ZSP(f, r) \in FlagWord
         /\ ZSP(f, r).zero = (r = 0) /\ ZSP(f, r).sign = (r >= Top)
         /\ ZSP(f, r).carry = f.carry /\ ZSP(f, r).aux = f.aux
         /\ ZSP(f, r).overflow = f.overflow
<1> DEFINE z == r = 0
           s == r >= Top
           p == ParityEven(r)
<1>1. z \in BOOLEAN /\ s \in BOOLEAN /\ p \in BOOLEAN
  BY DEF ParityEven
<1> HIDE DEF z, s, p
<1> DEFINE g == [f EXCEPT !.zero = z, !.sign = s, !.parity = p]
<1>3. /\ g \in FlagWord /\ g.zero = z /\ g.sign = s
      /\ g.carry = f.carry /\ g.aux = f.aux /\ g.overflow = f.overflow
  BY <1>1 DEF FlagWord
<1> QED BY <1>3 DEF ZSP, z, s, p

(* The sum of two registers and a carry, or their difference: the result   *)
(* wraps at most once, and the flags say how.                              *)
LEMMA AddFacts ==
  ASSUME NEW f \in FlagWord, NEW a \in Values, NEW b \in Values, NEW c \in {0, 1}
  PROVE  LET w == a + b + c
             e == Add(f, a, b, c)
         IN /\ e \in Results
            /\ e.r = IF w < Size THEN w ELSE w - Size
            /\ e.f.carry = (w >= Size) /\ e.f.aux = ((a % 16) + (b % 16) + c > 15)
            /\ e.f.overflow = ~SignedFits(Signed(a) + Signed(b) + c)
            /\ e.f.zero = (e.r = 0) /\ e.f.sign = (e.r >= Top)
<1> DEFINE w == a + b + c
           k == w >= Size
           x == (a % 16) + (b % 16) + c > 15
           v == ~SignedFits(Signed(a) + Signed(b) + c)
           g == [f EXCEPT !.carry = k, !.aux = x, !.overflow = v]
           r == w % Size
<1>1. w \in 0 .. 2 * Size - 1 /\ w \in -Size .. 2 * Size - 1
  BY SizeFacts
<1>2. r = (IF w < Size THEN w ELSE w - Size) /\ r \in Values
  <2>1. /\ r = IF w < 0 THEN w + Size ELSE IF w < Size THEN w ELSE w - Size
        /\ r \in Values
    BY <1>1, WrapSize, Zenon
  <2> HIDE DEF w, r
  <2> QED BY <1>1, <2>1, SizeFacts
<1>3. k \in BOOLEAN /\ x \in BOOLEAN /\ v \in BOOLEAN
  BY DEF SignedFits
<1> HIDE DEF k, x, v
<1>4. g \in FlagWord /\ g.carry = k /\ g.aux = x /\ g.overflow = v
  BY <1>3 DEF FlagWord
<1>5. Add(f, a, b, c) = [r |-> r, f |-> ZSP(g, r)]
  BY DEF Add, k, x, v
<1> HIDE DEF g, r
<1>6. /\ ZSP(g, r) \in FlagWord
      /\ ZSP(g, r).zero = (r = 0) /\ ZSP(g, r).sign = (r >= Top)
      /\ ZSP(g, r).carry = k /\ ZSP(g, r).aux = x
      /\ ZSP(g, r).overflow = v
  BY <1>4, ZSPTyped
<1>7. Add(f, a, b, c).r = r /\ Add(f, a, b, c).f = ZSP(g, r) /\ Add(f, a, b, c) \in Results
  BY <1>2, <1>5, <1>6 DEF Results
<1> HIDE DEF w
<1>8. (w >= Size) = k /\ ((a % 16) + (b % 16) + c > 15) = x
      /\ (~SignedFits(Signed(a) + Signed(b) + c)) = v
  BY DEF k, x, v
<1> QED BY <1>2, <1>6, <1>7, <1>8 DEF w

LEMMA SubFacts ==
  ASSUME NEW f \in FlagWord, NEW a \in Values, NEW b \in Values, NEW c \in {0, 1}
  PROVE  LET w == (a - b) - c
             e == Sub(f, a, b, c)
         IN /\ e \in Results
            /\ e.r = IF w < 0 THEN w + Size ELSE w
            /\ e.f.carry = (w < 0) /\ e.f.aux = ((a % 16) < (b % 16) + c)
            /\ e.f.overflow = ~SignedFits((Signed(a) - Signed(b)) - c)
            /\ e.f.zero = (e.r = 0) /\ e.f.sign = (e.r >= Top)
<1> DEFINE w == (a - b) - c
           k == w < 0
           x == (a % 16) < (b % 16) + c
           v == ~SignedFits((Signed(a) - Signed(b)) - c)
           g == [f EXCEPT !.carry = k, !.aux = x, !.overflow = v]
           r == w % Size
<1>1. w \in -Size .. Size - 1 /\ w \in -Size .. 2 * Size - 1
  BY SizeFacts
<1>2. r = (IF w < 0 THEN w + Size ELSE w) /\ r \in Values
  <2>1. /\ r = IF w < 0 THEN w + Size ELSE IF w < Size THEN w ELSE w - Size
        /\ r \in Values
    BY <1>1, WrapSize, Zenon
  <2> HIDE DEF w, r
  <2> QED BY <1>1, <2>1, SizeFacts
<1>3. k \in BOOLEAN /\ x \in BOOLEAN /\ v \in BOOLEAN
  BY DEF SignedFits
<1> HIDE DEF k, x, v
<1>4. g \in FlagWord /\ g.carry = k /\ g.aux = x /\ g.overflow = v
  BY <1>3 DEF FlagWord
<1>5. Sub(f, a, b, c) = [r |-> r, f |-> ZSP(g, r)]
  BY DEF Sub, k, x, v
<1> HIDE DEF g, r
<1>6. /\ ZSP(g, r) \in FlagWord
      /\ ZSP(g, r).zero = (r = 0) /\ ZSP(g, r).sign = (r >= Top)
      /\ ZSP(g, r).carry = k /\ ZSP(g, r).aux = x
      /\ ZSP(g, r).overflow = v
  BY <1>4, ZSPTyped
<1>7. Sub(f, a, b, c).r = r /\ Sub(f, a, b, c).f = ZSP(g, r) /\ Sub(f, a, b, c) \in Results
  BY <1>2, <1>5, <1>6 DEF Results
<1> HIDE DEF w
<1>8. (w < 0) = k /\ ((a % 16) < (b % 16) + c) = x
      /\ (~SignedFits((Signed(a) - Signed(b)) - c)) = v
  BY DEF k, x, v
<1> QED BY <1>2, <1>6, <1>7, <1>8 DEF w

-----------------------------------------------------------------------------
(* The bitwise operators.                                                  *)

(* A bit of a word is a bit of its half, one place lower.                  *)
LEMMA BitOfHalf ==
  ASSUME NEW v \in Nat, NEW k \in Nat
  PROVE  BitAt(v, k + 1) = BitAt(v \div 2, k)
<1> DEFINE m == 2^k
           h == v \div 2
           q == h \div m
           t == 2 * m
           w == v \div t
<1>1. m \in Nat \ {0} /\ 2^(k + 1) = t
  BY PowerPositive, PowerDoubles
<1>2. h \in Nat /\ (v = 2 * h \/ v = 2 * h + 1)
  OBVIOUS
<1> HIDE DEF m, h
<1>3. q \in Nat /\ h % m \in 0 .. m - 1 /\ h = m * q + (h % m)
  BY <1>1, <1>2, DivMod
<1> DEFINE z == h % m
<1>4. PICK y \in 0 .. 1 : v = 2 * h + y
  BY <1>2
<1> HIDE DEF q, z
<1>5. 2 * z + y \in 0 .. t - 1 /\ t \in Nat \ {0}
  BY <1>1, <1>3, <1>4 DEF z
<1>6. v = t * q + (2 * z + y)
  <2>1. z \in Int /\ h = m * q + z
    BY <1>1, <1>3 DEF z
  <2>2. 2 * (m * q + z) = (2 * m) * q + 2 * z
    BY <1>1, <1>3, <2>1
  <2> QED BY <1>1, <1>3, <1>4, <2>1, <2>2
<1> HIDE DEF t
<1>7. v \div t = q
  BY <1>3, <1>5, <1>6, WholeUnique
<1>8. BitAt(v, k + 1) = ((v \div t) % 2 = 1)
  BY <1>1, Zenon DEF BitAt
<1>9. BitAt(h, k) = (q % 2 = 1)
  BY Zenon DEF BitAt, m, q
<1>10. BitAt(h, k) = BitAt(v \div 2, k)
  BY Zenon DEF h
<1> QED BY <1>7, <1>8, <1>9, <1>10, Zenon

LEMMA LowestBit ==
  ASSUME NEW v \in Nat
  PROVE  BitAt(v, 0) = (v % 2 = 1)
<1>1. 2^0 = 1 /\ v \div 1 = v
  OBVIOUS
<1> QED BY <1>1, Zenon DEF BitAt

(* A word is its bits.                                                     *)
Alike(x, y, n) == \A k \in 0 .. n - 1 : BitAt(x, k) = BitAt(y, k)

LEMMA BitsDecide ==
  \A n \in Nat : \A x, y \in 0 .. 2^n - 1 : Alike(x, y, n) => x = y
<1> DEFINE P(n) == \A x, y \in 0 .. 2^n - 1 : Alike(x, y, n) => x = y
           T == {n \in Nat : P(n)}
<1>1. 0 \in T
  <2>1. 2^0 = 1
    OBVIOUS
  <2> QED BY <2>1
<1>2. ASSUME NEW n \in T PROVE n + 1 \in T
  <2>1. n \in Nat /\ n + 1 \in Nat /\ P(n)
    OBVIOUS
  <2>2. 2^n \in Nat \ {0} /\ 2^(n + 1) = 2 * 2^n
    BY <2>1, PowerPositive, PowerDoubles
  <2>3. ASSUME NEW x \in 0 .. 2^(n + 1) - 1, NEW y \in 0 .. 2^(n + 1) - 1,
               Alike(x, y, n + 1)
        PROVE  x = y
    <3>1. x \in Nat /\ y \in Nat /\ x \div 2 \in 0 .. 2^n - 1 /\ y \div 2 \in 0 .. 2^n - 1
      <4> DEFINE m == 2^n
      <4>1. m \in Nat /\ x \in 0 .. 2 * m - 1 /\ y \in 0 .. 2 * m - 1
        BY <2>2, <2>3
      <4> HIDE DEF m
      <4>2. x \in Nat /\ y \in Nat /\ x \div 2 \in 0 .. m - 1 /\ y \div 2 \in 0 .. m - 1
        BY <4>1
      <4> QED BY <4>2 DEF m
    <3>2. Alike(x \div 2, y \div 2, n)
      <4> SUFFICES ASSUME NEW k \in 0 .. n - 1
                   PROVE  BitAt(x \div 2, k) = BitAt(y \div 2, k)
        BY DEF Alike
      <4>1. k + 1 \in 0 .. (n + 1) - 1 /\ k \in Nat
        BY <2>1
      <4>2. BitAt(x, k + 1) = BitAt(y, k + 1)
        BY <2>3, <4>1 DEF Alike
      <4> QED BY <3>1, <4>1, <4>2, BitOfHalf
    <3>3. x \div 2 = y \div 2
      BY <2>1, <3>1, <3>2
    <3>4. (x % 2 = 1) = (y % 2 = 1)
      <4>1. 0 \in 0 .. (n + 1) - 1
        BY <2>1
      <4>2. BitAt(x, 0) = BitAt(y, 0)
        BY <2>3, <4>1 DEF Alike
      <4> QED BY <3>1, <4>2, LowestBit
    <3> QED BY <3>1, <3>3, <3>4
  <2> QED BY <2>1, <2>3
<1> HIDE DEF T
<1>3. T = Nat
  BY <1>1, <1>2, InductionSet DEF T
<1> QED BY <1>3 DEF T

(* The bits joined: a word of n bits, from the top of the register.        *)
BitsJoined(u, op, a, b) ==
  /\ u[0] = 0
  /\ \A n \in 1 .. RegisterBits :
       u[n] = 2 * u[n - 1]
                + AsBit(Joined(op, BitAt(a, RegisterBits - n), BitAt(b, RegisterBits - n)))

LEMMA BitwiseRuns ==
  ASSUME NEW op, NEW a, NEW b
  PROVE  \E u : BitsJoined(u, op, a, b) /\ Bitwise(op, a, b) = u[RegisterBits]
<1> DEFINE N == RegisterBits
           bit(n) == AsBit(Joined(op, BitAt(a, N - n), BitAt(b, N - n)))
           steps == [n \in 1 .. N |-> [v \in Nat |-> 2 * v + bit(n)]]
           Is(u) == u = [n \in 0 .. N |-> IF n = 0 THEN 0 ELSE 2 * u[n - 1] + bit(n)]
           upper == CHOOSE u : Is(u)
<1>1. N \in Nat
  BY AluAssumption
<1>2. \A n \in 1 .. N : bit(n) \in 0 .. 1
  BY DEF AsBit
<1>3. Bitwise(op, a, b) = upper[N]
  BY Zenon DEF Bitwise
<1> HIDE DEF bit, N
<1>4. steps \in [1 .. N -> [Nat -> Nat]]
  BY <1>2
<1>5. PICK f \in [0 .. N -> Nat] : RunsThrough(f, N, 0, steps)
  <2> HIDE DEF steps
  <2> QED BY <1>1, <1>4, Traversal
<1>6. Is(f)
  <2>1. ASSUME NEW n \in 0 .. N
        PROVE  f[n] = IF n = 0 THEN 0 ELSE 2 * f[n - 1] + bit(n)
    <3>1. CASE n = 0
      BY <1>5, <3>1 DEF RunsThrough
    <3>2. CASE n # 0
      <4>1. n \in 1 .. N /\ n - 1 \in 0 .. N
        BY <1>1, <3>2
      <4>2. f[n] = steps[n][f[n - 1]] /\ f[n - 1] \in Nat
        BY <1>5, <4>1 DEF RunsThrough
      <4> QED BY <3>2, <4>1, <4>2
    <3> QED BY <3>1, <3>2
  <2> QED BY <2>1
<1>7. Is(upper)
  <2> HIDE DEF Is
  <2> QED BY <1>6
<1> HIDE DEF upper
<1>8. 0 \in 0 .. N /\ \A n \in 1 .. N : n \in 0 .. N /\ n # 0
  BY <1>1
<1>9. \A n \in 0 .. N : upper[n] = IF n = 0 THEN 0 ELSE 2 * upper[n - 1] + bit(n)
  BY <1>7
<1>10. BitsJoined(upper, op, a, b)
  BY <1>8, <1>9 DEF BitsJoined, bit, N
<1> QED BY <1>3, <1>10 DEF N

LEMMA BitwiseFacts ==
  ASSUME NEW op \in LogicOps, NEW a \in Values, NEW b \in Values
  PROVE  /\ Bitwise(op, a, b) \in Values
         /\ \A k \in 0 .. RegisterBits - 1 :
              BitAt(Bitwise(op, a, b), k) = Joined(op, BitAt(a, k), BitAt(b, k))
<1> DEFINE N == RegisterBits
           bit(n) == Joined(op, BitAt(a, N - n), BitAt(b, N - n))
<1>1. PICK u : BitsJoined(u, op, a, b) /\ Bitwise(op, a, b) = u[N]
  BY BitwiseRuns
<1>2. N \in Nat
  BY AluAssumption
<1> DEFINE P(n) == /\ u[n] \in 0 .. 2^n - 1
                   /\ \A k \in 0 .. n - 1 : BitAt(u[n], k) = bit(n - k)
           T == {n \in Nat : n <= N => P(n)}
<1>3. 0 \in T
  <2>1. 2^0 = 1 /\ u[0] = 0
    BY <1>1 DEF BitsJoined
  <2> QED BY <2>1
<1>4. ASSUME NEW n \in T PROVE n + 1 \in T
  <2>1. n \in Nat /\ n + 1 \in Nat
    OBVIOUS
  <2>2. ASSUME n + 1 <= N PROVE P(n + 1)
    <3>1. P(n)
      BY <1>2, <2>1, <2>2
    <3> DEFINE m == n + 1
               v == u[n]
               w == u[m]
    <3>2. m \in 1 .. N /\ m - 1 = n
      BY <1>2, <2>1, <2>2
    <3>3. w = 2 * v + AsBit(bit(m))
      <4> HIDE DEF m
      <4>1. u[m] = 2 * u[m - 1] + AsBit(bit(m))
        BY <1>1, <3>2 DEF BitsJoined
      <4> QED BY <3>2, <4>1
    <3> HIDE DEF w
    <3>4. 2^m = 2 * 2^n /\ 2^n \in Nat \ {0}
      BY <2>1, PowerDoubles, PowerPositive
    <3>5. v \in 0 .. 2^n - 1 /\ v \in Nat
      BY <3>1, <3>4
    <3> HIDE DEF m, v
    <3>6. AsBit(bit(m)) \in 0 .. 1 /\ (AsBit(bit(m)) = 1 <=> bit(m))
      BY DEF AsBit
    <3> DEFINE y == AsBit(bit(m))
               t == 2^n
    <3> HIDE DEF y
    <3>7. w \in 0 .. 2^m - 1 /\ w \in Nat
      <4>1. y \in 0 .. 1 /\ w = 2 * v + y /\ v \in 0 .. t - 1 /\ t \in Nat
        BY <3>3, <3>4, <3>5, <3>6 DEF y
      <4> HIDE DEF t
      <4>2. w \in 0 .. 2 * t - 1 /\ w \in Nat
        BY <4>1
      <4> QED BY <3>4, <4>2 DEF t
    <3>8. w \div 2 = v /\ (w % 2 = 1 <=> bit(m))
      <4>1. y \in 0 .. 1 /\ w = 2 * v + y /\ (y = 1 <=> bit(m))
        BY <3>3, <3>6 DEF y
      <4>2. w \div 2 = v /\ w % 2 = y
        BY <3>5, <4>1
      <4> QED BY <4>1, <4>2
    <3>9. ASSUME NEW k \in 0 .. m - 1 PROVE BitAt(w, k) = bit(m - k)
      <4>1. CASE k = 0
        <5>1. BitAt(w, 0) = bit(m)
          <6> HIDE DEF bit
          <6>1. bit(m) \in BOOLEAN
            BY DEF bit, Joined, BitAt, LogicOps
          <6> QED BY <3>7, <3>8, <6>1, LowestBit
        <5>2. m - 0 = m
          BY <3>2
        <5> QED BY <4>1, <5>1, <5>2
      <4>2. CASE k # 0
        <5>1. k - 1 \in 0 .. n - 1 /\ k - 1 \in Nat /\ (k - 1) + 1 = k
              /\ n - (k - 1) = m - k
          BY <2>1, <4>2 DEF m
        <5>2. BitAt(w, k) = BitAt(v, k - 1)
          BY <3>7, <3>8, <5>1, BitOfHalf
        <5>3. BitAt(v, k - 1) = bit(n - (k - 1))
          BY <3>1, <5>1 DEF v
        <5> QED BY <5>1, <5>2, <5>3
      <4> QED BY <4>1, <4>2
    <3> QED BY <3>7, <3>9 DEF w, m
  <2> QED BY <2>1, <2>2
<1> HIDE DEF T
<1>5. T = Nat
  BY <1>3, <1>4, InductionSet DEF T
<1>6. P(N)
  BY <1>2, <1>5 DEF T
<1>7. ASSUME NEW k \in 0 .. N - 1 PROVE BitAt(u[N], k) = Joined(op, BitAt(a, k), BitAt(b, k))
  <2>1. N - (N - k) = k
    BY <1>2
  <2> QED BY <1>6, <2>1
<1> QED BY <1>1, <1>6, <1>7 DEF Values, Size

LEMMA NoBits ==
  \A k \in Nat : BitAt(0, k) = FALSE
<1> TAKE k \in Nat
<1> DEFINE m == 2^k
           q == 0 \div m
<1>1. m \in Nat \ {0}
  BY PowerPositive
<1> HIDE DEF m
<1>2. 0 = m * 0 + 0 /\ 0 \in 0 .. m - 1
  BY <1>1
<1>3. q = 0
  BY <1>1, <1>2, WholeUnique
<1>4. BitAt(0, k) = (q % 2 = 1)
  BY Zenon DEF BitAt, q, m
<1> HIDE DEF q
<1>5. q % 2 # 1
  BY <1>3
<1> QED BY <1>4, <1>5, Zenon

(* Masking a word with what was just merged into it leaves what was merged *)
(* and no word differs from itself.                                        *)
LEMMA MaskLaws ==
  ASSUME NEW a \in Values, NEW b \in Values
  PROVE  /\ Bitwise("and", Bitwise("or", a, b), b) = b
         /\ Bitwise("xor", b, b) = 0 /\ Bitwise("and", 0, b) = 0
<1> DEFINE N == RegisterBits
           x == Bitwise("or", a, b)
           y == Bitwise("and", x, b)
           z == Bitwise("xor", b, b)
           w == Bitwise("and", 0, b)
<1>1. N \in Nat /\ 0 \in Values
  BY AluAssumption, SizeFacts
<1>2. x \in Values /\ \A k \in 0 .. N - 1 : BitAt(x, k) = (BitAt(a, k) \/ BitAt(b, k))
  BY BitwiseFacts DEF LogicOps, Joined
<1> HIDE DEF x
<1>3. y \in Values /\ \A k \in 0 .. N - 1 : BitAt(y, k) = (BitAt(x, k) /\ BitAt(b, k))
  BY <1>2, BitwiseFacts DEF LogicOps, Joined
<1>4. z \in Values /\ \A k \in 0 .. N - 1 : BitAt(z, k) = (BitAt(b, k) # BitAt(b, k))
  BY BitwiseFacts DEF LogicOps, Joined
<1>5. w \in Values /\ \A k \in 0 .. N - 1 : BitAt(w, k) = (BitAt(0, k) /\ BitAt(b, k))
  BY <1>1, BitwiseFacts DEF LogicOps, Joined
<1> HIDE DEF y, z, w
<1>6. \A k \in 0 .. N - 1 : k \in Nat
  BY <1>1
<1>7. Alike(y, b, N)
  <2> SUFFICES ASSUME NEW k \in 0 .. N - 1 PROVE BitAt(y, k) = BitAt(b, k)
    BY DEF Alike
  <2>1. BitAt(y, k) = (BitAt(x, k) /\ BitAt(b, k)) /\ BitAt(x, k) = (BitAt(a, k) \/ BitAt(b, k))
    BY <1>2, <1>3
  <2> QED BY <2>1, Zenon DEF BitAt
<1>8. Alike(z, 0, N)
  <2> SUFFICES ASSUME NEW k \in 0 .. N - 1 PROVE BitAt(z, k) = BitAt(0, k)
    BY DEF Alike
  <2>1. BitAt(z, k) = (BitAt(b, k) # BitAt(b, k)) /\ BitAt(0, k) = FALSE
    BY <1>4, <1>6, NoBits, Zenon
  <2> QED BY <2>1, Zenon
<1>9. Alike(w, 0, N)
  <2> SUFFICES ASSUME NEW k \in 0 .. N - 1 PROVE BitAt(w, k) = BitAt(0, k)
    BY DEF Alike
  <2> QED BY <1>5, <1>6, NoBits
<1>10. \A u, v \in Values : Alike(u, v, N) => u = v
  BY <1>1, BitsDecide DEF Values, Size
<1>11. y = b /\ z = 0 /\ w = 0
  BY <1>1, <1>3, <1>4, <1>5, <1>7, <1>8, <1>9, <1>10
<1> QED BY <1>11 DEF x, y, z, w

LEMMA LogicFacts ==
  ASSUME NEW f \in FlagWord, NEW v \in Values
  PROVE  Logic(f, v) \in Results /\ Logic(f, v).r = v /\ Logic(f, v).f.zero = (v = 0)
<1> DEFINE g == [f EXCEPT !.carry = FALSE, !.overflow = FALSE]
<1>1. g \in FlagWord
  BY DEF FlagWord
<1>2. Logic(f, v) = [r |-> v, f |-> ZSP(g, v)]
  BY DEF Logic
<1> HIDE DEF g
<1>3. ZSP(g, v) \in FlagWord /\ ZSP(g, v).zero = (v = 0)
  BY <1>1, ZSPTyped
<1> QED BY <1>2, <1>3 DEF Results

LEMMA IncFacts ==
  ASSUME NEW f \in FlagWord, NEW a \in Values
  PROVE  /\ Inc(f, a) \in Results /\ Inc(f, a).f.carry = f.carry
         /\ Inc(f, a).r = (a + 1) % Size
         /\ Dec(f, a) \in Results /\ Dec(f, a).f.carry = f.carry
         /\ Dec(f, a).r = (a - 1) % Size
<1>1. a + 1 \in Int /\ a - 1 \in Int
  BY SizeFacts
<1>2. (a + 1) % Size \in Values /\ (a - 1) % Size \in Values
  BY <1>1, Modulo
<1> DEFINE up == (a + 1) % Size
           down == (a - 1) % Size
           x == (a % 16) = 15
           y == a = Top - 1
           u == (a % 16) = 0
           v == a = Top
           g == [f EXCEPT !.aux = x, !.overflow = y]
           h == [f EXCEPT !.aux = u, !.overflow = v]
<1>3. Inc(f, a) = [r |-> up, f |-> ZSP(g, up)] /\ Dec(f, a) = [r |-> down, f |-> ZSP(h, down)]
  BY DEF Inc, Dec
<1>4. x \in BOOLEAN /\ y \in BOOLEAN /\ u \in BOOLEAN /\ v \in BOOLEAN
  OBVIOUS
<1> HIDE DEF x, y, u, v
<1>5. g \in FlagWord /\ h \in FlagWord /\ g.carry = f.carry /\ h.carry = f.carry
  BY <1>4 DEF FlagWord
<1> HIDE DEF g, h, up, down
<1>6. /\ ZSP(g, up) \in FlagWord /\ ZSP(g, up).carry = f.carry
      /\ ZSP(h, down) \in FlagWord /\ ZSP(h, down).carry = f.carry
  BY <1>5, ZSPTyped
<1>7. up \in Values /\ down \in Values
  BY <1>2 DEF up, down
<1> QED BY <1>3, <1>6, <1>7 DEF Results, up, down

-----------------------------------------------------------------------------
(* Shifts and rotations.                                                   *)

ShiftState == [r : Values, carry : BOOLEAN]
BitDown(b) == AsBit(b) * Top

LEMMA Halves ==
  ASSUME NEW v \in Values
  PROVE  /\ (2 * v) % Size = IF v < Top THEN 2 * v ELSE 2 * v - Size
         /\ (2 * v) % Size \in 0 .. Size - 2
         /\ v \div 2 \in 0 .. Top - 1 /\ v % 2 \in 0 .. 1 /\ v = 2 * (v \div 2) + (v % 2)
<1> DEFINE d == 2 * v
           w == d % Size
<1>1. d \in -Size .. 2 * Size - 1
  BY SizeFacts
<1>2. w = IF d < 0 THEN d + Size ELSE IF d < Size THEN d ELSE d - Size
  <2> HIDE DEF d
  <2> QED BY <1>1, WrapSize, Zenon
<1> HIDE DEF w
<1>3. w = (IF v < Top THEN 2 * v ELSE 2 * v - Size) /\ w \in 0 .. Size - 2
  BY <1>2, SizeFacts
<1>4. v \div 2 \in 0 .. Top - 1 /\ v % 2 \in 0 .. 1 /\ v = 2 * (v \div 2) + (v % 2)
  BY SizeFacts
<1> QED BY <1>3, <1>4 DEF w

LEMMA StepFacts ==
  ASSUME NEW op \in ShiftOps, NEW s \in ShiftState
  PROVE  /\ ShiftStep(op, s) \in ShiftState
         /\ ShiftStep(op, s).carry = IF op \in {"rol", "rcl", "shl"} THEN s.r >= Top
                                     ELSE (s.r % 2) = 1
         /\ ShiftStep(op, s).r =
              CASE op = "rol" -> ((2 * s.r) % Size) + AsBit(s.r >= Top)
                [] op = "ror" -> (s.r \div 2) + BitDown((s.r % 2) = 1)
                [] op = "rcl" -> ((2 * s.r) % Size) + AsBit(s.carry)
                [] op = "rcr" -> (s.r \div 2) + BitDown(s.carry)
                [] op = "shl" -> (2 * s.r) % Size
                [] op = "shr" -> s.r \div 2
                [] op = "sar" -> (s.r \div 2) + BitDown(s.r >= Top)
<1> DEFINE up == (2 * s.r) % Size
           down == s.r \div 2
           top == s.r >= Top
           odd == (s.r % 2) = 1
           k == IF op \in {"rol", "rcl", "shl"} THEN top ELSE odd
           w == CASE op = "rol" -> up + AsBit(top)
                  [] op = "ror" -> down + BitDown(odd)
                  [] op = "rcl" -> up + AsBit(s.carry)
                  [] op = "rcr" -> down + BitDown(s.carry)
                  [] op = "shl" -> up
                  [] op = "shr" -> down
                  [] op = "sar" -> down + BitDown(top)
<1>1. ShiftStep(op, s) = [r |-> w, carry |-> k]
  BY Zenon DEF ShiftStep, BitDown
<1>2. s.r \in Values /\ s.carry \in BOOLEAN
  BY DEF ShiftState
<1>3. up \in 0 .. Size - 2 /\ down \in 0 .. Top - 1
  BY <1>2, Halves
<1>4. top \in BOOLEAN /\ odd \in BOOLEAN
  OBVIOUS
<1> HIDE DEF up, down, top, odd
<1>5. \A b \in BOOLEAN : AsBit(b) \in 0 .. 1 /\ BitDown(b) \in {0, Top}
  BY SizeFacts DEF AsBit, BitDown
<1>6. \A b \in BOOLEAN : up + AsBit(b) \in Values /\ down + BitDown(b) \in Values
  BY <1>3, <1>5, SizeFacts
<1>7. up \in Values /\ down \in Values
  BY <1>3, SizeFacts
<1>8. k \in BOOLEAN /\ w \in Values
  BY <1>2, <1>4, <1>6, <1>7 DEF ShiftOps
<1> HIDE DEF k, w
<1>9. /\ [r |-> w, carry |-> k] \in ShiftState
      /\ [r |-> w, carry |-> k].carry = k /\ [r |-> w, carry |-> k].r = w
  BY <1>8 DEF ShiftState
<1>10. ShiftStep(op, s) \in ShiftState /\ ShiftStep(op, s).carry = k /\ ShiftStep(op, s).r = w
  BY <1>1, <1>9
<1> QED BY <1>10, Zenon DEF k, w, up, down, top, odd

ShiftedBy(s, op, f, v, count) ==
  /\ s[0] = [r |-> v, carry |-> f.carry]
  /\ \A k \in 1 .. count : s[k] = ShiftStep(op, s[k - 1])

LEMMA ShiftFacts ==
  ASSUME NEW op \in ShiftOps, NEW f \in FlagWord, NEW v \in Values, NEW count \in Nat
  PROVE  \E s \in [0 .. count -> ShiftState] :
           /\ ShiftedBy(s, op, f, v, count)
           /\ Shift(op, f, v, count) \in Results
           /\ Shift(op, f, v, count).r = s[count].r
           /\ Shift(op, f, v, count).f.carry = s[count].carry
<1> DEFINE start == [r |-> v, carry |-> f.carry]
           step == [s \in ShiftState |-> ShiftStep(op, s)]
           Is(u) == u = [n \in 0 .. count |-> IF n = 0 THEN start ELSE ShiftStep(op, u[n - 1])]
           all == CHOOSE u : Is(u)
<1>1. start \in ShiftState /\ step \in [ShiftState -> ShiftState]
  BY StepFacts DEF ShiftState, FlagWord
<1>2. PICK s \in [0 .. count -> ShiftState] : Runs(s, count, start, step)
  <2> HIDE DEF start, step
  <2> QED BY <1>1, Iteration
<1>3. Is(s)
  <2>1. ASSUME NEW n \in 0 .. count
        PROVE  s[n] = IF n = 0 THEN start ELSE ShiftStep(op, s[n - 1])
    <3> HIDE DEF start
    <3>1. CASE n = 0
      BY <1>2, <3>1 DEF Runs
    <3>2. CASE n # 0
      <4>1. n \in 1 .. count /\ n - 1 \in 0 .. count
        BY <3>2
      <4>2. s[n] = step[s[n - 1]] /\ s[n - 1] \in ShiftState
        BY <1>2, <4>1 DEF Runs
      <4> QED BY <3>2, <4>2
    <3> QED BY <3>1, <3>2
  <2> HIDE DEF start
  <2> QED BY <2>1
<1>4. Is(all)
  <2> HIDE DEF Is
  <2> QED BY <1>3
<1> HIDE DEF all
<1>5. /\ all[0] = start
      /\ \A n \in 1 .. count : all[n] = ShiftStep(op, all[n - 1])
  <2>1. 0 \in 0 .. count /\ \A n \in 1 .. count : n \in 0 .. count /\ n # 0
    OBVIOUS
  <2> HIDE DEF start
  <2> QED BY <1>4, <2>1
<1>6. all \in [0 .. count -> ShiftState]
  <2> HIDE DEF start
  <2> DEFINE T == {n \in Nat : n <= count => all[n] \in ShiftState}
  <2>1. 0 \in T
    BY <1>1, <1>5
  <2>2. ASSUME NEW n \in T PROVE n + 1 \in T
    <3> SUFFICES ASSUME n + 1 <= count PROVE all[n + 1] \in ShiftState
      BY <2>2
    <3> DEFINE m == n + 1
    <3>1. m \in 1 .. count /\ m - 1 = n /\ all[n] \in ShiftState
      BY <2>2
    <3> HIDE DEF m
    <3>2. all[m] = ShiftStep(op, all[m - 1])
      BY <1>5, <3>1
    <3>3. all[m] \in ShiftState
      BY <3>1, <3>2, StepFacts
    <3> QED BY <3>3 DEF m
  <2> HIDE DEF T
  <2>3. T = Nat
    BY <2>1, <2>2, InductionSet DEF T
  <2>4. \A n \in 0 .. count : all[n] \in ShiftState
    BY <2>3 DEF T
  <2> QED BY <1>4, <2>4
<1> DEFINE end == all[count]
           carried == [f EXCEPT !.carry = end.carry]
           over == CASE op = "shl" -> (end.r >= Top) # end.carry
                     [] op = "shr" -> v >= Top
                     [] op = "sar" -> FALSE
           g == [carried EXCEPT !.overflow = IF count = 1 THEN over ELSE @]
           h == IF count = 0 THEN f
                ELSE IF op \notin {"shl", "shr", "sar"} THEN carried
                ELSE ZSP(g, end.r)
<1>7. Shift(op, f, v, count) = [r |-> end.r, f |-> h]
  BY Zenon DEF Shift, all
<1>8. end.r \in Values /\ end.carry \in BOOLEAN
  BY <1>6 DEF ShiftState
<1>9. count = 0 => end.carry = f.carry
  BY <1>5
<1> HIDE DEF end
<1>10. carried \in FlagWord /\ carried.carry = end.carry
  BY <1>8 DEF FlagWord
<1> HIDE DEF carried
<1>11. ShiftedBy(all, op, f, v, count)
  BY <1>5, Zenon DEF ShiftedBy
<1>12. CASE op \notin {"shl", "shr", "sar"} \/ count = 0
  <2>1. h \in FlagWord /\ h.carry = end.carry
    BY <1>9, <1>10, <1>12
  <2> HIDE DEF h
  <2>2. Shift(op, f, v, count) \in Results /\ Shift(op, f, v, count).r = end.r
        /\ Shift(op, f, v, count).f.carry = end.carry
    BY <1>7, <1>8, <2>1 DEF Results
  <2> QED BY <1>6, <1>11, <2>2, Zenon DEF end
<1>13. CASE op \in {"shl", "shr", "sar"} /\ count # 0
  <2>1. over \in BOOLEAN
    <3>1. CASE op = "shl"
      BY <3>1, Zenon
    <3>2. CASE op = "shr"
      BY <3>2
    <3>3. CASE op = "sar"
      BY <3>3
    <3> QED BY <1>13, <3>1, <3>2, <3>3
  <2> HIDE DEF over
  <2>2. g \in FlagWord /\ g.carry = end.carry
    BY <1>10, <2>1 DEF FlagWord
  <2> HIDE DEF g
  <2>3. ZSP(g, end.r) \in FlagWord /\ ZSP(g, end.r).carry = end.carry
    BY <2>2, ZSPTyped
  <2>4. h = ZSP(g, end.r)
    BY <1>13
  <2> HIDE DEF h
  <2>5. Shift(op, f, v, count) \in Results /\ Shift(op, f, v, count).r = end.r
        /\ Shift(op, f, v, count).f.carry = end.carry
    BY <1>7, <1>8, <2>3, <2>4 DEF Results
  <2> QED BY <1>6, <1>11, <2>5, Zenon DEF end
<1> QED BY <1>12, <1>13

-----------------------------------------------------------------------------
(* The other operations.                                                   *)

LEMMA AluTyped ==
  ASSUME NEW op \in AluOps, NEW f \in FlagWord, NEW a \in Values, NEW b \in Values
  PROVE  Alu(op, f, a, b) \in Results
<1>1. 0 \in Values /\ AsBit(f.carry) \in {0, 1} /\ 0 \in {0, 1}
  BY SizeFacts DEF AsBit
<1>2. /\ Add(f, a, b, 0) \in Results /\ Add(f, a, b, AsBit(f.carry)) \in Results
      /\ Sub(f, a, b, 0) \in Results /\ Sub(f, a, b, AsBit(f.carry)) \in Results
      /\ Sub(f, 0, a, 0) \in Results
  BY <1>1, AddFacts, SubFacts
<1>3. /\ \A o \in LogicOps : Logic(f, Bitwise(o, a, b)) \in Results
      /\ Inc(f, a) \in Results /\ Dec(f, a) \in Results
  BY BitwiseFacts, LogicFacts, IncFacts
<1>4. \A e \in Results : [e EXCEPT !.r = a] \in Results
  BY DEF Results
<1>5. [r |-> (Size - 1) - a, f |-> f] \in Results
  BY SizeFacts DEF Results
<1>6. CASE op \in {"add", "adc", "sub", "sbb", "neg"}
  BY <1>2, <1>6 DEF Alu, LogicOps
<1>7. CASE op \in LogicOps
  BY <1>3, <1>7 DEF Alu, LogicOps
<1>8. CASE op \in {"cmp", "test"}
  <2>1. "and" \in LogicOps
    BY DEF LogicOps
  <2>2. Alu("cmp", f, a, b) = [Sub(f, a, b, 0) EXCEPT !.r = a]
        /\ Alu("test", f, a, b) = [Logic(f, Bitwise("and", a, b)) EXCEPT !.r = a]
    BY DEF Alu, LogicOps
  <2> QED BY <1>2, <1>3, <1>4, <1>8, <2>1, <2>2
<1>9. CASE op \in {"inc", "dec", "not"}
  BY <1>3, <1>5, <1>9 DEF Alu, LogicOps
<1> QED BY <1>6, <1>7, <1>8, <1>9 DEF AluOps, LogicOps

LEMMA PairedTyped ==
  ASSUME NEW r \in RegisterFile, NEW v \in Int
  PROVE  Paired(r, v) \in RegisterFile
<1> DEFINE l == v % Size
           h == (v \div Size) % Size
<1>1. v \div Size \in Int
  BY SizeFacts
<1>2. l \in Values /\ h \in Values
  BY <1>1, Modulo
<1> HIDE DEF l, h
<1>3. [r EXCEPT !.low = l, !.high = h] \in RegisterFile
  BY <1>2 DEF RegisterFile
<1> QED BY <1>3 DEF Paired, l, h

LEMMA ProductTyped ==
  ASSUME NEW f \in FlagWord, NEW r \in RegisterFile, NEW fits \in BOOLEAN, NEW v \in Int
  PROVE  Product(f, r, fits, v) \in States
<1>1. [f EXCEPT !.carry = ~fits, !.overflow = ~fits] \in FlagWord
  BY DEF FlagWord
<1> QED BY <1>1, PairedTyped DEF Product, States

LEMMA SignedTyped ==
  ASSUME NEW v \in Values
  PROVE  Signed(v) \in -Top .. Top - 1 /\ (Signed(v) = v \/ Signed(v) = v - Size)
BY SizeFacts DEF Signed

LEMMA MulTyped ==
  ASSUME NEW f \in FlagWord, NEW r \in RegisterFile, NEW b \in Values
  PROVE  Mul(f, r, b) \in States /\ IMul(f, r, b) \in States
<1>1. r.low \in Values /\ r.low \in Int /\ b \in Int
  BY SizeFacts DEF RegisterFile
<1>2. Signed(r.low) \in Int /\ Signed(b) \in Int
  BY <1>1, SignedTyped, SizeFacts
<1> DEFINE p == r.low * b
           v == Signed(r.low) * Signed(b)
<1>3. p \in Int /\ v \in Int
  BY <1>1, <1>2
<1> HIDE DEF p, v
<1>4. v % PairSize \in Int
  <2>1. v % PairSize \in 0 .. PairSize - 1
    BY <1>3, Modulo
  <2> QED BY <2>1
<1>5. (p < Size) \in BOOLEAN /\ SignedFits(v) \in BOOLEAN
  BY DEF SignedFits
<1>6. /\ Product(f, r, p < Size, p) \in States
      /\ Product(f, r, SignedFits(v), v % PairSize) \in States
  BY <1>3, <1>4, <1>5, ProductTyped
<1> QED BY <1>6, Zenon DEF Mul, IMul, p, v

LEMMA PairTyped ==
  ASSUME NEW r \in RegisterFile
  PROVE  /\ r.low \in Values /\ r.high \in Values /\ r.count \in Values
         /\ Pair(r) \in 0 .. PairSize - 1 /\ Pair(r) \in Nat
         /\ Pair(r) % Size = r.low /\ Pair(r) \div Size = r.high
<1>1. r.low \in Values /\ r.high \in Values /\ r.count \in Values
  BY DEF RegisterFile
<1> DEFINE l == r.low
           h == r.high
<1>2. l \in 0 .. Size - 1 /\ h \in 0 .. Size - 1 /\ Size \in Nat \ {0}
  BY <1>1, SizeFacts
<1> HIDE DEF l, h
<1>3. l + h * Size \in 0 .. Size * Size - 1
      /\ (l + h * Size) % Size = l /\ (l + h * Size) \div Size = h
  BY <1>2, PairParts
<1>4. l + h * Size \in Nat
  BY <1>2
<1> QED BY <1>1, <1>3, <1>4, Zenon DEF Pair, PairSize, l, h

LEMMA SignedPairTyped ==
  ASSUME NEW v \in Nat
  PROVE  SignedPair(v) \in Int
<1>1. PairSize \in Int
  BY SizeFacts DEF PairSize
<1> QED BY <1>1 DEF SignedPair

LEMMA QuotientTyped ==
  ASSUME NEW n \in Int, NEW d \in Int \ {0}
  PROVE  Quotient(n, d) \in Int
<1> DEFINE m == IF n < 0 THEN -n ELSE n
           e == IF d < 0 THEN -d ELSE d
           q == m \div e
<1>1. m \in Nat /\ e \in Nat \ {0}
  OBVIOUS
<1> HIDE DEF m, e
<1>2. q \in Int
  BY <1>1
<1>3. Quotient(n, d) = IF (n < 0) = (d < 0) THEN q ELSE -q
  BY DEF Quotient, q, m, e
<1> HIDE DEF q
<1> QED BY <1>2, <1>3

LEMMA DivTyped ==
  ASSUME NEW f \in FlagWord, NEW r \in RegisterFile, NEW d \in Values
  PROVE  Div(f, r, d) \in States /\ IDiv(f, r, d) \in States
<1>1. \A how \in {"trapped", "panicked"} : Stopped(f, r, how) \in States
  BY DEF Stopped, States
<1>2. ASSUME NEW q \in Int, NEW m \in Int PROVE DividedPair(f, r, q, m) \in States
  <2>1. q % Size \in Values /\ m % Size \in Values
    BY <1>2, Modulo
  <2> DEFINE x == q % Size
             y == m % Size
  <2> HIDE DEF x, y
  <2>2. [r EXCEPT !.low = x, !.high = y] \in RegisterFile
    BY <2>1 DEF RegisterFile, x, y
  <2>3. [r |-> [r EXCEPT !.low = x, !.high = y], f |-> f, fate |-> "running"] \in States
    BY <2>2 DEF States
  <2> QED BY <2>3 DEF DividedPair, x, y
<1>3. Div(f, r, d) \in States
  <2>1. CASE d = 0
    BY <1>1, <2>1 DEF Div
  <2>2. CASE d # 0
    <3>1. d \in Nat \ {0} /\ Pair(r) \in Nat
      BY <2>2, PairTyped, SizeFacts
    <3> DEFINE q == Pair(r) \div d
               m == Pair(r) % d
    <3>2. q \in Int /\ m \in Int
      <4>1. q \in Nat /\ m \in 0 .. d - 1
        BY <3>1, DivMod
      <4> QED BY <4>1
    <3>3. Div(f, r, d) = IF q >= Size THEN Stopped(f, r, "trapped") ELSE DividedPair(f, r, q, m)
      BY <2>2 DEF Div
    <3> HIDE DEF q, m
    <3> QED BY <1>1, <1>2, <3>2, <3>3
  <2> QED BY <2>1, <2>2
<1>4. IDiv(f, r, d) \in States
  <2> DEFINE n == SignedPair(Pair(r))
             e == Signed(d)
             q == Quotient(n, e)
             m == n - q * e
  <2>1. n \in Int /\ e \in Int
    BY PairTyped, SignedPairTyped, SignedTyped, SizeFacts
  <2> HIDE DEF n, e
  <2>2. CASE e = 0
    BY <1>1, <2>2, Zenon DEF IDiv, e
  <2>3. CASE e # 0
    <3>1. q \in Int
      BY <2>1, <2>3, QuotientTyped
    <3> HIDE DEF q
    <3>2. m \in Int
      BY <2>1, <3>1
    <3> HIDE DEF m
    <3>3. IDiv(f, r, d) \in {Stopped(f, r, "trapped"), Stopped(f, r, "panicked"),
                             DividedPair(f, r, q, m)}
      BY DEF IDiv, n, e, q, m
    <3> QED BY <1>1, <1>2, <3>1, <3>2, <3>3
  <2> QED BY <2>2, <2>3
<1> QED BY <1>3, <1>4

(* The adjustments, which know one-byte registers only.                    *)
LEMMA ByteTyped ==
  ASSUME Size = 256, NEW f \in FlagWord, NEW r \in RegisterFile, NEW b \in Values
  PROVE  /\ DecimalAdjust(f, r, 1) \in States /\ DecimalAdjust(f, r, -1) \in States
         /\ AsciiAdjust(f, r, 1) \in States /\ AsciiAdjust(f, r, -1) \in States
         /\ AsciiMul(f, r, b) \in States /\ AsciiDiv(f, r, b) \in States
<1>1. Values = 0 .. 255 /\ r.low \in Values /\ r.high \in Values
  BY SizeFacts DEF RegisterFile
<1>2. AdjustLow(f, r.low) \in BOOLEAN /\ f.carry \in BOOLEAN
  BY DEF AdjustLow, FlagWord
<1>3. ASSUME NEW by \in {1, -1}
      PROVE  DecimalAdjust(f, r, by) \in States /\ AsciiAdjust(f, r, by) \in States
  <2> DEFINE high == r.low > 153 \/ f.carry
             x == AdjustLow(f, r.low)
             v == (r.low + by * (6 * AsBit(x) + 96 * AsBit(high))) % Size
             l == (r.low + by * 6 * AsBit(x)) % 16
             h == (r.high + by * AsBit(x)) % Size
  <2>1. high \in BOOLEAN /\ x \in BOOLEAN
    BY <1>2
  <2> HIDE DEF high, x
  <2>2. AsBit(x) \in 0 .. 1 /\ AsBit(high) \in 0 .. 1
    BY DEF AsBit
  <2>3. v \in Values /\ l \in Values /\ h \in Values
    <3> DEFINE y == AsBit(x)
               z == AsBit(high)
               a == r.low
               c == r.high
    <3>1. y \in Int /\ z \in Int /\ a \in Int /\ c \in Int
      BY <1>1, <2>2
    <3> HIDE DEF y, z, a, c
    <3>2. a + by * (6 * y + 96 * z) \in Int /\ a + by * 6 * y \in Int /\ c + by * y \in Int
      BY <1>3, <3>1
    <3>3. \A w \in Int : w % 16 \in 0 .. 15
      OBVIOUS
    <3>4. v \in Values /\ l \in 0 .. 15 /\ h \in Values
      BY <3>2, <3>3, Modulo, Zenon DEF y, z, a, c
    <3> HIDE DEF v, l, h
    <3> QED BY <1>1, <3>4
  <2>4. /\ DecimalAdjust(f, r, by) =
             [r |-> [r EXCEPT !.low = v],
              f |-> ZSP([f EXCEPT !.aux = x, !.carry = high], v), fate |-> "running"]
        /\ AsciiAdjust(f, r, by) =
             [r |-> [r EXCEPT !.low = l, !.high = h],
              f |-> [f EXCEPT !.aux = x, !.carry = x], fate |-> "running"]
    BY DEF DecimalAdjust, AsciiAdjust, x, high, RegisterFile
  <2> HIDE DEF v, l, h
  <2>5. [f EXCEPT !.aux = x, !.carry = high] \in FlagWord
        /\ [f EXCEPT !.aux = x, !.carry = x] \in FlagWord
    BY <2>1 DEF FlagWord
  <2> DEFINE g == [f EXCEPT !.aux = x, !.carry = high]
  <2> HIDE DEF g
  <2>6. ZSP(g, v) \in FlagWord
    BY <2>5, ZSPTyped DEF g
  <2>7. [r EXCEPT !.low = v] \in RegisterFile /\ [r EXCEPT !.low = l, !.high = h] \in RegisterFile
    BY <2>3 DEF RegisterFile
  <2>8. [r |-> [r EXCEPT !.low = v], f |-> ZSP(g, v), fate |-> "running"] \in States
    BY <2>6, <2>7 DEF States
  <2>9. [r |-> [r EXCEPT !.low = l, !.high = h],
         f |-> [f EXCEPT !.aux = x, !.carry = x], fate |-> "running"] \in States
    BY <2>5, <2>7 DEF States
  <2> QED BY <2>4, <2>8, <2>9 DEF g
<1>4. AsciiMul(f, r, b) \in States
  <2>1. CASE b = 0
    BY <2>1 DEF AsciiMul, Stopped, States
  <2>2. CASE b # 0
    <3> DEFINE q == r.low \div b
               m == r.low % b
    <3>1. b \in 1 .. 255 /\ r.low \in 0 .. 255
      BY <1>1, <2>2
    <3>2. q \in Values /\ m \in Values
      <4>1. q \in Nat /\ m \in 0 .. b - 1 /\ r.low = b * q + m
        <5>1. b \in Nat \ {0} /\ r.low \in Nat
          BY <3>1
        <5> QED BY <5>1, DivMod, Zenon
      <4> HIDE DEF q, m
      <4>2. b * q >= q
        BY <3>1, <4>1
      <4> DEFINE p == b * q
      <4>3. p \in Nat /\ p >= q /\ r.low = p + m
        BY <3>1, <4>1, <4>2
      <4> HIDE DEF p
      <4> QED BY <1>1, <3>1, <4>1, <4>3
    <3>3. AsciiMul(f, r, b) =
            [r |-> [r EXCEPT !.high = q, !.low = m], f |-> ZSP(f, m), fate |-> "running"]
      BY <2>2 DEF AsciiMul
    <3> HIDE DEF q, m
    <3>4. [r EXCEPT !.high = q, !.low = m] \in RegisterFile
      BY <3>2 DEF RegisterFile
    <3>5. ZSP(f, m) \in FlagWord
      BY ZSPTyped
    <3> QED BY <3>3, <3>4, <3>5 DEF States
  <2> QED BY <2>1, <2>2
<1>5. AsciiDiv(f, r, b) \in States
  <2> DEFINE w == r.high * b + r.low
             v == w % Size
  <2>1. w \in Int
    <3>1. r.high \in Int /\ r.low \in Int /\ b \in Int
      BY <1>1
    <3> QED BY <3>1
  <2> HIDE DEF w
  <2>2. v \in Values /\ 0 \in Values
    BY <1>1, <2>1, Modulo
  <2>3. AsciiDiv(f, r, b) =
          [r |-> [r EXCEPT !.low = v, !.high = 0], f |-> ZSP(f, v), fate |-> "running"]
    BY DEF AsciiDiv, w
  <2> HIDE DEF v
  <2>4. [r EXCEPT !.low = v, !.high = 0] \in RegisterFile
    BY <2>2 DEF RegisterFile
  <2>5. ZSP(f, v) \in FlagWord
    BY ZSPTyped
  <2> QED BY <2>3, <2>4, <2>5 DEF States
<1> QED BY <1>3, <1>4, <1>5

(* An instruction names an operation and a register, or a shift's counter. *)
Operations == AluOps \cup ShiftOps \cup WideOps \cup ByteOps

LEMMA InstructionForms ==
  ASSUME NEW i \in Instructions
  PROVE  /\ i[1] \in Operations /\ i[2] \in RegisterNames
         /\ Len(i) = 3 => i[1] \in ShiftOps
         /\ i[1] \in ByteOps => RegisterBits = 8
<1> DEFINE A == (AluOps \cup ShiftOps \cup WideOps) \cup IF RegisterBits = 8 THEN ByteOps ELSE {}
<1>1. CASE i \in A \X RegisterNames
  <2>1. PICK op \in A : \E r \in RegisterNames : i = <<op, r>>
    BY <1>1
  <2>2. PICK r \in RegisterNames : i = <<op, r>>
    BY <2>1
  <2>3. i[1] = op /\ i[2] = r /\ Len(i) = 2
    BY <2>2
  <2>4. op \in ByteOps => RegisterBits = 8
    BY DEF AluOps, ShiftOps, WideOps, ByteOps
  <2> QED BY <2>3, <2>4 DEF Operations
<1>2. CASE i \in ShiftOps \X RegisterNames \X {"cl"}
  <2>1. i[1] \in ShiftOps /\ i[2] \in RegisterNames
    BY <1>2
  <2>2. i[1] \notin ByteOps
    BY <2>1 DEF ShiftOps, ByteOps
  <2> QED BY <2>1, <2>2 DEF Operations
<1> QED BY <1>1, <1>2 DEF Instructions

LEMMA Registers8 == RegisterBits = 8 => Size = 256 /\ Top = 128
<1>1. 2^8 = 256 /\ 2^7 = 128
  OBVIOUS
<1>2. RegisterBits = 8 => RegisterBits - 1 = 7
  OBVIOUS
<1> QED BY <1>1, <1>2 DEF Size, Top

(* A result goes into the register it was computed for.                    *)
LEMMA ResultFacts ==
  ASSUME NEW e \in Results, NEW r \in RegisterFile, NEW register \in RegisterNames
  PROVE  /\ Result(e, r, register) \in States
         /\ Result(e, r, register).f = e.f /\ Result(e, r, register).fate = "running"
         /\ Result(e, r, register).r = [r EXCEPT ![register] = e.r]
<1>1. e.r \in Values /\ e.f \in FlagWord
  BY DEF Results
<1>2. [r EXCEPT ![register] = e.r] \in RegisterFile
  BY <1>1 DEF RegisterFile, RegisterNames
<1> QED BY <1>1, <1>2 DEF Result, States

LEMMA RegisterTyped ==
  ASSUME NEW r \in RegisterFile, NEW register \in RegisterNames
  PROVE  r[register] \in Values
BY DEF RegisterFile, RegisterNames

LEMMA EffectTyped ==
  ASSUME NEW i \in Instructions, NEW r \in RegisterFile, NEW o \in RegisterFile,
         NEW f \in FlagWord
  PROVE  Effect(i, r, o, f) \in States
<1> DEFINE op == i[1]
           reg == i[2]
           count == IF Len(i) = 3 THEN r.count ELSE 1
<1>1. op \in Operations /\ reg \in RegisterNames /\ (op \in ByteOps => RegisterBits = 8)
  BY InstructionForms
<1>2. r[reg] \in Values /\ o[reg] \in Values /\ r.count \in Values
  BY <1>1, RegisterTyped DEF RegisterNames, RegisterFile
<1>3. count \in Nat
  BY <1>2, SizeFacts
<1> HIDE DEF count
<1>4. CASE op \in AluOps
  <2>1. Alu(op, f, r[reg], o[reg]) \in Results
    BY <1>2, <1>4, AluTyped
  <2>2. Effect(i, r, o, f) = Result(Alu(op, f, r[reg], o[reg]), r, reg)
    BY <1>4 DEF Effect, AluOps, ShiftOps
  <2> DEFINE e == Alu(op, f, r[reg], o[reg])
  <2> HIDE DEF e, reg
  <2>3. Result(e, r, reg) \in States
    BY <1>1, <2>1, ResultFacts DEF e
  <2> QED BY <2>2, <2>3, Zenon DEF e, reg
<1>5. CASE op \in ShiftOps
  <2>1. Shift(op, f, r[reg], count) \in Results
    BY <1>2, <1>3, <1>5, ShiftFacts
  <2>2. op \notin AluOps
    BY <1>5 DEF ShiftOps, AluOps
  <2>3. Effect(i, r, o, f) = Result(Shift(op, f, r[reg], count), r, reg)
    BY <1>5, <2>2 DEF Effect, count, AluOps, ShiftOps
  <2> DEFINE e == Shift(op, f, r[reg], count)
  <2> HIDE DEF e, reg
  <2>4. Result(e, r, reg) \in States
    BY <1>1, <2>1, ResultFacts DEF e
  <2> QED BY <2>3, <2>4, Zenon DEF e, reg
<1>6. CASE op \in WideOps
  <2>1. Effect(i, r, o, f) \in {Mul(f, r, o[reg]), IMul(f, r, o[reg]), Div(f, r, o[reg]),
                                 IDiv(f, r, o[reg])}
    BY <1>6 DEF Effect, WideOps, AluOps, ShiftOps
  <2> QED BY <1>2, <2>1, MulTyped, DivTyped
<1>7. CASE op \in ByteOps
  <2>1. Effect(i, r, o, f) \in
          {DecimalAdjust(f, r, 1), DecimalAdjust(f, r, -1), AsciiAdjust(f, r, 1),
           AsciiAdjust(f, r, -1), AsciiMul(f, r, o[reg]), AsciiDiv(f, r, o[reg])}
    BY <1>7 DEF Effect, ByteOps, AluOps, ShiftOps
  <2> QED BY <1>1, <1>2, <1>7, <2>1, ByteTyped, Registers8
<1> QED BY <1>1, <1>4, <1>5, <1>6, <1>7 DEF Operations

-----------------------------------------------------------------------------
(* A run of a program: the state after each of its instructions so far.    *)

RunOf(s, n) ==
  /\ s \in [0 .. n -> States]
  /\ s[0].r = loaded /\ s[0].fate = "running"
  /\ \A k \in 1 .. n : /\ s[k - 1].fate = "running"
                       /\ s[k] = Effect(program[k], s[k - 1].r, operand, s[k - 1].f)
Now == [r |-> acc, f |-> aluFlags, fate |-> fate]

AluInv ==
  /\ operand \in RegisterFile /\ loaded \in RegisterFile /\ Now \in States
  /\ program \in Programs /\ pc \in 0 .. Len(program)
  /\ \E s : RunOf(s, pc) /\ s[pc] = Now

LEMMA ProgramFacts ==
  ASSUME NEW p \in Programs
  PROVE  p \in Seq(Instructions) /\ Len(p) \in Nat
         /\ \A k \in 1 .. Len(p) : p[k] \in Instructions
BY AluAssumption

LEMMA NowFacts ==
  /\ Now.r = acc /\ Now.f = aluFlags /\ Now.fate = fate
  /\ Now \in States => /\ acc \in RegisterFile /\ aluFlags \in FlagWord
                       /\ fate \in {"running", "trapped", "panicked"}
BY DEF Now, States

LEMMA RunStarts ==
  ASSUME loaded \in RegisterFile, aluFlags \in FlagWord, acc = loaded, fate = "running"
  PROVE  Now \in States /\ \E s : RunOf(s, 0) /\ s[0] = Now
<1> DEFINE s == [k \in 0 .. 0 |-> Now]
<1>1. Now \in States /\ Now.r = loaded /\ Now.fate = "running"
  BY DEF Now, States
<1>2. s \in [0 .. 0 -> States] /\ s[0] = Now
  BY <1>1
<1> HIDE DEF s
<1>3. RunOf(s, 0) /\ s[0] = Now
  BY <1>1, <1>2 DEF RunOf
<1> QED BY <1>1, <1>3

(* The invariant holds once the registers are loaded, and of every step.   *)
LEMMA AluStarts == AluInit => AluInv
<1> SUFFICES ASSUME AluInit PROVE AluInv
  OBVIOUS
<1>1. \A l \in Values : l % 16 \in Values /\ l \in Values
  BY SizeFacts
<1>2. \A l \in Limbs : l \in Values
  BY AluAssumption
<1>3. operand \in RegisterFile /\ loaded \in RegisterFile
  BY <1>1, <1>2 DEF AluInit, RegisterFile
<1>4. aluFlags \in FlagWord /\ program \in Programs /\ pc = 0 /\ acc = loaded /\ fate = "running"
  BY DEF AluInit, FlagWord
<1>5. pc \in 0 .. Len(program)
  BY <1>4, ProgramFacts
<1>6. Now \in States /\ \E s : RunOf(s, pc) /\ s[pc] = Now
  BY <1>3, <1>4, RunStarts
<1> QED BY <1>3, <1>4, <1>5, <1>6 DEF AluInv

LEMMA AluStep == AluInv /\ [AluNext]_aluVars => AluInv'
<1> SUFFICES ASSUME AluInv, [AluNext]_aluVars PROVE AluInv'
  OBVIOUS
<1>1. CASE ExecuteAlu
  <2>0. PICK n, m : n = pc /\ m = pc + 1
    OBVIOUS
  <2>1. PICK s : RunOf(s, n) /\ s[n] = Now
    BY <2>0 DEF AluInv
  <2>2. n \in Nat /\ n < Len(program) /\ m \in 1 .. Len(program) /\ m \in 0 .. Len(program)
        /\ program[m] \in Instructions /\ fate = "running" /\ program \in Programs
        /\ operand \in RegisterFile /\ loaded \in RegisterFile /\ Now \in States
    BY <1>1, <2>0, ProgramFacts DEF AluInv, ExecuteAlu
  <2>17. PICK e : e = Effect(program[m], acc, operand, aluFlags)
    OBVIOUS
  <2> DEFINE t == [k \in 0 .. m |-> IF k = m THEN e ELSE s[k]]
  <2>3. e \in States
    BY <2>2, <2>17, NowFacts, EffectTyped
  <2>4. acc' = e.r /\ aluFlags' = e.f /\ fate' = e.fate /\ pc' = m
        /\ operand' = operand /\ program' = program /\ loaded' = loaded
    BY <1>1, <2>0, <2>17 DEF ExecuteAlu
  <2>5. e = [r |-> e.r, f |-> e.f, fate |-> e.fate]
    BY <2>3 DEF States
  <2>6. Now' = e
    <3>1. Now' = [r |-> acc', f |-> aluFlags', fate |-> fate']
      BY DEF Now
    <3> QED BY <2>4, <2>5, <3>1, Zenon
  <2>7. e = Effect(program[m], s[n].r, operand, s[n].f) /\ s[n].fate = "running"
    BY <2>1, <2>2, <2>17, NowFacts
  <2>8. s \in [0 .. n -> States] /\ s[0].r = loaded /\ s[0].fate = "running"
        /\ \A k \in 1 .. n : /\ s[k - 1].fate = "running"
                             /\ s[k] = Effect(program[k], s[k - 1].r, operand, s[k - 1].f)
    BY <2>1 DEF RunOf
  <2>9. n \in Nat /\ m = n + 1
    BY <2>0, <2>2
  <2>10. t \in [0 .. m -> States]
    BY <2>3, <2>8, <2>9
  <2>11. t[m] = e /\ \A k \in 0 .. n : t[k] = s[k]
    BY <2>9
  <2> HIDE DEF t
  <2>12. t[0].r = loaded /\ t[0].fate = "running"
    BY <2>8, <2>9, <2>11
  <2>13. ASSUME NEW k \in 1 .. m
         PROVE  /\ t[k - 1].fate = "running"
                /\ t[k] = Effect(program[k], t[k - 1].r, operand, t[k - 1].f)
    <3>1. CASE k = m
      <4>1. k - 1 = n /\ n \in 0 .. n
        BY <2>9, <3>1
      <4> QED BY <2>7, <2>11, <3>1, <4>1
    <3>2. CASE k # m
      <4>1. k \in 1 .. n /\ k \in 0 .. n /\ k - 1 \in 0 .. n
        BY <2>9, <3>2
      <4> QED BY <2>8, <2>11, <4>1
    <3> QED BY <3>1, <3>2
  <2>18. PICK u : u = t
    OBVIOUS
  <2>14. RunOf(u, m)' /\ u[m] = Now'
    BY <2>18, <2>4, <2>6, <2>10, <2>11, <2>12, <2>13 DEF RunOf
  <2>15. (\E z : RunOf(z, pc) /\ z[pc] = Now)'
    BY <2>0, <2>4, <2>14
  <2>16. operand' \in RegisterFile /\ loaded' \in RegisterFile /\ Now' \in States
         /\ program' \in Programs /\ pc' \in 0 .. Len(program')
    BY <2>2, <2>3, <2>4, <2>6
  <2> QED BY <2>15, <2>16 DEF AluInv
<1>2. CASE RunAgain
  <2>1. acc' = loaded /\ pc' = 0 /\ fate' = "running" /\ operand' = operand
        /\ aluFlags' = aluFlags /\ program' = program /\ loaded' = loaded
    BY <1>2 DEF RunAgain
  <2>2. operand \in RegisterFile /\ loaded \in RegisterFile /\ aluFlags \in FlagWord
        /\ program \in Programs
    BY NowFacts DEF AluInv
  <2>3. (loaded \in RegisterFile /\ aluFlags \in FlagWord /\ acc = loaded /\ fate = "running")'
    BY <2>1, <2>2
  <2>4. (Now \in States /\ \E s : RunOf(s, 0) /\ s[0] = Now)'
    BY <2>3, RunStarts, PTL
  <2>5. pc' \in 0 .. Len(program')
    BY <2>1, <2>2, ProgramFacts
  <2> QED BY <2>1, <2>2, <2>4, <2>5 DEF AluInv
<1>3. CASE UNCHANGED aluVars
  BY <1>3 DEF AluInv, RunOf, Now, aluVars
<1> QED BY <1>1, <1>2, <1>3 DEF AluNext

-----------------------------------------------------------------------------
(* What the registers and flags are once programs of one to four           *)
(* instructions have run: each instruction on what the one before it left. *)

After(i, s) == Effect(i, s.r, operand, s.f)
AtStart(s) == s \in States /\ s.r = loaded

LEMMA OneRan ==
  ASSUME AluInv, NEW i, program = <<i>>, pc = 1
  PROVE  i \in Instructions /\ \E s : AtStart(s) /\ Now = After(i, s)
<1>1. PICK s : RunOf(s, pc) /\ s[pc] = Now
  BY DEF AluInv
<1>2. i \in Instructions
  <2>1. program \in Seq(Instructions) /\ Len(program) = 1 /\ program[1] = i
    BY ProgramFacts DEF AluInv
  <2> QED BY <2>1
<1>3. 1 - 1 = 0 /\ 0 \in 0 .. 1 /\ 1 \in 1 .. 1 /\ program[1] = i
  OBVIOUS
<1>4. AtStart(s[0]) /\ s[1] = After(i, s[0])
  BY <1>1, <1>3 DEF RunOf, AtStart, After
<1> QED BY <1>1, <1>2, <1>4

LEMMA TwoRan ==
  ASSUME AluInv, NEW i, NEW j, program = <<i, j>>, pc = 2
  PROVE  /\ i \in Instructions /\ j \in Instructions
         /\ \E s : AtStart(s) /\ After(i, s) \in States /\ Now = After(j, After(i, s))
<1>1. PICK s : RunOf(s, pc) /\ s[pc] = Now
  BY DEF AluInv
<1>2. program \in Seq(Instructions) /\ Len(program) = 2 /\ program[1] = i /\ program[2] = j
  BY ProgramFacts DEF AluInv
<1>3. i \in Instructions /\ j \in Instructions
  BY <1>2
<1>4. 1 - 1 = 0 /\ 2 - 1 = 1 /\ 0 \in 0 .. 2 /\ 1 \in 0 .. 2 /\ 1 \in 1 .. 2 /\ 2 \in 1 .. 2
  OBVIOUS
<1>5. AtStart(s[0]) /\ s[1] \in States /\ s[1] = After(i, s[0]) /\ s[2] = After(j, s[1])
  BY <1>1, <1>2, <1>4 DEF RunOf, AtStart, After
<1> QED BY <1>1, <1>3, <1>5

LEMMA ThreeRan ==
  ASSUME AluInv, NEW i, NEW j, NEW k, program = <<i, j, k>>, pc = 3
  PROVE  /\ i \in Instructions /\ j \in Instructions /\ k \in Instructions
         /\ \E s : LET t == After(i, s)
                       u == After(j, t)
                   IN AtStart(s) /\ t \in States /\ u \in States /\ Now = After(k, u)
<1>1. PICK s : RunOf(s, pc) /\ s[pc] = Now
  BY DEF AluInv
<1>2. program \in Seq(Instructions) /\ Len(program) = 3 /\ program[1] = i /\ program[2] = j
      /\ program[3] = k
  BY ProgramFacts DEF AluInv
<1>3. i \in Instructions /\ j \in Instructions /\ k \in Instructions
  BY <1>2
<1>4. /\ 1 - 1 = 0 /\ 2 - 1 = 1 /\ 3 - 1 = 2
      /\ 0 \in 0 .. 3 /\ 1 \in 0 .. 3 /\ 2 \in 0 .. 3
      /\ 1 \in 1 .. 3 /\ 2 \in 1 .. 3 /\ 3 \in 1 .. 3
  OBVIOUS
<1>5. /\ AtStart(s[0]) /\ s[1] \in States /\ s[2] \in States
      /\ s[1] = After(i, s[0]) /\ s[2] = After(j, s[1]) /\ s[3] = After(k, s[2])
  BY <1>1, <1>2, <1>4 DEF RunOf, AtStart, After
<1> QED BY <1>1, <1>3, <1>5

LEMMA FourRan ==
  ASSUME AluInv, NEW i, NEW j, NEW k, NEW l, program = <<i, j, k, l>>, pc = 4
  PROVE  \E s : LET t == After(i, s)
                    u == After(j, t)
                    v == After(k, u)
                IN /\ AtStart(s) /\ t \in States /\ u \in States /\ v \in States
                   /\ Now = After(l, v)
<1>1. PICK s : RunOf(s, pc) /\ s[pc] = Now
  BY DEF AluInv
<1>2. program[1] = i /\ program[2] = j /\ program[3] = k /\ program[4] = l
  OBVIOUS
<1>3. /\ 1 - 1 = 0 /\ 2 - 1 = 1 /\ 3 - 1 = 2 /\ 4 - 1 = 3
      /\ 0 \in 0 .. 4 /\ 1 \in 0 .. 4 /\ 2 \in 0 .. 4 /\ 3 \in 0 .. 4
      /\ 1 \in 1 .. 4 /\ 2 \in 1 .. 4 /\ 3 \in 1 .. 4 /\ 4 \in 1 .. 4
  OBVIOUS
<1>4. /\ AtStart(s[0]) /\ s[1] \in States /\ s[2] \in States /\ s[3] \in States
      /\ s[1] = After(i, s[0]) /\ s[2] = After(j, s[1]) /\ s[3] = After(k, s[2])
      /\ s[4] = After(l, s[3])
  BY <1>1, <1>2, <1>3 DEF RunOf, AtStart, After
<1> QED BY <1>1, <1>4

(* What an instruction does, by its name.                                  *)
Into(r, register, v) == [r EXCEPT ![register] = v]

LEMMA AluEffect ==
  ASSUME NEW op \in AluOps, NEW register \in RegisterNames, NEW s \in States,
         operand \in RegisterFile
  PROVE  LET a == Alu(op, s.f, s.r[register], operand[register])
         IN /\ a \in Results
            /\ After(<<op, register>>, s) =
                 [r |-> Into(s.r, register, a.r), f |-> a.f, fate |-> "running"]
<1> DEFINE a == Alu(op, s.f, s.r[register], operand[register])
           i == <<op, register>>
<1>1. s.r \in RegisterFile /\ s.f \in FlagWord
  BY DEF States
<1>2. s.r[register] \in Values /\ operand[register] \in Values
  BY <1>1, RegisterTyped
<1>3. a \in Results
  BY <1>1, <1>2, AluTyped
<1>4. i[1] = op /\ i[2] = register
  OBVIOUS
<1> HIDE DEF i
<1>5. Effect(i, s.r, operand, s.f) = Result(a, s.r, register)
  BY <1>4 DEF Effect, AluOps, ShiftOps
<1> QED BY <1>3, <1>5, Zenon DEF After, Result, Into, i

LEMMA ShiftEffect ==
  ASSUME NEW op \in ShiftOps, NEW register \in RegisterNames, NEW s \in States
  PROVE  LET a == Shift(op, s.f, s.r[register], 1)
             b == Shift(op, s.f, s.r[register], s.r.count)
         IN /\ a \in Results
            /\ After(<<op, register>>, s) =
                 [r |-> Into(s.r, register, a.r), f |-> a.f, fate |-> "running"]
            /\ b \in Results
            /\ After(<<op, register, "cl">>, s) =
                 [r |-> Into(s.r, register, b.r), f |-> b.f, fate |-> "running"]
<1> DEFINE a == Shift(op, s.f, s.r[register], 1)
           b == Shift(op, s.f, s.r[register], s.r.count)
           i == <<op, register>>
           j == <<op, register, "cl">>
<1>1. s.r \in RegisterFile /\ s.f \in FlagWord
  BY DEF States
<1>2. s.r[register] \in Values /\ s.r.count \in Nat
  BY <1>1, RegisterTyped, SizeFacts DEF RegisterFile
<1>3. a \in Results /\ b \in Results
  BY <1>1, <1>2, ShiftFacts
<1>4. /\ i[1] = op /\ i[2] = register /\ Len(i) = 2 /\ 2 # 3
      /\ j[1] = op /\ j[2] = register /\ Len(j) = 3
  OBVIOUS
<1> HIDE DEF i, j
<1>5. Effect(i, s.r, operand, s.f) = Result(a, s.r, register)
  BY <1>4 DEF Effect, AluOps, ShiftOps
<1>6. Effect(j, s.r, operand, s.f) = Result(b, s.r, register)
  BY <1>4 DEF Effect, AluOps, ShiftOps
<1> QED BY <1>3, <1>5, <1>6, Zenon DEF After, Result, Into, i, j

LEMMA IntoFacts ==
  ASSUME NEW r \in RegisterFile, NEW v \in Values
  PROVE  /\ \A register \in RegisterNames : Into(r, register, v) \in RegisterFile
         /\ Into(r, "low", v) = [low |-> v, high |-> r.high, count |-> r.count]
         /\ Into(r, "high", v) = [low |-> r.low, high |-> v, count |-> r.count]
         /\ Into(r, "count", v) = [low |-> r.low, high |-> r.high, count |-> v]
<1>1. /\ r = [low |-> r.low, high |-> r.high, count |-> r.count]
      /\ r.low \in Values /\ r.high \in Values /\ r.count \in Values
  BY DEF RegisterFile
<1>2. /\ Into(r, "low", v) = [low |-> v, high |-> r.high, count |-> r.count]
      /\ Into(r, "high", v) = [low |-> r.low, high |-> v, count |-> r.count]
      /\ Into(r, "count", v) = [low |-> r.low, high |-> r.high, count |-> v]
  <2> DEFINE x == r.low
             y == r.high
             z == r.count
  <2>1. r = [low |-> x, high |-> y, count |-> z]
    BY <1>1
  <2> HIDE DEF x, y, z
  <2>2. Into(r, "low", v) = [low |-> v, high |-> y, count |-> z]
    BY <2>1 DEF Into
  <2>3. Into(r, "high", v) = [low |-> x, high |-> v, count |-> z]
    BY <2>1 DEF Into
  <2>4. Into(r, "count", v) = [low |-> x, high |-> y, count |-> v]
    BY <2>1 DEF Into
  <2> QED BY <2>2, <2>3, <2>4 DEF x, y, z
<1>3. \A x, y, z \in Values : [low |-> x, high |-> y, count |-> z] \in RegisterFile
  BY DEF RegisterFile
<1> QED BY <1>1, <1>2, <1>3 DEF RegisterNames

(* The conditional jumps, by the flags they test.                          *)
LEMMA Conditions ==
  ASSUME aluFlags \in FlagWord
  PROVE  /\ Condition(0) = aluFlags.overflow
         /\ Condition(2) = aluFlags.carry /\ Condition(3) = ~aluFlags.carry
         /\ Condition(4) = aluFlags.zero /\ Condition(5) = ~aluFlags.zero
         /\ Condition(6) = (aluFlags.carry \/ aluFlags.zero)
         /\ Condition(7) = ~(aluFlags.carry \/ aluFlags.zero)
         /\ Condition(12) = (aluFlags.sign # aluFlags.overflow)
         /\ Condition(13) = ~(aluFlags.sign # aluFlags.overflow)
         /\ Condition(14) = (aluFlags.sign # aluFlags.overflow \/ aluFlags.zero)
         /\ Condition(15) = ~(aluFlags.sign # aluFlags.overflow \/ aluFlags.zero)
<1>1. /\ aluFlags.carry \in BOOLEAN /\ aluFlags.zero \in BOOLEAN
      /\ aluFlags.sign \in BOOLEAN /\ aluFlags.overflow \in BOOLEAN
  BY DEF FlagWord
<1> QED BY <1>1 DEF Condition

-----------------------------------------------------------------------------
(* Comparisons.                                                            *)

(* The sign of a difference, taken with its overflow, orders the signed    *)
(* numbers.                                                                *)
LEMMA SubOrders ==
  ASSUME NEW f \in FlagWord, NEW a \in Values, NEW b \in Values
  PROVE  LET e == Sub(f, a, b, 0)
         IN /\ e \in Results
            /\ e.f.carry = (a < b) /\ e.f.zero = (a = b)
            /\ (e.f.sign # e.f.overflow) = (Signed(a) < Signed(b))
<1> DEFINE e == Sub(f, a, b, 0)
           w == (a - b) - 0
           x == Signed(a)
           y == Signed(b)
           v == (x - y) - 0
<1>1. /\ e \in Results /\ e.r = (IF w < 0 THEN w + Size ELSE w)
      /\ e.f.carry = (w < 0) /\ e.f.overflow = ~SignedFits(v)
      /\ e.f.zero = (e.r = 0) /\ e.f.sign = (e.r >= Top)
  BY SubFacts
<1>2. a \in 0 .. Size - 1 /\ b \in 0 .. Size - 1
  BY SizeFacts
<1>3. x = (IF a < Top THEN a ELSE a - Size) /\ y = (IF b < Top THEN b ELSE b - Size)
  BY DEF Signed
<1>4. SignedFits(v) = (v >= -Top /\ v < Top)
  BY DEF SignedFits
<1> DEFINE r == e.r
           fits == SignedFits(v)
<1>5. r = IF w < 0 THEN w + Size ELSE w
  BY <1>1
<1> HIDE DEF e, x, y, r
<1>6. (w < 0) = (a < b) /\ (r = 0) = (a = b)
  BY <1>2, <1>5, SizeFacts
<1>7. ((r >= Top) # ~(v >= -Top /\ v < Top)) = (x < y)
  BY <1>2, <1>3, <1>5, SizeFacts
<1> QED BY <1>1, <1>4, <1>6, <1>7, Zenon DEF e, r, x, y

LEMMA OrdersKnown == AluInv => OrderKnown
<1> SUFFICES ASSUME AluInv, Ran(Compare)
             PROVE  LET a == loaded.low
                        b == operand.low
                    IN /\ Condition(2) = (a < b) /\ Condition(3) = (a >= b)
                       /\ Condition(6) = (a <= b) /\ Condition(7) = (a > b)
                       /\ Condition(4) = (a = b) /\ Condition(5) = (a # b)
                       /\ Condition(12) = (Signed(a) < Signed(b))
                       /\ Condition(13) = (Signed(a) >= Signed(b))
                       /\ Condition(14) = (Signed(a) <= Signed(b))
                       /\ Condition(15) = (Signed(a) > Signed(b))
  BY DEF OrderKnown
<1> DEFINE a == loaded.low
           b == operand.low
           i == <<"cmp", "low">>
<1>1. program = <<i>> /\ pc = 1
  BY DEF Ran, Compare
<1>2. PICK s : AtStart(s) /\ Now = After(i, s)
  <2> HIDE DEF i
  <2> QED BY <1>1, OneRan
<1>3. operand \in RegisterFile /\ aluFlags \in FlagWord
  BY NowFacts DEF AluInv
<1>4. s.f \in FlagWord /\ a \in Values /\ b \in Values
  BY <1>2, <1>3 DEF AtStart, States, RegisterFile
<1> DEFINE e == Sub(s.f, a, b, 0)
           c == Alu("cmp", s.f, a, b)
<1>5. Now.f = c.f
  <2>1. After(i, s) = [r |-> Into(s.r, "low", c.r), f |-> c.f, fate |-> "running"]
    BY <1>2, <1>3, AluEffect DEF AtStart, AluOps, RegisterNames
  <2> QED BY <1>2, <2>1
<1>6. e \in Results /\ c = [e EXCEPT !.r = a]
  BY <1>4, SubOrders DEF Alu, LogicOps
<1> HIDE DEF e, c
<1>7. aluFlags = e.f
  BY <1>5, <1>6, NowFacts DEF Results
<1>8. /\ e.f.carry = (a < b) /\ e.f.zero = (a = b)
      /\ (e.f.sign # e.f.overflow) = (Signed(a) < Signed(b))
  BY <1>4, SubOrders DEF e
<1> DEFINE x == Signed(a)
           y == Signed(b)
<1>9. a \in Int /\ b \in Int /\ x \in Int /\ y \in Int /\ (x = y) = (a = b)
  BY <1>4, SizeFacts DEF Signed
<1> HIDE DEF a, b, x, y
<1>10. /\ (a >= b) = ~(a < b) /\ (a <= b) = (a < b \/ a = b) /\ (a > b) = ~(a < b \/ a = b)
       /\ (x >= y) = ~(x < y) /\ (x <= y) = (x < y \/ a = b) /\ (x > y) = ~(x < y \/ a = b)
       /\ (a # b) = ~(a = b)
  BY <1>9
<1>11. /\ Condition(2) = (a < b) /\ Condition(3) = ~(a < b)
       /\ Condition(4) = (a = b) /\ Condition(5) = ~(a = b)
       /\ Condition(6) = (a < b \/ a = b) /\ Condition(7) = ~(a < b \/ a = b)
       /\ Condition(12) = (x < y) /\ Condition(13) = ~(x < y)
       /\ Condition(14) = (x < y \/ a = b) /\ Condition(15) = ~(x < y \/ a = b)
  BY <1>3, <1>7, <1>8, Conditions, Zenon DEF x, y
<1> QED BY <1>10, <1>11, Zenon DEF a, b, x, y

-----------------------------------------------------------------------------
(* Long sums.                                                              *)

(* A pair as a signed number: its high register signed, its low one not.   *)
LEMMA SignedPairParts ==
  ASSUME NEW l \in Values, NEW h \in Values
  PROVE  SignedPair(l + h * Size) = l + Signed(h) * Size
<1>1. l \in 0 .. Size - 1 /\ h \in 0 .. Size - 1
  BY SizeFacts
<1> DEFINE t == h - Top
<1>2. (l + t * Size >= 0) = (t >= 0)
  <2>1. t \in Int
    BY <1>1, SizeFacts
  <2> HIDE DEF t
  <2> QED BY <1>1, <2>1, HighDecides, SizeFacts
<1>3. t * Size = h * Size - Top * Size
  BY <1>1, SizeFacts
<1> DEFINE p == h * Size
           q == Top * Size
           u == Size * Size
<1>4. p \in Int /\ q \in Int /\ u \in Int /\ l \in Int
  BY <1>1, SizeFacts
<1>5. (l + p < q) = (h < Top)
  <2>1. (l + (p - q) >= 0) = (h - Top >= 0) /\ h \in Int /\ Top \in Int
    BY <1>1, <1>2, <1>3, SizeFacts
  <2> HIDE DEF p, q
  <2> QED BY <1>4, <2>1
<1>6. SignedPair(l + p) = IF l + p < q THEN l + p ELSE (l + p) - u
  BY DEF SignedPair, PairSize
<1>7. CASE h < Top
  <2>1. Signed(h) = h
    BY <1>7 DEF Signed
  <2> QED BY <1>5, <1>6, <1>7, <2>1
<1>8. CASE ~(h < Top)
  <2>1. Signed(h) = h - Size
    BY <1>8 DEF Signed
  <2>2. (h - Size) * Size = p - u
    BY <1>1, SizeFacts
  <2> HIDE DEF p, u
  <2>3. SignedPair(l + p) = l + (p - u)
    BY <1>4, <1>5, <1>6, <1>8
  <2> QED BY <2>1, <2>2, <2>3 DEF p
<1> QED BY <1>7, <1>8

(* A number that differs from a pair by whole turns wraps to the pair.     *)
LEMMA PairWraps ==
  ASSUME NEW v \in Int, NEW l \in Values, NEW h \in Values, NEW k \in Int,
         v = l + h * Size + k * PairSize
  PROVE  /\ v % PairSize = l + h * Size
         /\ l + h * Size \in 0 .. PairSize - 1 /\ PairSize \in Nat \ {0}
<1> DEFINE r == l + h * Size
           d == PairSize
<1>1. r \in 0 .. d - 1
  BY SizeFacts, PairParts DEF PairSize
<1>2. d \in Nat \ {0}
  BY SizeFacts DEF PairSize
<1>3. v = d * k + r
  <2>1. v = r + k * d /\ r \in Int
    BY <1>1
  <2> HIDE DEF r, d
  <2> QED BY <1>2, <2>1
<1> HIDE DEF r, d
<1>4. v % d = r
  BY <1>1, <1>2, <1>3, WholeUnique
<1> QED BY <1>1, <1>2, <1>4 DEF r, d

LEMMA LongSum ==
  ASSUME NEW al \in Values, NEW ah \in Values, NEW bl \in Values, NEW bh \in Values,
         NEW c \in {0, 1}, NEW k \in {0, 1}, NEW rl \in Values, NEW rh \in Values,
         rl = al + bl - c * Size, rh = (ah + bh + c) - k * Size
  PROVE  LET x == al + ah * Size
             y == bl + bh * Size
         IN /\ rl + rh * Size = (x + y) % PairSize /\ (x + y >= PairSize) = (k = 1)
            /\ (SignedPair(x) + SignedPair(y) # SignedPair((x + y) % PairSize))
                 = ~SignedFits(Signed(ah) + Signed(bh) + c)
<1> DEFINE x == al + ah * Size
           y == bl + bh * Size
           z == rl + rh * Size
           d == PairSize
<1>1. al \in Int /\ ah \in Int /\ bl \in Int /\ bh \in Int /\ rl \in Int /\ rh \in Int
      /\ Size \in Int
  BY SizeFacts
<1>2. x + y = z + k * d
  <2>1. rh * Size = ah * Size + bh * Size + c * Size - k * (Size * Size)
    BY <1>1
  <2> QED BY <1>1, <2>1 DEF PairSize
<1>3. x + y \in Int
  BY <1>1
<1>4. (x + y) % d = z /\ z \in 0 .. d - 1 /\ d \in Nat \ {0}
  <2> DEFINE v == x + y
  <2>1. v \in Int /\ v = rl + rh * Size + k * PairSize /\ k \in Int
    BY <1>2, <1>3
  <2> HIDE DEF v
  <2>2. v % PairSize = rl + rh * Size /\ rl + rh * Size \in 0 .. PairSize - 1
        /\ PairSize \in Nat \ {0}
    BY <2>1, PairWraps
  <2> QED BY <2>2 DEF v
<1>5. (x + y >= d) = (k = 1)
  <2> HIDE DEF z, d, x, y
  <2> QED BY <1>2, <1>4
<1>6. SignedPair(x) = al + Signed(ah) * Size /\ SignedPair(y) = bl + Signed(bh) * Size
      /\ SignedPair(z) = rl + Signed(rh) * Size
  BY SignedPairParts
<1> DEFINE sa == Signed(ah)
           sb == Signed(bh)
           sr == Signed(rh)
           v == sa + sb + c
<1>7. /\ sa = (IF ah < Top THEN ah ELSE ah - Size) /\ sb = (IF bh < Top THEN bh ELSE bh - Size)
      /\ sr = (IF rh < Top THEN rh ELSE rh - Size)
      /\ SignedFits(v) = (v >= -Top /\ v < Top)
  BY DEF Signed, SignedFits
<1> HIDE DEF sa, sb, sr, v, x, y, z, d
<1>8. sa \in Int /\ sb \in Int /\ sr \in Int /\ v \in Int
  BY <1>1, <1>7, SizeFacts DEF v
<1>9. (v = sr) = (v >= -Top /\ v < Top)
  BY <1>7, SizeFacts DEF v
<1>10. SignedPair(x) + SignedPair(y) = rl + v * Size /\ SignedPair(z) = rl + sr * Size
  <2>1. v * Size = sa * Size + sb * Size + c * Size
    BY <1>1, <1>8 DEF v
  <2> QED BY <1>1, <1>6, <1>8, <2>1 DEF sa, sb, sr
<1>11. (rl + v * Size = rl + sr * Size) = (v = sr)
  <2>1. (v - sr) * Size = v * Size - sr * Size
    BY <1>1, <1>8
  <2>2. ASSUME v # sr PROVE (v - sr) * Size # 0
    <3> DEFINE t == v - sr
    <3>1. t \in Int /\ t # 0
      BY <1>8, <2>2
    <3> HIDE DEF t
    <3>2. t * Size # 0
      BY <3>1, SizeFacts
    <3> QED BY <3>2 DEF t
  <2> DEFINE p == v * Size
             q == sr * Size
  <2>3. p \in Int /\ q \in Int
    BY <1>1, <1>8
  <2>4. v # sr => p - q # 0
    BY <2>1, <2>2
  <2>5. v = sr => p = q
    OBVIOUS
  <2> HIDE DEF p, q
  <2>6. (rl + p = rl + q) = (v = sr)
    BY <1>1, <2>3, <2>4, <2>5
  <2> QED BY <2>6 DEF p, q
<1>12. (SignedPair(x) + SignedPair(y) # SignedPair(z)) = ~SignedFits(v)
  BY <1>7, <1>9, <1>10, <1>11
<1> QED BY <1>4, <1>5, <1>12, Zenon DEF x, y, z, d, v, sa, sb

(* The same of a difference: c is what the low registers borrow, k what    *)
(* the high ones do.                                                       *)
Borrowed(al, ah, bl, bh, c, k, rl, rh) ==
  /\ {al, ah, bl, bh, rl, rh} \subseteq Values /\ {c, k} \subseteq {0, 1}
  /\ rl = al - bl + c * Size /\ rh = ((ah - bh) - c) + k * Size

LEMMA LongDifference ==
  ASSUME NEW al, NEW ah, NEW bl, NEW bh, NEW c, NEW k, NEW rl, NEW rh,
         Borrowed(al, ah, bl, bh, c, k, rl, rh)
  PROVE  LET x == al + ah * Size
             y == bl + bh * Size
         IN /\ rl + rh * Size = (x - y) % PairSize /\ (x < y) = (k = 1)
            /\ ((rh >= Top) # ~SignedFits((Signed(ah) - Signed(bh)) - c))
                 = (SignedPair(x) < SignedPair(y))
<1> DEFINE x == al + ah * Size
           y == bl + bh * Size
           z == rl + rh * Size
           d == PairSize
           j == 0 - k
<1>1. al \in Int /\ ah \in Int /\ bl \in Int /\ bh \in Int /\ rl \in Int /\ rh \in Int
      /\ Size \in Int
      /\ al \in Values /\ ah \in Values /\ bl \in Values /\ bh \in Values
      /\ rl \in Values /\ rh \in Values /\ c \in {0, 1} /\ k \in {0, 1}
      /\ rl = al - bl + c * Size /\ rh = ((ah - bh) - c) + k * Size
  BY SizeFacts DEF Borrowed
<1>2. x - y = z + j * d
  <2>1. rh * Size = ah * Size - bh * Size - c * Size + k * (Size * Size)
    BY <1>1
  <2> QED BY <1>1, <2>1 DEF PairSize
<1>3. x - y \in Int /\ x \in Int /\ y \in Int
  BY <1>1
<1>4. (x - y) % d = z /\ z \in 0 .. d - 1 /\ d \in Nat \ {0}
  <2> DEFINE v == x - y
  <2>1. v \in Int /\ v = rl + rh * Size + j * PairSize /\ j \in Int
    BY <1>1, <1>2, <1>3
  <2> HIDE DEF v, j
  <2>2. v % PairSize = rl + rh * Size /\ rl + rh * Size \in 0 .. PairSize - 1
        /\ PairSize \in Nat \ {0}
    BY <1>1, <2>1, PairWraps
  <2> QED BY <2>2 DEF v
<1>5. (x < y) = (k = 1)
  <2> HIDE DEF z, d, x, y
  <2> QED BY <1>1, <1>2, <1>3, <1>4
<1>6. SignedPair(x) = al + Signed(ah) * Size /\ SignedPair(y) = bl + Signed(bh) * Size
  BY <1>1, SignedPairParts
<1> DEFINE sa == Signed(ah)
           sb == Signed(bh)
           v == (sa - sb) - c
<1>7. /\ sa = (IF ah < Top THEN ah ELSE ah - Size) /\ sb = (IF bh < Top THEN bh ELSE bh - Size)
      /\ SignedFits(v) = (v >= -Top /\ v < Top)
  BY DEF Signed, SignedFits
<1> HIDE DEF sa, sb, v, x, y, z, d
<1>8. sa \in Int /\ sb \in Int /\ v \in Int
  BY <1>1, <1>7, SizeFacts DEF v
<1>9. ((rh >= Top) # ~(v >= -Top /\ v < Top)) = (v < 0)
  BY <1>1, <1>7, SizeFacts DEF v
<1>10. SignedPair(x) - SignedPair(y) = rl + v * Size
       /\ SignedPair(x) \in Int /\ SignedPair(y) \in Int
  <2>1. v * Size = sa * Size - sb * Size - c * Size
    BY <1>1, <1>8 DEF v
  <2> QED BY <1>1, <1>6, <1>8, <2>1 DEF sa, sb
<1>11. (rl + v * Size >= 0) = (v >= 0)
  BY <1>1, <1>8, SizeFacts, HighDecides
<1>12. (SignedPair(x) < SignedPair(y)) = (v < 0)
  <2> DEFINE p == SignedPair(x)
             q == SignedPair(y)
             t == rl + v * Size
  <2>1. p \in Int /\ q \in Int /\ p - q = t /\ (t >= 0) = (v >= 0)
    BY <1>10, <1>11
  <2> HIDE DEF p, q, t
  <2>2. (p < q) = (v < 0)
    BY <1>8, <2>1
  <2> QED BY <2>2 DEF p, q
<1>13. ((rh >= Top) # ~SignedFits(v)) = (SignedPair(x) < SignedPair(y))
  BY <1>7, <1>9, <1>12
<1> QED BY <1>4, <1>5, <1>13, Zenon DEF x, y, z, d, v, sa, sb

(* The pair's negation: the high register first, then the low one, whose   *)
(* borrow the high one pays.                                               *)
LEMMA LongNegation ==
  ASSUME NEW al \in Values, NEW ah \in Values, NEW c \in {0, 1}, NEW k \in {0, 1},
         NEW j \in {0, 1}, NEW rl \in Values, NEW rh \in Values,
         rl = (0 - al) + c * Size, rh = (((0 - ah) + k * Size) - 0) - c + j * Size
  PROVE  rl + rh * Size = (-(al + ah * Size)) % PairSize
<1> DEFINE x == al + ah * Size
           m == -k - j
           v == -x
<1>1. al \in Int /\ ah \in Int /\ rl \in Int /\ rh \in Int /\ Size \in Int
  BY SizeFacts
<1>2. v \in Int /\ m \in Int
  BY <1>1
<1>3. v = rl + rh * Size + m * PairSize
  <2>1. rh * Size = (k + j) * (Size * Size) - ah * Size - c * Size
    BY <1>1
  <2>2. m * (Size * Size) = 0 - (k + j) * (Size * Size)
    BY <1>1
  <2> QED BY <1>1, <2>1, <2>2 DEF PairSize
<1> HIDE DEF v, m
<1>4. v % PairSize = rl + rh * Size
  BY <1>2, <1>3, PairWraps
<1> QED BY <1>4 DEF v

AluCases ==
  \A f \in FlagWord, a \in Values, b \in Values :
    /\ Alu("add", f, a, b) = Add(f, a, b, 0)
    /\ Alu("adc", f, a, b) = Add(f, a, b, AsBit(f.carry))
    /\ Alu("sub", f, a, b) = Sub(f, a, b, 0)
    /\ Alu("sbb", f, a, b) = Sub(f, a, b, AsBit(f.carry))
    /\ Alu("inc", f, a, b) = Inc(f, a) /\ Alu("dec", f, a, b) = Dec(f, a)
    /\ Alu("neg", f, a, b) = Sub(f, 0, a, 0)
    /\ Alu("not", f, a, b) = [r |-> (Size - 1) - a, f |-> f]

LEMMA AluByName == AluCases
BY DEF AluCases, Alu, LogicOps

(* The registers and the flags after an instruction on the low, the high   *)
(* and the counter register.                                               *)
LEMMA AfterAlu ==
  ASSUME AluInv, NEW op \in AluOps, NEW s \in States
  PROVE  /\ LET a == Alu(op, s.f, s.r.low, operand.low)
            IN a \in Results
               /\ After(<<op, "low">>, s) =
                    [r |-> [low |-> a.r, high |-> s.r.high, count |-> s.r.count], f |-> a.f,
                     fate |-> "running"]
         /\ LET a == Alu(op, s.f, s.r.high, operand.high)
            IN a \in Results
               /\ After(<<op, "high">>, s) =
                    [r |-> [low |-> s.r.low, high |-> a.r, count |-> s.r.count], f |-> a.f,
                     fate |-> "running"]
         /\ LET a == Alu(op, s.f, s.r.count, operand.count)
            IN a \in Results
               /\ After(<<op, "count">>, s) =
                    [r |-> [low |-> s.r.low, high |-> s.r.high, count |-> a.r], f |-> a.f,
                     fate |-> "running"]
<1> DEFINE al == Alu(op, s.f, s.r["low"], operand["low"])
           ah == Alu(op, s.f, s.r["high"], operand["high"])
           ac == Alu(op, s.f, s.r["count"], operand["count"])
<1>1. operand \in RegisterFile /\ s.r \in RegisterFile
  BY DEF AluInv, States
<1>2. {"low", "high", "count"} = RegisterNames
  BY DEF RegisterNames
<1>3. /\ al \in Results
      /\ After(<<op, "low">>, s) = [r |-> Into(s.r, "low", al.r), f |-> al.f, fate |-> "running"]
  BY <1>1, <1>2, AluEffect
<1>4. /\ ah \in Results
      /\ After(<<op, "high">>, s) = [r |-> Into(s.r, "high", ah.r), f |-> ah.f, fate |-> "running"]
  BY <1>1, <1>2, AluEffect
<1>5. /\ ac \in Results
      /\ After(<<op, "count">>, s) = [r |-> Into(s.r, "count", ac.r), f |-> ac.f, fate |-> "running"]
  BY <1>1, <1>2, AluEffect
<1> HIDE DEF al, ah, ac
<1>6. al.r \in Values /\ ah.r \in Values /\ ac.r \in Values
  BY <1>3, <1>4, <1>5 DEF Results
<1>7. /\ Into(s.r, "low", al.r) = [low |-> al.r, high |-> s.r.high, count |-> s.r.count]
      /\ Into(s.r, "high", ah.r) = [low |-> s.r.low, high |-> ah.r, count |-> s.r.count]
      /\ Into(s.r, "count", ac.r) = [low |-> s.r.low, high |-> s.r.high, count |-> ac.r]
  BY <1>1, <1>6, IntoFacts
<1>8. /\ al = Alu(op, s.f, s.r.low, operand.low)
      /\ ah = Alu(op, s.f, s.r.high, operand.high)
      /\ ac = Alu(op, s.f, s.r.count, operand.count)
  BY DEF al, ah, ac
<1> QED BY <1>3, <1>4, <1>5, <1>7, <1>8

(* What a register takes over into the next: a carry is one or none.       *)
LEMMA BitValues == \A b \in BOOLEAN : AsBit(b) \in {0, 1} /\ (AsBit(b) = 1) = b
BY DEF AsBit

LEMMA AddCarries ==
  ASSUME NEW f \in FlagWord, NEW a \in Values, NEW b \in Values, NEW c \in {0, 1}
  PROVE  LET e == Add(f, a, b, c)
             k == AsBit(e.f.carry)
         IN /\ e \in Results /\ e.r \in Values /\ k \in {0, 1} /\ (k = 1) = e.f.carry
            /\ e.r = (a + b + c) - k * Size
            /\ e.f.overflow = ~SignedFits(Signed(a) + Signed(b) + c)
<1> DEFINE e == Add(f, a, b, c)
           k == AsBit(e.f.carry)
           w == a + b + c
<1>1. /\ e \in Results /\ e.r = (IF w < Size THEN w ELSE w - Size) /\ e.f.carry = (w >= Size)
      /\ e.f.overflow = ~SignedFits(Signed(a) + Signed(b) + c)
  BY AddFacts
<1> HIDE DEF e
<1>2. e.r \in Values /\ e.f.carry \in BOOLEAN
  BY <1>1 DEF Results, FlagWord
<1>3. k \in {0, 1} /\ (k = 1) = e.f.carry
  BY <1>2, BitValues
<1> HIDE DEF k
<1>4. (k = 1) = (w >= Size)
  BY <1>1, <1>3
<1>5. w \in Int
  BY SizeFacts
<1> HIDE DEF w
<1>6. e.r = w - k * Size
  BY <1>1, <1>3, <1>4, <1>5, SizeFacts
<1> QED BY <1>1, <1>2, <1>3, <1>6 DEF e, k, w

LEMMA SubBorrows ==
  ASSUME NEW f \in FlagWord, NEW a \in Values, NEW b \in Values, NEW c \in {0, 1}
  PROVE  LET e == Sub(f, a, b, c)
             k == AsBit(e.f.carry)
         IN /\ e \in Results /\ e.r \in Values /\ k \in {0, 1} /\ (k = 1) = e.f.carry
            /\ e.r = ((a - b) - c) + k * Size
            /\ e.f.overflow = ~SignedFits((Signed(a) - Signed(b)) - c)
            /\ e.f.sign = (e.r >= Top)
<1> DEFINE e == Sub(f, a, b, c)
           k == AsBit(e.f.carry)
           w == (a - b) - c
<1>1. /\ e \in Results /\ e.r = (IF w < 0 THEN w + Size ELSE w) /\ e.f.carry = (w < 0)
      /\ e.f.overflow = ~SignedFits((Signed(a) - Signed(b)) - c)
      /\ e.f.sign = (e.r >= Top)
  BY SubFacts
<1> HIDE DEF e
<1>2. e.r \in Values /\ e.f.carry \in BOOLEAN
  BY <1>1 DEF Results, FlagWord
<1>3. k \in {0, 1} /\ (k = 1) = e.f.carry
  BY <1>2, BitValues
<1> HIDE DEF k
<1>4. (k = 1) = (w < 0)
  BY <1>1, <1>3
<1>5. w \in Int
  BY SizeFacts
<1> HIDE DEF w
<1>6. e.r = w + k * Size
  BY <1>1, <1>3, <1>4, <1>5, SizeFacts
<1> QED BY <1>1, <1>2, <1>3, <1>6 DEF e, k, w

LEMMA WideAdds ==
  ASSUME AluInv, Ran(WideAdd)
  PROVE  LET x == Pair(loaded)
             y == Pair(operand)
         IN /\ Pair(acc) = (x + y) % PairSize /\ Condition(2) = (x + y >= PairSize)
            /\ Condition(0) = (SignedPair(x) + SignedPair(y) # SignedPair((x + y) % PairSize))
<1> DEFINE al == loaded.low
           ah == loaded.high
           bl == operand.low
           bh == operand.high
<1>1. loaded \in RegisterFile /\ operand \in RegisterFile /\ aluFlags \in FlagWord
  BY NowFacts DEF AluInv
<1>2. al \in Values /\ ah \in Values /\ bl \in Values /\ bh \in Values
  BY <1>1 DEF RegisterFile
<1>3. PICK s : LET t == After(<<"add", "low">>, s)
                   u == After(<<"inc", "count">>, t)
               IN AtStart(s) /\ t \in States /\ u \in States /\ Now = After(<<"adc", "high">>, u)
  BY ThreeRan DEF Ran, WideAdd
<1> DEFINE t == After(<<"add", "low">>, s)
           u == After(<<"inc", "count">>, t)
           e1 == Add(s.f, al, bl, 0)
           c == AsBit(e1.f.carry)
           e3 == Add(u.f, ah, bh, c)
<1>4. s \in States /\ s.r = loaded /\ s.f \in FlagWord
  BY <1>3 DEF AtStart, States
<1>5. {"add", "inc", "adc"} \subseteq AluOps
  BY DEF AluOps
<1>6. t.r.low = e1.r /\ t.r.high = ah /\ t.f = e1.f /\ t.f \in FlagWord
  <2>1. Alu("add", s.f, s.r.low, operand.low) = e1
    BY <1>2, <1>4, AluByName DEF AluCases
  <2>2. e1 \in Results
        /\ t = [r |-> [low |-> e1.r, high |-> s.r.high, count |-> s.r.count], f |-> e1.f,
                fate |-> "running"]
    BY <1>4, <1>5, <2>1, AfterAlu
  <2> HIDE DEF e1, t
  <2> QED BY <1>4, <2>2 DEF Results
<1>7. t \in States /\ u \in States /\ Now = After(<<"adc", "high">>, u)
  BY <1>3
<1> HIDE DEF t
<1>8. u.r.low = e1.r /\ u.r.high = ah /\ u.f \in FlagWord /\ u.f.carry = e1.f.carry
  <2> DEFINE e2 == Inc(t.f, t.r.count)
  <2>1. t.r.count \in Values /\ t.f \in FlagWord /\ operand.count \in Values
    BY <1>1, <1>7 DEF States, RegisterFile
  <2>2. Alu("inc", t.f, t.r.count, operand.count) = e2
    BY <2>1, AluByName DEF AluCases
  <2>3. e2 \in Results
        /\ u = [r |-> [low |-> t.r.low, high |-> t.r.high, count |-> e2.r], f |-> e2.f,
                fate |-> "running"]
    BY <1>5, <1>7, <2>2, AfterAlu
  <2>4. e2.f.carry = t.f.carry
    BY <2>1, IncFacts
  <2> HIDE DEF e1, e2, u
  <2> QED BY <1>6, <2>3, <2>4 DEF Results
<1> HIDE DEF u
<1>9. /\ e1.r \in Values /\ c \in {0, 1} /\ (c = 1) = e1.f.carry
      /\ e1.r = (al + bl + 0) - c * Size
  BY <1>2, <1>4, AddCarries
<1>10. acc.low = e1.r /\ acc.high = e3.r /\ aluFlags = e3.f
  <2>1. Alu("adc", u.f, u.r.high, operand.high) = e3
    BY <1>2, <1>8, AluByName DEF AluCases
  <2>2. e3 \in Results
        /\ Now = [r |-> [low |-> u.r.low, high |-> e3.r, count |-> u.r.count], f |-> e3.f,
                  fate |-> "running"]
    BY <1>5, <1>7, <2>1, AfterAlu
  <2> HIDE DEF e1, e3
  <2> QED BY <1>8, <2>2, NowFacts
<1> DEFINE k == AsBit(e3.f.carry)
<1>11. /\ e3.r \in Values /\ k \in {0, 1} /\ (k = 1) = e3.f.carry
       /\ e3.r = (ah + bh + c) - k * Size
       /\ e3.f.overflow = ~SignedFits(Signed(ah) + Signed(bh) + c)
  <2> HIDE DEF c
  <2> QED BY <1>2, <1>8, <1>9, AddCarries
<1> HIDE DEF e1, c
<1>12. e1.r = al + bl - c * Size
  BY <1>2, <1>9, SizeFacts
<1> HIDE DEF k, e3, al, ah, bl, bh
<1> DEFINE x == al + ah * Size
           y == bl + bh * Size
<1>13. /\ e1.r + e3.r * Size = (x + y) % PairSize /\ (x + y >= PairSize) = (k = 1)
       /\ (SignedPair(x) + SignedPair(y) # SignedPair((x + y) % PairSize))
            = ~SignedFits(Signed(ah) + Signed(bh) + c)
  BY <1>2, <1>9, <1>11, <1>12, LongSum
<1>14. Pair(loaded) = x /\ Pair(operand) = y /\ Pair(acc) = e1.r + e3.r * Size
  BY <1>10, Zenon DEF Pair, al, ah, bl, bh
<1>15. Condition(2) = e3.f.carry /\ Condition(0) = e3.f.overflow
  BY <1>1, <1>10, Conditions
<1> QED BY <1>11, <1>13, <1>14, <1>15, Zenon

LEMMA WideSubs ==
  ASSUME AluInv, Ran(WideSub)
  PROVE  LET x == Pair(loaded)
             y == Pair(operand)
         IN /\ Pair(acc) = (x - y) % PairSize
            /\ Condition(2) = (x < y) /\ Condition(12) = (SignedPair(x) < SignedPair(y))
<1> DEFINE al == loaded.low
           ah == loaded.high
           bl == operand.low
           bh == operand.high
<1>1. loaded \in RegisterFile /\ operand \in RegisterFile /\ aluFlags \in FlagWord
  BY NowFacts DEF AluInv
<1>2. al \in Values /\ ah \in Values /\ bl \in Values /\ bh \in Values
  BY <1>1 DEF RegisterFile
<1>3. PICK s : LET t == After(<<"sub", "low">>, s)
                   u == After(<<"dec", "count">>, t)
               IN AtStart(s) /\ t \in States /\ u \in States /\ Now = After(<<"sbb", "high">>, u)
  BY ThreeRan DEF Ran, WideSub
<1> DEFINE t == After(<<"sub", "low">>, s)
           u == After(<<"dec", "count">>, t)
           e1 == Sub(s.f, al, bl, 0)
           c == AsBit(e1.f.carry)
           e3 == Sub(u.f, ah, bh, c)
<1>4. s \in States /\ s.r = loaded /\ s.f \in FlagWord
  BY <1>3 DEF AtStart, States
<1>5. {"sub", "dec", "sbb"} \subseteq AluOps
  BY DEF AluOps
<1>6. t.r.low = e1.r /\ t.r.high = ah /\ t.f = e1.f /\ t.f \in FlagWord
  <2>1. Alu("sub", s.f, s.r.low, operand.low) = e1
    BY <1>2, <1>4, AluByName DEF AluCases
  <2>2. e1 \in Results
        /\ t = [r |-> [low |-> e1.r, high |-> s.r.high, count |-> s.r.count], f |-> e1.f,
                fate |-> "running"]
    BY <1>4, <1>5, <2>1, AfterAlu
  <2> HIDE DEF e1, t
  <2> QED BY <1>4, <2>2 DEF Results
<1>7. t \in States /\ u \in States /\ Now = After(<<"sbb", "high">>, u)
  BY <1>3
<1> HIDE DEF t
<1>8. u.r.low = e1.r /\ u.r.high = ah /\ u.f \in FlagWord /\ u.f.carry = e1.f.carry
  <2> DEFINE e2 == Dec(t.f, t.r.count)
  <2>1. t.r.count \in Values /\ t.f \in FlagWord /\ operand.count \in Values
    BY <1>1, <1>7 DEF States, RegisterFile
  <2>2. Alu("dec", t.f, t.r.count, operand.count) = e2
    BY <2>1, AluByName DEF AluCases
  <2>3. e2 \in Results
        /\ u = [r |-> [low |-> t.r.low, high |-> t.r.high, count |-> e2.r], f |-> e2.f,
                fate |-> "running"]
    BY <1>5, <1>7, <2>2, AfterAlu
  <2>4. e2.f.carry = t.f.carry
    BY <2>1, IncFacts
  <2> HIDE DEF e1, e2, u
  <2> QED BY <1>6, <2>3, <2>4 DEF Results
<1> HIDE DEF u
<1>9. /\ e1.r \in Values /\ c \in {0, 1} /\ (c = 1) = e1.f.carry
      /\ e1.r = ((al - bl) - 0) + c * Size
  BY <1>2, <1>4, SubBorrows
<1>10. acc.low = e1.r /\ acc.high = e3.r /\ aluFlags = e3.f
  <2>1. Alu("sbb", u.f, u.r.high, operand.high) = e3
    BY <1>2, <1>8, AluByName DEF AluCases
  <2>2. e3 \in Results
        /\ Now = [r |-> [low |-> u.r.low, high |-> e3.r, count |-> u.r.count], f |-> e3.f,
                  fate |-> "running"]
    BY <1>5, <1>7, <2>1, AfterAlu
  <2> HIDE DEF e1, e3
  <2> QED BY <1>8, <2>2, NowFacts
<1> DEFINE k == AsBit(e3.f.carry)
<1>11. /\ e3.r \in Values /\ k \in {0, 1} /\ (k = 1) = e3.f.carry
       /\ e3.r = ((ah - bh) - c) + k * Size
       /\ e3.f.overflow = ~SignedFits((Signed(ah) - Signed(bh)) - c)
       /\ e3.f.sign = (e3.r >= Top)
  <2> HIDE DEF c
  <2> QED BY <1>2, <1>8, <1>9, SubBorrows
<1> HIDE DEF e1, c
<1>12. e1.r = al - bl + c * Size
  BY <1>2, <1>9, SizeFacts
<1> HIDE DEF k, e3, al, ah, bl, bh
<1> DEFINE x == al + ah * Size
           y == bl + bh * Size
           l == e1.r
           h == e3.r
<1>13. /\ l + h * Size = (x - y) % PairSize /\ (x < y) = (k = 1)
       /\ ((h >= Top) # ~SignedFits((Signed(ah) - Signed(bh)) - c))
            = (SignedPair(x) < SignedPair(y))
  <2>1. /\ l \in Values /\ h \in Values /\ c \in {0, 1} /\ k \in {0, 1}
        /\ l = al - bl + c * Size /\ h = ((ah - bh) - c) + k * Size
    BY <1>9, <1>11, <1>12
  <2> HIDE DEF l, h
  <2>2. Borrowed(al, ah, bl, bh, c, k, l, h)
    BY <1>2, <2>1 DEF Borrowed
  <2> QED BY <2>2, LongDifference
<1>14. Pair(loaded) = x /\ Pair(operand) = y /\ Pair(acc) = l + h * Size
  BY <1>10, Zenon DEF Pair, al, ah, bl, bh
<1>15. Condition(2) = e3.f.carry /\ Condition(12) = (e3.f.sign # e3.f.overflow)
  BY <1>1, <1>10, Conditions
<1> QED BY <1>11, <1>13, <1>14, <1>15, Zenon

LEMMA WideNegates ==
  ASSUME AluInv, Ran(WideNegate), operand.high = 0
  PROVE  Pair(acc) = (-Pair(loaded)) % PairSize
<1> DEFINE al == loaded.low
           ah == loaded.high
<1>1. loaded \in RegisterFile /\ operand \in RegisterFile
  BY DEF AluInv
<1>2. al \in Values /\ ah \in Values /\ operand.low \in Values /\ operand.high \in Values
      /\ 0 \in Values
  BY <1>1, SizeFacts DEF RegisterFile
<1>3. PICK s : LET t == After(<<"neg", "high">>, s)
                   u == After(<<"neg", "low">>, t)
               IN AtStart(s) /\ t \in States /\ u \in States /\ Now = After(<<"sbb", "high">>, u)
  BY ThreeRan DEF Ran, WideNegate
<1> DEFINE t == After(<<"neg", "high">>, s)
           u == After(<<"neg", "low">>, t)
           e1 == Sub(s.f, 0, ah, 0)
           k == AsBit(e1.f.carry)
           e2 == Sub(t.f, 0, al, 0)
           c == AsBit(e2.f.carry)
           e3 == Sub(u.f, e1.r, 0, c)
           j == AsBit(e3.f.carry)
<1>4. s \in States /\ s.r = loaded /\ s.f \in FlagWord
  BY <1>3 DEF AtStart, States
<1>5. {"neg", "sbb"} \subseteq AluOps
  BY DEF AluOps
<1>6. t.r.low = al /\ t.r.high = e1.r /\ t.f \in FlagWord
  <2>1. Alu("neg", s.f, s.r.high, operand.high) = e1
    BY <1>2, <1>4, AluByName DEF AluCases
  <2>2. e1 \in Results
        /\ t = [r |-> [low |-> s.r.low, high |-> e1.r, count |-> s.r.count], f |-> e1.f,
                fate |-> "running"]
    BY <1>4, <1>5, <2>1, AfterAlu
  <2> HIDE DEF e1, t
  <2> QED BY <1>4, <2>2 DEF Results
<1>7. t \in States /\ u \in States /\ Now = After(<<"sbb", "high">>, u)
  BY <1>3
<1> HIDE DEF t
<1>8. u.r.low = e2.r /\ u.r.high = e1.r /\ u.f \in FlagWord /\ u.f.carry = e2.f.carry
  <2>1. Alu("neg", t.f, t.r.low, operand.low) = e2
    BY <1>2, <1>6, AluByName DEF AluCases
  <2>2. e2 \in Results
        /\ u = [r |-> [low |-> e2.r, high |-> t.r.high, count |-> t.r.count], f |-> e2.f,
                fate |-> "running"]
    BY <1>5, <1>7, <2>1, AfterAlu
  <2> HIDE DEF e1, e2, u
  <2> QED BY <1>6, <2>2 DEF Results
<1> HIDE DEF u
<1>9. /\ e1.r \in Values /\ k \in {0, 1} /\ e1.r = ((0 - ah) - 0) + k * Size
      /\ e2.r \in Values /\ c \in {0, 1} /\ e2.r = ((0 - al) - 0) + c * Size
  BY <1>2, <1>4, <1>6, SubBorrows
<1> HIDE DEF e1, e2, k
<1>10. acc.low = e2.r /\ acc.high = e3.r
  <2>1. Alu("sbb", u.f, u.r.high, operand.high) = e3
    BY <1>2, <1>8, <1>9, AluByName DEF AluCases
  <2>2. Now = [r |-> [low |-> u.r.low, high |-> e3.r, count |-> u.r.count], f |-> e3.f,
               fate |-> "running"]
    BY <1>5, <1>7, <2>1, AfterAlu
  <2> HIDE DEF e3
  <2> QED BY <1>8, <2>2, NowFacts
<1> HIDE DEF c
<1>11. e3.r \in Values /\ j \in {0, 1} /\ e3.r = ((e1.r - 0) - c) + j * Size
  BY <1>2, <1>8, <1>9, SubBorrows
<1> HIDE DEF e3, j, al, ah
<1> DEFINE l == e2.r
           h == e3.r
           m == e1.r
<1>12. l + h * Size = (-(al + ah * Size)) % PairSize
  <2>1. /\ l \in Values /\ h \in Values /\ m \in Values
        /\ c \in {0, 1} /\ j \in {0, 1} /\ k \in {0, 1}
        /\ m = ((0 - ah) - 0) + k * Size
        /\ l = ((0 - al) - 0) + c * Size /\ h = ((m - 0) - c) + j * Size
    BY <1>9, <1>11
  <2> HIDE DEF l, h, m
  <2>2. l = (0 - al) + c * Size /\ h = (((0 - ah) + k * Size) - 0) - c + j * Size
    BY <1>2, <2>1, SizeFacts
  <2> QED BY <1>2, <2>1, <2>2, LongNegation
<1>13. Pair(loaded) = al + ah * Size /\ Pair(acc) = l + h * Size
  BY <1>10, Zenon DEF Pair, al, ah
<1> QED BY <1>12, <1>13, Zenon

LEMMA Negates ==
  ASSUME AluInv, Ran(Negate)
  PROVE  acc.low = (-loaded.low) % Size
<1> DEFINE al == loaded.low
<1>1. loaded \in RegisterFile /\ operand \in RegisterFile
  BY DEF AluInv
<1>2. al \in Values /\ operand.low \in Values
  BY <1>1 DEF RegisterFile
<1>3. PICK s : LET t == After(<<"not", "low">>, s)
               IN AtStart(s) /\ t \in States /\ Now = After(<<"inc", "low">>, t)
  BY TwoRan DEF Ran, Negate
<1> DEFINE t == After(<<"not", "low">>, s)
           v == (Size - 1) - al
           e1 == [r |-> v, f |-> s.f]
           e2 == Inc(t.f, v)
<1>4. s \in States /\ s.r = loaded /\ s.f \in FlagWord
  BY <1>3 DEF AtStart, States
<1>5. {"not", "inc"} \subseteq AluOps
  BY DEF AluOps
<1>6. v \in Values
  BY <1>2, SizeFacts
<1>7. t.r.low = v /\ t \in States /\ Now = After(<<"inc", "low">>, t)
  <2>1. Alu("not", s.f, s.r.low, operand.low) = e1
    BY <1>2, <1>4, AluByName DEF AluCases
  <2>2. t = [r |-> [low |-> e1.r, high |-> s.r.high, count |-> s.r.count], f |-> e1.f,
             fate |-> "running"]
    BY <1>4, <1>5, <2>1, AfterAlu
  <2> HIDE DEF v
  <2> QED BY <1>3, <2>2
<1> HIDE DEF t
<1>8. acc.low = e2.r
  <2>1. t.f \in FlagWord
    BY <1>7 DEF States
  <2>2. Alu("inc", t.f, t.r.low, operand.low) = e2
    BY <1>2, <1>6, <1>7, <2>1, AluByName DEF AluCases
  <2>3. Now = [r |-> [low |-> e2.r, high |-> t.r.high, count |-> t.r.count], f |-> e2.f,
               fate |-> "running"]
    BY <1>5, <1>7, <2>2, AfterAlu
  <2> HIDE DEF e2
  <2> QED BY <2>3, NowFacts
<1>9. e2.r = (v + 1) % Size
  BY <1>6, <1>7, IncFacts DEF States
<1> DEFINE x == v + 1
           y == -al
<1>10. x \in -Size .. 2 * Size - 1 /\ y \in -Size .. 2 * Size - 1 /\ x = Size + y
       /\ x \in 1 .. Size
  BY <1>2, SizeFacts
<1> HIDE DEF x, y
<1>11. /\ x % Size = (IF x < 0 THEN x + Size ELSE IF x < Size THEN x ELSE x - Size)
       /\ y % Size = (IF y < 0 THEN y + Size ELSE IF y < Size THEN y ELSE y - Size)
  BY <1>10, WrapSize
<1> DEFINE xr == x % Size
           yr == y % Size
<1> HIDE DEF xr, yr
<1>12. xr = yr
  BY <1>10, <1>11, SizeFacts DEF xr, yr
<1> QED BY <1>8, <1>9, <1>12, Zenon DEF x, y, xr, yr

LEMMA SumsKnown == AluInv => SumsExact
BY WideAdds, WideSubs, WideNegates, Negates, Zenon DEF SumsExact

-----------------------------------------------------------------------------
(* Shifts, rotations and masks.                                            *)

LEMMA SingleShift ==
  ASSUME NEW op \in ShiftOps, NEW f \in FlagWord, NEW v \in Values
  PROVE  LET e == Shift(op, f, v, 1)
             t == ShiftStep(op, [r |-> v, carry |-> f.carry])
         IN e \in Results /\ e.r = t.r /\ e.f.carry = t.carry
<1>1. PICK s \in [0 .. 1 -> ShiftState] :
        /\ ShiftedBy(s, op, f, v, 1)
        /\ Shift(op, f, v, 1) \in Results
        /\ Shift(op, f, v, 1).r = s[1].r
        /\ Shift(op, f, v, 1).f.carry = s[1].carry
  <2>1. 1 \in Nat
    OBVIOUS
  <2> QED BY <2>1, ShiftFacts, Zenon
<1>2. 1 \in 1 .. 1 /\ 1 - 1 = 0
  OBVIOUS
<1>3. s[1] = ShiftStep(op, s[0]) /\ s[0] = [r |-> v, carry |-> f.carry]
  BY <1>1, <1>2 DEF ShiftedBy
<1> QED BY <1>1, <1>3

LEMMA AfterShift ==
  ASSUME NEW op \in ShiftOps, NEW s \in States
  PROVE  /\ LET a == Shift(op, s.f, s.r.low, 1)
            IN a \in Results
               /\ After(<<op, "low">>, s) =
                    [r |-> [low |-> a.r, high |-> s.r.high, count |-> s.r.count], f |-> a.f,
                     fate |-> "running"]
         /\ LET a == Shift(op, s.f, s.r.high, 1)
            IN a \in Results
               /\ After(<<op, "high">>, s) =
                    [r |-> [low |-> s.r.low, high |-> a.r, count |-> s.r.count], f |-> a.f,
                     fate |-> "running"]
         /\ LET a == Shift(op, s.f, s.r.low, s.r.count)
            IN a \in Results
               /\ After(<<op, "low", "cl">>, s) =
                    [r |-> [low |-> a.r, high |-> s.r.high, count |-> s.r.count], f |-> a.f,
                     fate |-> "running"]
<1> DEFINE al == Shift(op, s.f, s.r["low"], 1)
           ah == Shift(op, s.f, s.r["high"], 1)
           ac == Shift(op, s.f, s.r["low"], s.r.count)
<1>1. s.r \in RegisterFile
  BY DEF States
<1>2. "low" \in RegisterNames /\ "high" \in RegisterNames
  BY DEF RegisterNames
<1>3. /\ al \in Results
      /\ After(<<op, "low">>, s) = [r |-> Into(s.r, "low", al.r), f |-> al.f, fate |-> "running"]
  BY <1>2, ShiftEffect
<1>4. /\ ah \in Results
      /\ After(<<op, "high">>, s) = [r |-> Into(s.r, "high", ah.r), f |-> ah.f, fate |-> "running"]
  BY <1>2, ShiftEffect
<1>5. /\ ac \in Results
      /\ After(<<op, "low", "cl">>, s) =
           [r |-> Into(s.r, "low", ac.r), f |-> ac.f, fate |-> "running"]
  BY <1>2, ShiftEffect
<1> HIDE DEF al, ah, ac
<1>6. al.r \in Values /\ ah.r \in Values /\ ac.r \in Values
  BY <1>3, <1>4, <1>5 DEF Results
<1>7. /\ Into(s.r, "low", al.r) = [low |-> al.r, high |-> s.r.high, count |-> s.r.count]
      /\ Into(s.r, "high", ah.r) = [low |-> s.r.low, high |-> ah.r, count |-> s.r.count]
      /\ Into(s.r, "low", ac.r) = [low |-> ac.r, high |-> s.r.high, count |-> s.r.count]
  BY <1>1, <1>6, IntoFacts
<1>8. /\ al = Shift(op, s.f, s.r.low, 1) /\ ah = Shift(op, s.f, s.r.high, 1)
      /\ ac = Shift(op, s.f, s.r.low, s.r.count)
  BY DEF al, ah, ac
<1> QED BY <1>3, <1>4, <1>5, <1>7, <1>8

LEMMA WideShls ==
  ASSUME AluInv, Ran(WideShl)
  PROVE  LET x == Pair(loaded)
         IN Pair(acc) = (2 * x) % PairSize /\ aluFlags.carry = (2 * x >= PairSize)
<1> DEFINE al == loaded.low
           ah == loaded.high
<1>1. loaded \in RegisterFile
  BY DEF AluInv
<1>2. al \in Values /\ ah \in Values
  BY <1>1 DEF RegisterFile
<1>3. PICK s : LET t == After(<<"shl", "low">>, s)
               IN AtStart(s) /\ t \in States /\ Now = After(<<"rcl", "high">>, t)
  BY TwoRan DEF Ran, WideShl
<1> DEFINE t == After(<<"shl", "low">>, s)
           e1 == Shift("shl", s.f, al, 1)
           e2 == Shift("rcl", t.f, ah, 1)
           c == AsBit(e1.f.carry)
           k == AsBit(e2.f.carry)
<1>4. s \in States /\ s.r = loaded /\ s.f \in FlagWord /\ t \in States
      /\ Now = After(<<"rcl", "high">>, t)
  BY <1>3 DEF AtStart, States
<1>5. {"shl", "rcl"} \subseteq ShiftOps
  BY DEF ShiftOps
<1>6. t.r.low = e1.r /\ t.r.high = ah /\ t.f = e1.f /\ t.f \in FlagWord
  <2>1. e1 \in Results
        /\ t = [r |-> [low |-> e1.r, high |-> s.r.high, count |-> s.r.count], f |-> e1.f,
                fate |-> "running"]
    BY <1>4, <1>5, AfterShift
  <2> HIDE DEF e1, t
  <2> QED BY <1>4, <2>1 DEF Results
<1> HIDE DEF t
<1>7. acc.low = e1.r /\ acc.high = e2.r /\ aluFlags = e2.f
  <2>1. Shift("rcl", t.f, t.r.high, 1) = e2
    BY <1>6
  <2>2. Now = [r |-> [low |-> t.r.low, high |-> e2.r, count |-> t.r.count], f |-> e2.f,
               fate |-> "running"]
    BY <1>4, <1>5, <2>1, AfterShift
  <2> HIDE DEF e1, e2
  <2> QED BY <1>6, <2>2, NowFacts
<1>8. /\ e1.r = (2 * al) % Size /\ e1.f.carry = (al >= Top)
      /\ e1.r \in Values
  <2> DEFINE st == [r |-> al, carry |-> s.f.carry]
  <2>1. st \in ShiftState /\ st.r = al
    BY <1>2, <1>4 DEF ShiftState, FlagWord
  <2>2. e1 \in Results /\ e1.r = ShiftStep("shl", st).r /\ e1.f.carry = ShiftStep("shl", st).carry
    BY <1>2, <1>4, <1>5, SingleShift
  <2> HIDE DEF e1, st
  <2>3. ShiftStep("shl", st).r = (2 * st.r) % Size /\ ShiftStep("shl", st).carry = (st.r >= Top)
    BY <1>5, <2>1, StepFacts
  <2> QED BY <2>1, <2>2, <2>3 DEF Results
<1>9. /\ e2.r = ((2 * ah) % Size) + AsBit(t.f.carry) /\ e2.f.carry = (ah >= Top)
      /\ e2.r \in Values
  <2> DEFINE st == [r |-> ah, carry |-> t.f.carry]
  <2>1. st \in ShiftState /\ st.r = ah /\ st.carry = t.f.carry
    BY <1>2, <1>6 DEF ShiftState, FlagWord
  <2>2. e2 \in Results /\ e2.r = ShiftStep("rcl", st).r /\ e2.f.carry = ShiftStep("rcl", st).carry
    BY <1>2, <1>5, <1>6, SingleShift
  <2> HIDE DEF e2, st
  <2>3. ShiftStep("rcl", st).r = ((2 * st.r) % Size) + AsBit(st.carry)
        /\ ShiftStep("rcl", st).carry = (st.r >= Top)
    BY <1>5, <2>1, StepFacts
  <2> QED BY <2>1, <2>2, <2>3 DEF Results
<1>10. c \in {0, 1} /\ k \in {0, 1} /\ c = AsBit(t.f.carry) /\ (k = 1) = e2.f.carry
       /\ (c = 1) = (al >= Top) /\ (k = 1) = (ah >= Top)
  <2>1. e1.f.carry \in BOOLEAN /\ e2.f.carry \in BOOLEAN
    <3>1. (al >= Top) \in BOOLEAN /\ (ah >= Top) \in BOOLEAN
      OBVIOUS
    <3> QED BY <1>8, <1>9, <3>1, Zenon
  <2> HIDE DEF e1, e2
  <2> QED BY <1>6, <1>8, <1>9, <2>1, BitValues
<1> HIDE DEF e1, e2, c, k, al, ah
<1> DEFINE dl == (2 * al) % Size
           dh == (2 * ah) % Size
           l == e1.r
           h == e2.r
           x == al + ah * Size
           v == 2 * x
<1>11. dl = (IF al < Top THEN 2 * al ELSE 2 * al - Size)
       /\ dh = (IF ah < Top THEN 2 * ah ELSE 2 * ah - Size)
  BY <1>2, Halves
<1>12. l = dl /\ h = dh + c /\ l \in Values /\ h \in Values
  BY <1>8, <1>9, <1>10
<1> HIDE DEF dl, dh, l, h
<1>13. al \in Int /\ ah \in Int /\ l \in Int /\ h \in Int /\ Size \in Int
  BY <1>2, <1>12, SizeFacts
<1>14. 2 * al = l + c * Size /\ 2 * ah = (h - c) + k * Size
  BY <1>2, <1>10, <1>11, <1>12, SizeFacts
<1>15. v = l + h * Size + k * PairSize /\ v \in Int /\ k \in Int
  <2>1. v = 2 * al + (2 * ah) * Size
    BY <1>13
  <2>2. ((h - c) + k * Size) * Size = h * Size - c * Size + k * (Size * Size)
    BY <1>10, <1>13
  <2>3. (2 * ah) * Size = h * Size - c * Size + k * (Size * Size)
    BY <1>14, <2>2
  <2>4. v = (l + c * Size) + (h * Size - c * Size + k * (Size * Size))
    BY <1>14, <2>1, <2>3
  <2>5. v \in Int /\ c * Size \in Int /\ h * Size \in Int /\ k \in Int /\ Size * Size \in Int
    BY <1>10, <1>13
  <2> HIDE DEF v
  <2> QED BY <1>13, <2>4, <2>5 DEF PairSize
<1> HIDE DEF v
<1>16. v % PairSize = l + h * Size /\ l + h * Size \in 0 .. PairSize - 1
       /\ PairSize \in Nat \ {0}
  BY <1>12, <1>15, PairWraps
<1>17. (v >= PairSize) = (k = 1)
  <2> DEFINE z == l + h * Size
  <2>1. v = z + k * PairSize /\ z \in 0 .. PairSize - 1
    BY <1>15, <1>16
  <2> HIDE DEF z
  <2> QED BY <1>10, <1>16, <2>1
<1>18. Pair(loaded) = x /\ Pair(acc) = l + h * Size
  BY <1>7, Zenon DEF Pair, al, ah, l, h
<1> QED BY <1>7, <1>10, <1>16, <1>17, <1>18, Zenon DEF v

(* A pair halved: what falls out of the high register comes in at the top  *)
(* of the low one.                                                         *)
LEMMA HalfPair ==
  ASSUME NEW a \in Values, NEW g \in Int, NEW h \in Int, NEW c \in {0, 1}, g = 2 * h + c
  PROVE  LET x == a + g * Size
         IN /\ (a \div 2) + c * Top + h * Size = x \div 2
            /\ (x % 2 = 1) = (a % 2 = 1)
<1> DEFINE d == a \div 2
           m == a % 2
           x == a + g * Size
           y == d + c * Top + h * Size
<1>1. d \in Nat /\ m \in 0 .. 1 /\ a = 2 * d + m /\ Size = 2 * Top /\ Size \in Int /\ Top \in Int
  BY SizeFacts
<1> HIDE DEF d, m
<1>2. g * Size = 2 * (h * Size) + 2 * (c * Top)
  BY <1>1
<1>3. x = 2 * y + m /\ y \in Int
  BY <1>1, <1>2
<1> HIDE DEF x, y
<1>4. x \div 2 = y /\ x % 2 = m
  BY <1>1, <1>3
<1> QED BY <1>4, Zenon DEF x, y, d, m

LEMMA WideShifts ==
  ASSUME AluInv, NEW op \in {"shr", "sar"}, program = <<<<op, "high">>, <<"rcr", "low">>>>,
         pc = 2
  PROVE  LET h == acc.high
             g == loaded.high
             c == AsBit(g % 2 = 1)
         IN /\ h \in Values /\ c \in {0, 1} /\ acc.low \in Values
            /\ h = (g \div 2) + IF op = "sar" /\ g >= Top THEN Top ELSE 0
            /\ acc.low = (loaded.low \div 2) + c * Top
            /\ aluFlags.carry = (loaded.low % 2 = 1)
<1> DEFINE al == loaded.low
           ah == loaded.high
<1>1. loaded \in RegisterFile
  BY DEF AluInv
<1>2. al \in Values /\ ah \in Values
  BY <1>1 DEF RegisterFile
<1>3. PICK s : LET t == After(<<op, "high">>, s)
               IN AtStart(s) /\ t \in States /\ Now = After(<<"rcr", "low">>, t)
  BY TwoRan
<1> DEFINE t == After(<<op, "high">>, s)
           e1 == Shift(op, s.f, ah, 1)
           e2 == Shift("rcr", t.f, al, 1)
<1>4. s \in States /\ s.r = loaded /\ s.f \in FlagWord /\ t \in States
      /\ Now = After(<<"rcr", "low">>, t)
  BY <1>3 DEF AtStart, States
<1>5. op \in ShiftOps /\ "rcr" \in ShiftOps
  BY DEF ShiftOps
<1>6. t.r.low = al /\ t.r.high = e1.r /\ t.f = e1.f /\ t.f \in FlagWord
  <2>1. e1 \in Results
        /\ t = [r |-> [low |-> s.r.low, high |-> e1.r, count |-> s.r.count], f |-> e1.f,
                fate |-> "running"]
    BY <1>4, <1>5, AfterShift
  <2> HIDE DEF e1, t
  <2> QED BY <1>4, <2>1 DEF Results
<1> HIDE DEF t
<1>7. acc.low = e2.r /\ acc.high = e1.r /\ aluFlags = e2.f
  <2>1. Shift("rcr", t.f, t.r.low, 1) = e2
    BY <1>6
  <2>2. Now = [r |-> [low |-> e2.r, high |-> t.r.high, count |-> t.r.count], f |-> e2.f,
               fate |-> "running"]
    BY <1>4, <1>5, <2>1, AfterShift
  <2> HIDE DEF e1, e2
  <2> QED BY <1>6, <2>2, NowFacts
<1>8. /\ e1.r = (ah \div 2) + (IF op = "sar" /\ ah >= Top THEN Top ELSE 0)
      /\ e1.f.carry = ((ah % 2) = 1) /\ e1.r \in Values
  <2> DEFINE st == [r |-> ah, carry |-> s.f.carry]
  <2>1. st \in ShiftState /\ st.r = ah
    BY <1>2, <1>4 DEF ShiftState, FlagWord
  <2>2. e1 \in Results /\ e1.r = ShiftStep(op, st).r /\ e1.f.carry = ShiftStep(op, st).carry
    BY <1>2, <1>4, <1>5, SingleShift
  <2> HIDE DEF e1, st
  <2>3. /\ op = "shr" => ShiftStep(op, st).r = st.r \div 2
        /\ op = "sar" => ShiftStep(op, st).r = (st.r \div 2) + BitDown(st.r >= Top)
        /\ ShiftStep(op, st).carry = ((st.r % 2) = 1)
    BY <1>5, <2>1, StepFacts
  <2>4. BitDown(ah >= Top) = IF ah >= Top THEN Top ELSE 0
    BY SizeFacts DEF BitDown, AsBit
  <2>5. ah \div 2 \in Int
    BY <1>2, SizeFacts
  <2> HIDE DEF ah
  <2> QED BY <2>1, <2>2, <2>3, <2>4, <2>5 DEF Results
<1>9. /\ e2.r = (al \div 2) + BitDown(t.f.carry) /\ e2.f.carry = ((al % 2) = 1)
      /\ e2.r \in Values
  <2> DEFINE st == [r |-> al, carry |-> t.f.carry]
  <2>1. st \in ShiftState /\ st.r = al /\ st.carry = t.f.carry
    BY <1>2, <1>6 DEF ShiftState, FlagWord
  <2>2. e2 \in Results /\ e2.r = ShiftStep("rcr", st).r /\ e2.f.carry = ShiftStep("rcr", st).carry
    BY <1>2, <1>5, <1>6, SingleShift
  <2> HIDE DEF e2, st
  <2>3. ShiftStep("rcr", st).r = (st.r \div 2) + BitDown(st.carry)
        /\ ShiftStep("rcr", st).carry = ((st.r % 2) = 1)
    BY <1>5, <2>1, StepFacts
  <2> QED BY <2>1, <2>2, <2>3 DEF Results
<1> DEFINE c == AsBit((ah % 2) = 1)
<1>10. c \in {0, 1} /\ BitDown(t.f.carry) = c * Top
  <2>1. t.f.carry = ((ah % 2) = 1) /\ ((ah % 2) = 1) \in BOOLEAN
    BY <1>6, <1>8
  <2> QED BY <2>1, BitValues, Zenon DEF BitDown
<1> HIDE DEF e1, e2, al, ah, c
<1>11. acc.low = (al \div 2) + c * Top
  BY <1>7, <1>9, <1>10
<1> QED BY <1>7, <1>8, <1>9, <1>10, <1>11 DEF al, ah, c

LEMMA WideShrs ==
  ASSUME AluInv, Ran(WideShr)
  PROVE  LET x == Pair(loaded)
         IN Pair(acc) = x \div 2 /\ aluFlags.carry = (x % 2 = 1)
<1> DEFINE al == loaded.low
           g == loaded.high
           c == AsBit(g % 2 = 1)
           h == acc.high
<1>1. al \in Values /\ g \in Values
  BY DEF AluInv, RegisterFile
<1>2. /\ h \in Values /\ c \in {0, 1}
      /\ h = (g \div 2) + IF "shr" = "sar" /\ g >= Top THEN Top ELSE 0
      /\ acc.low = (al \div 2) + c * Top
      /\ aluFlags.carry = (al % 2 = 1)
  BY WideShifts DEF Ran, WideShr
<1>3. h = g \div 2
  BY <1>1, <1>2, SizeFacts
<1> HIDE DEF al, g, h
<1>4. g = 2 * h + c
  BY <1>1, <1>3, SizeFacts DEF AsBit
<1>5. h \in Int /\ g \in Int
  BY <1>1, <1>2, SizeFacts
<1> HIDE DEF c
<1>6. LET x == al + g * Size
      IN /\ (al \div 2) + c * Top + h * Size = x \div 2
         /\ (x % 2 = 1) = (al % 2 = 1)
  BY <1>1, <1>2, <1>4, <1>5, HalfPair
<1>7. Pair(loaded) = al + g * Size /\ Pair(acc) = (al \div 2) + c * Top + h * Size
  BY <1>2, Zenon DEF Pair, al, g, h
<1> QED BY <1>2, <1>6, <1>7, Zenon

LEMMA WideSars ==
  ASSUME AluInv, Ran(WideSar)
  PROVE  LET x == Pair(loaded)
         IN /\ SignedPair(Pair(acc)) = SignedPair(x) \div 2
            /\ aluFlags.carry = (x % 2 = 1)
<1> DEFINE al == loaded.low
           g == loaded.high
           c == AsBit(g % 2 = 1)
           h == acc.high
           l == acc.low
<1>1. al \in Values /\ g \in Values
  BY DEF AluInv, RegisterFile
<1>2. /\ h \in Values /\ c \in {0, 1} /\ l \in Values
      /\ h = (g \div 2) + IF "sar" = "sar" /\ g >= Top THEN Top ELSE 0
      /\ l = (al \div 2) + c * Top
      /\ aluFlags.carry = (al % 2 = 1)
  BY WideShifts DEF Ran, WideSar
<1> DEFINE sg == Signed(g)
           sh == Signed(h)
<1> HIDE DEF al, g, h, l
<1>3. sg = (IF g < Top THEN g ELSE g - Size) /\ sh = (IF h < Top THEN h ELSE h - Size)
  BY DEF Signed
<1> HIDE DEF sg, sh
<1>4. g = 2 * (g \div 2) + c /\ g \div 2 \in 0 .. Top - 1
  BY <1>1, SizeFacts DEF AsBit
<1> HIDE DEF c
<1> DEFINE q == g \div 2
<1> HIDE DEF q
<1>5. h = (IF g >= Top THEN q + Top ELSE q) /\ g = 2 * q + c /\ q \in 0 .. Top - 1
  BY <1>2, <1>4 DEF q
<1>6. sg = 2 * sh + c /\ sg \in Int /\ sh \in Int
  BY <1>1, <1>2, <1>3, <1>5, SizeFacts
<1>7. LET x == al + sg * Size
      IN (al \div 2) + c * Top + sh * Size = x \div 2
  BY <1>1, <1>2, <1>6, HalfPair
<1>8. SignedPair(al + g * Size) = al + sg * Size /\ SignedPair(l + h * Size) = l + sh * Size
  BY <1>1, <1>2, SignedPairParts DEF sg, sh
<1>9. ((al + g * Size) % 2 = 1) = (al % 2 = 1)
  BY <1>1, <1>2, <1>5, SizeFacts
<1>10. Pair(loaded) = al + g * Size /\ Pair(acc) = l + h * Size
  BY Zenon DEF Pair, al, g, h, l
<1> QED BY <1>2, <1>7, <1>8, <1>9, <1>10, Zenon

(* A rotation to the right undoes one to the left.                         *)
LEMMA TurnUndone1 ==
  ASSUME NEW s \in ShiftState, NEW u \in ShiftState, u.r = ShiftStep("rol", s).r
  PROVE  ShiftStep("ror", u).r = s.r
<1> DEFINE v == s.r
           w == u.r
           up == (2 * v) % Size
<1>1. {"rol", "ror"} \subseteq ShiftOps
  BY DEF ShiftOps
<1>2. v \in Values /\ w \in Values
  BY DEF ShiftState
<1>3. w = up + AsBit(v >= Top) /\ ShiftStep("ror", u).r = (w \div 2) + BitDown((w % 2) = 1)
  BY <1>1, StepFacts
<1>4. up = (IF v < Top THEN 2 * v ELSE 2 * v - Size)
  BY <1>2, Halves
<1> HIDE DEF up, v, w
<1>5. w = IF v < Top THEN 2 * v ELSE 2 * v - Size + 1
  BY <1>2, <1>3, <1>4, SizeFacts DEF AsBit
<1>6. (w \div 2) + BitDown((w % 2) = 1) = v
  <2>1. CASE v < Top
    <3>1. w = 2 * v
      BY <1>5, <2>1
    <3>2. w \div 2 = v /\ w % 2 = 0
      BY <1>2, <3>1, SizeFacts
    <3>3. BitDown((w % 2) = 1) = 0
      BY <3>2, SizeFacts DEF BitDown, AsBit
    <3> QED BY <1>2, <3>2, <3>3, SizeFacts
  <2>2. CASE v >= Top
    <3>1. w = 2 * (v - Top) + 1 /\ v \in Int /\ Top \in Int
      BY <1>2, <1>5, <2>2, SizeFacts
    <3>2. w \div 2 = v - Top /\ w % 2 = 1
      BY <3>1
    <3>3. BitDown((w % 2) = 1) = Top
      BY <3>2, SizeFacts DEF BitDown, AsBit
    <3> QED BY <3>1, <3>2, <3>3
  <2> QED BY <1>2, <2>1, <2>2, SizeFacts
<1> QED BY <1>3, <1>6 DEF v

LEMMA TurnUndoneAll ==
  ASSUME NEW f \in FlagWord, NEW g \in FlagWord, NEW v \in Values, NEW n \in Nat
  PROVE  Shift("ror", g, Shift("rol", f, v, n).r, n).r = v
<1> DEFINE w == Shift("rol", f, v, n).r
<1>1. {"rol", "ror"} \subseteq ShiftOps
  BY DEF ShiftOps
<1>2. PICK s \in [0 .. n -> ShiftState] :
        ShiftedBy(s, "rol", f, v, n) /\ Shift("rol", f, v, n) \in Results /\ w = s[n].r
  BY <1>1, ShiftFacts
<1>3. w \in Values
  BY <1>2 DEF Results
<1> HIDE DEF w
<1>4. PICK t \in [0 .. n -> ShiftState] :
        ShiftedBy(t, "ror", g, w, n) /\ Shift("ror", g, w, n).r = t[n].r
  BY <1>1, <1>3, ShiftFacts
<1> DEFINE T == {k \in Nat : k <= n => t[k].r = s[n - k].r}
<1>5. 0 \in T
  <2>1. t[0].r = w /\ n - 0 = n
    BY <1>4 DEF ShiftedBy
  <2> QED BY <1>2, <2>1
<1>6. ASSUME NEW k \in T PROVE k + 1 \in T
  <2> SUFFICES ASSUME k + 1 <= n PROVE t[k + 1].r = s[n - (k + 1)].r
    OBVIOUS
  <2> DEFINE i == k + 1
             j == n - k
  <2>1. /\ i \in 1 .. n /\ i - 1 = k /\ k \in 0 .. n
        /\ j \in 1 .. n /\ j - 1 = n - i /\ j \in 0 .. n /\ j - 1 \in 0 .. n
        /\ t[k].r = s[j].r
    OBVIOUS
  <2> HIDE DEF i, j
  <2>2. t[i] = ShiftStep("ror", t[k]) /\ s[j] = ShiftStep("rol", s[j - 1])
    BY <1>2, <1>4, <2>1 DEF ShiftedBy
  <2>3. t[k] \in ShiftState /\ s[j - 1] \in ShiftState
    BY <2>1
  <2>4. ShiftStep("ror", t[k]).r = s[j - 1].r
    BY <2>1, <2>2, <2>3, TurnUndone1
  <2>5. t[i].r = s[n - i].r
    BY <2>1, <2>2, <2>4
  <2> QED BY <2>5 DEF i
<1> HIDE DEF T
<1>7. T = Nat
  BY <1>5, <1>6, InductionSet DEF T
<1>8. t[n].r = s[n - n].r
  BY <1>7 DEF T
<1>9. n - n = 0 /\ s[0].r = v
  BY <1>2 DEF ShiftedBy
<1> QED BY <1>4, <1>8, <1>9 DEF w

LEMMA TurnsBack ==
  ASSUME AluInv, Ran(TurnBack)
  PROVE  acc = loaded
<1> DEFINE v == loaded.low
           n == loaded.count
<1>1. loaded \in RegisterFile
  BY DEF AluInv
<1>2. v \in Values /\ n \in Nat
  BY <1>1, SizeFacts DEF RegisterFile
<1>3. PICK s : LET t == After(<<"rol", "low", "cl">>, s)
               IN AtStart(s) /\ t \in States /\ Now = After(<<"ror", "low", "cl">>, t)
  BY TwoRan DEF Ran, TurnBack
<1> DEFINE t == After(<<"rol", "low", "cl">>, s)
           e1 == Shift("rol", s.f, v, n)
           e2 == Shift("ror", t.f, e1.r, n)
<1>4. s \in States /\ s.r = loaded /\ s.f \in FlagWord /\ t \in States
      /\ Now = After(<<"ror", "low", "cl">>, t)
  BY <1>3 DEF AtStart, States
<1>5. {"rol", "ror"} \subseteq ShiftOps
  BY DEF ShiftOps
<1>6. t.r = [low |-> e1.r, high |-> loaded.high, count |-> n] /\ t.f \in FlagWord
  <2>1. t = [r |-> [low |-> e1.r, high |-> s.r.high, count |-> s.r.count], f |-> e1.f,
             fate |-> "running"]
    BY <1>4, <1>5, AfterShift
  <2>2. t.f \in FlagWord
    BY <1>4 DEF States
  <2> HIDE DEF e1
  <2> QED BY <1>4, <2>1, <2>2
<1> HIDE DEF t
<1>7. acc = [low |-> e2.r, high |-> loaded.high, count |-> n]
  <2> HIDE DEF e1
  <2>1. Shift("ror", t.f, t.r.low, t.r.count) = e2
    BY <1>6
  <2>2. Now = [r |-> [low |-> e2.r, high |-> t.r.high, count |-> t.r.count], f |-> e2.f,
               fate |-> "running"]
    BY <1>4, <1>5, <2>1, AfterShift
  <2> HIDE DEF e2
  <2> QED BY <1>6, <2>2, NowFacts
<1>8. e2.r = v
  BY <1>2, <1>4, <1>6, TurnUndoneAll
<1> HIDE DEF e2
<1> QED BY <1>1, <1>7, <1>8 DEF RegisterFile

LEMMA MasksNothing ==
  ASSUME AluInv, Ran(Masks)
  PROVE  acc.low = 0 /\ Condition(4)
<1> DEFINE a == loaded.low
           b == operand.low
           x == Bitwise("or", a, b)
           z == Bitwise("and", 0, b)
<1>1. loaded \in RegisterFile /\ operand \in RegisterFile /\ aluFlags \in FlagWord
  BY NowFacts DEF AluInv
<1>2. a \in Values /\ b \in Values /\ 0 \in Values
  BY <1>1, SizeFacts DEF RegisterFile
<1>3. PICK s : LET t == After(<<"or", "low">>, s)
                   u == After(<<"and", "low">>, t)
                   v == After(<<"xor", "low">>, u)
               IN /\ AtStart(s) /\ t \in States /\ u \in States /\ v \in States
                  /\ Now = After(<<"test", "low">>, v)
  BY FourRan DEF Ran, Masks
<1> DEFINE t == After(<<"or", "low">>, s)
           u == After(<<"and", "low">>, t)
           v == After(<<"xor", "low">>, u)
<1>4. /\ s \in States /\ s.r = loaded
      /\ t \in States /\ u \in States /\ v \in States
      /\ Now = After(<<"test", "low">>, v)
  BY <1>3 DEF AtStart
<1>5. {"or", "and", "xor"} \subseteq LogicOps /\ {"or", "and", "xor", "test"} \subseteq AluOps
  BY DEF LogicOps, AluOps
<1>6. /\ x \in Values /\ z = 0
      /\ Bitwise("and", x, b) = b /\ Bitwise("xor", b, b) = 0
  BY <1>2, <1>5, BitwiseFacts, MaskLaws
<1>7. \A y \in States, op \in {"or", "and", "xor"} :
        /\ y.f \in FlagWord /\ y.r.low \in Values
        /\ Alu(op, y.f, y.r.low, b) = Logic(y.f, Bitwise(op, y.r.low, b))
        /\ Bitwise(op, y.r.low, b) \in Values
  <2> TAKE y \in States, op \in {"or", "and", "xor"}
  <2>1. y.f \in FlagWord /\ y.r.low \in Values
    BY DEF States, RegisterFile
  <2>2. op \in LogicOps
    BY <1>5
  <2>3. Alu(op, y.f, y.r.low, b) = Logic(y.f, Bitwise(op, y.r.low, b))
    BY <2>2 DEF Alu, LogicOps
  <2>4. Bitwise(op, y.r.low, b) \in Values
    BY <1>2, <2>1, <2>2, BitwiseFacts
  <2> QED BY <2>1, <2>3, <2>4
<1>8. \A y \in States, op \in {"or", "and", "xor"} :
        After(<<op, "low">>, y).r.low = Bitwise(op, y.r.low, b)
  <2> TAKE y \in States, op \in {"or", "and", "xor"}
  <2> DEFINE e == Alu(op, y.f, y.r.low, b)
  <2>1. e.r = Bitwise(op, y.r.low, b)
    <3> DEFINE r == Bitwise(op, y.r.low, b)
    <3>1. r \in Values /\ y.f \in FlagWord /\ e = Logic(y.f, r)
      BY <1>7
    <3> HIDE DEF r, e
    <3> QED BY <3>1, LogicFacts DEF r
  <2>2. op \in AluOps
    BY <1>5
  <2>3. After(<<op, "low">>, y) =
          [r |-> [low |-> e.r, high |-> y.r.high, count |-> y.r.count], f |-> e.f,
           fate |-> "running"]
    BY <2>2, AfterAlu
  <2> HIDE DEF e
  <2> QED BY <2>1, <2>3
<1>9. t.r.low = x
  BY <1>4, <1>8
<1>10. u.r.low = b
  <2> HIDE DEF t, x
  <2> QED BY <1>4, <1>6, <1>8, <1>9
<1>11. v.r.low = 0 /\ v.f \in FlagWord
  <2> HIDE DEF u
  <2> QED BY <1>4, <1>6, <1>8, <1>10 DEF States
<1> HIDE DEF v
<1> DEFINE e == Alu("test", v.f, v.r.low, b)
<1>12. e = [Logic(v.f, z) EXCEPT !.r = 0]
  BY <1>11 DEF Alu, LogicOps
<1>13. Now = [r |-> [low |-> e.r, high |-> v.r.high, count |-> v.r.count], f |-> e.f,
              fate |-> "running"]
  BY <1>4, <1>5, AfterAlu
<1>14. Logic(v.f, z) \in Results /\ Logic(v.f, z).f.zero = TRUE
  <2> HIDE DEF z
  <2>1. Logic(v.f, z) \in Results /\ Logic(v.f, z).f.zero = (z = 0)
    BY <1>2, <1>6, <1>11, LogicFacts
  <2> QED BY <1>6, <2>1
<1> HIDE DEF e, z
<1>15. e.r = 0 /\ e.f.zero = TRUE
  BY <1>12, <1>14 DEF Results
<1>16. acc.low = 0 /\ aluFlags.zero = TRUE
  BY <1>13, <1>15, NowFacts
<1> QED BY <1>1, <1>16, Conditions, Zenon

LEMMA BitsKnown == AluInv => BitsExact
BY WideShls, WideShrs, WideSars, TurnsBack, MasksNothing, Zenon DEF BitsExact

-----------------------------------------------------------------------------
(* Decimal numbers.                                                        *)

LEMMA AfterOther ==
  ASSUME NEW s
  PROVE  /\ After(<<"mul", "low">>, s) = Mul(s.f, s.r, operand.low)
         /\ After(<<"imul", "low">>, s) = IMul(s.f, s.r, operand.low)
         /\ After(<<"div", "low">>, s) = Div(s.f, s.r, operand.low)
         /\ After(<<"idiv", "low">>, s) = IDiv(s.f, s.r, operand.low)
         /\ After(<<"daa", "low">>, s) = DecimalAdjust(s.f, s.r, 1)
         /\ After(<<"das", "low">>, s) = DecimalAdjust(s.f, s.r, -1)
         /\ After(<<"aaa", "low">>, s) = AsciiAdjust(s.f, s.r, 1)
         /\ After(<<"aas", "low">>, s) = AsciiAdjust(s.f, s.r, -1)
         /\ After(<<"aam", "high">>, s) = AsciiMul(s.f, s.r, operand.high)
         /\ After(<<"aad", "high">>, s) = AsciiDiv(s.f, s.r, operand.high)
<1> DEFINE Does(op, register, e) == \A i : i[1] = op /\ i[2] = register =>
                                     Effect(i, s.r, operand, s.f) = e
<1>1. /\ Does("mul", "low", Mul(s.f, s.r, operand.low))
      /\ Does("imul", "low", IMul(s.f, s.r, operand.low))
  BY DEF Effect, AluOps, ShiftOps
<1>2. /\ Does("div", "low", Div(s.f, s.r, operand.low))
      /\ Does("idiv", "low", IDiv(s.f, s.r, operand.low))
  BY DEF Effect, AluOps, ShiftOps
<1>3. /\ Does("daa", "low", DecimalAdjust(s.f, s.r, 1))
      /\ Does("das", "low", DecimalAdjust(s.f, s.r, -1))
  BY DEF Effect, AluOps, ShiftOps
<1>4. /\ Does("aaa", "low", AsciiAdjust(s.f, s.r, 1))
      /\ Does("aas", "low", AsciiAdjust(s.f, s.r, -1))
  BY DEF Effect, AluOps, ShiftOps
<1>5. /\ Does("aam", "high", AsciiMul(s.f, s.r, operand.high))
      /\ Does("aad", "high", AsciiDiv(s.f, s.r, operand.high))
  BY DEF Effect, AluOps, ShiftOps
<1>6. \A op, register : <<op, register>>[1] = op /\ <<op, register>>[2] = register
  OBVIOUS
<1>7. \A op, register, e : Does(op, register, e) => After(<<op, register>>, s) = e
  BY <1>6, Zenon DEF After
<1> HIDE DEF Does
<1> QED BY <1>1, <1>2, <1>3, <1>4, <1>5, <1>7

LEMMA ByteSized ==
  ASSUME NEW op \in ByteOps, NEW register, <<op, register>> \in Instructions
  PROVE  Size = 256 /\ Top = 128 /\ Values = 0 .. 255
<1> DEFINE i == <<op, register>>
<1>1. i[1] = op
  OBVIOUS
<1> HIDE DEF i
<1>2. RegisterBits = 8
  BY <1>1, InstructionForms DEF i
<1> QED BY <1>2, Registers8, SizeFacts

IsPacked(v) == (v % 16) < 10 /\ v < 160
PackedNumber(v) == 10 * (v \div 16) + (v % 16)

(* The digits of a packed number.                                          *)
LEMMA PackedDigits ==
  ASSUME NEW v \in 0 .. 255, IsPacked(v)
  PROVE  \E p, q \in 0 .. 9 : v = 16 * p + q /\ v % 16 = q /\ PackedNumber(v) = 10 * p + q
<1>1. v \div 16 \in 0 .. 9 /\ v % 16 \in 0 .. 9 /\ v = 16 * (v \div 16) + (v % 16)
  BY DEF IsPacked
<1> QED BY <1>1 DEF PackedNumber

LEMMA NumberOf ==
  ASSUME NEW p \in 0 .. 15, NEW q \in 0 .. 15
  PROVE  PackedNumber(16 * p + q) = 10 * p + q /\ (16 * p + q) % 16 = q
<1>1. (16 * p + q) \div 16 = p /\ (16 * p + q) % 16 = q
  OBVIOUS
<1> QED BY <1>1 DEF PackedNumber

(* What adjusting a sum, or a difference, finds: the carry g, x to adjust  *)
(* the low digit and h to adjust the high one.                             *)
PackedBytes(a, b, v, x, h, g) ==
  /\ a \in 0 .. 255 /\ b \in 0 .. 255 /\ IsPacked(a) /\ IsPacked(b)
  /\ v \in 0 .. 255 /\ x \in {0, 1} /\ h \in {0, 1} /\ g \in {0, 1}
  /\ (h = 1) = (v > 153 \/ g = 1)
SumAdjusts(a, b, v, x, h, g) ==
  /\ PackedBytes(a, b, v, x, h, g)
  /\ (g = 1) = (a + b >= 256) /\ v = (a + b) - g * 256
  /\ (x = 1) = ((v % 16) > 9 \/ (a % 16) + (b % 16) > 15)
DifferenceAdjusts(a, b, v, x, h, g) ==
  /\ PackedBytes(a, b, v, x, h, g)
  /\ (g = 1) = (a < b) /\ v = (a - b) + g * 256
  /\ (x = 1) = ((v % 16) > 9 \/ (a % 16) < (b % 16))

(* Decimal adjustment of a sum: the low digit carries into the high one,   *)
(* and the high one into the carry.                                        *)
LEMMA PackedSum ==
  ASSUME NEW a, NEW b, NEW v, NEW x, NEW h, NEW g, SumAdjusts(a, b, v, x, h, g)
  PROVE  /\ PackedNumber((v + (6 * x + 96 * h)) % 256) = (PackedNumber(a) + PackedNumber(b)) % 100
         /\ (h = 1) = (PackedNumber(a) + PackedNumber(b) >= 100)
<1>0. /\ a \in 0 .. 255 /\ b \in 0 .. 255 /\ IsPacked(a) /\ IsPacked(b)
      /\ v \in 0 .. 255 /\ x \in {0, 1} /\ h \in {0, 1} /\ g \in {0, 1}
      /\ (h = 1) = (v > 153 \/ g = 1)
      /\ (g = 1) = (a + b >= 256) /\ v = (a + b) - g * 256
      /\ (x = 1) = ((v % 16) > 9 \/ (a % 16) + (b % 16) > 15)
  BY DEF SumAdjusts, PackedBytes
<1> USE <1>0
<1>1. PICK p \in 0 .. 9, q \in 0 .. 9 :
        a = 16 * p + q /\ a % 16 = q /\ PackedNumber(a) = 10 * p + q
  BY PackedDigits
<1>2. PICK m \in 0 .. 9, n \in 0 .. 9 :
        b = 16 * m + n /\ b % 16 = n /\ PackedNumber(b) = 10 * m + n
  BY PackedDigits
<1> DEFINE t == p + m
           u == q + n
           hi == t + x - 10 * h
           lo == u - 10 * x
           w == v + (6 * x + 96 * h)
           r == w % 256
<1>3. a + b = 16 * t + u /\ t \in 0 .. 18 /\ u \in 0 .. 18
      /\ PackedNumber(a) + PackedNumber(b) = 10 * t + u
  BY <1>1, <1>2
<1>4. (x = 1) = ((v % 16) > 9 \/ u > 15)
  BY <1>1, <1>2
<1> HIDE DEF t, u
<1>5. (x = 1) = (u > 9)
  <2>1. CASE u < 16
    <3>1. v = 16 * t + u \/ v = 16 * (t - 16) + u
      BY <1>3
    <3>2. v % 16 = u
      BY <1>3, <2>1, <3>1
    <3> QED BY <1>4, <2>1, <3>2
  <2>2. CASE u >= 16
    BY <1>3, <1>4, <2>2
  <2> QED BY <1>3, <2>1, <2>2
<1>6. (h = 1) = (t + x > 9)
  BY <1>3, <1>5
<1>7. hi \in 0 .. 9 /\ lo \in 0 .. 9
  BY <1>3, <1>5, <1>6
<1>8. w = 256 * (h - g) + (16 * hi + lo)
  BY <1>3
<1> HIDE DEF hi, lo, w
<1>9. r = 16 * hi + lo
  BY <1>7, <1>8
<1>10. PackedNumber(r) = 10 * hi + lo
  BY <1>7, <1>9, NumberOf
<1> DEFINE z == 10 * hi + lo
           s == 10 * t + u
<1>11. s = 100 * h + z /\ z \in 0 .. 99
  BY <1>3, <1>7 DEF hi, lo
<1> HIDE DEF z, s
<1>12. s % 100 = z /\ (h = 1) = (s >= 100)
  BY <1>11
<1> QED BY <1>3, <1>10, <1>12 DEF z, s, w

(* And of a difference: the digits borrow.                                 *)
LEMMA PackedDifference ==
  ASSUME NEW a, NEW b, NEW v, NEW x, NEW h, NEW g, DifferenceAdjusts(a, b, v, x, h, g)
  PROVE  /\ PackedNumber((v - (6 * x + 96 * h)) % 256) = (PackedNumber(a) - PackedNumber(b)) % 100
         /\ (h = 1) = (a < b)
<1>0. /\ a \in 0 .. 255 /\ b \in 0 .. 255 /\ IsPacked(a) /\ IsPacked(b)
      /\ v \in 0 .. 255 /\ x \in {0, 1} /\ h \in {0, 1} /\ g \in {0, 1}
      /\ (h = 1) = (v > 153 \/ g = 1)
      /\ (g = 1) = (a < b) /\ v = (a - b) + g * 256
      /\ (x = 1) = ((v % 16) > 9 \/ (a % 16) < (b % 16))
  BY DEF DifferenceAdjusts, PackedBytes
<1> USE <1>0
<1>1. PICK p \in 0 .. 9, q \in 0 .. 9 :
        a = 16 * p + q /\ a % 16 = q /\ PackedNumber(a) = 10 * p + q
  BY PackedDigits
<1>2. PICK m \in 0 .. 9, n \in 0 .. 9 :
        b = 16 * m + n /\ b % 16 = n /\ PackedNumber(b) = 10 * m + n
  BY PackedDigits
<1> DEFINE t == p - m
           u == q - n
           hi == t - x + 10 * h
           lo == u + 10 * x
           w == v - (6 * x + 96 * h)
           r == w % 256
<1>3. a - b = 16 * t + u /\ t \in -9 .. 9 /\ u \in -9 .. 9
      /\ PackedNumber(a) - PackedNumber(b) = 10 * t + u
  BY <1>1, <1>2
<1>4. (x = 1) = ((v % 16) > 9 \/ u < 0)
  BY <1>1, <1>2
<1> HIDE DEF t, u
<1>5. (x = 1) = (u < 0)
  <2>1. CASE u >= 0
    <3>1. v = 16 * t + u \/ v = 16 * (t + 16) + u
      BY <1>3
    <3>2. v % 16 = u
      BY <1>3, <2>1, <3>1
    <3> QED BY <1>3, <1>4, <2>1, <3>2
  <2>2. CASE u < 0
    BY <1>3, <1>4, <2>2
  <2> QED BY <1>3, <2>1, <2>2
<1>6. (h = 1) = (t - x < 0) /\ (h = 1) = (a < b)
  <2>1. (g = 1) = (16 * t + u < 0)
    BY <1>3
  <2>2. (16 * t + u < 0) = (t - x < 0)
    BY <1>3, <1>5
  <2>3. CASE g = 1
    BY <2>1, <2>2, <2>3
  <2>4. CASE g = 0
    <3>1. v = 16 * t + u /\ t - x >= 0
      BY <1>3, <2>1, <2>2, <2>4
    <3>2. v <= 153
      BY <1>3, <1>5, <3>1
    <3> QED BY <1>3, <2>4, <3>1, <3>2
  <2> QED BY <2>3, <2>4
<1>7. hi \in 0 .. 9 /\ lo \in 0 .. 9
  BY <1>3, <1>5, <1>6
<1>8. w = 256 * (g - h) + (16 * hi + lo)
  BY <1>3
<1> HIDE DEF hi, lo, w
<1>9. r = 16 * hi + lo
  BY <1>7, <1>8
<1>10. PackedNumber(r) = 10 * hi + lo
  BY <1>7, <1>9, NumberOf
<1> DEFINE z == 10 * hi + lo
           s == 10 * t + u
<1>11. s = -(100 * h) + z /\ z \in 0 .. 99
  BY <1>3, <1>7 DEF hi, lo
<1> HIDE DEF z, s
<1>12. s % 100 = z
  BY <1>11
<1> QED BY <1>3, <1>6, <1>10, <1>12 DEF z, s, w

(* Digits: one adjusted digit and a carry.                                 *)
LEMMA DigitSums ==
  ASSUME NEW a \in 0 .. 9, NEW b \in 0 .. 9, NEW x \in {0, 1}
  PROVE  /\ (x = 1) = (((a + b) % 16) > 9 \/ (a % 16) + (b % 16) > 15) =>
              ((a + b) + 6 * x) % 16 = (a + b) % 10 /\ (x = 1) = (a + b >= 10)
         /\ \A v \in 0 .. 255 :
              /\ v = (a - b) + (IF a < b THEN 256 ELSE 0)
              /\ (x = 1) = ((v % 16) > 9 \/ (a % 16) < (b % 16))
              => (v - 6 * x) % 16 = (a - b) % 10 /\ (x = 1) = (a < b)
<1>1. a % 16 = a /\ b % 16 = b
  OBVIOUS
<1>2. ASSUME (x = 1) = (((a + b) % 16) > 9 \/ (a % 16) + (b % 16) > 15)
      PROVE  ((a + b) + 6 * x) % 16 = (a + b) % 10 /\ (x = 1) = (a + b >= 10)
  <2> DEFINE s == a + b
  <2>1. s \in 0 .. 18 /\ (x = 1) = ((s % 16) > 9 \/ s > 15)
    BY <1>1, <1>2
  <2> HIDE DEF s
  <2>2. (s + 6 * x) % 16 = s % 10 /\ (x = 1) = (s >= 10)
    BY <2>1
  <2> QED BY <2>2 DEF s
<1>3. ASSUME NEW v \in 0 .. 255, v = (a - b) + (IF a < b THEN 256 ELSE 0),
             (x = 1) = ((v % 16) > 9 \/ (a % 16) < (b % 16))
      PROVE  (v - 6 * x) % 16 = (a - b) % 10 /\ (x = 1) = (a < b)
  <2> DEFINE s == a - b
  <2>1. s \in -9 .. 9 /\ (x = 1) = ((v % 16) > 9 \/ s < 0)
        /\ v = s + (IF s < 0 THEN 256 ELSE 0) /\ (a < b) = (s < 0)
    BY <1>1, <1>3
  <2> HIDE DEF s
  <2>2. (x = 1) = (s < 0)
    BY <2>1
  <2>3. (v - 6 * x) % 16 = s % 10
    <3>1. CASE s < 0
      <4>1. v = s + 256 /\ x = 1
        BY <2>1, <2>2, <3>1
      <4>2. v - 6 * x = 16 * 15 + (s + 10) /\ s + 10 \in 0 .. 9
        BY <2>1, <3>1, <4>1
      <4>3. s % 10 = s + 10
        BY <2>1, <3>1
      <4> QED BY <4>2, <4>3
    <3>2. CASE s >= 0
      <4>1. v = s /\ x = 0
        BY <2>1, <2>2, <3>2
      <4> QED BY <2>1, <3>2, <4>1
    <3> QED BY <2>1, <3>1, <3>2
  <2> QED BY <2>1, <2>2, <2>3 DEF s
<1> QED BY <1>2, <1>3

LEMMA AdjustFacts ==
  ASSUME NEW s \in States, NEW by \in {1, -1}
  PROVE  LET v == s.r.low
             x == AsBit(AdjustLow(s.f, v))
             h == AsBit(v > 153 \/ s.f.carry)
             d == DecimalAdjust(s.f, s.r, by)
             a == AsciiAdjust(s.f, s.r, by)
         IN /\ x \in {0, 1} /\ (x = 1) = ((v % 16) > 9 \/ s.f.aux)
            /\ h \in {0, 1} /\ (h = 1) = (v > 153 \/ s.f.carry)
            /\ d.r.low = (v + by * (6 * x + 96 * h)) % Size /\ d.f.carry = (h = 1)
            /\ a.r.low = (v + by * 6 * x) % 16 /\ a.f.carry = (x = 1)
<1> DEFINE v == s.r.low
           lowly == AdjustLow(s.f, v)
           highly == v > 153 \/ s.f.carry
           x == AsBit(lowly)
           h == AsBit(highly)
           d == DecimalAdjust(s.f, s.r, by)
           a == AsciiAdjust(s.f, s.r, by)
           w == (v + by * (6 * x + 96 * h)) % Size
           l == (v + by * 6 * x) % 16
           hi == (s.r.high + by * x) % Size
           g == [s.f EXCEPT !.aux = lowly, !.carry = highly]
<1>1. s.r \in RegisterFile /\ s.f \in FlagWord
  BY DEF States
<1>2. lowly = ((v % 16) > 9 \/ s.f.aux) /\ lowly \in BOOLEAN /\ highly \in BOOLEAN
  BY <1>1 DEF AdjustLow, FlagWord
<1>3. /\ d = [r |-> [s.r EXCEPT !.low = w], f |-> ZSP(g, w), fate |-> "running"]
      /\ a = [r |-> [s.r EXCEPT !.low = l, !.high = hi],
              f |-> [s.f EXCEPT !.aux = lowly, !.carry = lowly], fate |-> "running"]
  BY <1>1 DEF DecimalAdjust, AsciiAdjust, RegisterFile
<1> HIDE DEF lowly, highly, d, a
<1>4. x \in {0, 1} /\ (x = 1) = lowly /\ h \in {0, 1} /\ (h = 1) = highly
  BY <1>2, BitValues
<1> HIDE DEF w, l, hi
<1>5. g \in FlagWord /\ g.carry = highly
      /\ [s.f EXCEPT !.aux = lowly, !.carry = lowly].carry = lowly
  BY <1>1, <1>2 DEF FlagWord
<1> HIDE DEF g
<1>6. ZSP(g, w).carry = highly
  BY <1>5, ZSPTyped
<1>7. d.r.low = w /\ d.f.carry = highly /\ a.r.low = l /\ a.f.carry = lowly
  BY <1>1, <1>3, <1>5, <1>6 DEF RegisterFile
<1> QED BY <1>2, <1>4, <1>7, Zenon DEF w, l, x, h, d, a, lowly, highly

(* The state an adjustment of a sum or a difference starts from.           *)
LEMMA SumThen ==
  ASSUME AluInv, NEW j, program = <<<<"add", "low">>, j>>, pc = 2
  PROVE  LET a == loaded.low
             b == operand.low
             w == a + b
         IN /\ j \in Instructions /\ a \in Values /\ b \in Values
            /\ \E t \in States :
                 /\ Now = After(j, t) /\ t.r.low = (IF w < Size THEN w ELSE w - Size)
                 /\ t.f.carry = (w >= Size) /\ t.f.aux = ((a % 16) + (b % 16) > 15)
<1> DEFINE a == loaded.low
           b == operand.low
           w == a + b
<1>1. a \in Values /\ b \in Values
  BY DEF AluInv, RegisterFile
<1>2. PICK s : LET t == After(<<"add", "low">>, s)
               IN AtStart(s) /\ t \in States /\ Now = After(j, t)
  BY TwoRan
<1>3. j \in Instructions
  BY TwoRan
<1> DEFINE t == After(<<"add", "low">>, s)
           e == Add(s.f, a, b, 0)
<1>4. s \in States /\ s.r = loaded /\ s.f \in FlagWord /\ t \in States /\ Now = After(j, t)
  BY <1>2 DEF AtStart, States
<1>5. e \in Results
      /\ t = [r |-> [low |-> e.r, high |-> s.r.high, count |-> s.r.count], f |-> e.f,
              fate |-> "running"]
  <2>1. Alu("add", s.f, s.r.low, operand.low) = e
    BY <1>1, <1>4, AluByName DEF AluCases
  <2>2. "add" \in AluOps
    BY DEF AluOps
  <2> QED BY <1>4, <2>1, <2>2, AfterAlu
<1>6. t.r.low = e.r /\ t.f = e.f
  <2> HIDE DEF e, t
  <2> QED BY <1>5
<1>7. /\ e.r = (IF a + b + 0 < Size THEN a + b + 0 ELSE (a + b + 0) - Size)
      /\ e.f.carry = (a + b + 0 >= Size) /\ e.f.aux = ((a % 16) + (b % 16) + 0 > 15)
  BY <1>1, <1>4, AddFacts
<1> HIDE DEF t, e, a, b
<1> DEFINE y == a % 16
           z == b % 16
<1>8. a + b + 0 = w /\ y + z + 0 = y + z
  <2>1. a \in Int /\ b \in Int /\ y \in Int /\ z \in Int
    BY <1>1, SizeFacts
  <2> HIDE DEF y, z
  <2> QED BY <2>1
<1>9. /\ t.r.low = (IF w < Size THEN w ELSE w - Size)
      /\ t.f.carry = (w >= Size) /\ t.f.aux = (y + z > 15)
  BY <1>6, <1>7, <1>8, Zenon
<1> QED BY <1>1, <1>3, <1>4, <1>9, Zenon DEF a, b

LEMMA DifferenceThen ==
  ASSUME AluInv, NEW j, program = <<<<"sub", "low">>, j>>, pc = 2
  PROVE  LET a == loaded.low
             b == operand.low
         IN /\ j \in Instructions /\ a \in Values /\ b \in Values
            /\ \E t \in States :
                 /\ Now = After(j, t) /\ t.r.low = (IF a < b THEN (a - b) + Size ELSE a - b)
                 /\ t.f.carry = (a < b) /\ t.f.aux = ((a % 16) < (b % 16))
<1> DEFINE a == loaded.low
           b == operand.low
<1>1. a \in Values /\ b \in Values
  BY DEF AluInv, RegisterFile
<1>2. PICK s : LET t == After(<<"sub", "low">>, s)
               IN AtStart(s) /\ t \in States /\ Now = After(j, t)
  BY TwoRan
<1>3. j \in Instructions
  BY TwoRan
<1> DEFINE t == After(<<"sub", "low">>, s)
           e == Sub(s.f, a, b, 0)
<1>4. s \in States /\ s.r = loaded /\ s.f \in FlagWord /\ t \in States /\ Now = After(j, t)
  BY <1>2 DEF AtStart, States
<1>5. e \in Results
      /\ t = [r |-> [low |-> e.r, high |-> s.r.high, count |-> s.r.count], f |-> e.f,
              fate |-> "running"]
  <2>1. Alu("sub", s.f, s.r.low, operand.low) = e
    BY <1>1, <1>4, AluByName DEF AluCases
  <2>2. "sub" \in AluOps
    BY DEF AluOps
  <2> QED BY <1>4, <2>1, <2>2, AfterAlu
<1>6. t.r.low = e.r /\ t.f = e.f
  <2> HIDE DEF e, t
  <2> QED BY <1>5
<1> DEFINE w == (a - b) - 0
<1>7. /\ e.r = (IF w < 0 THEN w + Size ELSE w)
      /\ e.f.carry = (w < 0) /\ e.f.aux = ((a % 16) < (b % 16) + 0)
  BY <1>1, <1>4, SubFacts
<1> HIDE DEF t, e, a, b
<1> DEFINE z == b % 16
<1>8. w = a - b /\ (w < 0) = (a < b) /\ z + 0 = z
  <2>1. a \in Int /\ b \in Int /\ z \in Int
    BY <1>1, SizeFacts
  <2> HIDE DEF z
  <2> QED BY <2>1
<1> HIDE DEF w
<1>9. /\ t.r.low = (IF a < b THEN (a - b) + Size ELSE a - b)
      /\ t.f.carry = (a < b) /\ t.f.aux = ((a % 16) < z)
  BY <1>6, <1>7, <1>8, Zenon
<1> QED BY <1>1, <1>3, <1>4, <1>9, Zenon DEF a, b

LEMMA DecimalAdds ==
  ASSUME AluInv, Ran(DecimalAdd), IsPacked(loaded.low), IsPacked(operand.low)
  PROVE  LET s == PackedNumber(loaded.low) + PackedNumber(operand.low)
         IN PackedNumber(acc.low) = s % 100 /\ aluFlags.carry = (s >= 100)
<1> DEFINE a == loaded.low
           b == operand.low
           w == a + b
           j == <<"daa", "low">>
<1>1. /\ j \in Instructions /\ a \in Values /\ b \in Values
      /\ \E t \in States :
           /\ Now = After(j, t) /\ t.r.low = (IF w < Size THEN w ELSE w - Size)
           /\ t.f.carry = (w >= Size) /\ t.f.aux = ((a % 16) + (b % 16) > 15)
  BY SumThen DEF Ran, DecimalAdd
<1>2. Size = 256 /\ Values = 0 .. 255
  BY <1>1, ByteSized DEF ByteOps
<1>3. PICK t \in States :
           /\ Now = After(j, t) /\ t.r.low = (IF w < Size THEN w ELSE w - Size)
           /\ t.f.carry = (w >= Size) /\ t.f.aux = ((a % 16) + (b % 16) > 15)
  BY <1>1
<1> DEFINE v == t.r.low
           x == AsBit(AdjustLow(t.f, v))
           h == AsBit(v > 153 \/ t.f.carry)
           g == AsBit(w >= 256)
           d == DecimalAdjust(t.f, t.r, 1)
<1>4. Now = d
  BY <1>3, AfterOther
<1>5. /\ x \in {0, 1} /\ (x = 1) = ((v % 16) > 9 \/ t.f.aux)
      /\ h \in {0, 1} /\ (h = 1) = (v > 153 \/ t.f.carry)
      /\ d.r.low = (v + 1 * (6 * x + 96 * h)) % Size /\ d.f.carry = (h = 1)
  BY AdjustFacts
<1>6. g \in {0, 1} /\ (g = 1) = (w >= 256)
  <2>1. (w >= 256) \in BOOLEAN
    OBVIOUS
  <2> HIDE DEF w
  <2> QED BY <2>1, BitValues, Zenon
<1> HIDE DEF x, h, g, v, d, a, b
<1>7. v \in 0 .. 255 /\ v = w - g * 256 /\ (g = 1) = t.f.carry
  BY <1>1, <1>2, <1>3, <1>6 DEF v
<1>8. (x = 1) = ((v % 16) > 9 \/ (a % 16) + (b % 16) > 15) /\ (h = 1) = (v > 153 \/ g = 1)
  BY <1>3, <1>5, <1>7, Zenon
<1>9. 1 * (6 * x + 96 * h) = 6 * x + 96 * h
  BY <1>5
<1>10. /\ PackedNumber((v + (6 * x + 96 * h)) % 256) = (PackedNumber(a) + PackedNumber(b)) % 100
       /\ (h = 1) = (PackedNumber(a) + PackedNumber(b) >= 100)
  <2>1. a \in 0 .. 255 /\ b \in 0 .. 255 /\ IsPacked(a) /\ IsPacked(b)
    BY <1>1, <1>2 DEF a, b
  <2>2. SumAdjusts(a, b, v, x, h, g)
    BY <1>5, <1>6, <1>7, <1>8, <2>1 DEF SumAdjusts, PackedBytes
  <2> QED BY <2>2, PackedSum
<1>11. acc.low = (v + (6 * x + 96 * h)) % 256 /\ aluFlags.carry = (h = 1)
  BY <1>2, <1>4, <1>5, <1>9, NowFacts
<1> QED BY <1>10, <1>11, Zenon DEF a, b

LEMMA DecimalSubs ==
  ASSUME AluInv, Ran(DecimalSub), IsPacked(loaded.low), IsPacked(operand.low)
  PROVE  /\ PackedNumber(acc.low) = (PackedNumber(loaded.low) - PackedNumber(operand.low)) % 100
         /\ aluFlags.carry = (loaded.low < operand.low)
<1> DEFINE a == loaded.low
           b == operand.low
           j == <<"das", "low">>
<1>1. /\ j \in Instructions /\ a \in Values /\ b \in Values
      /\ \E t \in States :
           /\ Now = After(j, t) /\ t.r.low = (IF a < b THEN (a - b) + Size ELSE a - b)
           /\ t.f.carry = (a < b) /\ t.f.aux = ((a % 16) < (b % 16))
  BY DifferenceThen DEF Ran, DecimalSub
<1>2. Size = 256 /\ Values = 0 .. 255
  BY <1>1, ByteSized DEF ByteOps
<1>3. PICK t \in States :
           /\ Now = After(j, t) /\ t.r.low = (IF a < b THEN (a - b) + Size ELSE a - b)
           /\ t.f.carry = (a < b) /\ t.f.aux = ((a % 16) < (b % 16))
  BY <1>1
<1> DEFINE v == t.r.low
           x == AsBit(AdjustLow(t.f, v))
           h == AsBit(v > 153 \/ t.f.carry)
           g == AsBit(a < b)
           d == DecimalAdjust(t.f, t.r, -1)
<1>4. Now = d
  BY <1>3, AfterOther
<1>5. /\ x \in {0, 1} /\ (x = 1) = ((v % 16) > 9 \/ t.f.aux)
      /\ h \in {0, 1} /\ (h = 1) = (v > 153 \/ t.f.carry)
      /\ d.r.low = (v + -1 * (6 * x + 96 * h)) % Size /\ d.f.carry = (h = 1)
  BY AdjustFacts
<1>6. g \in {0, 1} /\ (g = 1) = (a < b)
  <2>1. (a < b) \in BOOLEAN
    OBVIOUS
  <2> HIDE DEF a, b
  <2> QED BY <2>1, BitValues, Zenon
<1> HIDE DEF x, h, g, v, d, a, b
<1>7. v \in 0 .. 255 /\ v = (a - b) + g * 256 /\ (g = 1) = t.f.carry
  BY <1>1, <1>2, <1>3, <1>6 DEF v
<1>8. (x = 1) = ((v % 16) > 9 \/ (a % 16) < (b % 16)) /\ (h = 1) = (v > 153 \/ g = 1)
  BY <1>3, <1>5, <1>7, Zenon
<1>9. v + -1 * (6 * x + 96 * h) = v - (6 * x + 96 * h)
  BY <1>5, <1>7
<1>10. /\ PackedNumber((v - (6 * x + 96 * h)) % 256) = (PackedNumber(a) - PackedNumber(b)) % 100
       /\ (h = 1) = (a < b)
  <2>1. a \in 0 .. 255 /\ b \in 0 .. 255 /\ IsPacked(a) /\ IsPacked(b)
    BY <1>1, <1>2 DEF a, b
  <2>2. DifferenceAdjusts(a, b, v, x, h, g)
    BY <1>5, <1>6, <1>7, <1>8, <2>1 DEF DifferenceAdjusts, PackedBytes
  <2> QED BY <2>2, PackedDifference
<1>11. acc.low = (v - (6 * x + 96 * h)) % 256 /\ aluFlags.carry = (h = 1)
  BY <1>2, <1>4, <1>5, <1>9, NowFacts
<1> QED BY <1>10, <1>11, Zenon DEF a, b

LEMMA DigitAdds ==
  ASSUME AluInv, Ran(DigitAdd), loaded.low < 10, operand.low < 10
  PROVE  LET s == loaded.low + operand.low
         IN acc.low = s % 10 /\ aluFlags.carry = (s >= 10)
<1> DEFINE a == loaded.low
           b == operand.low
           w == a + b
           j == <<"aaa", "low">>
<1>1. /\ j \in Instructions /\ a \in Values /\ b \in Values
      /\ \E t \in States :
           /\ Now = After(j, t) /\ t.r.low = (IF w < Size THEN w ELSE w - Size)
           /\ t.f.carry = (w >= Size) /\ t.f.aux = ((a % 16) + (b % 16) > 15)
  BY SumThen DEF Ran, DigitAdd
<1>2. Size = 256 /\ Values = 0 .. 255
  BY <1>1, ByteSized DEF ByteOps
<1>3. PICK t \in States :
           /\ Now = After(j, t) /\ t.r.low = (IF w < Size THEN w ELSE w - Size)
           /\ t.f.carry = (w >= Size) /\ t.f.aux = ((a % 16) + (b % 16) > 15)
  BY <1>1
<1> DEFINE v == t.r.low
           x == AsBit(AdjustLow(t.f, v))
           d == AsciiAdjust(t.f, t.r, 1)
<1>4. Now = d
  BY <1>3, AfterOther
<1>5. /\ x \in {0, 1} /\ (x = 1) = ((v % 16) > 9 \/ t.f.aux)
      /\ d.r.low = (v + 1 * 6 * x) % 16 /\ d.f.carry = (x = 1)
  BY AdjustFacts
<1>6. a \in 0 .. 9 /\ b \in 0 .. 9
  BY <1>1, <1>2
<1> HIDE DEF x, v, d, a, b
<1>7. v = w
  BY <1>2, <1>3, <1>6 DEF v
<1>8. (x = 1) = (((a + b) % 16) > 9 \/ (a % 16) + (b % 16) > 15)
  BY <1>3, <1>5, <1>7, Zenon
<1>9. ((a + b) + 6 * x) % 16 = (a + b) % 10 /\ (x = 1) = (a + b >= 10)
  BY <1>5, <1>6, <1>8, DigitSums
<1>10. v + 1 * 6 * x = (a + b) + 6 * x
  BY <1>5, <1>6, <1>7
<1>11. acc.low = ((a + b) + 6 * x) % 16 /\ aluFlags.carry = (x = 1)
  BY <1>4, <1>5, <1>10, NowFacts
<1> QED BY <1>9, <1>11, Zenon DEF a, b

LEMMA DigitSubs ==
  ASSUME AluInv, Ran(DigitSub), loaded.low < 10, operand.low < 10
  PROVE  /\ acc.low = (loaded.low - operand.low) % 10
         /\ aluFlags.carry = (loaded.low < operand.low)
<1> DEFINE a == loaded.low
           b == operand.low
           j == <<"aas", "low">>
<1>1. /\ j \in Instructions /\ a \in Values /\ b \in Values
      /\ \E t \in States :
           /\ Now = After(j, t) /\ t.r.low = (IF a < b THEN (a - b) + Size ELSE a - b)
           /\ t.f.carry = (a < b) /\ t.f.aux = ((a % 16) < (b % 16))
  BY DifferenceThen DEF Ran, DigitSub
<1>2. Size = 256 /\ Values = 0 .. 255
  BY <1>1, ByteSized DEF ByteOps
<1>3. PICK t \in States :
           /\ Now = After(j, t) /\ t.r.low = (IF a < b THEN (a - b) + Size ELSE a - b)
           /\ t.f.carry = (a < b) /\ t.f.aux = ((a % 16) < (b % 16))
  BY <1>1
<1> DEFINE v == t.r.low
           x == AsBit(AdjustLow(t.f, v))
           d == AsciiAdjust(t.f, t.r, -1)
<1>4. Now = d
  BY <1>3, AfterOther
<1>5. /\ x \in {0, 1} /\ (x = 1) = ((v % 16) > 9 \/ t.f.aux)
      /\ d.r.low = (v + -1 * 6 * x) % 16 /\ d.f.carry = (x = 1)
  BY AdjustFacts
<1>6. a \in 0 .. 9 /\ b \in 0 .. 9
  BY <1>1, <1>2
<1> HIDE DEF x, v, d, a, b
<1>7. v = (a - b) + (IF a < b THEN 256 ELSE 0) /\ v \in 0 .. 255
  BY <1>2, <1>3, <1>6 DEF v
<1>8. (x = 1) = ((v % 16) > 9 \/ (a % 16) < (b % 16))
  BY <1>3, <1>5, Zenon
<1>9. (v - 6 * x) % 16 = (a - b) % 10 /\ (x = 1) = (a < b)
  BY <1>5, <1>6, <1>7, <1>8, DigitSums
<1>10. v + -1 * 6 * x = v - 6 * x
  BY <1>5, <1>7
<1>11. acc.low = (v - 6 * x) % 16 /\ aluFlags.carry = (x = 1)
  BY <1>4, <1>5, <1>10, NowFacts
<1> QED BY <1>9, <1>11, Zenon DEF a, b

(* A pair takes any number of two registers' bits.                         *)
LEMMA PairedFacts ==
  ASSUME NEW r \in RegisterFile, NEW v \in 0 .. PairSize - 1
  PROVE  /\ Paired(r, v) \in RegisterFile /\ Pair(Paired(r, v)) = v
         /\ Paired(r, v).low = v % Size
<1> DEFINE l == v % Size
           q == v \div Size
<1>1. q \in 0 .. Size - 1 /\ l \in 0 .. Size - 1 /\ v = l + q * Size
  BY SizeFacts, HighPart DEF PairSize
<1> DEFINE h == q % Size
<1>5. h = q /\ h \in Values
  <2> HIDE DEF l, q, h
  <2>1. q = Size * 0 + q /\ q \in Int /\ 0 \in Int
    BY <1>1, SizeFacts
  <2>2. q % Size = q
    BY <1>1, <2>1, SizeFacts, WholeUnique
  <2> QED BY <1>1, <2>2, SizeFacts DEF h
<1>6. Paired(r, v) = [r EXCEPT !.low = l, !.high = h]
  BY DEF Paired
<1> HIDE DEF l, h
<1>7. /\ [r EXCEPT !.low = l, !.high = h] \in RegisterFile
      /\ [r EXCEPT !.low = l, !.high = h].low = l
      /\ [r EXCEPT !.low = l, !.high = h].high = h
  BY <1>1, <1>5, SizeFacts DEF RegisterFile
<1>8. l + h * Size = v
  BY <1>1, <1>5, Zenon
<1>9. Pair(Paired(r, v)) = l + h * Size
  BY <1>6, <1>7 DEF Pair
<1> QED BY <1>6, <1>7, <1>8, <1>9 DEF l

LEMMA MulFacts ==
  ASSUME NEW s \in States, NEW b \in Values
  PROVE  LET e == Mul(s.f, s.r, b)
         IN /\ e.r \in RegisterFile /\ e.f \in FlagWord
            /\ Pair(e.r) = s.r.low * b /\ e.r.low = (s.r.low * b) % Size
<1> DEFINE v == s.r.low * b
           fits == v < Size
<1>1. s.r \in RegisterFile /\ s.r.low \in Values /\ s.f \in FlagWord
  BY DEF States, RegisterFile
<1>2. v \in 0 .. PairSize - 1
  BY <1>1, SizeFacts, ProductsFit DEF PairSize
<1>3. Mul(s.f, s.r, b) \in States
  BY <1>1, MulTyped
<1>4. Mul(s.f, s.r, b).r = Paired(s.r, v)
  BY DEF Mul, Product
<1> HIDE DEF v
<1>5. Paired(s.r, v) \in RegisterFile /\ Pair(Paired(s.r, v)) = v /\ Paired(s.r, v).low = v % Size
  BY <1>1, <1>2, PairedFacts
<1> QED BY <1>3, <1>4, <1>5 DEF v, States

(* A division that does not trap gives the whole quotient and the          *)
(* remainder; one that does had a quotient too large for its register.     *)
LEMMA DivFacts ==
  ASSUME NEW f, NEW r \in RegisterFile, NEW d \in Values
  PROVE  LET e == Div(f, r, d)
         IN /\ e.fate = "running" => e.r.low * d + e.r.high = Pair(r) /\ e.r.high < d
                                     /\ d > 0 /\ e.r.low \in Values /\ e.r.high \in Values
            /\ e.fate = "trapped" => Pair(r) >= d * Size
<1> DEFINE x == Pair(r)
           e == Div(f, r, d)
<1>1. x \in Nat /\ d \in Nat
  BY PairTyped, SizeFacts
<1>2. CASE d = 0
  <2>1. e.fate = "trapped"
    BY <1>2 DEF Div, Stopped
  <2>2. x >= d * Size
    BY <1>1, <1>2, SizeFacts
  <2> QED BY <2>1, <2>2
<1>3. CASE d # 0
  <2> DEFINE q == x \div d
             m == x % d
  <2>1. q \in Int /\ m \in 0 .. d - 1 /\ x = d * q + m
    <3>1. x \in Int /\ d \in Nat \ {0}
      BY <1>1, <1>3
    <3> HIDE DEF x
    <3> QED BY <3>1, WholeDivMod
  <2>2. e = IF q >= Size THEN Stopped(f, r, "trapped") ELSE DividedPair(f, r, q, m)
    BY <1>3 DEF Div
  <2>3. q >= 0
    <3>1. (m + q * d >= 0) = (q >= 0)
      BY <1>1, <1>3, <2>1, HighDecides
    <3>2. q * d = d * q /\ q * d \in Int
      BY <1>1, <2>1
    <3> HIDE DEF x, q, m
    <3> QED BY <1>1, <2>1, <3>1, <3>2
  <2> HIDE DEF x, e, q, m
  <2>4. CASE q >= Size
    <3>1. e.fate = "trapped"
      BY <2>2, <2>4 DEF Stopped
    <3>2. /\ d * (q - Size) >= 0 /\ d * (q - Size) = d * q - d * Size
          /\ d * q \in Int /\ d * Size \in Int
      BY <1>1, <2>1, <2>4, SizeFacts
    <3>3. x >= d * Size
      BY <1>1, <2>1, <3>2
    <3> QED BY <3>1, <3>3 DEF x, e
  <2>5. CASE q < Size
    <3>1. q \in 0 .. Size - 1 /\ m \in 0 .. Size - 1
      BY <2>1, <2>3, <2>5, SizeFacts
    <3>2. q % Size = q /\ m % Size = m
      <4>1. q = Size * 0 + q /\ m = Size * 0 + m
        BY <3>1, SizeFacts
      <4> QED BY <3>1, <4>1, SizeFacts, WholeUnique
    <3>3. e = DividedPair(f, r, q, m)
      BY <2>1, <2>2, <2>5, SizeFacts
    <3>4. e.fate = "running" /\ e.r.low = q /\ e.r.high = m
      BY <3>2, <3>3 DEF DividedPair, RegisterFile
    <3>5. q * d + m = x /\ m < d /\ d > 0
      BY <1>1, <1>3, <2>1
    <3> QED BY <3>1, <3>4, <3>5, SizeFacts DEF x, e
  <2> QED BY <2>1, <2>4, <2>5, SizeFacts DEF e, x
<1> QED BY <1>2, <1>3

(* Two digits multiply to two digits.                                      *)
LEMMA DigitMuls ==
  ASSUME AluInv, Ran(DigitMul), loaded.low < 10, operand.low < 10, operand.high = 10
  PROVE  10 * acc.high + acc.low = loaded.low * operand.low
<1> DEFINE a == loaded.low
           b == operand.low
           j == <<"aam", "high">>
<1>1. a \in Values /\ b \in Values
  BY DEF AluInv, RegisterFile
<1>2. PICK s : LET t == After(<<"mul", "low">>, s)
               IN AtStart(s) /\ t \in States /\ Now = After(j, t)
  BY TwoRan DEF Ran, DigitMul
<1>3. j \in Instructions
  BY TwoRan DEF Ran, DigitMul
<1>4. Size = 256 /\ Values = 0 .. 255
  BY <1>3, ByteSized DEF ByteOps
<1> DEFINE t == After(<<"mul", "low">>, s)
           v == a * b
<1>5. s \in States /\ s.r = loaded /\ t \in States /\ Now = After(j, t)
  BY <1>2 DEF AtStart
<1>6. t.r.low = v % Size
  <2>1. t = Mul(s.f, s.r, b)
    BY AfterOther
  <2> HIDE DEF t
  <2> QED BY <1>1, <1>5, <2>1, MulFacts
<1>7. v \in 0 .. 81
  <2>1. a \in 0 .. 9 /\ b \in 0 .. 9
    BY <1>1, <1>4
  <2> HIDE DEF a, b
  <2>2. a \in {0, 1, 2, 3, 4, 5, 6, 7, 8, 9}
    BY <2>1
  <2> QED BY <2>1, <2>2
<1> HIDE DEF t, v
<1>8. t.r.low = v
  BY <1>4, <1>6, <1>7
<1>9. Now = AsciiMul(t.f, t.r, 10)
  BY <1>5, AfterOther
<1>10. acc.high = v \div 10 /\ acc.low = v % 10
  <2>1. Now.r = [t.r EXCEPT !.high = t.r.low \div 10, !.low = t.r.low % 10]
    BY <1>9 DEF AsciiMul
  <2> DEFINE h == v \div 10
             l == v % 10
  <2>2. acc = [t.r EXCEPT !.high = h, !.low = l]
    BY <1>8, <2>1, NowFacts
  <2> HIDE DEF h, l
  <2>3. t.r \in RegisterFile
    BY <1>5 DEF States
  <2>4. acc.high = h /\ acc.low = l
    BY <2>2, <2>3 DEF RegisterFile
  <2> QED BY <2>4 DEF h, l
<1> QED BY <1>7, <1>10 DEF v

(* Two digits divide by a digit.                                           *)
LEMMA DigitDivs ==
  ASSUME AluInv, Ran(DigitDiv), loaded.low < 10, loaded.high < 10, operand.low < 10,
         operand.high = 10
  PROVE  /\ acc.low * operand.low + acc.high = 10 * loaded.high + loaded.low
         /\ acc.high < operand.low
<1> DEFINE a == loaded.low
           h == loaded.high
           b == operand.low
           i == <<"aad", "high">>
           j == <<"div", "low">>
<1>1. a \in Values /\ b \in Values /\ h \in Values
  BY DEF AluInv, RegisterFile
<1>2. PICK s : LET t == After(i, s)
               IN AtStart(s) /\ t \in States /\ Now = After(j, t)
  BY TwoRan DEF Ran, DigitDiv
<1>3. i \in Instructions
  BY TwoRan DEF Ran, DigitDiv
<1>4. Size = 256 /\ Values = 0 .. 255
  BY <1>3, ByteSized DEF ByteOps
<1> DEFINE t == After(i, s)
           v == 10 * h + a
<1>5. s \in States /\ s.r = loaded /\ t \in States /\ Now = After(j, t)
  BY <1>2 DEF AtStart
<1>6. t = AsciiDiv(s.f, s.r, 10)
  BY AfterOther
<1>7. v \in 0 .. 99 /\ (h * 10 + a) % Size = v
  <2>1. a \in 0 .. 9 /\ h \in 0 .. 9
    BY <1>1, <1>4
  <2> HIDE DEF a, h
  <2> QED BY <1>4, <2>1
<1>8. t.r.low = v /\ t.r.high = 0
  <2> DEFINE w == (h * 10 + a) % Size
  <2>1. t.r = [s.r EXCEPT !.low = w, !.high = 0]
    BY <1>5, <1>6 DEF AsciiDiv
  <2> HIDE DEF w, t, v
  <2>2. s.r \in RegisterFile
    BY <1>5 DEF States
  <2>3. t.r.low = w /\ t.r.high = 0
    BY <2>1, <2>2 DEF RegisterFile
  <2> QED BY <1>7, <2>3 DEF w
<1> HIDE DEF t, v
<1>9. Pair(t.r) = v
  BY <1>4, <1>7, <1>8 DEF Pair
<1>10. Now = Div(t.f, t.r, b) /\ Now.fate = "running"
  BY <1>5, AfterOther, NowFacts DEF Ran
<1>11. t.r \in RegisterFile
  BY <1>5 DEF States
<1>12. Now.r.low * b + Now.r.high = v /\ Now.r.high < b
  BY <1>1, <1>9, <1>10, <1>11, DivFacts
<1> QED BY <1>12, NowFacts DEF v

LEMMA DecimalKnown == AluInv => DecimalExact
<1>1. \A v : /\ IsPacked(v) = ((v % 16) < 10 /\ v < 160)
            /\ PackedNumber(v) = 10 * (v \div 16) + (v % 16)
  BY DEF IsPacked, PackedNumber
<1> QED BY DecimalAdds, DecimalSubs, DigitAdds, DigitSubs, DigitMuls, DigitDivs, Zenon
        DEF DecimalExact, IsPacked, PackedNumber

-----------------------------------------------------------------------------
(* Division.                                                               *)

(* Truncated division: the remainder is smaller than the divisor and has   *)
(* the dividend's sign.                                                    *)
LEMMA Truncates ==
  ASSUME NEW n \in Int, NEW d \in Int \ {0}
  PROVE  LET q == Quotient(n, d)
             m == n - q * d
             e == IF d < 0 THEN -d ELSE d
         IN /\ q \in Int /\ m \in Int /\ m < e /\ -m < e
            /\ m # 0 => (m < 0) = (n < 0)
<1> DEFINE a == IF n < 0 THEN -n ELSE n
           e == IF d < 0 THEN -d ELSE d
           k == a \div e
           j == a % e
           q == Quotient(n, d)
           p == e * k
<1>1. a \in Nat /\ e \in Nat \ {0} /\ (n < 0 => n = -a) /\ (n >= 0 => n = a)
      /\ (d < 0 => d = -e) /\ (d >= 0 => d = e)
  OBVIOUS
<1>2. q = IF (n < 0) = (d < 0) THEN k ELSE -k
  BY DEF Quotient
<1> HIDE DEF a, e, q
<1>3. k \in Int /\ j \in 0 .. e - 1 /\ a = p + j /\ p \in Int
  BY <1>1, WholeDivMod
<1> HIDE DEF k, j
<1>4. q \in Int
  BY <1>2, <1>3
<1>5. q * d = IF n < 0 THEN -p ELSE p
  <2>1. (-k) * e = -p /\ (-k) * (-e) = p /\ k * e = p /\ k * (-e) = -p
    BY <1>1, <1>3
  <2> HIDE DEF p
  <2>2. CASE n < 0 /\ d < 0
    <3>1. q = k /\ d = -e
      BY <1>1, <1>2, <2>2
    <3> QED BY <2>1, <2>2, <3>1
  <2>3. CASE n < 0 /\ d >= 0
    <3>1. q = -k /\ d = e
      BY <1>1, <1>2, <2>3
    <3> QED BY <2>1, <2>3, <3>1
  <2>4. CASE n >= 0 /\ d < 0
    <3>1. q = -k /\ d = -e
      BY <1>1, <1>2, <2>4
    <3> QED BY <2>1, <2>4, <3>1
  <2>5. CASE n >= 0 /\ d >= 0
    <3>1. q = k /\ d = e
      BY <1>1, <1>2, <2>5
    <3> QED BY <2>1, <2>5, <3>1
  <2> QED BY <2>2, <2>3, <2>4, <2>5
<1> DEFINE m == n - q * d
<1>6. m = IF n < 0 THEN -j ELSE j
  <2> DEFINE w == q * d
  <2> HIDE DEF p, w
  <2>1. w = IF n < 0 THEN -p ELSE p
    BY <1>5 DEF w
  <2>2. n - w = IF n < 0 THEN -j ELSE j
    BY <1>1, <1>3, <2>1
  <2> QED BY <2>2 DEF w
<1> HIDE DEF m
<1>7. m \in Int /\ m < e /\ -m < e /\ (m # 0 => (m < 0) = (n < 0))
  BY <1>1, <1>3, <1>6
<1> QED BY <1>4, <1>7, Zenon DEF m, q, e

(* A register holds a signed number.                                       *)
LEMMA SignedWraps ==
  /\ \A v \in -Top .. Top - 1 : v % Size \in Values /\ Signed(v % Size) = v
  /\ \A a, b \in Values : Signed(a) = Signed(b) => a = b
  /\ Signed(0) = 0
<1>1. ASSUME NEW v \in -Top .. Top - 1
      PROVE  v % Size \in Values /\ Signed(v % Size) = v
  <2>1. v \in -Size .. 2 * Size - 1
    BY SizeFacts
  <2>2. v % Size = (IF v < 0 THEN v + Size ELSE IF v < Size THEN v ELSE v - Size)
        /\ v % Size \in Values
    BY <2>1, WrapSize
  <2> DEFINE w == v % Size
  <2> HIDE DEF w
  <2>3. w = (IF v < 0 THEN v + Size ELSE v)
    BY <2>2, SizeFacts DEF w
  <2>4. Signed(w) = v
    BY <2>3, SizeFacts DEF Signed
  <2> QED BY <2>2, <2>4 DEF w
<1>2. \A a, b \in Values : Signed(a) = Signed(b) => a = b
  BY SizeFacts DEF Signed
<1>3. Signed(0) = 0
  BY SizeFacts DEF Signed
<1> QED BY <1>1, <1>2, <1>3

LEMMA IDivFacts ==
  ASSUME NEW f, NEW r \in RegisterFile, NEW divisor \in Values,
         IDiv(f, r, divisor).fate = "running"
  PROVE  LET e == IDiv(f, r, divisor)
             n == SignedPair(Pair(r))
             d == Signed(divisor)
             q == Signed(e.r.low)
             m == Signed(e.r.high)
             w == IF d < 0 THEN -d ELSE d
         IN /\ e.r.low \in Values /\ e.r.high \in Values
            /\ n \in Int /\ d \in Int /\ q \in Int /\ m \in Int
            /\ m = n - q * d /\ m < w /\ -m < w
            /\ m # 0 => (m < 0) = (n < 0)
<1> DEFINE n == SignedPair(Pair(r))
           d == Signed(divisor)
           q == Quotient(n, d)
           m == n - q * d
           w == IF d < 0 THEN -d ELSE d
           e == IDiv(f, r, divisor)
           l == q % Size
           h == m % Size
<1>1. n \in Int /\ d \in Int /\ d \in -Top .. Top - 1
  BY PairTyped, SignedPairTyped, SignedTyped, SizeFacts
<1>2. d # 0 /\ SignedFits(q) /\ e = DividedPair(f, r, q, m)
  <2>1. Stopped(f, r, "trapped").fate # "running" /\ Stopped(f, r, "panicked").fate # "running"
    BY DEF Stopped
  <2>2. e = IF d = 0 THEN Stopped(f, r, "trapped")
            ELSE IF n = -(Top * Size) /\ d = -1 THEN Stopped(f, r, "panicked")
            ELSE IF ~SignedFits(q) THEN Stopped(f, r, "trapped")
            ELSE DividedPair(f, r, q, m)
    BY Zenon DEF IDiv
  <2>3. e.fate = "running"
    OBVIOUS
  <2> HIDE DEF e, n, d, q, m
  <2> QED BY <2>1, <2>2, <2>3
<1> HIDE DEF n, d
<1>3. q \in Int /\ m \in Int /\ m < w /\ -m < w /\ (m # 0 => (m < 0) = (n < 0))
  BY <1>1, <1>2, Truncates
<1>4. q \in -Top .. Top - 1
  <2> HIDE DEF q
  <2> QED BY <1>2, <1>3, SizeFacts DEF SignedFits
<1>5. m \in -Top .. Top - 1
  <2> HIDE DEF q, m
  <2> QED BY <1>1, <1>3, SizeFacts
<1> HIDE DEF q, m, w
<1>6. l \in Values /\ h \in Values /\ Signed(l) = q /\ Signed(h) = m
  BY <1>4, <1>5, SignedWraps
<1>7. e.r.low = l /\ e.r.high = h
  <2>1. e.r = [r EXCEPT !.low = l, !.high = h]
    BY <1>2 DEF DividedPair
  <2> HIDE DEF e, l, h
  <2> QED BY <2>1 DEF RegisterFile
<1> HIDE DEF e, l, h
<1>8. m = n - q * d
  BY DEF m
<1>9. /\ e.r.low \in Values /\ e.r.high \in Values
      /\ n \in Int /\ d \in Int /\ Signed(e.r.low) \in Int /\ Signed(e.r.high) \in Int
      /\ Signed(e.r.high) = n - Signed(e.r.low) * d
      /\ Signed(e.r.high) < w /\ -Signed(e.r.high) < w
      /\ Signed(e.r.high) # 0 => (Signed(e.r.high) < 0) = (n < 0)
  BY <1>1, <1>3, <1>6, <1>7, <1>8
<1> QED BY <1>9, Zenon DEF e, n, d, w

(* A signed product fits a pair, which gives it back as a signed number.   *)
LEMMA IMulFacts ==
  ASSUME NEW s \in States, NEW b \in Values
  PROVE  LET e == IMul(s.f, s.r, b)
         IN /\ e.r \in RegisterFile
            /\ SignedPair(Pair(e.r)) = Signed(s.r.low) * Signed(b)
<1> DEFINE x == Signed(s.r.low)
           y == Signed(b)
           v == x * y
           w == v % PairSize
           fits == SignedFits(v)
           t == Top * Size
<1>1. s.r \in RegisterFile /\ s.r.low \in Values
  BY DEF States, RegisterFile
<1>2. x \in -Top .. Top - 1 /\ y \in -Top .. Top - 1
  BY <1>1, SignedTyped
<1> HIDE DEF x, y
<1>3. v \in Int /\ t \in Int /\ PairSize = t + t /\ PairSize \in Nat \ {0} /\ -t <= v /\ v < t
  <2>1. Top \in Nat \ {0} /\ Size = Top + Top /\ x \in Int /\ y \in Int
    BY <1>2, SizeFacts
  <2> DEFINE q == Top * Top
             p == Top * y
  <2>2. t = q + q /\ q \in Int /\ q > 0
    BY <2>1
  <2>3. v \in Int /\ p \in Int /\ Size * Size = t + t
    BY <2>1
  <2>4. -q <= p /\ p <= q
    <3>1. Top * (Top - y) >= 0 /\ Top * (Top + y) >= 0
      BY <1>2, <2>1
    <3>2. Top * (Top - y) = q - p /\ Top * (Top + y) = q + p
      BY <2>1
    <3> HIDE DEF q, p
    <3> QED BY <2>2, <2>3, <3>1, <3>2
  <2>5. -q <= v /\ v <= q
    <3>1. CASE y >= 0
      <4>1. (Top - x) * y >= 0 /\ (Top + x) * y >= 0
        BY <1>2, <2>1, <3>1
      <4>2. (Top - x) * y = p - v /\ (Top + x) * y = p + v
        BY <2>1
      <4> HIDE DEF q, p, v
      <4> QED BY <2>2, <2>3, <2>4, <4>1, <4>2
    <3>2. CASE y < 0
      <4>1. (Top - x) * (-y) >= 0 /\ (Top + x) * (-y) >= 0
        BY <1>2, <2>1, <3>2
      <4>2. (Top - x) * (-y) = v - p /\ (Top + x) * (-y) = -p - v
        BY <2>1
      <4> HIDE DEF q, p, v
      <4> QED BY <2>2, <2>3, <2>4, <4>1, <4>2
    <3> QED BY <2>1, <3>1, <3>2
  <2> HIDE DEF q, v, t
  <2>6. -t <= v /\ v < t /\ t + t > 0
    BY <2>2, <2>3, <2>5
  <2>7. t \in Int
    BY <2>2
  <2> QED BY <2>3, <2>6, <2>7 DEF PairSize
<1> HIDE DEF v, t
<1>4. w \in 0 .. PairSize - 1 /\ w = IF v < 0 THEN v + PairSize ELSE v
  <2> DEFINE d == PairSize
  <2>1. d \in Nat \ {0} /\ v \in -d .. 2 * d - 1
    BY <1>3
  <2> HIDE DEF d
  <2>2. v % d = IF v < 0 THEN v + d ELSE IF v < d THEN v ELSE v - d
    BY <2>1, WrapOnce
  <2> QED BY <1>3, <2>2 DEF d
<1> HIDE DEF w
<1>5. SignedPair(w) = v
  <2>1. SignedPair(w) = IF w < t THEN w ELSE w - PairSize
    BY DEF SignedPair, t
  <2> QED BY <1>3, <1>4, <2>1
<1>6. IMul(s.f, s.r, b).r = Paired(s.r, w)
  BY DEF IMul, Product, w, v, x, y
<1>7. Paired(s.r, w) \in RegisterFile /\ Pair(Paired(s.r, w)) = w
  BY <1>1, <1>4, PairedFacts
<1> QED BY <1>5, <1>6, <1>7, Zenon DEF v, x, y

LEMMA Divides ==
  ASSUME AluInv, Ran(Divide)
  PROVE  acc.low * operand.low + acc.high = Pair(loaded) /\ acc.high < operand.low
<1> DEFINE i == <<"div", "low">>
<1>1. operand.low \in Values /\ loaded \in RegisterFile
  BY DEF AluInv, RegisterFile
<1>2. PICK s : AtStart(s) /\ Now = After(i, s)
  BY OneRan DEF Ran, Divide
<1>3. Now = Div(s.f, loaded, operand.low) /\ Now.fate = "running"
  BY <1>2, AfterOther, NowFacts DEF AtStart, Ran
<1>4. Now.r.low * operand.low + Now.r.high = Pair(loaded) /\ Now.r.high < operand.low
  BY <1>1, <1>3, DivFacts
<1> QED BY <1>4, NowFacts

(* Only a division whose quotient needs more bits traps.                   *)
LEMMA TrapsOnlyTooLarge ==
  ASSUME AluInv, program = Divide, fate = "trapped"
  PROVE  Pair(loaded) >= operand.low * Size
<1> DEFINE i == <<"div", "low">>
<1>1. operand.low \in Values /\ loaded \in RegisterFile
  BY DEF AluInv, RegisterFile
<1>2. PICK s : RunOf(s, pc) /\ s[pc] = Now
  BY DEF AluInv
<1>3. program = <<i>> /\ Len(program) = 1
  BY DEF Divide
<1>4. pc = 1
  <2>1. pc \in 0 .. 1
    BY <1>3 DEF AluInv
  <2>2. pc # 0
    <3>1. s[0].fate = "running" /\ Now.fate = "trapped"
      BY <1>2, NowFacts DEF RunOf
    <3> QED BY <1>2, <3>1
  <2> QED BY <2>1, <2>2
<1>5. PICK u : AtStart(u) /\ Now = After(i, u)
  BY <1>3, <1>4, OneRan
<1>6. Now = Div(u.f, loaded, operand.low) /\ Now.fate = "trapped"
  BY <1>5, AfterOther, NowFacts DEF AtStart
<1> QED BY <1>1, <1>6, DivFacts

LEMMA IDivides ==
  ASSUME AluInv, Ran(IDivide)
  PROVE  /\ Signed(acc.low) * Signed(operand.low) + Signed(acc.high) = SignedPair(Pair(loaded))
         /\ Signed(acc.high) # 0 => (Signed(acc.high) < 0) = (SignedPair(Pair(loaded)) < 0)
<1> DEFINE i == <<"idiv", "low">>
           n == SignedPair(Pair(loaded))
           d == Signed(operand.low)
           q == Signed(acc.low)
           m == Signed(acc.high)
           p == q * d
<1>1. operand.low \in Values /\ loaded \in RegisterFile
  BY DEF AluInv, RegisterFile
<1>2. PICK s : AtStart(s) /\ Now = After(i, s)
  BY OneRan DEF Ran, IDivide
<1>3. Now = IDiv(s.f, loaded, operand.low) /\ Now.fate = "running"
  BY <1>2, AfterOther, NowFacts DEF AtStart, Ran
<1>4. /\ n \in Int /\ d \in Int /\ q \in Int /\ m \in Int /\ m = n - p
      /\ m # 0 => (m < 0) = (n < 0)
  BY <1>1, <1>3, IDivFacts, NowFacts
<1> HIDE DEF n, d, q, m
<1>5. p \in Int
  BY <1>4
<1> HIDE DEF p
<1>6. p + m = n
  BY <1>4, <1>5
<1> QED BY <1>4, <1>6, Zenon DEF n, d, q, m, p

(* Division undoes multiplication, of unsigned numbers and of signed ones. *)
LEMMA DivUndoesMul ==
  ASSUME AluInv, Ran(MulDiv)
  PROVE  acc.low = loaded.low /\ acc.high = 0
<1> DEFINE a == loaded.low
           b == operand.low
           i == <<"mul", "low">>
           j == <<"div", "low">>
<1>1. a \in Values /\ b \in Values
  BY DEF AluInv, RegisterFile
<1>2. PICK s : LET t == After(i, s)
               IN AtStart(s) /\ t \in States /\ Now = After(j, t)
  BY TwoRan DEF Ran, MulDiv
<1> DEFINE t == After(i, s)
<1>3. s \in States /\ s.r = loaded /\ t = Mul(s.f, s.r, b)
  BY <1>2, AfterOther DEF AtStart
<1> HIDE DEF t
<1>4. t.r \in RegisterFile /\ Pair(t.r) = a * b
  BY <1>1, <1>3, MulFacts
<1>5. Now = Div(t.f, t.r, b) /\ Now.fate = "running"
  BY <1>2, AfterOther, NowFacts DEF Ran, t
<1> DEFINE q == Now.r.low
           m == Now.r.high
           x == a * b
<1>6. q * b + m = x /\ m < b /\ b > 0 /\ q \in Values /\ m \in Values
  BY <1>1, <1>4, <1>5, DivFacts
<1> HIDE DEF q, m
<1>7. (q - a) * b + m = 0 /\ q - a \in Int /\ b \in Int /\ m \in Int
  <2>1. q \in Int /\ a \in Int /\ b \in Int /\ m \in Int
    BY <1>1, <1>6, SizeFacts
  <2> HIDE DEF a, b
  <2>2. (q - a) * b = q * b - x /\ q * b \in Int /\ x \in Int
    BY <2>1
  <2> QED BY <1>6, <2>1, <2>2
<1>8. q - a = 0 /\ m = 0
  <2> DEFINE k == a - q
  <2>1. k * b = m /\ k \in Int
    <3>1. a \in Int /\ q \in Int
      BY <1>1, <1>6, SizeFacts
    <3> HIDE DEF a, b
    <3>2. k * b = -((q - a) * b) /\ k \in Int
      BY <1>7, <3>1
    <3> DEFINE y == (q - a) * b
               z == k * b
    <3>3. y + m = 0 /\ z = -y /\ y \in Int
      BY <1>7, <3>1, <3>2
    <3> HIDE DEF y, z
    <3>4. z = m
      BY <1>7, <3>3
    <3> QED BY <3>2, <3>4 DEF z
  <2>2. m < (IF b < 0 THEN -b ELSE b) /\ -m < (IF b < 0 THEN -b ELSE b)
    BY <1>1, <1>6, SizeFacts
  <2> HIDE DEF k
  <2>3. k = 0 /\ m = 0
    BY <1>7, <2>1, <2>2, NoMultiple
  <2> QED BY <1>1, <1>6, <2>3, SizeFacts DEF k
<1>9. q = a /\ m = 0
  BY <1>1, <1>6, <1>8, SizeFacts
<1> QED BY <1>9, NowFacts DEF q, m

LEMMA IDivUndoesIMul ==
  ASSUME AluInv, Ran(IMulIDiv)
  PROVE  acc.low = loaded.low /\ acc.high = 0
<1> DEFINE a == Signed(loaded.low)
           b == Signed(operand.low)
           i == <<"imul", "low">>
           j == <<"idiv", "low">>
<1>1. loaded.low \in Values /\ operand.low \in Values
  BY DEF AluInv, RegisterFile
<1>2. PICK s : LET t == After(i, s)
               IN AtStart(s) /\ t \in States /\ Now = After(j, t)
  BY TwoRan DEF Ran, IMulIDiv
<1> DEFINE t == After(i, s)
<1>3. s \in States /\ s.r = loaded /\ t = IMul(s.f, s.r, operand.low)
  BY <1>2, AfterOther DEF AtStart
<1> HIDE DEF t
<1>4. t.r \in RegisterFile /\ SignedPair(Pair(t.r)) = a * b
  BY <1>1, <1>3, IMulFacts
<1>5. Now = IDiv(t.f, t.r, operand.low) /\ Now.fate = "running"
  BY <1>2, AfterOther, NowFacts DEF Ran, t
<1> DEFINE q == Signed(acc.low)
           m == Signed(acc.high)
           w == IF b < 0 THEN -b ELSE b
<1>6. /\ acc.low \in Values /\ acc.high \in Values
      /\ b \in Int /\ q \in Int /\ m \in Int /\ m = a * b - q * b /\ m < w /\ -m < w
  <2>1. IDiv(t.f, t.r, operand.low).fate = "running"
    BY <1>5
  <2> QED BY <1>1, <1>4, <1>5, <2>1, IDivFacts, NowFacts
<1>7. a \in Int
  BY <1>1, SignedTyped, SizeFacts
<1> HIDE DEF a, b, q, m
<1> DEFINE k == a - q
<1>8. k * b = m /\ k \in Int
  BY <1>6, <1>7
<1> HIDE DEF k
<1>9. k = 0 /\ m = 0
  BY <1>6, <1>8, NoMultiple
<1>10. q = a /\ m = Signed(0)
  BY <1>6, <1>7, <1>9, SignedWraps DEF k
<1>11. 0 \in Values
  BY SizeFacts
<1> QED BY <1>1, <1>6, <1>10, <1>11, SignedWraps DEF a, q, m

LEMMA DivisionKnown == AluInv => DivisionExact
BY Divides, TrapsOnlyTooLarge, IDivides, DivUndoesMul, IDivUndoesIMul, Zenon DEF DivisionExact

(* The types follow from the invariant.                                    *)
LEMMA AluKnown == AluInv => AluTypeOK
<1> SUFFICES ASSUME AluInv PROVE AluTypeOK
  OBVIOUS
<1>1. /\ acc \in RegisterFile /\ aluFlags \in FlagWord
      /\ fate \in {"running", "trapped", "panicked"}
  BY NowFacts DEF AluInv
<1> QED BY <1>1 DEF AluInv, AluTypeOK

(* The idioms of the arithmetic unit compute what their authors rely on:   *)
(* long sums carry, comparisons order their operands in every sense, long  *)
(* shifts and masks lose no bit, decimal arithmetic is decimal, division   *)
(* undoes multiplication (alu_ops.rs, flags.rs, execute): at any width of  *)
(* the registers, from any registers and flags.                            *)
THEOREM AluCorrect == AluSpec => []AluMatches
<1>1. AluInv => AluMatches
  BY SumsKnown, OrdersKnown, BitsKnown, DecimalKnown, DivisionKnown, Zenon DEF AluMatches
<1> QED BY AluStarts, AluStep, <1>1, PTL DEF AluSpec
=============================================================================
