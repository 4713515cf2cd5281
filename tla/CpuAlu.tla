------------------------------- MODULE CpuAlu -------------------------------
(***************************************************************************)
(* The arithmetic of the CPU (cpu/alu_ops.rs, bit_ops.rs, ctrl_ops.rs and  *)
(* the instructions of cpu/mod.rs that use them), on a pair of registers   *)
(* low and high (AL and AH, or AX and DX), a counter and an operand of two *)
(* limbs.  The u8 and the u16 form of an operation differ in RegisterBits  *)
(* only.  Programs run idioms of a few instructions, in which the flags    *)
(* one instruction leaves are what the next one needs.                     *)
(***************************************************************************)
EXTENDS Integers, Sequences, FiniteSets

CONSTANTS
  RegisterBits,  (* bits of a register, 8 or 16                           *)
  Limbs,         (* register and operand values                           *)
  Programs       (* sequences of instructions                             *)

Size == 2^RegisterBits              (* how many values a register has     *)
Top == 2^(RegisterBits - 1)         (* the value of its highest bit       *)
Values == 0 .. Size - 1
RegisterNames == {"low", "high", "count"}
RegisterFile == [low : Values, high : Values, count : Values]
FlagWord == [carry : BOOLEAN, aux : BOOLEAN, zero : BOOLEAN, sign : BOOLEAN,
             parity : BOOLEAN, overflow : BOOLEAN]

(* An instruction is <<operation, register>>, or <<operation, register,    *)
(* "cl">> for a shift by the counter; multiplication, division and the     *)
(* adjustments work on low and high.  The adjustments know AL and AH only. *)
LogicOps == {"and", "or", "xor"}
AluOps == {"add", "adc", "sub", "sbb", "cmp", "and", "or", "xor", "test", "inc", "dec",
           "neg", "not"}
ShiftOps == {"rol", "ror", "rcl", "rcr", "shl", "shr", "sar"}
WideOps == {"mul", "imul", "div", "idiv"}
ByteOps == {"daa", "das", "aaa", "aas", "aam", "aad"}
Instructions ==
  ((AluOps \cup ShiftOps \cup WideOps \cup IF RegisterBits = 8 THEN ByteOps ELSE {})
     \X RegisterNames)
  \cup (ShiftOps \X RegisterNames \X {"cl"})

ASSUME AluAssumption ==
  /\ RegisterBits \in Nat /\ RegisterBits > 4 /\ Limbs \subseteq Values
  /\ Programs \subseteq Seq(Instructions)

VARIABLES
  acc,          (* the registers low, high and count                      *)
  operand,      (* the other operand: its low and high limb               *)
  aluFlags,     (* the arithmetic flags of Flags                          *)
  program, pc,  (* the program, how many of its instructions have run     *)
  loaded,       (* history: acc as the program found it                   *)
  fate          (* "running", "trapped" by INT 0, or "panicked": the      *)
                (* division panics, and the worker stops the machine      *)

aluVars == <<acc, operand, aluFlags, program, pc, loaded, fate>>

AluTypeOK ==
  /\ {acc, operand, loaded} \subseteq RegisterFile /\ aluFlags \in FlagWord
  /\ pc \in 0 .. Len(program) /\ fate \in {"running", "trapped", "panicked"}

PairSize == Size * Size
Signed(v) == IF v < Top THEN v ELSE v - Size
SignedPair(v) == IF v < Top * Size THEN v ELSE v - PairSize
SignedFits(v) == v >= -Top /\ v < Top
Pair(r) == r.low + r.high * Size                (* DX:AX, or AX as AH:AL  *)
Paired(r, v) == [r EXCEPT !.low = v % Size, !.high = (v \div Size) % Size]
AsBit(b) == IF b THEN 1 ELSE 0

-----------------------------------------------------------------------------
(* Operations: a result r and the flags f after it.                        *)

BitAt(v, n) == (v \div 2^n) % 2 = 1
ParityEven(v) == Cardinality({n \in 0 .. 7 : BitAt(v, n)}) % 2 = 0
ZSP(f, r) ==
  [f EXCEPT !.zero = r = 0, !.sign = r >= Top, !.parity = ParityEven(r)]

(* add_u8: the aux carry is the carry out of the low nibble.               *)
Add(f, a, b, carryIn) ==
  LET wide == a + b + carryIn
      r == wide % Size
  IN [r |-> r,
      f |-> ZSP([f EXCEPT !.carry = wide >= Size,
                          !.aux = (a % 16) + (b % 16) + carryIn > 15,
                          !.overflow = ~SignedFits(Signed(a) + Signed(b) + carryIn)], r)]

Sub(f, a, b, borrowIn) ==
  LET wide == (a - b) - borrowIn
      r == wide % Size
  IN [r |-> r,
      f |-> ZSP([f EXCEPT !.carry = wide < 0,
                          !.aux = (a % 16) < (b % 16) + borrowIn,
                          !.overflow = ~SignedFits((Signed(a) - Signed(b)) - borrowIn)], r)]

(* logic_u8: the aux carry is left as it was.                              *)
Logic(f, r) == [r |-> r, f |-> ZSP([f EXCEPT !.carry = FALSE, !.overflow = FALSE], r)]

(* inc_u8 and dec_u8.  A bug: they set the carry as ADD and SUB do.        *)
IncAsAdd(f, a) == Add(f, a, 1, 0)
Inc(f, a) ==
  LET r == (a + 1) % Size
  IN [r |-> r, f |-> ZSP([f EXCEPT !.aux = (a % 16) = 15, !.overflow = a = Top - 1], r)]
Dec(f, a) ==
  LET r == (a - 1) % Size
  IN [r |-> r, f |-> ZSP([f EXCEPT !.aux = (a % 16) = 0, !.overflow = a = Top], r)]

(* The bitwise operators: n bits from the top of the word, then one more.  *)
Joined(op, x, y) ==
  CASE op = "and" -> x /\ y
    [] op = "or"  -> x \/ y
    [] op = "xor" -> x # y
Bitwise(op, a, b) ==
  LET upper[n \in 0 .. RegisterBits] ==
        IF n = 0 THEN 0
        ELSE 2 * upper[n - 1]
               + AsBit(Joined(op, BitAt(a, RegisterBits - n), BitAt(b, RegisterBits - n)))
  IN upper[RegisterBits]

(* shift_step_u8: one bit, with the carry that went in and comes out.      *)
ShiftStep(op, s) ==
  LET up == (2 * s.r) % Size
      down == s.r \div 2
      top == s.r >= Top
      odd == (s.r % 2) = 1
      carry == IF op \in {"rol", "rcl", "shl"} THEN top ELSE odd
      r == CASE op = "rol" -> up + AsBit(top)
             [] op = "ror" -> down + AsBit(odd) * Top
             [] op = "rcl" -> up + AsBit(s.carry)
             [] op = "rcr" -> down + AsBit(s.carry) * Top
             [] op = "shl" -> up
             [] op = "shr" -> down
             [] op = "sar" -> down + AsBit(top) * Top
  IN [r |-> r, carry |-> carry]

(* shift_u8: rotations leave every flag but the carry, and only a single   *)
(* shift sets the overflow.                                                *)
Shift(op, f, v, count) ==
  LET steps[n \in 0 .. count] ==
        IF n = 0 THEN [r |-> v, carry |-> f.carry] ELSE ShiftStep(op, steps[n - 1])
      end == steps[count]
      carried == [f EXCEPT !.carry = end.carry]
      over == CASE op = "shl" -> (end.r >= Top) # end.carry
                [] op = "shr" -> v >= Top
                [] op = "sar" -> FALSE
  IN [r |-> end.r,
      f |-> IF count = 0 THEN f
            ELSE IF op \notin {"shl", "shr", "sar"} THEN carried
            ELSE ZSP([carried EXCEPT !.overflow = IF count = 1 THEN over ELSE @], end.r)]

(* alu_u8, and the groups 0xF6 and 0xFE on one operand a.                  *)
Alu(op, f, a, b) ==
  CASE op = "add" -> Add(f, a, b, 0)
    [] op = "adc" -> Add(f, a, b, AsBit(f.carry))
    [] op = "sub" -> Sub(f, a, b, 0)
    [] op = "sbb" -> Sub(f, a, b, AsBit(f.carry))
    [] op = "cmp" -> [Sub(f, a, b, 0) EXCEPT !.r = a]
    [] op \in LogicOps -> Logic(f, Bitwise(op, a, b))
    [] op = "test" -> [Logic(f, Bitwise("and", a, b)) EXCEPT !.r = a]
    [] op = "inc" -> Inc(f, a)
    [] op = "dec" -> Dec(f, a)
    [] op = "neg" -> Sub(f, 0, a, 0)
    [] op = "not" -> [r |-> (Size - 1) - a, f |-> f]

(* 0x27 and 0x2F (by is 1 for DAA, -1 for DAS), 0x37 and 0x3F (AAA, AAS).  *)
AdjustLow(f, v) == (v % 16) > 9 \/ f.aux
DecimalAdjust(f, r, by) ==
  LET high == r.low > 153 \/ f.carry
      v == (r.low + by * (6 * AsBit(AdjustLow(f, r.low)) + 96 * AsBit(high))) % Size
  IN [r |-> [r EXCEPT !.low = v],
      f |-> ZSP([f EXCEPT !.aux = AdjustLow(f, r.low), !.carry = high], v),
      fate |-> "running"]
AsciiAdjust(f, r, by) ==
  LET adjust == AdjustLow(f, r.low)
  IN [r |-> [r EXCEPT !.low = (@ + by * 6 * AsBit(adjust)) % 16,
                      !.high = (@ + by * AsBit(adjust)) % Size],
      f |-> [f EXCEPT !.aux = adjust, !.carry = adjust], fate |-> "running"]

(* mul_u8 and imul_u8: carry and overflow say that the high half matters.  *)
Product(f, r, fits, v) ==
  [r |-> Paired(r, v), f |-> [f EXCEPT !.carry = ~fits, !.overflow = ~fits], fate |-> "running"]
Mul(f, r, b) == Product(f, r, r.low * b < Size, r.low * b)
IMul(f, r, b) ==
  LET v == Signed(r.low) * Signed(b) IN Product(f, r, SignedFits(v), v % PairSize)

(* div_u8 and idiv_u8.  Rust's signed division truncates, and of the least *)
(* dividend by -1 it panics.                                               *)
Quotient(n, d) ==
  LET q == (IF n < 0 THEN -n ELSE n) \div (IF d < 0 THEN -d ELSE d)
  IN IF (n < 0) = (d < 0) THEN q ELSE -q
DividedPair(f, r, quotient, remainder) ==
  [r |-> [r EXCEPT !.low = quotient % Size, !.high = remainder % Size], f |-> f,
   fate |-> "running"]
Stopped(f, r, how) == [r |-> r, f |-> f, fate |-> how]
Div(f, r, d) ==
  IF d = 0 THEN Stopped(f, r, "trapped")
  ELSE LET q == Pair(r) \div d
       IN IF q >= Size THEN Stopped(f, r, "trapped")
          ELSE DividedPair(f, r, q, Pair(r) % d)
IDiv(f, r, divisor) ==
  LET n == SignedPair(Pair(r))
      d == Signed(divisor)
      q == Quotient(n, d)
  IN IF d = 0 THEN Stopped(f, r, "trapped")
     ELSE IF n = -(Top * Size) /\ d = -1 THEN Stopped(f, r, "panicked")
     ELSE IF ~SignedFits(q) THEN Stopped(f, r, "trapped")
     ELSE DividedPair(f, r, q, n - q * d)

(* 0xD4 and 0xD5 with the byte base.                                       *)
AsciiMul(f, r, base) ==
  IF base = 0 THEN Stopped(f, r, "trapped")
  ELSE [r |-> [r EXCEPT !.high = r.low \div base, !.low = r.low % base],
        f |-> ZSP(f, r.low % base), fate |-> "running"]
AsciiDiv(f, r, base) ==
  LET v == (r.high * base + r.low) % Size
  IN [r |-> [r EXCEPT !.low = v, !.high = 0], f |-> ZSP(f, v), fate |-> "running"]

(* An instruction on the registers r, the operand o and the flags f.       *)
Result(e, r, register) == [r |-> [r EXCEPT ![register] = e.r], f |-> e.f, fate |-> "running"]
Effect(instruction, r, o, f) ==
  LET op == instruction[1]
      register == instruction[2]
      count == IF Len(instruction) = 3 THEN r.count ELSE 1
  IN CASE op \in AluOps -> Result(Alu(op, f, r[register], o[register]), r, register)
       [] op \in ShiftOps -> Result(Shift(op, f, r[register], count), r, register)
       [] op = "mul" -> Mul(f, r, o[register])
       [] op = "imul" -> IMul(f, r, o[register])
       [] op = "div" -> Div(f, r, o[register])
       [] op = "idiv" -> IDiv(f, r, o[register])
       [] op = "daa" -> DecimalAdjust(f, r, 1)
       [] op = "das" -> DecimalAdjust(f, r, -1)
       [] op = "aaa" -> AsciiAdjust(f, r, 1)
       [] op = "aas" -> AsciiAdjust(f, r, -1)
       [] op = "aam" -> AsciiMul(f, r, o[register])
       [] op = "aad" -> AsciiDiv(f, r, o[register])

ExecuteAlu ==
  /\ pc < Len(program) /\ fate = "running"
  /\ LET e == Effect(program[pc + 1], acc, operand, aluFlags)
     IN acc' = e.r /\ aluFlags' = e.f /\ fate' = e.fate
  /\ pc' = pc + 1
  /\ UNCHANGED <<operand, program, loaded>>

(* The game runs the program again, the flags as they are.                 *)
RunAgain ==
  /\ pc = Len(program) \/ fate = "trapped"
  /\ fate # "panicked"
  /\ acc' = loaded /\ pc' = 0 /\ fate' = "running"
  /\ UNCHANGED <<operand, aluFlags, program, loaded>>

(* The counter is taken from the operand's low limb: any value below 16    *)
(* will do.                                                                *)
AluInit ==
  /\ \E l, h, a, b \in Limbs :
       /\ operand = [low |-> l, high |-> h, count |-> l % 16]
       /\ loaded = [low |-> a, high |-> b, count |-> l % 16]
  /\ acc = loaded /\ program \in Programs /\ pc = 0 /\ fate = "running"
  /\ aluFlags = [carry |-> FALSE, aux |-> FALSE, zero |-> FALSE, sign |-> FALSE,
              parity |-> FALSE, overflow |-> FALSE]

AluNext == ExecuteAlu \/ RunAgain
AluSpec == AluInit /\ [][AluNext]_aluVars

-----------------------------------------------------------------------------
(* The idioms, and what their authors rely on.                             *)

WideAdd == <<<<"add", "low">>, <<"inc", "count">>, <<"adc", "high">>>>
WideSub == <<<<"sub", "low">>, <<"dec", "count">>, <<"sbb", "high">>>>
WideNegate == <<<<"neg", "high">>, <<"neg", "low">>, <<"sbb", "high">>>>
Negate == <<<<"not", "low">>, <<"inc", "low">>>>
Compare == <<<<"cmp", "low">>>>
WideShl == <<<<"shl", "low">>, <<"rcl", "high">>>>
WideShr == <<<<"shr", "high">>, <<"rcr", "low">>>>
WideSar == <<<<"sar", "high">>, <<"rcr", "low">>>>
TurnBack == <<<<"rol", "low", "cl">>, <<"ror", "low", "cl">>>>
Masks == <<<<"or", "low">>, <<"and", "low">>, <<"xor", "low">>, <<"test", "low">>>>
DecimalAdd == <<<<"add", "low">>, <<"daa", "low">>>>
DecimalSub == <<<<"sub", "low">>, <<"das", "low">>>>
DigitAdd == <<<<"add", "low">>, <<"aaa", "low">>>>
DigitSub == <<<<"sub", "low">>, <<"aas", "low">>>>
DigitMul == <<<<"mul", "low">>, <<"aam", "high">>>>
DigitDiv == <<<<"aad", "high">>, <<"div", "low">>>>
MulDiv == <<<<"mul", "low">>, <<"div", "low">>>>
IMulIDiv == <<<<"imul", "low">>, <<"idiv", "low">>>>
Divide == <<<<"div", "low">>>>
IDivide == <<<<"idiv", "low">>>>
Idioms ==
  {WideAdd, WideSub, WideNegate, Negate, Compare, WideShl, WideShr, WideSar, TurnBack, Masks,
   DecimalAdd, DecimalSub, DigitAdd, DigitSub, DigitMul, DigitDiv, MulDiv, IMulIDiv, Divide,
   IDivide}

Ran(p) == program = p /\ pc = Len(p) /\ fate = "running"

(* Condition codes of the conditional jumps.                               *)
Condition(cc) ==
  LET f == aluFlags
      holds == CASE cc \div 2 = 0 -> f.overflow
                 [] cc \div 2 = 1 -> f.carry
                 [] cc \div 2 = 2 -> f.zero
                 [] cc \div 2 = 3 -> f.carry \/ f.zero
                 [] cc \div 2 = 4 -> f.sign
                 [] cc \div 2 = 5 -> f.parity
                 [] cc \div 2 = 6 -> f.sign # f.overflow
                 [] cc \div 2 = 7 -> f.sign # f.overflow \/ f.zero
  IN holds = ((cc % 2) = 0)

SumsExact ==
  LET x == Pair(loaded)
      y == Pair(operand)
  IN /\ Ran(WideAdd) =>
          /\ Pair(acc) = (x + y) % PairSize /\ Condition(2) = (x + y >= PairSize)
          /\ Condition(0) = (SignedPair(x) + SignedPair(y) # SignedPair((x + y) % PairSize))
     /\ Ran(WideSub) =>
          /\ Pair(acc) = (x - y) % PairSize
          /\ Condition(2) = (x < y) /\ Condition(12) = (SignedPair(x) < SignedPair(y))
     /\ Ran(WideNegate) /\ operand.high = 0 => Pair(acc) = (-x) % PairSize
     /\ Ran(Negate) => acc.low = (-loaded.low) % Size

OrderKnown ==
  LET a == loaded.low
      b == operand.low
  IN Ran(Compare) =>
       /\ Condition(2) = (a < b) /\ Condition(3) = (a >= b)
       /\ Condition(6) = (a <= b) /\ Condition(7) = (a > b)
       /\ Condition(4) = (a = b) /\ Condition(5) = (a # b)
       /\ Condition(12) = (Signed(a) < Signed(b)) /\ Condition(13) = (Signed(a) >= Signed(b))
       /\ Condition(14) = (Signed(a) <= Signed(b)) /\ Condition(15) = (Signed(a) > Signed(b))

BitsExact ==
  LET x == Pair(loaded)
      odd == (x % 2) = 1
  IN /\ Ran(WideShl) => Pair(acc) = (2 * x) % PairSize /\ aluFlags.carry = (2 * x >= PairSize)
     /\ Ran(WideShr) => Pair(acc) = x \div 2 /\ aluFlags.carry = odd
     /\ Ran(WideSar) => SignedPair(Pair(acc)) = SignedPair(x) \div 2
                        /\ aluFlags.carry = odd
     /\ Ran(TurnBack) => acc = loaded
     /\ Ran(Masks) => acc.low = 0 /\ Condition(4)

DecimalExact ==
  LET a == loaded.low
      b == operand.low
      Packed(v) == (v % 16) < 10 /\ v < 160
      Number(v) == 10 * (v \div 16) + (v % 16)
      digits == a < 10 /\ b < 10
  IN /\ Packed(a) /\ Packed(b) =>
          /\ Ran(DecimalAdd) => /\ Number(acc.low) = (Number(a) + Number(b)) % 100
                                /\ aluFlags.carry = (Number(a) + Number(b) >= 100)
          /\ Ran(DecimalSub) => /\ Number(acc.low) = (Number(a) - Number(b)) % 100
                                /\ aluFlags.carry = (a < b)
     /\ digits /\ Ran(DigitAdd) => acc.low = (a + b) % 10 /\ aluFlags.carry = (a + b >= 10)
     /\ digits /\ Ran(DigitSub) => acc.low = (a - b) % 10 /\ aluFlags.carry = (a < b)
     /\ digits /\ operand.high = 10 =>
          /\ Ran(DigitMul) => 10 * acc.high + acc.low = a * b
          /\ Ran(DigitDiv) /\ loaded.high < 10 =>
               acc.low * b + acc.high = 10 * loaded.high + a /\ acc.high < b

DivisionExact ==
  LET x == Pair(loaded)
      sx == SignedPair(x)
      d == operand.low
  IN /\ Ran(Divide) => acc.low * d + acc.high = x /\ acc.high < d
     /\ program = Divide /\ fate = "trapped" => x >= d * Size
     /\ Ran(IDivide) =>
          /\ Signed(acc.low) * Signed(d) + Signed(acc.high) = sx
          /\ Signed(acc.high) # 0 => (Signed(acc.high) < 0) = (sx < 0)
     /\ Ran(MulDiv) \/ Ran(IMulIDiv) => acc.low = loaded.low /\ acc.high = 0

(* The instructions of an idiom compute together what its author relies    *)
(* on, whatever flags it starts with: long sums carry through a counter's  *)
(* increment, comparisons order their operands in every sense a jump can   *)
(* ask for, long shifts and masks lose no bit, decimal arithmetic is       *)
(* decimal and division undoes multiplication.                             *)
AluMatches == SumsExact /\ OrderKnown /\ BitsExact /\ DecimalExact /\ DivisionExact

(* A division whose quotient does not fit its register raises INT 0 and    *)
(* the game goes on (the comment of div_u8).                               *)
DivideErrors == fate # "panicked"

=============================================================================
