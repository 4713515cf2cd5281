----------------------------- MODULE GeneralDma -----------------------------
(***************************************************************************)
(* General DMA (core/src/bus/mod.rs, ports 0x40-0x48): writing the control *)
(* port copies a block into work RAM at once, byte by byte, while the CPU  *)
(* waits.  The address space is scaled: work RAM, SRAM, then ROM with the  *)
(* window the wait bit closes.                                             *)
(***************************************************************************)
EXTENDS Integers

CONSTANTS
  SegmentBytes,   (* the size of a 64 KiB segment                         *)
  Segments,       (* segments of the address space: 0 RAM, 1 SRAM, rest ROM *)
  SlowSegment,    (* the ROM segment the wait bit closes                  *)
  RomByte,        (* the byte of every ROM cell                           *)
  BurstLengths    (* the lengths a game asks for                          *)

ASSUME GeneralDmaAssumption ==
  /\ SegmentBytes \in Nat \ {0} /\ Segments \in Nat \ {0, 1} /\ SlowSegment \in 2 .. Segments - 1
  /\ BurstLengths \subseteq 0 .. SegmentBytes - 1

VARIABLES
  wram,                        (* work RAM                                *)
  gdmaSource, gdmaTarget, gdmaLength,   (* the registers                  *)
  slowRom,                     (* SYSTEM_CTRL1_ROM_WAIT                   *)
  waitCycles, completed        (* the burst's CPU wait; its IRQ request   *)

registers == <<gdmaSource, gdmaTarget, gdmaLength>>
gdmaVars  == <<wram, registers, slowRom, waitCycles, completed>>

Space == SegmentBytes * Segments
RamBytes == 0 .. SegmentBytes - 1

(* SRAM holds nothing a burst may read.                                    *)
Bytes == RamBytes \cup {RomByte}

GdmaTypeOK ==
  /\ wram \in [RamBytes -> Bytes]
  /\ gdmaSource \in 0 .. Space - 1 /\ gdmaTarget \in RamBytes /\ gdmaLength \in RamBytes
  /\ slowRom \in BOOLEAN /\ completed \in BOOLEAN
  /\ waitCycles \in {0} \cup 6 .. SegmentBytes + 5

GdmaInit ==
  /\ wram = [a \in RamBytes |-> a]
  /\ gdmaSource = 0 /\ gdmaTarget = 0 /\ gdmaLength = 0
  /\ slowRom = FALSE /\ waitCycles = 0 /\ completed = FALSE

-----------------------------------------------------------------------------
(* tick_gdma.                                                              *)

(* gdma_source_blocked, on the pointer as it runs: it is not masked, so it *)
(* may leave the address space at either end.                              *)
InSegment(a, n) == a \in n * SegmentBytes .. (n + 1) * SegmentBytes - 1
Blocked(a) == InSegment(a, 1) \/ (InSegment(a, SlowSegment) /\ slowRom)

At(a, i, down) == IF down THEN a - i ELSE a + i

(* The bytes moved before the pointer meets a closed window.               *)
Run(down) ==
  LET open == {n \in 0 .. gdmaLength : \A i \in 0 .. n - 1 : ~Blocked(At(gdmaSource, i, down))}
  IN  CHOOSE n \in open : \A m \in open : m <= n

(* read_u8_phys and write_wram, one byte.  Two bugs: the target only goes  *)
(* up; the read does not see what the burst wrote.                         *)
Read(mem, a) == IF a % Space \in RamBytes THEN mem[a % Space] ELSE RomByte
CopyUp(mem, i, down) ==
  [mem EXCEPT ![(gdmaTarget + i) % SegmentBytes] = Read(mem, At(gdmaSource, i, down))]
CopyStale(mem, i, down) ==
  [mem EXCEPT ![At(gdmaTarget, i, down) % SegmentBytes] = Read(wram, At(gdmaSource, i, down))]
Copy(mem, i, down) ==
  [mem EXCEPT ![At(gdmaTarget, i, down) % SegmentBytes] = Read(mem, At(gdmaSource, i, down))]

Burst(down) ==
  LET moved == Run(down)
      after[n \in 0 .. moved] == IF n = 0 THEN wram ELSE Copy(after[n - 1], n - 1, down)
  IN  /\ wram' = after[moved]
      /\ gdmaSource' = At(gdmaSource, moved, down) % Space
      /\ gdmaTarget' = At(gdmaTarget, moved, down) % SegmentBytes
      /\ gdmaLength' = gdmaLength - moved
      /\ waitCycles' = IF moved = 0 THEN 0 ELSE 5 + moved
      /\ completed' = (completed \/ gdmaLength > 0)
      /\ UNCHANGED slowRom

-----------------------------------------------------------------------------
(* The game arms a burst, in whatever state the last one left; the low     *)
(* bits of source, target and length are not writable.                     *)

SetBurst(s, t, n) ==
  /\ gdmaSource' = s /\ gdmaTarget' = t /\ gdmaLength' = n
  /\ completed' = FALSE
  /\ UNCHANGED <<wram, slowRom, waitCycles>>
SetRomWait(on) == slowRom' = on /\ UNCHANGED <<wram, registers, waitCycles, completed>>

Even(set) == {n \in set : n % 2 = 0}

GdmaNext ==
  \/ \E s \in Even(0 .. Space - 1), t \in Even(RamBytes), n \in Even(BurstLengths) :
       SetBurst(s, t, n)
  \/ \E on \in BOOLEAN : SetRomWait(on)
  \/ \E down \in BOOLEAN : Burst(down)

GdmaSpec == GdmaInit /\ [][GdmaNext]_gdmaVars

-----------------------------------------------------------------------------
(* Properties.                                                             *)

(* A burst copies: it stops only at a closed window, never reads SRAM, and *)
(* every byte it writes is the one its source held when it was read, be it *)
(* from before the burst or written by it; no other byte changes.  The     *)
(* pointers stop behind the last byte, so that a game that opens the       *)
(* window and arms the channel again gets the rest.                        *)
BurstCopies ==
  [][\A down \in BOOLEAN : Burst(down) =>
       LET moved == gdmaLength - gdmaLength'
           S(i) == At(gdmaSource, i, down) % Space
           T(i) == At(gdmaTarget, i, down) % SegmentBytes
       IN  /\ \A i \in 0 .. moved - 1 :
                /\ ~InSegment(S(i), 1)
                /\ \/ \E j \in 0 .. i - 1 : S(i) = T(j) /\ wram'[T(i)] = wram'[T(j)]
                   \/ (\A j \in 0 .. i - 1 : S(i) # T(j)) /\ wram'[T(i)] = Read(wram, S(i))
           /\ \A a \in RamBytes : wram'[a] # wram[a] => \E i \in 0 .. moved - 1 : a = T(i)
           /\ gdmaLength' > 0 => Blocked(S(moved))
           /\ gdmaSource' = S(moved) /\ gdmaTarget' = T(moved)]_gdmaVars
=============================================================================
