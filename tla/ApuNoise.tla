------------------------------ MODULE ApuNoise ------------------------------
(***************************************************************************)
(* The noise generator of channel 4 (core/src/apu/mod.rs, step_noise): a   *)
(* 15-bit shift register that games also read as a source of randomness.   *)
(***************************************************************************)
EXTENDS Integers

CONSTANTS
  NoisePeriods,   (* 2048 - pitch, the periods a game selects             *)
  Taps,           (* the taps it selects                                  *)
  MixedSteps      (* bound: steps after the tap moved without a reset     *)

ASSUME ApuNoiseAssumption ==
  /\ NoisePeriods \subseteq 1 .. 2048 /\ NoisePeriods # {}
  /\ Taps \subseteq {14, 10, 13, 4, 8, 6, 9, 11} /\ Taps # {}
  /\ MixedSteps \in Nat

VARIABLES
  lfsr, noiseCounter, noiseActive,   (* the random ports 0x92 and 0x93 show lfsr *)
  gate, tap,                  (* port 0x8E                                *)
  noisePeriod, heard,         (* pitch of channel 4; CTRL_NOISE and channel 4 *)
  mixed                       (* 0, or steps since the tap moved without a reset, from 1 *)

noiseRegs == <<gate, tap, noisePeriod, heard>>
noiseVars == <<lfsr, noiseCounter, noiseActive, noiseRegs, mixed>>

(* The register, a bit for each place of the word.                         *)
Lfsrs == [0 .. 14 -> BOOLEAN]
Cleared == [i \in 0 .. 14 |-> FALSE]

NoiseTypeOK ==
  /\ lfsr \in Lfsrs
  /\ {noiseActive, gate, heard} \subseteq BOOLEAN
  /\ tap \in Taps /\ noisePeriod \in NoisePeriods
  /\ noiseCounter \in 0 .. 2048 /\ mixed \in 0 .. MixedSteps + 1

NoiseInit ==
  /\ lfsr = Cleared /\ noiseCounter = 0 /\ noiseActive = FALSE
  /\ gate = FALSE /\ heard = FALSE /\ mixed = 0
  /\ tap = (CHOOSE t \in Taps : TRUE) /\ noisePeriod = CHOOSE p \in NoisePeriods : TRUE

-----------------------------------------------------------------------------
(* The feedback is the XNOR of bit 7 and the tap.  A bug: their XOR.       *)
ShiftedXor(x, t) == [i \in 0 .. 14 |-> IF i = 0 THEN x[7] # x[t] ELSE x[i - 1]]
Shifted(x, t) == [i \in 0 .. 14 |-> IF i = 0 THEN x[7] = x[t] ELSE x[i - 1]]

(* step_noise: closed, waiting, or at the end of a period.                 *)
Closed == ~gate /\ noiseActive' = FALSE /\ UNCHANGED <<lfsr, noiseCounter, noiseRegs, mixed>>
NoiseWaits ==
  /\ gate /\ noiseCounter # 0
  /\ noiseActive' = heard /\ noiseCounter' = noiseCounter - 1
  /\ UNCHANGED <<lfsr, noiseRegs, mixed>>
Shifts ==
  /\ gate /\ noiseCounter = 0 /\ mixed <= MixedSteps
  /\ noiseActive' = heard /\ noiseCounter' = noisePeriod
  /\ lfsr' = Shifted(lfsr, tap)
  /\ mixed' = IF mixed = 0 THEN 0 ELSE mixed + 1
  /\ UNCHANGED <<gate, tap, noisePeriod, heard>>

(* The game.  The reset bit of port 0x8E takes effect, and clears itself,  *)
(* when it is written (reset_noise_lfsr): step_noise never finds it set.   *)
WriteNoise(open, t, reset) ==
  /\ gate' = open /\ tap' = t
  /\ IF reset THEN lfsr' = Cleared /\ noiseCounter' = noisePeriod /\ mixed' = 0
     ELSE /\ mixed' = IF t = tap \/ lfsr = Cleared \/ mixed > 0 THEN mixed ELSE 1
          /\ UNCHANGED <<lfsr, noiseCounter>>
  /\ UNCHANGED <<noiseActive, noisePeriod, heard>>
SetNoise(p, on) ==
  /\ noisePeriod' = p /\ heard' = on
  /\ UNCHANGED <<lfsr, noiseCounter, noiseActive, gate, tap, mixed>>

NoiseNext ==
  \/ Closed \/ NoiseWaits \/ Shifts
  \/ \E open \in BOOLEAN, t \in Taps, reset \in BOOLEAN : WriteNoise(open, t, reset)
  \/ \E p \in NoisePeriods, on \in BOOLEAN : SetNoise(p, on)

NoiseSpec == NoiseInit /\ [][NoiseNext]_noiseVars

-----------------------------------------------------------------------------
(* Properties.                                                             *)

(* Noise stays noise: from the seed, with a tap that moves only together   *)
(* with a reset, the register never reaches the state its feedback keeps   *)
(* for ever.                                                               *)
NoiseAlive == mixed = 0 => Shifted(lfsr, tap) # lfsr
=============================================================================
