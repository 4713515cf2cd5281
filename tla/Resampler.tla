----------------------------- MODULE Resampler ------------------------------
(***************************************************************************)
(* The linear resampler between the APU's rate and the device's            *)
(* (audio/src/resample.rs).  `process` walks its input one stereo pair at  *)
(* a time and keeps its state between calls, so a step is one pair,        *)
(* wherever the batches end; one channel stands for both.                  *)
(***************************************************************************)
EXTENDS Integers, Sequences

CONSTANTS
  InRate,      (* APU_SAMPLE_RATE                                         *)
  OutRates,    (* device rates                                            *)
  LevelBits,   (* width of a sample (16)                                  *)
  IntBits      (* width of the arithmetic (32), in proportion             *)

ASSUME ResamplerAssumption ==
  /\ InRate \in Nat \ {0} /\ OutRates \subseteq Nat \ {0}
  /\ LevelBits \in Nat \ {0} /\ IntBits \in Nat \ {0}
  /\ 2 ^ (LevelBits - 1) <= 2 ^ (IntBits - 1)

Levels == (0 - 2 ^ (LevelBits - 1)) .. 2 ^ (LevelBits - 1) - 1

VARIABLES
  outRate, phase, hasPrev, prev,   (* Resampler                           *)
  from, outs,   (* the last pair: the sample before it, what was appended *)
  lead          (* history: InRate * appended - outRate * (consumed - 1)  *)

resamplerVars == <<outRate, phase, hasPrev, prev, from, outs, lead>>

Fresh(rate) ==
  /\ outRate' = rate /\ phase' = 0 /\ hasPrev' = FALSE /\ prev' = 0
  /\ from' = 0 /\ outs' = <<>> /\ lead' = 0

ResamplerInit ==
  /\ outRate = InRate /\ phase = 0 /\ hasPrev = FALSE /\ prev = 0
  /\ from = 0 /\ outs = <<>> /\ lead = 0

(* Signed arithmetic of IntBits bits; division truncates towards zero.     *)
Wrap(x) == ((x + 2 ^ (IntBits - 1)) % 2 ^ IntBits) - 2 ^ (IntBits - 1)
Divided(x, d) == IF x < 0 THEN 0 - ((0 - x) \div d) ELSE x \div d

Lerp(a, b, numer, denom) == Wrap(a + Divided(Wrap((b - a) * numer), denom))

(* Appended for a pair: `while phase <= out_rate`.  A bug: `<`.            *)
EmitsShort == IF phase >= outRate THEN 0 ELSE (outRate - 1 - phase) \div InRate + 1
Emits == IF phase > outRate THEN 0 ELSE (outRate - phase) \div InRate + 1

PassThrough(s) ==
  /\ outRate = InRate
  /\ outs' = <<s>> /\ from' = s
  /\ UNCHANGED <<outRate, phase, hasPrev, prev, lead>>

FirstPair(s) ==
  /\ outRate # InRate /\ ~hasPrev
  /\ hasPrev' = TRUE /\ prev' = s /\ phase' = InRate
  /\ outs' = <<s>> /\ from' = s /\ lead' = InRate
  /\ UNCHANGED outRate

(* A bug: the phase starts afresh with every pair.                         *)
PhaseRestarts == InRate
PhaseLeft == phase + Emits * InRate - outRate

NextPair(s) ==
  /\ outRate # InRate /\ hasPrev
  /\ outs' = [k \in 1 .. Emits |-> Lerp(prev, s, phase + (k - 1) * InRate, outRate)]
  /\ from' = prev /\ prev' = s
  /\ phase' = PhaseLeft
  /\ lead' = lead + InRate * Emits - outRate
  /\ UNCHANGED <<outRate, hasPrev>>

(* The stream opens on a device of some rate.                              *)
OpenStream(rate) == Fresh(rate)

ResamplerNext ==
  \/ \E s \in Levels : PassThrough(s) \/ FirstPair(s) \/ NextPair(s)
  \/ \E rate \in OutRates : OpenStream(rate)

ResamplerSpec == ResamplerInit /\ [][ResamplerNext]_resamplerVars

-----------------------------------------------------------------------------
(* Properties.                                                             *)

(* The sound neither drifts nor skips, however the samples are batched:    *)
(* after n pairs of input the output is within one output sample of the    *)
(* input's time, at every rate ("batch boundaries do not introduce         *)
(* discontinuities").                                                      *)
NoDrift == hasPrev => lead \in 1 .. InRate

(* The distance between two samples times the last phase, which is at most *)
(* the rate, fits the arithmetic: at 48 kHz, up to 44739 of 65535 levels.  *)
(* Beyond, `delta * numer` (resample.rs:75) overflows.                     *)
StepFits(a, b) ==
  (b - a) * outRate \in (0 - 2 ^ (IntBits - 1)) .. 2 ^ (IntBits - 1) - 1

(* Every sample appended between two input samples lies between them, as   *)
(* "piecewise-linear interpolation" puts it, at every rate and as long as  *)
(* the two are not so far apart that the product overflows.                *)
Interpolates ==
  hasPrev /\ StepFits(from, prev) =>
    \A k \in DOMAIN outs : outs[k] \in (from .. prev) \cup (prev .. from)
=============================================================================
