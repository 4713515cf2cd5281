------------------------------ MODULE ApuSweep ------------------------------
(***************************************************************************)
(* The frequency sweep of channel 3 (core/src/apu/mod.rs, step_sweep): two *)
(* nested counters, then the pitch register moves by a signed step.        *)
(***************************************************************************)
EXTENDS Integers

CONSTANTS
  Pitches,        (* 2048, the values of the pitch register               *)
  SweepInterval,  (* SWEEP_INTERVAL                                       *)
  MaxTime,        (* 31, the largest sweep time                           *)
  ByteValues,     (* 256, the values of sweep_step                        *)
  MaxStep         (* 128, the largest step                                *)

ASSUME ApuSweepAssumption ==
  /\ {Pitches, SweepInterval, MaxTime, MaxStep} \subseteq Nat \ {0}
  /\ ByteValues \in Nat /\ MaxTime < ByteValues

VARIABLES
  sweepOn, fastTest,       (* CTRL_SWEEP and channel 3; SND_TEST_FAST_SWEEP *)
  time, step,              (* ports 0x8D and 0x8C                         *)
  sweepPitch,              (* ports 0x84 and 0x85                         *)
  sweepCounter, sweepStep, sweepPrimed,
  quiet                    (* cycles it swept since it moved the pitch *)

sweepRegs == <<sweepOn, fastTest, time, step>>
sweepVars == <<sweepRegs, sweepPitch, sweepCounter, sweepStep, sweepPrimed, quiet>>

SweepTypeOK ==
  /\ {sweepOn, fastTest, sweepPrimed} \subseteq BOOLEAN
  /\ time \in 0 .. MaxTime /\ step \in -MaxStep .. MaxStep - 1
  /\ sweepPitch \in 0 .. Pitches - 1
  /\ sweepCounter \in 0 .. SweepInterval /\ sweepStep \in 0 .. ByteValues - 1
  /\ quiet \in Nat

SweepInit ==
  /\ sweepOn = FALSE /\ fastTest = FALSE /\ time = 0 /\ step = 0
  /\ sweepPitch = 0 /\ sweepCounter = 0 /\ sweepStep = 0 /\ sweepPrimed = FALSE
  /\ quiet = 0

(* The pitch after a step: past either end it goes to the other.           *)
Swept(p) ==
  IF p + step >= Pitches THEN 0 ELSE IF p + step < 0 THEN Pitches - 1 ELSE p + step

(* The steps to the next move.  A bug: a time of zero wraps.               *)
ReloadWrapping(t) == (t + ByteValues - 1) % ByteValues
Reload(t) == IF t = 0 THEN 0 ELSE t - 1

(* step_sweep.                                                             *)
Rests ==
  /\ ~sweepOn
  /\ sweepPrimed' = FALSE
  /\ UNCHANGED <<sweepRegs, sweepPitch, sweepCounter, sweepStep, quiet>>
Primes ==
  /\ sweepOn /\ fastTest /\ ~sweepPrimed
  /\ sweepPrimed' = TRUE
  /\ UNCHANGED <<sweepRegs, sweepPitch, sweepCounter, sweepStep, quiet>>
Interval == IF fastTest THEN 0 ELSE SweepInterval
Sweeps ==
  /\ sweepOn /\ (fastTest => sweepPrimed)
  /\ sweepPrimed' = fastTest
  /\ IF sweepCounter + 1 <= Interval
     THEN /\ sweepCounter' = sweepCounter + 1 /\ quiet' = quiet + 1
          /\ UNCHANGED <<sweepStep, sweepPitch>>
     ELSE /\ sweepCounter' = 0
          /\ IF sweepStep # 0
             THEN sweepStep' = sweepStep - 1 /\ quiet' = quiet + 1 /\ UNCHANGED sweepPitch
             ELSE sweepStep' = Reload(time) /\ sweepPitch' = Swept(sweepPitch) /\ quiet' = 0
  /\ UNCHANGED sweepRegs

(* The game writes the registers between two cycles; the fast path of a    *)
(* silent or plain APU unprimes as Rests does.                             *)
SetSweep(on, fast) ==
  sweepOn' = on /\ fastTest' = fast
    /\ UNCHANGED <<time, step, sweepPitch, sweepCounter, sweepStep, sweepPrimed, quiet>>
SetSweepStep(t, d) ==
  time' = t /\ step' = d
    /\ UNCHANGED <<sweepOn, fastTest, sweepPitch, sweepCounter, sweepStep, sweepPrimed, quiet>>
SetSweepPitch(p) ==
  sweepPitch' = p /\ UNCHANGED <<sweepRegs, sweepCounter, sweepStep, sweepPrimed, quiet>>

SweepNext ==
  \/ Rests \/ Primes \/ Sweeps
  \/ \E on \in BOOLEAN, fast \in BOOLEAN : SetSweep(on, fast)
  \/ \E t \in 0 .. MaxTime, d \in -MaxStep .. MaxStep - 1 : SetSweepStep(t, d)
  \/ \E p \in 0 .. Pitches - 1 : SetSweepPitch(p)

SweepSpec == SweepInit /\ [][SweepNext]_sweepVars

-----------------------------------------------------------------------------
(* Properties.                                                             *)

(* A sweep goes on: however a game rewrites the sweep time and the test    *)
(* bit while the counters run, an enabled sweep moves the pitch before the *)
(* longest time it can be set to has passed ("a zero sweep-time register    *)
(* must not underflow").                                                   *)
SweepResponds == quiet < MaxTime * (SweepInterval + 1)
=============================================================================
