------------------------------ MODULE ApuClock ------------------------------
(***************************************************************************)
(* The APU's time (core/src/apu/mod.rs): a wave channel and the cadence of *)
(* output samples, advanced in batches by one of three paths that depends  *)
(* on the registers.  The channels are alike: one stands for the four.     *)
(***************************************************************************)
EXTENDS Integers

CONSTANTS
  Periods,        (* 2048, the longest period                             *)
  WaveLength,     (* 32, the samples of a waveform                        *)
  SampleCycles,   (* CYCLES_PER_SAMPLE                                    *)
  CycleBatches,        (* cycles of one call of tick                           *)
  MaxCycles       (* bound: sound cycles of a behaviour                   *)

ASSUME ApuClockAssumption ==
  /\ {Periods, WaveLength, SampleCycles} \subseteq Nat \ {0}
  /\ CycleBatches \subseteq Nat /\ MaxCycles \in Nat

VARIABLES
  osc,              (* WaveChannel: period_counter, sample_idx            *)
  exact,            (* the channel ticked one cycle at a time             *)
  pitch, enabled,   (* its registers                                      *)
  extra,            (* voice, sweep, noise, noise gate or HyperVoice on   *)
  accum,            (* sample_accum                                       *)
  emitted, elapsed  (* output samples and sound cycles so far             *)

apuClockVars == <<osc, exact, pitch, enabled, extra, accum, emitted, elapsed>>

ApuClockTypeOK ==
  /\ {osc, exact} \subseteq [counter : 0 .. Periods, idx : 0 .. WaveLength - 1]
  /\ pitch \in 0 .. Periods - 1 /\ {enabled, extra} \subseteq BOOLEAN
  /\ accum \in 0 .. SampleCycles - 1 /\ {emitted, elapsed} \subseteq Nat

ApuClockInit ==
  /\ osc = [counter |-> 0, idx |-> 0] /\ exact = osc
  /\ pitch = 0 /\ enabled = FALSE /\ extra = FALSE
  /\ accum = 0 /\ emitted = 0 /\ elapsed = 0

-----------------------------------------------------------------------------
(* WaveChannel.  The sample put out is the one under idx when it was       *)
(* reached; reading it from work RAM is left out.                          *)

WavePeriod == Periods - pitch
NextSample(c, n) == [counter |-> WavePeriod, idx |-> (c.idx + n) % WaveLength]

TickOne(c) ==
  IF c.counter <= 1 THEN NextSample(c, 1) ELSE [c EXCEPT !.counter = @ - 1]

TickMany(c, n) ==
  LET after[k \in 0 .. n] == IF k = 0 THEN c ELSE TickOne(after[k - 1])
  IN  after[n]

(* advance: to the first sample, then over whole periods at once.  A bug:  *)
(* a full last period is taken for an empty one.                           *)
AdvanceLate(c, n) ==
  LET first == IF c.counter = 0 THEN 1 ELSE c.counter
      more  == (n - first) \div WavePeriod
  IN  IF n < first THEN [c EXCEPT !.counter = @ - n]
      ELSE [NextSample(c, 1 + more) EXCEPT !.counter = (n - first) % WavePeriod]
Advance(c, n) ==
  LET first == IF c.counter = 0 THEN 1 ELSE c.counter
      more  == (n - first) \div WavePeriod
  IN  IF n = 0 THEN c
      ELSE IF n < first THEN [c EXCEPT !.counter = @ - n]
      ELSE [NextSample(c, 1 + more) EXCEPT !.counter = WavePeriod - ((n - first) % WavePeriod)]

-----------------------------------------------------------------------------
(* Apu::tick: a path takes the channel, the accumulator and the samples    *)
(* put out forward.                                                        *)

ClockState == [osc |-> osc, accum |-> accum, emitted |-> emitted]

(* Some cycles, at most up to the next output sample, and that sample.     *)
Reach(s, n, channel) ==
  IF s.accum + n >= SampleCycles
  THEN [osc |-> channel, accum |-> 0, emitted |-> s.emitted + 1]
  ELSE [s EXCEPT !.osc = channel, !.accum = @ + n]

(* tick_silence: time only.  A bug: an unfinished sample is started again. *)
TickSilenceWhole(n) ==
  [ClockState EXCEPT !.accum = n % SampleCycles, !.emitted = @ + (accum + n) \div SampleCycles]
TickSilence(n) ==
  [ClockState EXCEPT !.accum = (accum + n) % SampleCycles,
                !.emitted = @ + (accum + n) \div SampleCycles]

(* tick_wave_only: chunks that end at output samples.                      *)
TickWaveOnly(n) ==
  LET chunks[k \in 0 .. n] ==   (* the state after k chunks, the cycles left *)
        IF k = 0 THEN <<ClockState, n>>
        ELSE LET before == chunks[k - 1]
                 gap    == SampleCycles - before[1].accum
                 chunk  == IF before[2] < gap THEN before[2] ELSE gap
             IN  <<Reach(before[1], chunk, Advance(before[1].osc, chunk)), before[2] - chunk>>
  IN  chunks[n][1]

(* step, cycle by cycle.                                                   *)
TickSteps(n) ==
  LET after[k \in 0 .. n] ==
        IF k = 0 THEN ClockState
        ELSE Reach(after[k - 1], 1, IF enabled THEN TickOne(after[k - 1].osc) ELSE osc)
  IN  after[n]

Tick(n) ==
  /\ elapsed + n <= MaxCycles /\ elapsed' = elapsed + n
  /\ LET s == IF extra THEN TickSteps(n)
              ELSE IF enabled THEN TickWaveOnly(n)
              ELSE TickSilence(n)
     IN  osc' = s.osc /\ accum' = s.accum /\ emitted' = s.emitted
  /\ exact' = IF enabled THEN TickMany(exact, n) ELSE exact
  /\ UNCHANGED <<pitch, enabled, extra>>

(* The game, between two instructions.                                     *)
SetVoice(p, on, more) ==
  /\ pitch' = p /\ enabled' = on /\ extra' = more
  /\ UNCHANGED <<osc, exact, accum, emitted, elapsed>>

ApuClockNext ==
  \/ \E n \in CycleBatches : Tick(n)
  \/ \E p \in 0 .. Periods - 1, on \in BOOLEAN, more \in BOOLEAN : SetVoice(p, on, more)

ApuClockSpec == ApuClockInit /\ [][ApuClockNext]_apuClockVars

-----------------------------------------------------------------------------
(* Properties.                                                             *)

(* Batching is not heard: whatever the calls' lengths and however a game   *)
(* moves the APU between its three paths, the channel is where ticking it  *)
(* cycle by cycle would have it ("the same final oscillator state as        *)
(* calling tick repeatedly"), and the output has one sample for every       *)
(* CYCLES_PER_SAMPLE cycles, none lost or gained at a change of path.      *)
BatchingExact ==
  osc = exact /\ elapsed = emitted * SampleCycles + accum
=============================================================================
