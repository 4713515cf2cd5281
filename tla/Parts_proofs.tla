---------------------------- MODULE Parts_proofs ----------------------------
(***************************************************************************)
(* MCParts puts side by side the parts that share no state and lets one of *)
(* them run.  Whichever it is, it keeps within its types: the inductive    *)
(* invariant is that of the part that runs, with no claim about those that *)
(* rest.  The invariants, and why each part keeps its own, are in the      *)
(* proofs about the parts.                                                 *)
(***************************************************************************)
EXTENDS MCParts, Sound_proofs, Bus_proofs, Desktop_proofs, Cpu_proofs

(* The invariant of the part that runs.                                    *)
PartsInv ==
  /\ part = "ring" => RingTypeOK
  /\ part = "resampler" => LinesInv
  /\ part = "pacing" => PacingTypeOK
  /\ part = "eeprom" => EepromTypeOK
  /\ part = "console" => ConsoleTypeOK
  /\ part = "rtc" => RtcTypeOK
  /\ part = "sdma" => SdmaInv
  /\ part = "gdma" => GdmaTypeOK
  /\ part = "clock" => ClockInv
  /\ part = "sweep" => SweepTypeOK
  /\ part = "noise" => NoiseTypeOK
  /\ part = "mixer" => MixerTypeOK
  /\ part = "input" => InputInv
  /\ part = "settings" => KeptInv /\ ScreenInv /\ SafeInv
  /\ part = "alu" => AluInv

(* Every part starts in its invariant.                                     *)
LEMMA PartsStart == Init => PartsInv
<1> SUFFICES ASSUME Init PROVE PartsInv
  OBVIOUS
<1>1. /\ RingInit /\ ResamplerInit /\ PacingInit /\ EepromInit /\ ConsoleInit /\ RtcInit
      /\ SdmaInit /\ GdmaInit /\ ApuClockInit /\ SweepInit /\ NoiseInit /\ MixerInit
      /\ InputInit /\ SettingsInit /\ AluInit
  BY DEF Init
<1>2. RingTypeOK /\ LinesInv /\ PacingTypeOK
  BY <1>1, RingStarts, LinesStart, PacingStarts
<1>3. EepromTypeOK /\ ConsoleTypeOK /\ RtcTypeOK /\ SdmaInv /\ GdmaTypeOK
  BY <1>1, TypeInit, ConsoleInitTyped, RtcStarts, SdmaInductive, GdmaStarts
<1>4. ClockInv /\ SweepTypeOK /\ NoiseTypeOK /\ MixerTypeOK
  BY <1>1, ClockStarts, SweepStarts, NoiseStarts, MixerStarts
<1>5. InputInv /\ KeptInv /\ ScreenInv /\ SafeInv
  BY <1>1, InputStarts, KeptInitially, ScreenInitially, SafeInitially
<1>6. AluInv
  BY <1>1, AluStarts
<1> QED BY <1>2, <1>3, <1>4, <1>5, <1>6 DEF PartsInv

(* The part that runs takes a step of its own, or none; the others none.   *)
LEMMA PartsTurn ==
  ASSUME [Next]_Vars
  PROVE  /\ part' = part
         /\ [RingNext]_ringVars
         /\ [ResamplerNext]_resamplerVars
         /\ [PacingNext]_pacingVars
         /\ [EepromNext]_eepromVars
         /\ [ConsoleNext]_consoleVars
         /\ [RtcNext]_rtcVars
         /\ [SdmaNext]_sdmaVars
         /\ [GdmaNext]_gdmaVars
         /\ [ApuClockNext]_apuClockVars
         /\ [SweepNext]_sweepVars
         /\ [NoiseNext]_noiseVars
         /\ [MixerNext]_mixerVars
         /\ [InputNext]_inputVars
         /\ [SettingsNext]_settingsVars
         /\ [AluNext]_aluVars
<1>1. CASE Next
  <2>0. part' = part
    BY <1>1 DEF Next
  <2>1. [RingNext]_ringVars
    BY <1>1, Zenon DEF Next, Turn
  <2>2. [ResamplerNext]_resamplerVars
    BY <1>1, Zenon DEF Next, Turn
  <2>3. [PacingNext]_pacingVars
    BY <1>1, Zenon DEF Next, Turn
  <2>4. [EepromNext]_eepromVars
    BY <1>1, Zenon DEF Next, Turn
  <2>5. [ConsoleNext]_consoleVars
    BY <1>1, Zenon DEF Next, Turn
  <2>6. [RtcNext]_rtcVars
    BY <1>1, Zenon DEF Next, Turn
  <2>7. [SdmaNext]_sdmaVars
    BY <1>1, Zenon DEF Next, Turn
  <2>8. [GdmaNext]_gdmaVars
    BY <1>1, Zenon DEF Next, Turn
  <2>9. [ApuClockNext]_apuClockVars
    BY <1>1, Zenon DEF Next, Turn
  <2>10. [SweepNext]_sweepVars
    BY <1>1, Zenon DEF Next, Turn
  <2>11. [NoiseNext]_noiseVars
    BY <1>1, Zenon DEF Next, Turn
  <2>12. [MixerNext]_mixerVars
    BY <1>1, Zenon DEF Next, Turn
  <2>13. [InputNext]_inputVars
    BY <1>1, Zenon DEF Next, Turn
  <2>14. [SettingsNext]_settingsVars
    BY <1>1, Zenon DEF Next, Turn
  <2>15. [AluNext]_aluVars
    BY <1>1, Zenon DEF Next, Turn
  <2> QED BY <2>0, <2>1, <2>2, <2>3, <2>4, <2>5, <2>6, <2>7, <2>8,
             <2>9, <2>10, <2>11, <2>12, <2>13, <2>14, <2>15
<1>2. CASE UNCHANGED Vars
  BY <1>2 DEF Vars
<1> QED BY <1>1, <1>2

(* So every part that runs keeps its invariant.                            *)
LEMMA PartsStep == PartsInv /\ [Next]_Vars => PartsInv'
<1> SUFFICES ASSUME PartsInv, [Next]_Vars PROVE PartsInv'
  OBVIOUS
<1>0. part' = part
  BY PartsTurn
<1>1. part = "ring" => RingTypeOK'
  BY PartsTurn, RingStep DEF PartsInv
<1>2. part = "resampler" => LinesInv'
  BY PartsTurn, LinesStep DEF PartsInv
<1>3. part = "pacing" => PacingTypeOK'
  BY PartsTurn, PacingTypeStep DEF PartsInv
<1>4. part = "eeprom" => EepromTypeOK'
  BY PartsTurn, TypeStep DEF PartsInv
<1>5. part = "console" => ConsoleTypeOK'
  BY PartsTurn, ConsoleStepTyped DEF PartsInv
<1>6. part = "rtc" => RtcTypeOK'
  BY PartsTurn, RtcTypeStep DEF PartsInv
<1>7. part = "sdma" => SdmaInv'
  BY PartsTurn, SdmaInductive DEF PartsInv
<1>8. part = "gdma" => GdmaTypeOK'
  BY PartsTurn, GdmaTyped DEF PartsInv
<1>9. part = "clock" => ClockInv'
  BY PartsTurn, ClockStep DEF PartsInv
<1>10. part = "sweep" => SweepTypeOK'
  BY PartsTurn, SweepTypeStep DEF PartsInv
<1>11. part = "noise" => NoiseTypeOK'
  BY PartsTurn, NoiseTypeStep DEF PartsInv
<1>12. part = "mixer" => MixerTypeOK'
  BY PartsTurn, MixerTypeStep DEF PartsInv
<1>13. part = "input" => InputInv'
  BY PartsTurn, InputStep DEF PartsInv
<1>14. part = "settings" => KeptInv' /\ ScreenInv' /\ SafeInv'
  BY PartsTurn, SettingsStep, ScreenKept, SafeStep DEF PartsInv
<1>15. part = "alu" => AluInv'
  BY PartsTurn, AluStep DEF PartsInv
<1> QED BY <1>0, <1>1, <1>2, <1>3, <1>4, <1>5, <1>6, <1>7, <1>8, <1>9, <1>10, <1>11, <1>12,
           <1>13, <1>14, <1>15 DEF PartsInv

(* The types the runs check follow.                                        *)
LEMMA PartsKnown == PartsInv => PartsTypeOK
<1> SUFFICES ASSUME PartsInv PROVE PartsTypeOK
  OBVIOUS
<1>1. part = "resampler" => Interpolates
  BY DEF PartsInv, LinesInv
<1>2. part = "sdma" => SdmaTypeOK
  BY DEF PartsInv, SdmaInv
<1>3. part = "clock" => ApuClockTypeOK
  BY DEF PartsInv, ClockInv
<1>4. part = "mixer" => MixerTypeOK /\ MixFits
  BY MixKnown DEF PartsInv
<1>5. part = "input" => InputTypeOK
  BY DEF PartsInv, InputInv
<1>6. part = "settings" => SettingsTypeOK
  BY SettingsKnown DEF PartsInv
<1>7. part = "alu" => AluTypeOK
  BY AluKnown DEF PartsInv
<1> QED BY <1>1, <1>2, <1>3, <1>4, <1>5, <1>6, <1>7 DEF PartsInv, PartsTypeOK

(* Each of the fifteen parts keeps its registers, counters, files and keys *)
(* within the ranges the code's types and masks give them; among them, the *)
(* resampler's samples lie between those they are drawn between wherever   *)
(* the product of their distance and the rate fits, the mix of the         *)
(* channels does not clip and the worker plays at the volume the settings  *)
(* say: for every value of the constants.                                  *)
THEOREM PartsTyped == Spec => []PartsTypeOK
BY PartsStart, PartsStep, PartsKnown, PTL DEF Spec

(* A behaviour in which one of the parts runs is a behaviour of every one: *)
(* they share no state, so to the others its steps are no steps at all.    *)
THEOREM PartsApart ==
  Spec =>
    /\ RingSpec
    /\ ResamplerSpec
    /\ PacingSpec
    /\ EepromSpec
    /\ ConsoleSpec
    /\ RtcSpec
    /\ SdmaSpec
    /\ GdmaSpec
    /\ ApuClockSpec
    /\ SweepSpec
    /\ NoiseSpec
    /\ MixerSpec
    /\ InputSpec
    /\ SettingsSpec
    /\ AluSpec
<1>1. Init =>
        /\ RingInit /\ ResamplerInit /\ PacingInit /\ EepromInit /\ ConsoleInit
        /\ RtcInit /\ SdmaInit /\ GdmaInit /\ ApuClockInit /\ SweepInit
        /\ NoiseInit /\ MixerInit /\ InputInit /\ SettingsInit /\ AluInit
  BY Zenon DEF Init
<1>2. [Next]_Vars =>
        /\ [RingNext]_ringVars
        /\ [ResamplerNext]_resamplerVars
        /\ [PacingNext]_pacingVars
        /\ [EepromNext]_eepromVars
        /\ [ConsoleNext]_consoleVars
        /\ [RtcNext]_rtcVars
        /\ [SdmaNext]_sdmaVars
        /\ [GdmaNext]_gdmaVars
        /\ [ApuClockNext]_apuClockVars
        /\ [SweepNext]_sweepVars
        /\ [NoiseNext]_noiseVars
        /\ [MixerNext]_mixerVars
        /\ [InputNext]_inputVars
        /\ [SettingsNext]_settingsVars
        /\ [AluNext]_aluVars
  BY PartsTurn, Zenon
<1> QED BY <1>1, <1>2, PTL DEF Spec,
           RingSpec, ResamplerSpec, PacingSpec, EepromSpec, ConsoleSpec, RtcSpec, SdmaSpec,
           GdmaSpec, ApuClockSpec, SweepSpec, NoiseSpec, MixerSpec, InputSpec, SettingsSpec, AluSpec

(* Wherever the output ring holds all the samples that can come between    *)
(* two drains, and a rebinding cannot be given up with the button held:    *)
(* every safety property of the parts, in one behaviour of them all.       *)
THEOREM PartsHold ==
  ASSUME NEW most, RingLarge(most), ~MayCancel
  PROVE  Spec =>
           /\ [](NoDrift /\ PacingKept)
           /\ [](StaysOnBlock /\ BatchingExact /\ SweepResponds /\ NoiseAlive)
           /\ [](NoStuckKeys /\ InputFollowsScreen)
           /\ [](SettingsKept /\ FullscreenSettles)
           /\ []AluMatches
           /\ RingIsQueue /\ EepromIsMemory /\ WritesSpareOwner
           /\ SecondCarries /\ BurstCopies
<1>1. PacingSpec => []PacingKept
  BY PacingHolds
<1>2. InputSpec => []NoStuckKeys
  BY NothingStuck
<1> QED BY <1>1, <1>2, PartsApart, ResamplerKeepsTime, SdmaStays, BatchesExact,
           SweepKeepsMoving, NoiseNeverStuck, InputUpright, SettingsHold, ScreenSettles,
           AluCorrect, RingImplementsQueue, EepromImplements, OwnerSpared, SecondsCarry,
           BurstsCopy, PTL
=============================================================================
