------------------------------- MODULE MCParts -------------------------------
(***************************************************************************)
(* Parts of the console and of the program around it that share no state:  *)
(* each is a module of its own.  A behaviour of all of them together is a  *)
(* behaviour of each with steps of the others in between, which change     *)
(* nothing it reads; so one model checks them one at a time, and in a      *)
(* behaviour only the part chosen at its start takes steps.                *)
(***************************************************************************)
EXTENDS AudioRing, Resampler, AudioPacing, InternalEeprom, Rtc, SoundDma, GeneralDma,
        ApuClock, ApuSweep, ApuNoise, ApuMixer, InputPath, Settings, CpuAlu

VARIABLE part

MCTimes ==
  { <<99, 12, 31, 6, 23, 59, 59>>, <<4, 2, 28, 6, 23, 59, 59>>, <<3, 2, 28, 5, 23, 59, 59>>,
    <<0, 2, 29, 2, 23, 59, 59>>, <<26, 4, 30, 4, 22, 59, 59>>, <<26, 11, 30, 1, 23, 59, 59>> }

(* Sound: the checks are of safety and no definition tells one path from   *)
(* another.                                                                *)
PathSymmetry == Permutations(RomPaths)

PartNames ==
  {"ring", "resampler", "pacing", "eeprom", "console", "rtc", "sdma", "gdma", "clock", "sweep",
   "noise", "mixer", "input", "settings", "alu"}

(* Only behaviours of the arithmetic unit choose a program and its data.    *)
Init ==
  /\ part \in PartNames
  /\ part # "alu" => program = Divide
  /\ RingInit /\ ResamplerInit /\ PacingInit /\ EepromInit /\ ConsoleInit /\ RtcInit
  /\ SdmaInit /\ GdmaInit /\ ApuClockInit /\ SweepInit /\ NoiseInit /\ MixerInit
  /\ InputInit /\ SettingsInit
  /\ AluInit
  /\ part # "alu" => Pair(loaded) = 0 /\ Pair(operand) = 0

(* A part takes its step, the others rest.                                 *)
Turn(p, action, vars) == IF part = p THEN action ELSE UNCHANGED vars
Next ==
  /\ UNCHANGED part
  /\ Turn("ring", RingNext, ringVars)
  /\ Turn("resampler", ResamplerNext, resamplerVars)
  /\ Turn("pacing", PacingNext, pacingVars)
  /\ Turn("eeprom", EepromNext, eepromVars)
  /\ Turn("console", ConsoleNext, consoleVars)
  /\ Turn("rtc", RtcNext, rtcVars)
  /\ Turn("sdma", SdmaNext, sdmaVars)
  /\ Turn("gdma", GdmaNext, gdmaVars)
  /\ Turn("clock", ApuClockNext, apuClockVars)
  /\ Turn("sweep", SweepNext, sweepVars)
  /\ Turn("noise", NoiseNext, noiseVars)
  /\ Turn("mixer", MixerNext, mixerVars)
  /\ Turn("input", InputNext, inputVars)
  /\ Turn("settings", SettingsNext, settingsVars)
  /\ Turn("alu", AluNext, aluVars)

Vars == <<part, ringVars, resamplerVars, pacingVars, eepromVars, consoleVars, rtcVars, sdmaVars, gdmaVars, apuClockVars, sweepVars, noiseVars, mixerVars, inputVars, settingsVars, aluVars>>
Spec == Init /\ [][Next]_Vars

PartsTypeOK ==
  /\ part = "ring" => RingTypeOK
  /\ part = "resampler" => Interpolates
  /\ part = "pacing" => PacingTypeOK
  /\ part = "eeprom" => EepromTypeOK
  /\ part = "console" => ConsoleTypeOK
  /\ part = "rtc" => RtcTypeOK
  /\ part = "sdma" => SdmaTypeOK
  /\ part = "gdma" => GdmaTypeOK
  /\ part = "clock" => ApuClockTypeOK
  /\ part = "sweep" => SweepTypeOK
  /\ part = "noise" => NoiseTypeOK
  /\ part = "mixer" => MixerTypeOK /\ MixFits
  /\ part = "input" => InputTypeOK
  /\ part = "settings" => SettingsTypeOK
  /\ part = "alu" => AluTypeOK
=============================================================================
