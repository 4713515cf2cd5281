------------------------------ MODULE ApuMixer ------------------------------
(***************************************************************************)
(* One output sample of the APU (core/src/apu/mod.rs): the four channels,  *)
(* the filtered voice and HyperVoice, summed and led to the speaker or the *)
(* headphones.  The voice filter is the state; the registers are inputs.   *)
(***************************************************************************)
EXTENDS Integers

CONSTANTS
  Nibbles,      (* the samples and volumes of the channels                *)
  LatchBytes    (* the bytes of the voice port and the HyperVoice latch   *)

ASSUME ApuMixerAssumption == Nibbles \subseteq 0 .. 15 /\ LatchBytes \subseteq 0 .. 255

VARIABLES
  voicePrev, voiceLevel,   (* VoiceLowPass.prev, voice_level              *)
  voiceMode                (* CTRL_VOICE                                  *)

mixerVars == <<voicePrev, voiceLevel, voiceMode>>

MixerTypeOK ==
  {voicePrev, voiceLevel} \subseteq -128 .. 127 /\ voiceMode \in BOOLEAN

MixScale == 32
VoiceGain == 2

(* What the registers say when a sample is put out: channels 1 to 4, the   *)
(* voice's volume, HyperVoice and the output control, for one side.        *)
Routes == {"full", "half", "off"}
Extensions == {"unsigned", "negated", "signed", "raw"}
Inputs == [sample : [1 .. 4 -> Nibbles], volume : Nibbles, route : Routes,
           hyper : BOOLEAN, ext : Extensions, data : LatchBytes, shift : 0 .. 3]

-----------------------------------------------------------------------------
(* Operators.                                                              *)

Truncated(x) == IF x < 0 THEN -((-x) \div 2) ELSE x \div 2
AsSigned(b) == IF b < 128 THEN b ELSE b - 256
AsI16(x) == ((x + 32768) % 65536) - 32768
ClampI16(x) == IF x > 32767 THEN 32767 ELSE IF x < -32768 THEN -32768 ELSE x

(* mix_waves.  A bug: channel 2 is mixed as a wave and as the voice.       *)
WavesTwice(i) ==
  MixScale * i.volume * (i.sample[1] + i.sample[2] + i.sample[3] + i.sample[4])
Waves(i) ==
  MixScale * i.volume
    * (i.sample[1] + (IF voiceMode THEN 0 ELSE i.sample[2]) + i.sample[3] + i.sample[4])

(* mix_voice and voice_route; the half volume is an arithmetic shift.      *)
Voice(i) ==
  IF ~voiceMode \/ i.route = "off" THEN 0
  ELSE MixScale * VoiceGain * IF i.route = "full" THEN voiceLevel ELSE voiceLevel \div 2

(* hypervoice_sample: the byte expanded, cut to 16 bits, back to eleven.   *)
Expanded(i) ==
  LET up == 2 ^ (8 - i.shift)
  IN  CASE i.ext = "unsigned" -> i.data * up
        [] i.ext = "negated"  -> (i.data - 256) * up
        [] i.ext = "signed"   -> AsSigned(i.data) * up
        [] i.ext = "raw"      -> i.data * 256
HyperSample(i) == AsI16(Expanded(i)) \div 32
Hyper(i) == IF i.hyper THEN MixScale * HyperSample(i) ELSE 0

(* apply_output_control with headphones; the speaker gets the two sides'   *)
(* sum, shifted, and may clip.                                             *)
Headphones(i) == ClampI16(Waves(i) + Voice(i) + Hyper(i))

-----------------------------------------------------------------------------
(* Actions.                                                                *)

MixerInit == voicePrev = 0 /\ voiceLevel = 0 /\ voiceMode = FALSE

(* write_voice: every write passes the filter while the voice is on.       *)
WriteVoice(b) ==
  /\ voiceMode
  /\ voiceLevel' = Truncated(b - 128 + voicePrev)
  /\ voicePrev' = b - 128
  /\ UNCHANGED voiceMode

(* A sample is mixed: with the voice off its filter forgets, on every path.*)
MixSample ==
  /\ ~voiceMode
  /\ voicePrev' = 0 /\ voiceLevel' = 0
  /\ UNCHANGED voiceMode

SetVoiceMode(on) == voiceMode' = on /\ UNCHANGED <<voicePrev, voiceLevel>>

MixerNext ==
  \/ \E b \in LatchBytes : WriteVoice(b)
  \/ MixSample
  \/ \E on \in BOOLEAN : SetVoiceMode(on)

MixerSpec == MixerInit /\ [][MixerNext]_mixerVars

-----------------------------------------------------------------------------
(* Properties.                                                             *)

(* "The wave+voice mix never saturates on its own": whatever the channels  *)
(* and the stream of voice bytes, the headphones get it unclipped while    *)
(* HyperVoice is off; and a HyperVoice sample has eleven bits, in every    *)
(* extension mode and shift.                                               *)
MixFits ==
  \A i \in Inputs :
    /\ ~i.hyper => Headphones(i) = Waves(i) + Voice(i)
    /\ HyperSample(i) \in -1024 .. 1023
=============================================================================
