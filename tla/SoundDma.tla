------------------------------ MODULE SoundDma ------------------------------
(***************************************************************************)
(* Sound DMA (core/src/bus/mod.rs, ports 0x4A-0x52): bytes of memory fed   *)
(* to the voice latch at a fixed rate.  The transfer runs on a latched     *)
(* copy of its registers while the game goes on writing them.  The bytes   *)
(* themselves, and what the latch does with them, are left out.            *)
(***************************************************************************)
EXTENDS Integers

CONSTANTS
  SdmaSpace,   (* the size of the address space (2^20)                    *)
  ByteCycles,  (* SDMA_CYCLES_PER_SAMPLE                                  *)
  Rates        (* sdma_rate: the dividers a game selects                  *)

ASSUME SoundDmaAssumption ==
  /\ SdmaSpace \in Nat \ {0} /\ ByteCycles \in Nat \ {0}
  /\ Rates \subseteq Nat \ {0} /\ Rates # {}

VARIABLES
  sourcePort, counterPort,   (* ports 0x4A-0x4C and 0x4E-0x50             *)
  ctrl,                      (* port 0x52                                 *)
  colorMode,                 (* port 0x60: the DMA ports answer           *)
  sdma,                      (* SdmaState                                 *)
  heading                    (* the way the block runs; "both" once the   *)
                             (* game has turned round within it           *)

portVars == <<sourcePort, counterPort>>
sdmaVars == <<portVars, ctrl, colorMode, sdma, heading>>

SdmaAddress == 0 .. SdmaSpace - 1
Controls == [enable : BOOLEAN, decrement : BOOLEAN, repeat : BOOLEAN, hold : BOOLEAN, rate : Rates]
Idle == [running |-> FALSE, clock |-> 0, source |-> 0, counter |-> 0,
         sourceShadow |-> 0, counterShadow |-> 0]

SdmaTypeOK ==
  /\ sourcePort \in SdmaAddress /\ counterPort \in SdmaAddress
  /\ ctrl \in Controls /\ colorMode \in BOOLEAN
  /\ sdma \in [running : BOOLEAN, clock : Nat, source : SdmaAddress, counter : SdmaAddress,
               sourceShadow : SdmaAddress, counterShadow : SdmaAddress]
  /\ heading \in {"up", "down", "both"}

SdmaInit ==
  /\ sourcePort = 0 /\ counterPort = 0 /\ colorMode = TRUE /\ heading = "up"
  /\ ctrl = [enable |-> FALSE, decrement |-> FALSE, repeat |-> FALSE, hold |-> FALSE,
             rate |-> CHOOSE r \in Rates : TRUE]
  /\ sdma = Idle

-----------------------------------------------------------------------------
(* The game: writes to the ports 0x40-0x5F are dropped outside colour mode.*)

SetSource(a) ==
  colorMode /\ sourcePort' = a /\ UNCHANGED <<counterPort, ctrl, colorMode, sdma, heading>>
SetCounter(n) ==
  colorMode /\ counterPort' = n /\ UNCHANGED <<sourcePort, ctrl, colorMode, sdma, heading>>
SetControl(c) ==
  /\ colorMode /\ ctrl' = c
  /\ UNCHANGED <<portVars, colorMode, sdma, heading>>
SetColorMode(on) == colorMode' = on /\ UNCHANGED <<portVars, ctrl, sdma, heading>>

-----------------------------------------------------------------------------
(* One sound cycle of tick_apu.                                            *)

Way(c) == IF c.decrement THEN "down" ELSE "up"

(* tick_apu and the top of start_sdma_if_needed: a disabled transfer is    *)
(* forgotten.                                                              *)
Disabled ==
  /\ ~ctrl.enable
  /\ sdma' = [sdma EXCEPT !.running = FALSE, !.clock = 0]
  /\ UNCHANGED <<portVars, ctrl, colorMode, heading>>

(* start_sdma_if_needed refuses an empty block.                            *)
Refuses == ~sdma.running /\ counterPort = 0
Refused ==
  /\ ctrl.enable /\ Refuses
  /\ ctrl' = [ctrl EXCEPT !.enable = FALSE]
  /\ UNCHANGED <<portVars, colorMode, sdma, heading>>

(* The state the cycle works on: latched from the ports when it starts.    *)
SdmaStart ==
  IF sdma.running THEN sdma
  ELSE [running |-> TRUE, clock |-> 0, source |-> sourcePort, counter |-> counterPort,
        sourceShadow |-> sourcePort, counterShadow |-> counterPort]

(* step_sdma_transfer after a byte: the next address, or the block again,  *)
(* or the end.  Two bugs: the source is not rewound, or is taken from the  *)
(* ports; a counter at its limit is not noticed.                           *)
NextByte(s) ==
  [s EXCEPT !.source = (@ + IF ctrl.decrement THEN SdmaSpace - 1 ELSE 1) % SdmaSpace,
            !.counter = (@ + SdmaSpace - 1) % SdmaSpace]
StepUnrewound(s) ==
  LET m == NextByte(s)
  IN  IF m.counter # 0 THEN m
      ELSE IF ctrl.repeat THEN [m EXCEPT !.counter = m.counterShadow]
      ELSE [m EXCEPT !.running = FALSE, !.clock = 0]
StepEndless(s) == NextByte(s)
Step(s) ==
  LET m == NextByte(s)
  IN  IF m.counter # 0 THEN m
      ELSE IF ctrl.repeat THEN [m EXCEPT !.source = m.sourceShadow, !.counter = m.counterShadow]
      ELSE [m EXCEPT !.running = FALSE, !.clock = 0]

(* tick_sdma_cycle: counting to the next byte, which a hold replaces by    *)
(* silence without moving.                                                 *)
ByteTime == ByteCycles * ctrl.rate
Counts == SdmaStart.clock + 1 < ByteTime
Cycle ==
  /\ ctrl.enable /\ ~Refuses
  /\ LET start == SdmaStart
         due   == [start EXCEPT !.clock = @ + 1 - ByteTime]
     IN  IF Counts
         THEN /\ sdma' = [start EXCEPT !.clock = @ + 1]
              /\ UNCHANGED <<portVars, ctrl>>
         ELSE IF ctrl.hold THEN sdma' = due /\ UNCHANGED <<portVars, ctrl>>
         ELSE /\ sdma' = Step(due)
              /\ ctrl' = [ctrl EXCEPT !.enable = sdma'.running]
              /\ sourcePort' = sdma'.source /\ counterPort' = sdma'.counter
  /\ heading' = IF ~sdma.running THEN Way(ctrl)
                ELSE IF Counts \/ ctrl.hold \/ heading = Way(ctrl) THEN heading ELSE "both"
  /\ UNCHANGED colorMode

SdmaNext ==
  \/ \E a \in SdmaAddress : SetSource(a)
  \/ \E n \in SdmaAddress : SetCounter(n)
  \/ \E c \in Controls : SetControl(c)
  \/ \E on \in BOOLEAN : SetColorMode(on)
  \/ Disabled
  \/ Refused
  \/ Cycle

SdmaSpec == SdmaInit /\ [][SdmaNext]_sdmaVars

-----------------------------------------------------------------------------
(* Properties.                                                             *)

(* Whatever a game writes to the registers while a transfer runs, the      *)
(* transfer stays in the block it latched: it has bytes left (a counter    *)
(* that passed zero would run through all of memory), and the source is as *)
(* far from its start as bytes were played, in every repetition.           *)
StaysOnBlock ==
  sdma.running =>
    /\ sdma.counter \in 1 .. sdma.counterShadow
    /\ LET done == sdma.counterShadow - sdma.counter
       IN  heading # "both" =>
             sdma.source = (sdma.sourceShadow + IF heading = "up" THEN done
                                                ELSE SdmaSpace - done) % SdmaSpace
=============================================================================
