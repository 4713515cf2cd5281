---------------------------- MODULE FrameDriver -----------------------------
(***************************************************************************)
(* System::drive_frame (core/src/system.rs): one video frame, line by      *)
(* line.  The CPU runs to the line's end, interrupts in between; then the  *)
(* line event renders, compares and ticks the line timer; after the last   *)
(* visible line comes the frame event.  Cycles past a line's end are       *)
(* carried into the next lines.                                            *)
(*                                                                         *)
(* The game is any program of the instruction kinds in Program.  A sprite  *)
(* table is the number of times the game rewrote it; 0 is the default      *)
(* table of a fresh Ppu.                                                   *)
(***************************************************************************)
EXTENDS BusEvents, CpuControl

CONSTANTS
  Lines, Visible,  (* SCANLINES_PER_FRAME, VISIBLE_SCANLINES              *)
  LineCycles,      (* CYCLES_PER_SCANLINE                                 *)
  Program,         (* the kinds of instructions the game uses             *)
  Counts,          (* what its string instructions find in CX             *)
  GameSources,     (* the interrupt sources and timers it uses            *)
  MaxOam           (* bound: rewrites of the sprite table                 *)

ASSUME LineAssumption == /\ Lines \in Nat /\ Visible \in Nat /\ LineCycles \in Nat \ {0}
                         /\ 2 <= Visible /\ Visible < Lines
ASSUME GameAssumption == /\ Program \subseteq {"run", "flags", "shadow", "int", "halt",
                                               "move", "scan", "port", "timer", "oam",
                                               "state"}
                         /\ Counts \subseteq 0 .. MaxCount
                         /\ GameSources \subseteq Sources /\ MaxOam \in Nat

VARIABLES
  pc,        (* where drive_frame is                                      *)
  line, spent, carry,        (* line, spent of run_cpu_cycles, cycle_carry *)
  cpu,
  oam,       (* the sprite table in WRAM                                  *)
  latched, captured, latchValid   (* latched_, next_sprites, sprite_latch_valid *)

(* History variables.                                                      *)
VARIABLES
  clock,     (* APU cycles since the frame began, carry included          *)
  lap,       (* lines since the line timer was loaded; -1: not known      *)
  shadow,    (* the last instruction opened an interrupt shadow           *)
  waiting,   (* the last turn found the CPU halted and let it wait        *)
  redone,    (* elements a rewound string instruction ran again           *)
  irq        (* the maskable interrupt taken in the last step             *)

driveVars  == <<pc, line, spent, carry>>
spriteVars == <<oam, latched, captured, latchValid>>
history    == <<clock, lap, shadow, waiting, redone, irq>>
vars == <<busVars, driveVars, cpu, spriteVars, history>>

NoIrq == [taken |-> FALSE, source |-> 0, enabled |-> FALSE, rewind |-> FALSE,
          at |-> "else", shadowed |-> FALSE]
Taken(c, rewind) == [taken |-> TRUE, source |-> Urgent, enabled |-> Urgent \in enable,
                     rewind |-> rewind, at |-> c.at, shadowed |-> shadow]

TypeOK ==
  /\ BusTypeOK
  /\ pc \in {"begin", "cpu", "service", "vblank", "service2", "end"}
  /\ line \in 0 .. Lines - 1 /\ spent \in Nat /\ carry \in Nat
  /\ cpu \in Cpu
  /\ oam \in Nat /\ latched \in Nat /\ captured \in Nat /\ latchValid \in BOOLEAN
  /\ clock \in Nat /\ lap \in Nat \cup {0 - 1}
  /\ shadow \in BOOLEAN /\ waiting \in BOOLEAN /\ redone \in Nat

Init ==
  /\ BusInit
  /\ pc = "begin" /\ line = 0 /\ spent = 0 /\ carry = 0
  /\ cpu = ResetCpu
  /\ oam = 1 /\ latched = 0 /\ captured = 0 /\ latchValid = FALSE
  /\ clock = 0 /\ lap = 0 - 1 /\ shadow = FALSE /\ waiting = FALSE
  /\ redone = 0 /\ irq = NoIrq

-----------------------------------------------------------------------------
(* The table a frame shows.  ShownCaptured is a bug: promotion put off to  *)
(* the start of the next frame.                                            *)
ShownCaptured == IF latchValid THEN captured ELSE oam
Shown == IF latchValid THEN latched ELSE oam

(* set_keys, then latch_sprites_if_needed.                                 *)
BeginFrame ==
  /\ pc = "begin"
  /\ \E pressed \in BOOLEAN : Request(IF pressed THEN {KeyPress} ELSE {})
  /\ latched' = Shown
  /\ latchValid' = TRUE
  /\ pc' = "cpu"
  /\ clock' = carry /\ irq' = NoIrq
  /\ UNCHANGED <<enable, serialOn, htimer, vtimer, line, spent, carry, cpu, oam,
                 captured, lap, shadow, waiting, redone>>

(* A save state is written and read back between two frames; the captured  *)
(* table is not part of it.                                                *)
SaveAndLoad ==
  /\ pc = "begin" /\ "state" \in Program
  /\ captured' = 0
  /\ UNCHANGED <<busVars, driveVars, cpu, oam, latched, latchValid, history>>

-----------------------------------------------------------------------------
(* run_cpu_cycles.                                                         *)

Budget == IF carry < LineCycles THEN LineCycles - carry ELSE 0

(* ShadowShort is a bug: the shadow is over one instruction early.         *)
ShadowShort == cpu.inhibit > 1
Inhibited == cpu.inhibit > 0
InterruptsCpu == Pending /\ cpu.ifl /\ ~Inhibited
(* A pending frame interrupt wakes a CPU that masks interrupts.            *)
WakesCpu == Pending /\ ~InterruptsCpu /\ cpu.halted /\ VBlank \in latch

Accepted ==
  LET c == [cpu EXCEPT !.inhibit = IF Inhibited THEN @ - 1 ELSE 0]
  IN  IF InterruptsCpu THEN Dispatch([c EXCEPT !.override = FALSE], c.override)
      ELSE IF WakesCpu THEN [c EXCEPT !.halted = FALSE] ELSE c

(* After an instruction: the single-step trap, vector 1.                   *)
Trapped(c) ==
  IF c.trapInhibit > 0 THEN [c EXCEPT !.trapInhibit = @ - 1]
  ELSE IF c.tf THEN Dispatch(c, FALSE) ELSE c
Traps(c) == c.trapInhibit = 0 /\ c.tf

PortWrite ==
  \/ \E S \in SUBSET GameSources : WriteEnable(S) \/ ClearCause(S)
  \/ ReadCause \/ StartGdma
  \/ \E on \in BOOLEAN : Serial \in GameSources /\ WriteSerial(on)

(* The line timer's lap starts afresh when it is on and freshly loaded, by *)
(* the game or at an expiry.                                               *)
FreshlyLoaded(t) == t.on /\ t.count > 0 /\ t.count = t.period
Repeats(t) == t.on /\ t.repeat /\ t.period > 0
TimerWrite ==
  /\ \/ HBlankTimer \in GameSources /\ WriteHPeriod
     \/ VBlankTimer \in GameSources /\ WriteVPeriod
     \/ /\ WriteTimerControl
        /\ HBlankTimer \notin GameSources => UNCHANGED htimer
        /\ VBlankTimer \notin GameSources => UNCHANGED vtimer
  /\ lap' = IF htimer' = htimer THEN lap
            ELSE IF FreshlyLoaded(htimer') THEN 0 ELSE 0 - 1

Bus(kind) ==
  \/ kind = "port" /\ PortWrite /\ UNCHANGED lap
  \/ kind = "timer" /\ TimerWrite
  \/ kind \notin {"port", "timer"} /\ UNCHANGED <<busVars, lap>>

Oam(kind) == oam' = IF kind = "oam" /\ oam < MaxOam THEN oam + 1 ELSE oam

OpensShadow(r, before) == r.kind = "shadow" \/ (r.cpu.ifl /\ ~before.ifl)
Rewound(before) == before.at = "rep" /\ ~before.halted

CpuTurn ==
  /\ pc = "cpu" /\ spent < Budget
  /\ \E r \in Instructions(Accepted, Program, Counts) :
       LET cycles == (IF InterruptsCpu THEN IrqAck ELSE 0) + r.cost
                       + (IF Traps(r.cpu) THEN IrqAck ELSE 0)
       IN  /\ cpu' = Trapped(r.cpu)
           /\ spent' = spent + cycles /\ clock' = clock + cycles
           /\ Bus(r.kind) /\ Oam(r.kind)
           /\ shadow' = OpensShadow(r, Accepted) /\ waiting' = Accepted.halted
           /\ redone' = IF Rewound(Accepted) THEN redone + r.cost \div RepCost ELSE redone
  /\ irq' = IF InterruptsCpu THEN Taken(cpu, cpu.override) ELSE NoIrq
  /\ UNCHANGED <<pc, line, carry, latched, captured, latchValid>>

-----------------------------------------------------------------------------
(* The end of a line.                                                      *)

Excess == IF carry + spent > LineCycles THEN carry + spent - LineCycles ELSE 0

(* CaptureAtOnce is a bug: the table is captured into the one on show.     *)
CaptureAtOnce == latched' = oam /\ UNCHANGED captured
Capture == captured' = oam /\ UNCHANGED latched

EndLine ==
  /\ pc = "cpu" /\ spent >= Budget
  /\ carry' = Excess /\ spent' = 0
  /\ IF line = Visible - 2 THEN Capture ELSE UNCHANGED <<latched, captured>>
  /\ \E match \in {ScanlineMatch \in GameSources} \cup {FALSE} : LineEvent(match)
  /\ pc' = "service"
  /\ lap' = IF HExpires THEN (IF Repeats(htimer) THEN 0 ELSE 0 - 1)
            ELSE IF lap >= 0 THEN lap + 1 ELSE lap
  /\ irq' = NoIrq
  /\ UNCHANGED <<line, cpu, oam, latchValid, clock, shadow, waiting, redone>>

(* service_pending_rep_irq_after_scanline_event.  ServiceFree is a bug:    *)
(* the cycles of the interrupt are not charged.                            *)
Serviced == cpu.ifl /\ cpu.override /\ Pending
ServiceFree ==
  /\ IF Serviced
     THEN /\ cpu' = Dispatch([cpu EXCEPT !.override = FALSE], TRUE)
          /\ clock' = clock + IrqAck
          /\ irq' = Taken(cpu, TRUE)
     ELSE UNCHANGED <<cpu, clock>> /\ irq' = NoIrq
  /\ UNCHANGED carry
Service ==
  IF Serviced
  THEN /\ cpu' = Dispatch([cpu EXCEPT !.override = FALSE], TRUE)
       /\ carry' = carry + IrqAck /\ clock' = clock + IrqAck
       /\ irq' = Taken(cpu, TRUE)
  ELSE UNCHANGED <<cpu, carry, clock>> /\ irq' = NoIrq

(* NextLineLong is a bug: the frame has a line more.                       *)
NextLineLong ==
  IF line = Lines THEN pc' = "end" /\ UNCHANGED line
  ELSE pc' = "cpu" /\ line' = line + 1
NextLine ==
  IF line = Lines - 1 THEN pc' = "end" /\ UNCHANGED line
  ELSE pc' = "cpu" /\ line' = line + 1

ServiceLine ==
  /\ pc = "service"
  /\ Service
  /\ IF line = Visible THEN pc' = "vblank" /\ UNCHANGED line ELSE NextLine
  /\ UNCHANGED <<busVars, spent, spriteVars, lap, shadow, waiting, redone>>

FrameEvent ==
  /\ pc = "vblank"
  /\ VBlankEvent
  /\ pc' = "service2" /\ irq' = NoIrq
  /\ UNCHANGED <<line, spent, carry, cpu, spriteVars, clock, lap, shadow, waiting,
                 redone>>

ServiceFrame ==
  /\ pc = "service2"
  /\ Service
  /\ NextLine
  /\ UNCHANGED <<busVars, spent, spriteVars, lap, shadow, waiting, redone>>

(* promote_next_frame_sprites.                                             *)
EndFrame ==
  /\ pc = "end"
  /\ latched' = captured /\ latchValid' = TRUE
  /\ pc' = "begin" /\ line' = 0 /\ irq' = NoIrq
  /\ UNCHANGED <<busVars, spent, carry, cpu, oam, captured, clock, lap, shadow, waiting,
                 redone>>

Next ==
  \/ BeginFrame \/ SaveAndLoad \/ CpuTurn \/ EndLine \/ ServiceLine
  \/ FrameEvent \/ ServiceFrame \/ EndFrame

Spec == Init /\ [][Next]_vars
FairSpec == Spec /\ WF_vars(BeginFrame) /\ WF_vars(CpuTurn) /\ WF_vars(EndLine)
                 /\ WF_vars(ServiceLine) /\ WF_vars(FrameEvent)
                 /\ WF_vars(ServiceFrame) /\ WF_vars(EndFrame)

-----------------------------------------------------------------------------
(* Properties.                                                             *)

LinesDone == IF pc \in {"service", "vblank", "service2", "end"} THEN line + 1 ELSE line

(* No cycle is lost or charged twice: at every moment of a frame the APU   *)
(* has been given the cycles of the lines that are over, those spent in    *)
(* this one and those carried ahead, through the saturating subtractions   *)
(* of drive_frame and the interrupts taken after a line's end.             *)
CyclesConserved == pc # "begin" => clock = LinesDone * LineCycles + carry + spent

(* Every frame ends: run_cpu_cycles spends its budget and a halted CPU     *)
(* lets time pass, in every game that does not repeat string instructions  *)
(* with CX = 0 for ever, which report no cycle.                            *)
FrameCompletes == (pc # "begin") ~> (pc = "begin")

(* A CPU halted with the frame interrupt enabled runs on, even if it masks *)
(* interrupts (on_vblank, run_cpu_cycles); it may halt again at once.      *)
HaltWakes == (waiting /\ VBlank \in enable) ~> ~waiting

(* An interrupt that rewinds IP to a string instruction comes directly     *)
(* after that instruction: interrupt_return_override_ip never outlives it, *)
(* across traps, halts and line ends.                                      *)
RewindsOnlyItself == irq.rewind => irq.at = "after"

(* No interrupt comes between an instruction that opens a shadow (STI,     *)
(* POPF, IRET enabling IF; a load of SS) and the next one, also when a     *)
(* line ends there.                                                        *)
ShadowRespected == ~(irq.taken /\ irq.shadowed)

(* A string instruction rewound by an interrupt has nothing left to do:    *)
(* "REP loop: execute while CX != 0, with optional ZF check".              *)
RepeatsOnce == redone = 0

(* An interrupt is taken for a "pending and enabled" source (pending_irq). *)
DeliveredEnabled == irq.taken => irq.enabled

(* A line timer that is on and left alone expires every `period` lines,    *)
(* the lines of the vertical blank included.                               *)
TimerKeepsTime ==
  [][pc = "cpu" /\ pc' = "service" /\ HExpires /\ lap >= 0
       => lap + 1 = htimer.period]_vars

(* All lines of a frame show the same sprite table.                        *)
NoTearing == [][pc \notin {"begin", "end"} => latched' = latched]_vars

(* It is one the game wrote, also in the frame after a state was loaded,   *)
(* though the captured table is not saved.                                 *)
SpritesAreOams == pc # "begin" => latched \in 1 .. oam
=============================================================================
