------------------------- MODULE FrameDriver_proofs --------------------------
(***************************************************************************)
(* Proofs about FrameDriver: type correctness, and for frames of any       *)
(* number of lines of any length, instructions of any cost and any game:   *)
(* no cycle is lost, a rewinding interrupt follows its string instruction, *)
(* no interrupt breaks into a shadow, every frame shows one sprite table,  *)
(* one the game wrote, the line timer expires after as many lines as its   *)
(* period, and moves that are rewound run no element twice.                *)
(***************************************************************************)
EXTENDS FrameDriver, TLAPS

(* An override that an interrupt could use belongs to the instruction that *)
(* just ran.  A trap may leave it behind, but it masks interrupts as well. *)
OverrideFresh(c) == c.override /\ c.ifl => c.at = "after"

(* An open shadow is still counted, and is not a string instruction's.     *)
ShadowCounted == shadow => cpu.inhibit > 0 /\ ~cpu.override

(* Only lines under way have spent cycles; a frame starts at its top.      *)
LinePhase == (pc # "cpu" => spent = 0) /\ (pc = "begin" => line = 0)

(* The inductive invariant.                                                *)
IInv ==
  /\ TypeOK /\ LinePhase
  /\ CyclesConserved
  /\ OverrideFresh(cpu) /\ ShadowCounted
  /\ RewindsOnlyItself /\ ShadowRespected
-----------------------------------------------------------------------------
(* Facts about the CPU.                                                    *)

(* Taking an interrupt yields a CPU, without interrupt flag, at "else".    *)
LEMMA DispatchFacts ==
  ASSUME NEW c \in Cpu, NEW rewind \in BOOLEAN
  PROVE  /\ Dispatch(c, rewind) \in Cpu
         /\ ~Dispatch(c, rewind).ifl
         /\ Dispatch(c, rewind).inhibit = c.inhibit
         /\ Dispatch(c, rewind).override = c.override
<1> DEFINE f == [at |-> IF rewind THEN "rep" ELSE c.at, cx |-> c.cx,
                 ifl |-> c.ifl, tf |-> c.tf]
<1>1. f \in Frame /\ c.frames \in Seq(Frame)
  BY DEF Frame, Places, Cpu
<1>2. <<f>> \o c.frames \in Seq(Frame)
  BY <1>1
<1> HIDE DEF f
<1>3. Dispatch(c, rewind) = [c EXCEPT !.frames = <<f>> \o @, !.ifl = FALSE, !.tf = FALSE,
                                      !.halted = FALSE, !.at = "else"]
  BY DEF Dispatch, f
<1> QED
  BY <1>2, <1>3 DEF Cpu, Places

(* What a turn relies on of the instruction that runs.                     *)
Sound(c, r) ==
  /\ r.cost \in Nat /\ r.cpu \in Cpu
  /\ OverrideFresh(r.cpu)
  /\ OpensShadow(r, c) => r.cpu.inhibit = 1 /\ ~r.cpu.override

(* Changing the flags opens the shadow.                                    *)
LEMMA WithFlagsFacts ==
  ASSUME NEW c \in Cpu, NEW ifl \in BOOLEAN, NEW tf \in BOOLEAN
  PROVE  /\ WithFlags(c, ifl, tf) \in Cpu
         /\ WithFlags(c, ifl, tf).ifl = ifl
         /\ WithFlags(c, ifl, tf).override = c.override
         /\ WithFlags(c, ifl, tf).frames = c.frames
         /\ ifl /\ ~c.ifl => WithFlags(c, ifl, tf).inhibit = 1
<1> DEFINE i == IF ~c.ifl /\ ifl THEN 1 ELSE c.inhibit
           t == IF ~c.tf /\ tf THEN 1 ELSE c.trapInhibit
<1>1. i \in 0 .. 1 /\ t \in 0 .. 1 /\ (ifl /\ ~c.ifl => i = 1)
  BY DEF Cpu
<1>2. WithFlags(c, ifl, tf) = [c EXCEPT !.ifl = ifl, !.tf = tf, !.inhibit = i, !.trapInhibit = t]
  BY DEF WithFlags, Cpu
<1> HIDE DEF i, t
<1> QED
  BY <1>1, <1>2 DEF Cpu

(* A string instruction runs to its own end and leaves a count in CX.      *)
LEMMA StringFacts ==
  ASSUME NEW c \in Cpu, NEW kind \in {"move", "scan"}, NEW n \in 0 .. c.cx
  PROVE  Sound(c, StringRun(c, kind, n))
<1>1. n \in Nat /\ c.cx \in Nat /\ RepCost \in Nat /\ LongRep \in Nat /\ c.cx - n \in Nat
  BY CostAssumption DEF Cpu
<1>2. n * RepCost \in Nat
  BY <1>1
<1> DEFINE cost == n * RepCost
           long == cost >= LongRep
           left == c.cx - n
           after == [c EXCEPT !.at = "after", !.cx = left, !.override = long]
<1>3. StringRun(c, kind, n) = [kind |-> kind, cost |-> cost, cpu |-> after]
  BY Zenon DEF StringRun, Result, CxLeft
<1>4. long \in BOOLEAN /\ left \in Nat /\ cost \in Nat
  BY <1>1, <1>2
<1> HIDE DEF cost, long, left
<1>5. after \in Cpu /\ after.at = "after" /\ after.ifl = c.ifl
  BY <1>4 DEF Cpu, Places
<1> HIDE DEF after
<1> QED
  BY <1>3, <1>4, <1>5 DEF Sound, OverrideFresh, OpensShadow

(* Both kinds of string instruction are such runs.                         *)
LEMMA StringsSound ==
  ASSUME NEW c \in Cpu, NEW r \in Strings(c, Program)
  PROVE  Sound(c, r)
<1>1. c.cx \in 0 .. c.cx
  BY DEF Cpu
<1>2. CASE r \in StringMove(c)
  BY <1>1, <1>2, StringFacts DEF StringMove
<1>3. CASE r \in StringScan(c)
  BY <1>3, StringFacts DEF StringScan
<1> QED
  BY <1>2, <1>3 DEF Strings

(* Every instruction of a program is sound.                                *)
LEMMA InstructionFacts ==
  ASSUME NEW c \in Cpu, OverrideFresh(c), NEW r \in Instructions(c, Program, Counts)
  PROVE  Sound(c, r)
<1> DEFINE d == Fetch(c)
<1>1. /\ d \in Cpu /\ ~d.override /\ d.ifl = c.ifl /\ d.cx = c.cx
      /\ d.frames = c.frames
  BY DEF Fetch, Cpu, Places
<1>2. \A k \in Costs : k \in Nat
  BY CostAssumption
<1>3. \A s : Sound(d, s) => Sound(c, s)
  BY <1>1 DEF Sound, OpensShadow
<1>4. CASE c.halted
  <2>1. r = [kind |-> "idle", cost |-> 1, cpu |-> c]
    BY <1>4 DEF Instructions, Idle, Result
  <2> QED
    BY <2>1 DEF Sound, OpensShadow
<1>5. CASE ~c.halted /\ c.at = "rep"
  BY <1>1, <1>3, <1>5, StringsSound DEF Instructions
<1>6. CASE ~c.halted /\ c.at # "rep"
  <2> HIDE DEF d
  <2>1. CASE r \in Ordinary(d, Program)
    BY <1>1, <1>2, <1>3, <2>1 DEF Ordinary, Result, Sound, OpensShadow, OverrideFresh
  <2>2. CASE r \in FlagChange(d)
    <3>1. PICK k \in Costs, f \in BOOLEAN \X BOOLEAN :
            r = [kind |-> "flags", cost |-> k, cpu |-> WithFlags(d, f[1], f[2])]
      BY <2>2 DEF FlagChange, Result
    <3>2. f[1] \in BOOLEAN /\ f[2] \in BOOLEAN
      OBVIOUS
    <3> QED
      BY <1>1, <1>2, <1>3, <3>1, <3>2, WithFlagsFacts DEF Sound, OpensShadow, OverrideFresh
  <2>3. CASE r \in LoadSS(d)
    <3>1. PICK k \in Costs :
            r = [kind |-> "shadow", cost |-> k, cpu |-> [d EXCEPT !.inhibit = 1]]
      BY <2>3 DEF LoadSS, Result
    <3> QED
      BY <1>1, <1>2, <1>3, <3>1 DEF Sound, OpensShadow, OverrideFresh, Cpu
  <2>4. CASE r \in SoftInterrupt(d)
    <3>1. PICK k \in Costs :
            r = [kind |-> "int", cost |-> k, cpu |-> Dispatch(d, FALSE)]
      BY <2>4 DEF SoftInterrupt, Result
    <3>2. Dispatch(d, FALSE) \in Cpu /\ ~Dispatch(d, FALSE).ifl
      BY <1>1, DispatchFacts
    <3> QED
      BY <1>2, <1>3, <3>1, <3>2 DEF Sound, OpensShadow, OverrideFresh
  <2>5. CASE r \in Halt(d)
    <3>1. PICK k \in Costs :
            r = [kind |-> "halt", cost |-> k, cpu |-> [d EXCEPT !.halted = TRUE]]
      BY <2>5 DEF Halt, Result
    <3> QED
      BY <1>1, <1>2, <1>3, <3>1 DEF Sound, OpensShadow, OverrideFresh, Cpu
  <2>6. CASE r \in Iret(d)
    <3>1. d.frames \in Seq(Frame) /\ d.frames # <<>>
      BY <1>1, <2>6 DEF Iret, Cpu
    <3>2. Head(d.frames) \in Frame /\ Tail(d.frames) \in Seq(Frame)
      BY <3>1
    <3> DEFINE f == Head(d.frames)
               w == WithFlags(d, f.ifl, f.tf)
    <3>3. PICK k \in Costs :
            r = [kind |-> "iret", cost |-> k,
                 cpu |-> [w EXCEPT !.at = f.at, !.cx = f.cx, !.frames = Tail(@)]]
      BY <2>6, <3>1 DEF Iret, Result
    <3>4. f.ifl \in BOOLEAN /\ f.tf \in BOOLEAN /\ f.at \in Places /\ f.cx \in Nat
      BY <3>2 DEF Frame
    <3>5. /\ w \in Cpu /\ w.ifl = f.ifl /\ ~w.override /\ w.frames = d.frames
          /\ f.ifl /\ ~d.ifl => w.inhibit = 1
      BY <1>1, <3>4, WithFlagsFacts
    <3> HIDE DEF f, w
    <3>6. r.cpu = [w EXCEPT !.at = f.at, !.cx = f.cx, !.frames = Tail(d.frames)]
      BY <3>3, <3>5
    <3>7. /\ r.cpu \in Cpu /\ r.cpu.ifl = f.ifl /\ ~r.cpu.override
          /\ r.cpu.inhibit = w.inhibit
      BY <3>2, <3>4, <3>5, <3>6 DEF Cpu
    <3>8. r.kind = "iret" /\ r.cost \in Nat
      BY <1>2, <3>3
    <3> QED
      BY <1>3, <3>5, <3>7, <3>8 DEF Sound, OpensShadow, OverrideFresh
  <2>7. CASE r \in FreshStrings(d, Program, Counts)
    <3>1. PICK k \in Counts : r \in Strings([d EXCEPT !.cx = k], Program)
      BY <2>7 DEF FreshStrings
    <3>2. [d EXCEPT !.cx = k] \in Cpu /\ [d EXCEPT !.cx = k].ifl = d.ifl
      BY <1>1, <3>1, GameAssumption, CpuBoundAssumption DEF Cpu
    <3>3. Sound([d EXCEPT !.cx = k], r)
      BY <3>1, <3>2, StringsSound
    <3> QED
      BY <1>3, <3>2, <3>3 DEF Sound, OpensShadow
  <2>8. r \in UNION {Ordinary(d, Program), FlagChange(d), LoadSS(d), SoftInterrupt(d),
                     Halt(d), Iret(d), FreshStrings(d, Program, Counts)}
    BY <1>6 DEF Instructions, d
  <2> QED
    BY <2>1, <2>2, <2>3, <2>5, <2>6, <2>7, <2>8, <2>4
<1> QED
  BY <1>4, <1>5, <1>6
-----------------------------------------------------------------------------
(* Facts about the bus.                                                    *)

(* A byte written to a period or counter leaves a number there.            *)
LEMMA TimerBytes ==
  ASSUME NEW t \in Timer, NEW b \in 0 .. Base - 1
  PROVE  LowWritten(t, b) \in Timer /\ HighWritten(t, b) \in Timer
<1>1. Base \in Nat /\ Base > 0 /\ b \in Nat
  BY BaseAssumption
<1>2. \A n \in Nat : n \div Base \in Nat /\ n % Base \in Nat
  BY <1>1
<1>3. \A m, n \in Nat : m * n \in Nat /\ m + n \in Nat
  OBVIOUS
<1>4. \A n \in Nat : SetLow(n, b) \in Nat
  BY <1>1, <1>2, <1>3 DEF SetLow
<1>5. \A n \in Nat : SetHigh(n, b) \in Nat
  BY <1>1, <1>2, <1>3 DEF SetHigh
<1> QED
  BY <1>4, <1>5 DEF LowWritten, HighWritten, Timer

(* A tick leaves a timer.                                                  *)
LEMMA TickedTimer ==
  ASSUME NEW t \in Timer
  PROVE  Ticked(t) \in Timer
<1> DEFINE n == IF t.count = 1 THEN Reload(t) ELSE t.count - 1
<1>1. CASE t.count = 0
  BY <1>1 DEF Ticked
<1>2. CASE t.count # 0
  <2>1. n \in Nat
    BY <1>2 DEF Timer, Reload
  <2>2. Ticked(t) = [t EXCEPT !.count = n]
    BY <1>2 DEF Ticked
  <2> HIDE DEF n
  <2> QED
    BY <2>1, <2>2 DEF Timer
<1> QED
  BY <1>1, <1>2

(* A requested source is one of the eight.                                 *)
LEMMA RequestTyped ==
  ASSUME BusTypeOK, NEW S, Request(S)
  PROVE  latch' \subseteq Sources
BY DEF BusTypeOK, Request

(* What an instruction does to the bus leaves it well-typed.               *)
LEMMA BusTyped ==
  ASSUME BusTypeOK, lap \in Nat \cup {0 - 1}, NEW kind, Bus(kind)
  PROVE  BusTypeOK' /\ lap' \in Nat \cup {0 - 1}
<1>1. CASE kind = "port" /\ PortWrite /\ UNCHANGED lap
  <2>0. GameSources \subseteq Sources /\ Serial \in Sources
    BY GameAssumption DEF Serial, Sources
  <2>a. \A e, on : SerialReady(e, on) \subseteq Sources
    BY <2>0 DEF SerialReady
  <2>1. ASSUME NEW S \in SUBSET GameSources, WriteEnable(S) \/ ClearCause(S) PROVE BusTypeOK'
    <3>1. CASE WriteEnable(S)
      BY <2>0, <2>a, <3>1 DEF WriteEnable, BusTypeOK
    <3>2. CASE ClearCause(S)
      BY <3>2 DEF ClearCause, BusTypeOK
    <3> QED
      BY <2>1, <3>1, <3>2
  <2>2. CASE ReadCause
    BY <1>1, <2>a, <2>2 DEF ReadCause, BusTypeOK
  <2>3. CASE StartGdma
    BY <1>1, <2>3, RequestTyped DEF StartGdma, BusTypeOK
  <2>4. ASSUME NEW on \in BOOLEAN, WriteSerial(on) PROVE BusTypeOK'
    BY <2>a, <2>4 DEF WriteSerial, BusTypeOK
  <2> QED
    BY <1>1, <2>1, <2>2, <2>3, <2>4 DEF PortWrite
<1>2. CASE kind = "timer" /\ TimerWrite
  <2>1. lap' \in Nat \cup {0 - 1}
    <3>1. lap' = lap \/ lap' = 0 \/ lap' = 0 - 1
      BY <1>2, Zenon DEF TimerWrite
    <3> QED
      BY <3>1
  <2>2. CASE WriteHPeriod
    <3>1. PICK b \in 0 .. Base - 1 :
            htimer' = LowWritten(htimer, b) \/ htimer' = HighWritten(htimer, b)
      BY <2>2 DEF WriteHPeriod
    <3>2. htimer' \in Timer
      BY <3>1, TimerBytes DEF BusTypeOK
    <3> QED
      BY <2>1, <2>2, <3>2 DEF WriteHPeriod, BusTypeOK
  <2>3. CASE WriteVPeriod
    <3>1. PICK b \in 0 .. Base - 1 :
            vtimer' = LowWritten(vtimer, b) \/ vtimer' = HighWritten(vtimer, b)
      BY <2>3 DEF WriteVPeriod
    <3>2. vtimer' \in Timer
      BY <3>1, TimerBytes DEF BusTypeOK
    <3> QED
      BY <2>1, <2>3, <3>2 DEF WriteVPeriod, BusTypeOK
  <2>4. CASE WriteTimerControl
    BY <2>1, <2>4 DEF WriteTimerControl, BusTypeOK, Timer
  <2> QED
    BY <1>2, <2>1, <2>2, <2>3, <2>4 DEF TimerWrite
<1>3. CASE UNCHANGED <<busVars, lap>>
  BY <1>3 DEF busVars, BusTypeOK
<1> QED
  BY <1>1, <1>2, <1>3 DEF Bus
-----------------------------------------------------------------------------
(* The initial states satisfy the invariant.                               *)
LEMMA Initially == Init => IInv
<1> SUFFICES ASSUME Init PROVE IInv
  OBVIOUS
<1>1. /\ Lines \in Nat /\ Lines > 2
  BY LineAssumption
<1>2. ResetCpu \in Cpu /\ OverrideFresh(ResetCpu)
  BY DEF ResetCpu, Cpu, Places, OverrideFresh
<1>3. BusTypeOK
  <2>1. StoppedTimer \in Timer
    BY DEF StoppedTimer, Timer
  <2> QED
    BY <2>1 DEF Init, BusInit, BusTypeOK
<1>4. TypeOK
  <2>1. cpu \in Cpu
    BY <1>2 DEF Init
  <2>2. line \in 0 .. Lines - 1 /\ lap \in Nat \cup {0 - 1}
    BY <1>1 DEF Init
  <2>3. /\ spent \in Nat /\ carry \in Nat /\ clock \in Nat /\ redone \in Nat
        /\ oam \in Nat /\ latched \in Nat /\ captured \in Nat
    BY DEF Init
  <2> QED
    BY <1>3, <2>1, <2>2, <2>3 DEF Init, TypeOK
<1> QED
  BY <1>2, <1>4 DEF Init, IInv, LinePhase, CyclesConserved, ShadowCounted,
                    RewindsOnlyItself, ShadowRespected, NoIrq

(* Interrupt acceptance, then an instruction, then the trap.               *)
LEMMA TurnFacts ==
  ASSUME IInv, NEW r \in Instructions(Accepted, Program, Counts)
  PROVE  /\ Accepted \in Cpu /\ r.cost \in Nat /\ r.cpu \in Cpu
         /\ Trapped(r.cpu) \in Cpu
         /\ OverrideFresh(Trapped(r.cpu))
         /\ OpensShadow(r, Accepted) => /\ Trapped(r.cpu).inhibit > 0
                                        /\ ~Trapped(r.cpu).override
<1> DEFINE i == IF Inhibited THEN cpu.inhibit - 1 ELSE 0
           c == [cpu EXCEPT !.inhibit = i]
<1>1. cpu \in Cpu /\ OverrideFresh(cpu)
  BY DEF IInv, TypeOK
<1>2. i \in 0 .. 1
  BY <1>1 DEF Inhibited, Cpu
<1>3. /\ c \in Cpu /\ c.override = cpu.override /\ c.ifl = cpu.ifl /\ c.at = cpu.at
      /\ c.override \in BOOLEAN
  BY <1>1, <1>2 DEF Cpu
<1>4. Accepted = IF InterruptsCpu THEN Dispatch([c EXCEPT !.override = FALSE], c.override)
                 ELSE IF WakesCpu THEN [c EXCEPT !.halted = FALSE] ELSE c
  BY <1>1 DEF Accepted, Cpu
<1> HIDE DEF i, c
<1>5. Accepted \in Cpu /\ OverrideFresh(Accepted)
  <2>1. CASE InterruptsCpu
    <3>1. [c EXCEPT !.override = FALSE] \in Cpu
      BY <1>3 DEF Cpu
    <3> QED
      BY <1>3, <1>4, <2>1, <3>1, DispatchFacts DEF OverrideFresh
  <2>2. CASE ~InterruptsCpu
    <3>1. /\ [c EXCEPT !.halted = FALSE] \in Cpu
          /\ [c EXCEPT !.halted = FALSE].override = c.override
          /\ [c EXCEPT !.halted = FALSE].ifl = c.ifl
          /\ [c EXCEPT !.halted = FALSE].at = c.at
      BY <1>3 DEF Cpu
    <3> QED
      BY <1>1, <1>3, <1>4, <2>2, <3>1 DEF OverrideFresh
  <2> QED
    BY <2>1, <2>2
<1>6. Sound(Accepted, r)
  BY <1>5, InstructionFacts
<1>7. r.cpu \in Cpu /\ r.cost \in Nat
  BY <1>6 DEF Sound
<1>8. CASE r.cpu.trapInhibit > 0
  <2>1. r.cpu.trapInhibit - 1 \in 0 .. 1
    BY <1>7, <1>8 DEF Cpu
  <2>2. Trapped(r.cpu) = [r.cpu EXCEPT !.trapInhibit = r.cpu.trapInhibit - 1]
    BY <1>7, <1>8 DEF Trapped, Cpu
  <2>3. /\ Trapped(r.cpu) \in Cpu
        /\ Trapped(r.cpu).override = r.cpu.override /\ Trapped(r.cpu).ifl = r.cpu.ifl
        /\ Trapped(r.cpu).at = r.cpu.at /\ Trapped(r.cpu).inhibit = r.cpu.inhibit
    BY <1>7, <2>1, <2>2 DEF Cpu
  <2> QED
    BY <1>5, <1>6, <1>7, <2>3 DEF Sound, OverrideFresh
<1>9. CASE ~(r.cpu.trapInhibit > 0) /\ r.cpu.tf
  <2>1. Trapped(r.cpu) = Dispatch(r.cpu, FALSE)
    BY <1>9 DEF Trapped
  <2>2. /\ Trapped(r.cpu) \in Cpu /\ ~Trapped(r.cpu).ifl
        /\ Trapped(r.cpu).inhibit = r.cpu.inhibit
        /\ Trapped(r.cpu).override = r.cpu.override
    BY <1>7, <2>1, DispatchFacts
  <2> QED
    BY <1>5, <1>6, <1>7, <2>2 DEF Sound, OverrideFresh
<1>10. CASE ~(r.cpu.trapInhibit > 0) /\ ~r.cpu.tf
  BY <1>5, <1>6, <1>7, <1>10 DEF Trapped, Sound
<1> QED
  BY <1>8, <1>9, <1>10

(* One turn of the CPU preserves the invariant: the cycles go to the line  *)
(* and to the APU alike.                                                   *)
LEMMA TurnStep == IInv /\ CpuTurn => IInv'
<1> SUFFICES ASSUME IInv, CpuTurn PROVE IInv'
  OBVIOUS
<1>1. PICK r \in Instructions(Accepted, Program, Counts) :
        LET cycles == (IF InterruptsCpu THEN IrqAck ELSE 0) + r.cost
                        + (IF Traps(r.cpu) THEN IrqAck ELSE 0)
        IN  /\ cpu' = Trapped(r.cpu)
            /\ spent' = spent + cycles /\ clock' = clock + cycles
            /\ Bus(r.kind) /\ Oam(r.kind)
            /\ shadow' = OpensShadow(r, Accepted) /\ waiting' = Accepted.halted
            /\ redone' = IF Rewound(Accepted) THEN redone + r.cost \div RepCost ELSE redone
  BY DEF CpuTurn
<1> DEFINE cycles == (IF InterruptsCpu THEN IrqAck ELSE 0) + r.cost
                       + (IF Traps(r.cpu) THEN IrqAck ELSE 0)
<1>2. IrqAck \in Nat /\ RepCost \in Nat /\ RepCost > 0
  BY CostAssumption
<1>3. r.cost \in Nat /\ cycles \in Nat
  BY <1>2, TurnFacts
<1>4. spent' = spent + cycles /\ clock' = clock + cycles
  BY <1>1
<1> HIDE DEF cycles
<1>5. /\ pc = "cpu" /\ pc' = pc /\ line' = line /\ carry' = carry
      /\ latched' = latched /\ captured' = captured /\ latchValid' = latchValid
  BY DEF CpuTurn
<1>6. BusTypeOK' /\ lap' \in Nat \cup {0 - 1}
  BY <1>1, BusTyped DEF IInv, TypeOK
<1>7. /\ cpu' \in Cpu /\ OverrideFresh(cpu)'
      /\ shadow' = OpensShadow(r, Accepted)
      /\ shadow' => cpu'.inhibit > 0 /\ ~cpu'.override
  BY <1>1, TurnFacts DEF OverrideFresh
<1>8. oam' \in Nat
  BY <1>1 DEF Oam, IInv, TypeOK
<1>9. redone' \in Nat
  <2>1. r.cost \div RepCost \in Nat
    BY <1>2, <1>3
  <2> QED
    BY <1>1, <2>1 DEF IInv, TypeOK
<1>10. shadow' \in BOOLEAN /\ waiting' \in BOOLEAN
  BY <1>1, TurnFacts DEF OpensShadow, Cpu
<1>11. TypeOK'
  <2>1. spent' \in Nat /\ clock' \in Nat
    BY <1>3, <1>4 DEF IInv, TypeOK
  <2> QED
    BY <1>5, <1>6, <1>7, <1>8, <1>9, <1>10, <2>1 DEF IInv, TypeOK
<1>12. LinePhase' /\ CyclesConserved'
  <2>1. LinePhase'
    BY <1>5 DEF LinePhase
  <2>2. LinesDone = line /\ LinesDone' = line
    BY <1>5 DEF LinesDone
  <2>3. line * LineCycles \in Nat
    BY LineAssumption DEF IInv, TypeOK
  <2>4. clock = line * LineCycles + carry + spent
    BY <1>5, <2>2 DEF IInv, CyclesConserved
  <2> DEFINE done == line * LineCycles
  <2>5. clock' = done + carry + spent'
    <3> HIDE DEF done
    <3> QED
      BY <1>3, <1>4, <2>3, <2>4 DEF IInv, TypeOK, done
  <2> QED
    BY <1>5, <2>1, <2>2, <2>5 DEF CyclesConserved
<1>13. RewindsOnlyItself' /\ ShadowRespected'
  <2>1. irq' = IF InterruptsCpu THEN Taken(cpu, cpu.override) ELSE NoIrq
    BY DEF CpuTurn
  <2>2. CASE InterruptsCpu
    <3>1. /\ irq'.rewind = cpu.override /\ irq'.at = cpu.at
          /\ irq'.shadowed = shadow
      BY <2>1, <2>2 DEF Taken
    <3>2. cpu.ifl /\ ~(cpu.inhibit > 0)
      BY <2>2 DEF InterruptsCpu, Inhibited
    <3> QED
      BY <3>1, <3>2 DEF IInv, OverrideFresh, ShadowCounted, RewindsOnlyItself, ShadowRespected
  <2>3. CASE ~InterruptsCpu
    BY <2>1, <2>3 DEF NoIrq, RewindsOnlyItself, ShadowRespected
  <2> QED
    BY <2>2, <2>3
<1> QED
  BY <1>7, <1>11, <1>12, <1>13 DEF IInv, ShadowCounted

(* The end of a line: what the line took beyond its length is carried on.  *)
LEMMA EndLineStep == IInv /\ EndLine => IInv'
<1> SUFFICES ASSUME IInv, EndLine PROVE IInv'
  OBVIOUS
<1>1. /\ pc = "cpu" /\ pc' = "service" /\ spent >= Budget /\ spent' = 0
      /\ carry' = Excess
      /\ line' = line /\ cpu' = cpu /\ oam' = oam /\ latchValid' = latchValid
      /\ clock' = clock /\ shadow' = shadow /\ waiting' = waiting /\ redone' = redone
      /\ irq' = NoIrq
  BY DEF EndLine
<1>2. /\ carry \in Nat /\ spent \in Nat /\ line \in Nat
      /\ LineCycles \in Nat /\ Lines \in Nat
  BY LineAssumption DEF IInv, TypeOK
<1>3. Excess = carry + spent - LineCycles /\ Excess \in Nat
  BY <1>1, <1>2 DEF Excess, Budget
<1>4. BusTypeOK'
  <2>1. PICK match \in {ScanlineMatch \in GameSources} \cup {FALSE} : LineEvent(match)
    BY DEF EndLine
  <2>2. latch' \subseteq Sources
    BY <2>1, RequestTyped DEF LineEvent, IInv, TypeOK
  <2>3. htimer' \in Timer
    BY <2>1, TickedTimer DEF LineEvent, IInv, TypeOK, BusTypeOK
  <2> QED
    BY <2>1, <2>2, <2>3 DEF LineEvent, IInv, TypeOK, BusTypeOK
<1>5. latched' \in Nat /\ captured' \in Nat
  BY DEF EndLine, Capture, IInv, TypeOK
<1>6. lap' \in Nat \cup {0 - 1}
  <2>1. lap' = 0 \/ lap' = 0 - 1 \/ lap' = lap \/ (lap >= 0 /\ lap' = lap + 1)
    BY DEF EndLine
  <2> QED
    BY <2>1 DEF IInv, TypeOK
<1>7. TypeOK'
  BY <1>1, <1>3, <1>4, <1>5, <1>6 DEF IInv, TypeOK
<1>8. CyclesConserved'
  <2>1. clock = line * LineCycles + carry + spent
    BY <1>1 DEF IInv, CyclesConserved, LinesDone
  <2>2. (line + 1) * LineCycles = line * LineCycles + LineCycles /\ line * LineCycles \in Nat
    BY <1>2
  <2> DEFINE done == line * LineCycles
  <2>3. clock = (done + LineCycles) + (carry + spent - LineCycles) + 0
    <3> HIDE DEF done
    <3>1. done \in Nat /\ clock = done + carry + spent
      BY <2>1, <2>2 DEF done
    <3> QED
      BY <1>2, <3>1
  <2>4. LinesDone' = line + 1
    BY <1>1 DEF LinesDone
  <2> QED
    BY <1>1, <1>3, <2>2, <2>3, <2>4 DEF CyclesConserved
<1> QED
  BY <1>1, <1>7, <1>8 DEF IInv, LinePhase, OverrideFresh, ShadowCounted,
                          RewindsOnlyItself, ShadowRespected, NoIrq

(* The interrupt taken behind a line or frame event costs the next line    *)
(* what it costs the APU, and comes directly after a string instruction.   *)
LEMMA ServiceFacts ==
  ASSUME IInv, Service, pc \in {"service", "service2"}
  PROVE  /\ cpu' \in Cpu /\ OverrideFresh(cpu)' /\ (shadow => cpu'.inhibit > 0 /\ ~cpu'.override)
         /\ \E k \in Nat : carry' = carry + k /\ clock' = clock + k
         /\ RewindsOnlyItself' /\ ShadowRespected'
<1>1. CASE Serviced
  <2> DEFINE c == [cpu EXCEPT !.override = FALSE]
  <2>1. cpu \in Cpu /\ c \in Cpu /\ ~c.override /\ cpu.ifl /\ cpu.override
    BY <1>1 DEF Serviced, Cpu, IInv, TypeOK
  <2>2. /\ cpu' = Dispatch(c, TRUE)
        /\ carry' = carry + IrqAck /\ clock' = clock + IrqAck
        /\ irq' = Taken(cpu, TRUE)
    BY <1>1 DEF Service
  <2> HIDE DEF c
  <2>3. cpu' \in Cpu /\ ~cpu'.ifl
    BY <2>1, <2>2, DispatchFacts
  <2>4. ~shadow /\ cpu.at = "after"
    BY <2>1 DEF IInv, ShadowCounted, OverrideFresh
  <2>5. irq'.rewind = TRUE /\ irq'.at = cpu.at /\ irq'.shadowed = shadow
    BY <2>2 DEF Taken
  <2> QED
    BY <2>2, <2>3, <2>4, <2>5, CostAssumption
       DEF OverrideFresh, RewindsOnlyItself, ShadowRespected
<1>2. CASE ~Serviced
  <2>1. /\ cpu' = cpu /\ carry' = carry + 0 /\ clock' = clock + 0 /\ irq' = NoIrq
    BY <1>2 DEF Service, IInv, TypeOK
  <2> QED
    BY <2>1 DEF IInv, TypeOK, OverrideFresh, ShadowCounted, RewindsOnlyItself,
                ShadowRespected, NoIrq
<1> QED
  BY <1>1, <1>2

(* Going on to the next line or the frame's end.                           *)
LEMMA NextLineFacts ==
  ASSUME TypeOK, NextLine
  PROVE  /\ line' \in 0 .. Lines - 1
         /\ \/ pc' = "end" /\ line' = line
            \/ pc' = "cpu" /\ line' = line + 1
BY LineAssumption DEF TypeOK, NextLine

(* Both steps that take an interrupt behind an event.                      *)
LEMMA ServiceSteps == IInv /\ (ServiceLine \/ ServiceFrame) => IInv'
<1> SUFFICES ASSUME IInv, ServiceLine \/ ServiceFrame PROVE IInv'
  OBVIOUS
<1>1. /\ pc \in {"service", "service2"} /\ Service
      /\ spent' = spent /\ oam' = oam /\ latched' = latched /\ captured' = captured
      /\ latchValid' = latchValid /\ lap' = lap /\ shadow' = shadow
      /\ waiting' = waiting /\ redone' = redone
      /\ UNCHANGED busVars
  BY DEF ServiceLine, ServiceFrame, spriteVars
<1>2. /\ cpu' \in Cpu /\ OverrideFresh(cpu)' /\ (shadow => cpu'.inhibit > 0 /\ ~cpu'.override)
      /\ RewindsOnlyItself' /\ ShadowRespected'
  BY <1>1, ServiceFacts
<1>3. PICK k \in Nat : carry' = carry + k /\ clock' = clock + k
  BY <1>1, ServiceFacts
<1>4. /\ line' \in 0 .. Lines - 1
      /\ \/ pc' \in {"vblank", "end"} /\ line' = line
         \/ pc' = "cpu" /\ line' = line + 1
  BY NextLineFacts DEF IInv, ServiceLine, ServiceFrame, TypeOK
<1>5. BusTypeOK'
  BY <1>1 DEF busVars, IInv, TypeOK, BusTypeOK
<1>6. TypeOK'
  BY <1>1, <1>2, <1>3, <1>4, <1>5 DEF IInv, TypeOK
<1>7. CyclesConserved'
  <2>1. LinesDone = line + 1 /\ LinesDone' = line + 1
    BY <1>1, <1>4 DEF LinesDone
  <2>2. (line + 1) * LineCycles \in Nat
    BY LineAssumption DEF IInv, TypeOK
  <2> DEFINE done == (line + 1) * LineCycles
  <2>3. clock = done + carry + spent
    BY <1>1, <2>1 DEF IInv, CyclesConserved
  <2>4. clock' = done + carry' + spent'
    <3> HIDE DEF done
    <3>1. done \in Nat
      BY <2>2 DEF done
    <3> QED
      BY <1>1, <1>3, <2>3, <3>1 DEF IInv, TypeOK
  <2> QED
    BY <2>1, <2>4 DEF CyclesConserved
<1> QED
  BY <1>1, <1>2, <1>4, <1>6, <1>7 DEF IInv, LinePhase, ShadowCounted

(* The steps at a frame's boundaries.                                      *)
LEMMA FrameSteps == IInv /\ (BeginFrame \/ SaveAndLoad \/ FrameEvent \/ EndFrame) => IInv'
<1> SUFFICES ASSUME IInv, BeginFrame \/ SaveAndLoad \/ FrameEvent \/ EndFrame PROVE IInv'
  OBVIOUS
<1> USE DEF IInv
<1>1. CASE BeginFrame
  <2>1. latched' \in Nat /\ BusTypeOK'
    BY <1>1, RequestTyped DEF BeginFrame, Shown, TypeOK, BusTypeOK
  <2>2. TypeOK'
    BY <1>1, <2>1 DEF BeginFrame, TypeOK
  <2>3. spent = 0 /\ line = 0
    BY <1>1 DEF BeginFrame, LinePhase
  <2>4. CyclesConserved'
    <3>1. clock' = carry /\ carry' = carry /\ spent' = 0 /\ LinesDone' = 0
      BY <1>1, <2>3 DEF BeginFrame, LinesDone
    <3>2. 0 * LineCycles = 0 /\ carry = 0 + carry + 0
      BY LineAssumption DEF TypeOK
    <3> QED
      BY <3>1, <3>2 DEF CyclesConserved
  <2> QED
    BY <1>1, <2>2, <2>3, <2>4 DEF BeginFrame, LinePhase, OverrideFresh, ShadowCounted,
         RewindsOnlyItself, ShadowRespected, NoIrq
<1>2. CASE SaveAndLoad
  BY <1>2 DEF SaveAndLoad, busVars, driveVars, history, TypeOK, BusTypeOK, LinePhase,
       CyclesConserved, LinesDone, OverrideFresh, ShadowCounted, RewindsOnlyItself,
       ShadowRespected
<1>3. CASE FrameEvent
  <2>1. latch' \subseteq Sources /\ vtimer' \in Timer
    BY <1>3, RequestTyped, TickedTimer DEF FrameEvent, VBlankEvent, TypeOK, BusTypeOK
  <2>2. BusTypeOK'
    BY <1>3, <2>1 DEF FrameEvent, VBlankEvent, TypeOK, BusTypeOK
  <2> QED
    BY <1>3, <2>2 DEF FrameEvent, spriteVars, TypeOK, LinePhase, CyclesConserved, LinesDone,
         OverrideFresh, ShadowCounted, RewindsOnlyItself, ShadowRespected, NoIrq
<1>4. CASE EndFrame
  <2>1. TypeOK'
    BY <1>4, LineAssumption DEF EndFrame, busVars, TypeOK, BusTypeOK
  <2> QED
    BY <1>4, <2>1 DEF EndFrame, LinePhase, CyclesConserved, OverrideFresh, ShadowCounted,
         RewindsOnlyItself, ShadowRespected, NoIrq
<1> QED
  BY <1>1, <1>2, <1>3, <1>4

(* Every step preserves the invariant.                                     *)
LEMMA Inductive == IInv /\ [Next]_vars => IInv'
<1>1. ASSUME IInv, UNCHANGED vars PROVE IInv'
  BY <1>1 DEF IInv, vars, busVars, driveVars, spriteVars, history, TypeOK, BusTypeOK, LinePhase,
       CyclesConserved, LinesDone, OverrideFresh, ShadowCounted, RewindsOnlyItself,
       ShadowRespected
<1> QED
  BY <1>1, TurnStep, EndLineStep, ServiceSteps, FrameSteps DEF Next

(* The invariant holds always.                                             *)
LEMMA Invariant == Spec => []IInv
BY Initially, Inductive, PTL DEF Spec
-----------------------------------------------------------------------------
(* The state of a frame stays well-typed: a line number of the frame, a    *)
(* CPU, timers that hold numbers.                                          *)
THEOREM TypeCorrect == Spec => []TypeOK
<1>1. IInv => TypeOK
  BY DEF IInv
<1> QED
  BY <1>1, Invariant, PTL

(* drive_frame neither loses nor invents a cycle, however its carry        *)
(* saturates and wherever an interrupt is charged.                         *)
THEOREM CyclesNeverLost == Spec => []CyclesConserved
<1>1. IInv => CyclesConserved
  BY DEF IInv
<1> QED
  BY <1>1, Invariant, PTL

(* interrupt_return_override_ip never outlives its string instruction.     *)
THEOREM RewindsSound == Spec => []RewindsOnlyItself
<1>1. IInv => RewindsOnlyItself
  BY DEF IInv
<1> QED
  BY <1>1, Invariant, PTL

(* No interrupt breaks into the shadow of STI, POPF, IRET or a load of SS, *)
(* although the interrupt behind a line's end does not look for one.       *)
THEOREM ShadowsHold == Spec => []ShadowRespected
<1>1. IInv => ShadowRespected
  BY DEF IInv
<1> QED
  BY <1>1, Invariant, PTL
-----------------------------------------------------------------------------
(* The sprite tables.                                                      *)

(* Behind the capture of this frame.                                       *)
CaptureDone == line > Visible - 2 \/ (line = Visible - 2 /\ pc # "cpu")

(* A table on show, or captured in this frame, is one the game wrote: the  *)
(* table a loaded state forgets is captured afresh before it is promoted.  *)
SpriteInv ==
  /\ oam >= 1
  /\ latchValid \/ pc # "begin" => latched \in 1 .. oam
  /\ pc # "begin" /\ CaptureDone => captured \in 1 .. oam
  /\ pc = "end" => line = Lines - 1

(* Every step preserves it.                                                *)
LEMMA SpriteStep == IInv /\ SpriteInv /\ [Next]_vars => SpriteInv'
<1> SUFFICES ASSUME IInv, SpriteInv, [Next]_vars PROVE SpriteInv'
  OBVIOUS
<1>0. /\ Lines \in Nat /\ Visible \in Nat /\ 2 <= Visible /\ Visible < Lines
      /\ line \in 0 .. Lines - 1 /\ oam \in Nat
      /\ latched \in Nat /\ captured \in Nat /\ latchValid \in BOOLEAN
      /\ pc = "begin" => line = 0
  BY LineAssumption DEF IInv, TypeOK, LinePhase
<1> USE DEF SpriteInv, CaptureDone
<1>1. CASE BeginFrame
  BY <1>0, <1>1 DEF BeginFrame, Shown
<1>2. CASE SaveAndLoad
  BY <1>0, <1>2 DEF SaveAndLoad, driveVars
<1>3. CASE CpuTurn
  <2>1. /\ pc = "cpu" /\ pc' = pc /\ line' = line /\ latched' = latched
        /\ captured' = captured /\ latchValid' = latchValid
    BY <1>3 DEF CpuTurn
  <2>2. oam' = oam \/ oam' = oam + 1
    BY <1>3 DEF CpuTurn, Oam
  <2> QED
    BY <1>0, <2>1, <2>2
<1>4. CASE EndLine
  <2>1. /\ pc = "cpu" /\ pc' = "service" /\ line' = line /\ oam' = oam
        /\ latchValid' = latchValid /\ latched' = latched
        /\ captured' = IF line = Visible - 2 THEN oam ELSE captured
    BY <1>4 DEF EndLine, Capture
  <2> QED
    BY <1>0, <2>1
<1>5. CASE ServiceLine \/ ServiceFrame
  <2>1. /\ pc \in {"service", "service2"} /\ oam' = oam /\ latched' = latched
        /\ captured' = captured /\ latchValid' = latchValid
    BY <1>5 DEF ServiceLine, ServiceFrame, spriteVars
  <2>2. \/ pc' = "vblank" /\ line' = line
        \/ pc' = "end" /\ line' = line /\ line = Lines - 1
        \/ pc' = "cpu" /\ line' = line + 1
    BY <1>5 DEF ServiceLine, ServiceFrame, NextLine
  <2> QED
    BY <1>0, <2>1, <2>2
<1>6. CASE FrameEvent
  BY <1>0, <1>6 DEF FrameEvent, spriteVars
<1>7. CASE EndFrame
  BY <1>0, <1>7 DEF EndFrame
<1>8. CASE UNCHANGED vars
  BY <1>8 DEF vars, driveVars, spriteVars
<1> QED
  BY <1>1, <1>2, <1>3, <1>4, <1>5, <1>6, <1>7, <1>8 DEF Next

(* A frame shows a sprite table the game wrote, whenever it rewrites it    *)
(* and wherever a state without the captured table was loaded.             *)
THEOREM SpritesWritten == Spec => []SpritesAreOams
<1>1. Init => SpriteInv
  BY DEF Init, SpriteInv
<1>2. Spec => []SpriteInv
  BY <1>1, SpriteStep, Invariant, PTL DEF Spec
<1>3. SpriteInv => SpritesAreOams
  BY DEF SpriteInv, SpritesAreOams
<1> QED
  BY <1>2, <1>3, PTL
-----------------------------------------------------------------------------
(* Rewound string instructions, in programs that only move.                *)

(* A program that is at a string instruction, or will return to one, finds *)
(* no element left.                                                        *)
Settled(c) ==
  /\ c.at # "else" => c.cx = 0
  /\ \A i \in DOMAIN c.frames : c.frames[i].at # "else" => c.frames[i].cx = 0

(* An interrupt keeps that, if it only rewinds where nothing is left.      *)
LEMMA DispatchSettled ==
  ASSUME NEW c \in Cpu, Settled(c), NEW rewind \in BOOLEAN, rewind => c.cx = 0
  PROVE  Settled(Dispatch(c, rewind))
<1> DEFINE f == [at |-> IF rewind THEN "rep" ELSE c.at, cx |-> c.cx,
                 ifl |-> c.ifl, tf |-> c.tf]
           pushed == <<f>> \o c.frames
<1>1. f \in Frame /\ c.frames \in Seq(Frame)
  BY DEF Frame, Places, Cpu
<1>2. f.at # "else" => f.cx = 0
  BY DEF Settled
<1>3. Dispatch(c, rewind).frames = pushed /\ Dispatch(c, rewind).at = "else"
  BY DEF Dispatch, Cpu
<1> HIDE DEF f
<1>4. \A i \in DOMAIN pushed : pushed[i] = f \/ \E j \in DOMAIN c.frames : pushed[i] = c.frames[j]
  BY <1>1
<1> HIDE DEF pushed
<1> QED
  BY <1>2, <1>3, <1>4 DEF Settled

(* An instruction that moves leaves CX at zero.                            *)
LEMMA MoveSettled ==
  ASSUME "scan" \notin Program, NEW c \in Cpu, Settled(c), NEW r \in Strings(c, Program)
  PROVE  Settled(r.cpu) /\ r.cost = c.cx * RepCost
<1>1. r = StringRun(c, "move", c.cx)
  BY DEF Strings, StringMove
<1>2. c.cx \in Nat /\ c.cx - c.cx = 0
  BY DEF Cpu
<1> DEFINE long == c.cx * RepCost >= LongRep
<1>3. /\ r.cpu = [c EXCEPT !.at = "after", !.cx = 0, !.override = long]
      /\ r.cost = c.cx * RepCost
  BY <1>1, <1>2 DEF StringRun, Result, CxLeft
<1> HIDE DEF long
<1> QED
  BY <1>3 DEF Settled, Cpu

(* So does every instruction, and a rewound one runs no element.           *)
LEMMA InstructionSettled ==
  ASSUME "scan" \notin Program, NEW c \in Cpu, Settled(c),
         NEW r \in Instructions(c, Program, Counts)
  PROVE  Settled(r.cpu) /\ (Rewound(c) => r.cost = 0)
<1> DEFINE d == Fetch(c)
<1>1. /\ d \in Cpu /\ d.at = "else" /\ d.cx = c.cx /\ d.frames = c.frames
  BY DEF Fetch, Cpu, Places
<1>2. Settled(d)
  BY <1>1 DEF Settled
<1>3. CASE c.halted
  BY <1>3 DEF Instructions, Idle, Result, Rewound
<1>4. CASE ~c.halted /\ c.at = "rep"
  <2>1. r \in Strings(d, Program) /\ d.cx = 0
    BY <1>1, <1>4 DEF Instructions, Settled
  <2>2. 0 * RepCost = 0
    BY CostAssumption
  <2> HIDE DEF d
  <2> QED
    BY <1>1, <1>2, <2>1, <2>2, MoveSettled
<1>5. CASE ~c.halted /\ c.at # "rep"
  <2> HIDE DEF d
  <2>0. ~Rewound(c)
    BY <1>5 DEF Rewound
  <2>1. CASE r \in Ordinary(d, Program)
    BY <1>2, <2>0, <2>1 DEF Ordinary, Result
  <2>2. CASE r \in FlagChange(d)
    <3>1. PICK f \in BOOLEAN \X BOOLEAN : r.cpu = WithFlags(d, f[1], f[2])
      BY <2>2 DEF FlagChange, Result
    <3>2. /\ r.cpu.at = d.at /\ r.cpu.cx = d.cx /\ r.cpu.frames = d.frames
      BY <1>1, <3>1 DEF WithFlags, Cpu
    <3> QED
      BY <1>2, <2>0, <3>2 DEF Settled
  <2>3. CASE r \in LoadSS(d) \/ r \in Halt(d)
    <3>1. r.cpu.at = d.at /\ r.cpu.cx = d.cx /\ r.cpu.frames = d.frames
      BY <1>1, <2>3 DEF LoadSS, Halt, Result, Cpu
    <3> QED
      BY <1>2, <2>0, <3>1 DEF Settled
  <2>4. CASE r \in SoftInterrupt(d)
    <3>1. PICK k \in Costs :
            r = [kind |-> "int", cost |-> k, cpu |-> Dispatch(d, FALSE)]
      BY <2>4 DEF SoftInterrupt, Result
    <3> QED
      BY <1>1, <1>2, <2>0, <3>1, DispatchSettled
  <2>5. CASE r \in Iret(d)
    <3>1. d.frames \in Seq(Frame) /\ d.frames # <<>>
      BY <1>1, <2>5 DEF Iret, Cpu
    <3> DEFINE f == Head(d.frames)
               w == WithFlags(d, f.ifl, f.tf)
    <3>2. r.cpu = [w EXCEPT !.at = f.at, !.cx = f.cx, !.frames = Tail(@)]
      BY <2>5, <3>1 DEF Iret, Result
    <3>3. f = d.frames[1] /\ 1 \in DOMAIN d.frames
      BY <3>1
    <3>4. w \in Cpu /\ w.frames = d.frames
      <4>1. f \in Frame
        BY <3>1
      <4>2. f.ifl \in BOOLEAN /\ f.tf \in BOOLEAN
        BY <4>1 DEF Frame
      <4> QED
        BY <1>1, <4>2, WithFlagsFacts
    <3> HIDE DEF f, w
    <3>5. r.cpu.at = f.at /\ r.cpu.cx = f.cx /\ r.cpu.frames = Tail(d.frames)
      BY <3>2, <3>4 DEF Cpu
    <3>6. \A i \in DOMAIN Tail(d.frames) : i + 1 \in DOMAIN d.frames
                                           /\ Tail(d.frames)[i] = d.frames[i + 1]
      BY <3>1
    <3> QED
      BY <1>2, <2>0, <3>3, <3>5, <3>6 DEF Settled
  <2>6. CASE r \in FreshStrings(d, Program, Counts)
    <3>1. PICK k \in Counts : r \in Strings([d EXCEPT !.cx = k], Program)
      BY <2>6 DEF FreshStrings
    <3>2. [d EXCEPT !.cx = k] \in Cpu /\ Settled([d EXCEPT !.cx = k])
      BY <1>1, <1>2, <3>1, GameAssumption, CpuBoundAssumption DEF Cpu, Settled
    <3> QED
      BY <2>0, <3>1, <3>2, MoveSettled
  <2>7. r \in UNION {Ordinary(d, Program), FlagChange(d), LoadSS(d), SoftInterrupt(d),
                     Halt(d), Iret(d), FreshStrings(d, Program, Counts)}
    BY <1>5 DEF Instructions, d
  <2> QED
    BY <2>1, <2>2, <2>3, <2>4, <2>5, <2>6, <2>7
<1> QED
  BY <1>3, <1>4, <1>5

(* The inductive invariant.                                                *)
RepeatInv == Settled(cpu) /\ redone = 0

(* A turn keeps it: an interrupt rewinds only to an instruction that just  *)
(* ran, and that one left CX at zero.                                      *)
LEMMA TurnSettled ==
  ASSUME "scan" \notin Program, IInv, RepeatInv, CpuTurn
  PROVE  RepeatInv'
<1> DEFINE i == IF Inhibited THEN cpu.inhibit - 1 ELSE 0
           c == [cpu EXCEPT !.inhibit = i]
<1>1. cpu \in Cpu /\ OverrideFresh(cpu) /\ Settled(cpu) /\ redone = 0
  BY DEF IInv, TypeOK, RepeatInv
<1>2. i \in 0 .. 1
  BY <1>1 DEF Inhibited, Cpu
<1>3. /\ c \in Cpu /\ c.override = cpu.override /\ c.ifl = cpu.ifl /\ c.at = cpu.at
      /\ c.cx = cpu.cx /\ c.frames = cpu.frames /\ c.override \in BOOLEAN
  BY <1>1, <1>2 DEF Cpu
<1>4. Accepted = IF InterruptsCpu THEN Dispatch([c EXCEPT !.override = FALSE], c.override)
                 ELSE IF WakesCpu THEN [c EXCEPT !.halted = FALSE] ELSE c
  BY <1>1 DEF Accepted, Cpu
<1> HIDE DEF i, c
<1>5. Settled(Accepted)
  <2>1. CASE InterruptsCpu
    <3> DEFINE e == [c EXCEPT !.override = FALSE]
    <3>1. e \in Cpu /\ e.at = c.at /\ e.cx = c.cx /\ e.frames = c.frames
      BY <1>3 DEF Cpu
    <3>2. Settled(e) /\ (c.override => e.cx = 0)
      BY <1>1, <1>3, <2>1, <3>1 DEF Settled, OverrideFresh, InterruptsCpu
    <3> HIDE DEF e
    <3>3. Settled(Dispatch(e, c.override))
      BY <1>3, <3>1, <3>2, DispatchSettled
    <3> QED
      BY <1>4, <2>1, <3>3 DEF e
  <2>2. CASE ~InterruptsCpu
    <3>1. Accepted.at = cpu.at /\ Accepted.cx = cpu.cx /\ Accepted.frames = cpu.frames
      BY <1>3, <1>4, <2>2 DEF Cpu
    <3> QED
      BY <1>1, <3>1 DEF Settled
  <2> QED
    BY <2>1, <2>2
<1>6. PICK r \in Instructions(Accepted, Program, Counts) :
        /\ cpu' = Trapped(r.cpu)
        /\ redone' = IF Rewound(Accepted) THEN redone + r.cost \div RepCost ELSE redone
  BY DEF CpuTurn
<1>7. Accepted \in Cpu
  BY TurnFacts, <1>6
<1>8. Settled(r.cpu) /\ (Rewound(Accepted) => r.cost = 0)
  BY <1>5, <1>6, <1>7, InstructionSettled
<1>9. redone' = 0
  <2>1. 0 \div RepCost = 0
    BY CostAssumption
  <2> QED
    BY <1>1, <1>6, <1>8, <2>1
<1>10. r.cpu \in Cpu
  BY <1>6, TurnFacts
<1>11. Settled(Trapped(r.cpu))
  <2>1. CASE r.cpu.trapInhibit > 0
    BY <1>8, <1>10, <2>1 DEF Trapped, Settled, Cpu
  <2>2. CASE ~(r.cpu.trapInhibit > 0) /\ r.cpu.tf
    BY <1>8, <1>10, <2>2, DispatchSettled DEF Trapped
  <2>3. CASE ~(r.cpu.trapInhibit > 0) /\ ~r.cpu.tf
    BY <1>8, <2>3 DEF Trapped
  <2> QED
    BY <2>1, <2>2, <2>3
<1> QED
  BY <1>6, <1>9, <1>11 DEF RepeatInv, Settled

(* The interrupt behind an event keeps it for the same reason.             *)
LEMMA ServiceSettled ==
  ASSUME IInv, RepeatInv, Service, redone' = redone
  PROVE  RepeatInv'
<1>1. CASE Serviced
  <2> DEFINE e == [cpu EXCEPT !.override = FALSE]
  <2>1. /\ e \in Cpu /\ e.at = cpu.at /\ e.cx = cpu.cx /\ e.frames = cpu.frames
    BY DEF IInv, TypeOK, Cpu
  <2>2. Settled(e) /\ e.cx = 0
    BY <1>1, <2>1 DEF Serviced, IInv, OverrideFresh, RepeatInv, Settled
  <2>3. cpu' = Dispatch(e, TRUE)
    BY <1>1 DEF Service
  <2> HIDE DEF e
  <2>4. Settled(Dispatch(e, TRUE))
    BY <2>1, <2>2, DispatchSettled
  <2> QED
    BY <2>3, <2>4 DEF RepeatInv, Settled
<1>2. CASE ~Serviced
  BY <1>2 DEF Service, RepeatInv, Settled
<1> QED
  BY <1>1, <1>2

(* In a program whose string instructions all move, a rewound one runs no  *)
(* element again.  Programs that scan do: their loop may end with CX > 0.  *)
THEOREM MovesRepeatOnce ==
  ASSUME "scan" \notin Program
  PROVE  Spec => []RepeatsOnce
<1>1. Init => RepeatInv
  BY DEF Init, RepeatInv, Settled, ResetCpu
<1>2. ASSUME IInv, RepeatInv, [Next]_vars PROVE RepeatInv'
  <2>1. CASE CpuTurn
    BY <1>2, <2>1, TurnSettled
  <2>2. CASE ServiceLine \/ ServiceFrame
    BY <1>2, <2>2, ServiceSettled DEF ServiceLine, ServiceFrame
  <2>3. CASE BeginFrame \/ SaveAndLoad \/ EndLine \/ FrameEvent \/ EndFrame \/ UNCHANGED vars
    <3>1. cpu' = cpu /\ redone' = redone
      BY <2>3 DEF BeginFrame, SaveAndLoad, EndLine, FrameEvent, EndFrame, vars, history
    <3> QED
      BY <1>2, <3>1 DEF RepeatInv, Settled
  <2> QED
    BY <1>2, <2>1, <2>2, <2>3 DEF Next
<1>3. Spec => []RepeatInv
  BY <1>1, <1>2, Invariant, PTL DEF Spec
<1>4. RepeatInv => RepeatsOnce
  BY DEF RepeatInv, RepeatsOnce
<1> QED
  BY <1>3, <1>4, PTL
-----------------------------------------------------------------------------
(* Within a frame the table on show stays: the table of the last line but  *)
(* one is captured aside, and only the end of the frame promotes it.       *)
THEOREM NeverTorn == Spec => NoTearing
<1>1. ASSUME [Next]_vars, pc \notin {"begin", "end"} PROVE latched' = latched
  <2>1. CASE CpuTurn
    BY <2>1 DEF CpuTurn
  <2>2. CASE EndLine
    BY <2>2 DEF EndLine, Capture
  <2>3. CASE ServiceLine \/ FrameEvent \/ ServiceFrame
    BY <2>3 DEF ServiceLine, FrameEvent, ServiceFrame, spriteVars
  <2>4. CASE BeginFrame \/ SaveAndLoad \/ EndFrame
    BY <1>1, <2>4 DEF BeginFrame, SaveAndLoad, EndFrame
  <2>5. CASE UNCHANGED vars
    BY <2>5 DEF vars, spriteVars
  <2> QED
    BY <1>1, <2>1, <2>2, <2>3, <2>4, <2>5 DEF Next
<1> QED
  BY <1>1, PTL DEF Spec, NoTearing
-----------------------------------------------------------------------------
(* A lap counts the lines the timer's counter has lost since it was        *)
(* loaded, and only a timer that is on is lapped.                          *)
LapInv ==
  lap >= 0 => /\ htimer.on /\ htimer.count > 0
              /\ htimer.count + lap = htimer.period

(* A line's end takes one off the counter, or starts a lap at the period.  *)
LEMMA LapOfLine == IInv /\ LapInv /\ EndLine => LapInv'
<1> SUFFICES ASSUME IInv, LapInv, EndLine PROVE LapInv'
  OBVIOUS
<1>1. htimer \in Timer /\ lap \in Nat \cup {0 - 1}
  BY DEF IInv, TypeOK, BusTypeOK
<1>2. htimer' = IF HTicks THEN Ticked(htimer) ELSE htimer
  BY DEF EndLine, LineEvent
<1>3. CASE HExpires
  <2>1. lap' = IF Repeats(htimer) THEN 0 ELSE 0 - 1
    BY <1>3 DEF EndLine
  <2>2. CASE Repeats(htimer)
    <3>1. htimer' = [htimer EXCEPT !.count = htimer.period]
      BY <1>1, <1>2, <1>3, <2>2 DEF HExpires, Ticked, Reload, Repeats, Timer
    <3>2. htimer'.on /\ htimer'.count = htimer.period /\ htimer'.period = htimer.period
      BY <1>1, <2>2, <3>1 DEF Repeats, Timer
    <3>3. htimer.period \in Nat /\ htimer.period > 0
      BY <1>1, <2>2 DEF Repeats, Timer
    <3>4. htimer.period + 0 = htimer.period
      BY <3>3
    <3> QED
      BY <2>1, <2>2, <3>2, <3>3, <3>4 DEF LapInv
  <2>3. CASE ~Repeats(htimer)
    <3>1. lap' = 0 - 1
      BY <2>1, <2>3
    <3> QED
      BY <3>1 DEF LapInv
  <2> QED
    BY <2>2, <2>3
<1>4. CASE ~HExpires /\ lap >= 0
  <2>1. htimer.on /\ htimer.count > 0 /\ htimer.count + lap = htimer.period
    BY <1>4 DEF LapInv
  <2>2. HTicks /\ htimer.count # 1
    BY <1>4, <2>1 DEF HTicks, HExpires
  <2>3. htimer.count # 0
    BY <2>1
  <2>4. htimer' = [htimer EXCEPT !.count = htimer.count - 1]
    BY <1>1, <1>2, <2>2, <2>3 DEF Ticked, Timer
  <2>5. /\ htimer'.on /\ htimer'.count = htimer.count - 1
        /\ htimer'.period = htimer.period
    BY <1>1, <2>1, <2>4 DEF Timer
  <2>6. lap' = lap + 1
    BY <1>4 DEF EndLine
  <2>7. htimer.count \in Nat /\ lap \in Nat /\ htimer.period \in Nat
    BY <1>1, <1>4 DEF Timer
  <2>8. htimer.count - 1 > 0 /\ (htimer.count - 1) + (lap + 1) = htimer.period
    BY <2>1, <2>2, <2>7
  <2> QED
    BY <2>5, <2>6, <2>8 DEF LapInv
<1>5. CASE ~HExpires /\ ~(lap >= 0)
  <2>1. lap' = lap
    BY <1>5 DEF EndLine
  <2> QED
    BY <1>5, <2>1 DEF LapInv
<1> QED
  BY <1>3, <1>4, <1>5

(* A game that writes the timer's ports loads it afresh or ends the lap.   *)
LEMMA LapOfWrite ==
  ASSUME IInv, LapInv, NEW kind, Bus(kind)
  PROVE  LapInv'
<1>1. CASE htimer' = htimer /\ lap' = lap
  BY <1>1 DEF LapInv
<1>2. CASE kind = "port" /\ PortWrite /\ UNCHANGED lap
  <2>1. htimer' = htimer
    BY <1>2 DEF PortWrite, WriteEnable, ClearCause, ReadCause, StartGdma, WriteSerial
  <2> QED
    BY <1>1, <1>2, <2>1
<1>3. CASE TimerWrite
  <2>1. lap' = IF htimer' = htimer THEN lap
               ELSE IF FreshlyLoaded(htimer') THEN 0 ELSE 0 - 1
    BY <1>3 DEF TimerWrite
  <2>2. CASE htimer' # htimer /\ FreshlyLoaded(htimer')
    <3>1. lap' = 0
      BY <2>1, <2>2
    <3>2. htimer' \in Timer
      BY BusTyped DEF IInv, TypeOK, BusTypeOK
    <3>3. htimer'.on /\ htimer'.count > 0 /\ htimer'.count = htimer'.period
      BY <2>2 DEF FreshlyLoaded
    <3>4. PICK t \in Timer : htimer' = t
      BY <3>2
    <3>5. t.count + 0 = t.count
      BY <3>4 DEF Timer
    <3> QED
      BY <3>1, <3>3, <3>4, <3>5 DEF LapInv
  <2>3. CASE htimer' # htimer /\ ~FreshlyLoaded(htimer')
    <3>1. lap' = 0 - 1
      BY <2>1, <2>3
    <3> QED
      BY <3>1 DEF LapInv
  <2> QED
    BY <1>1, <2>1, <2>2, <2>3
<1>4. CASE UNCHANGED <<busVars, lap>>
  BY <1>1, <1>4 DEF busVars
<1> QED
  BY <1>2, <1>3, <1>4 DEF Bus

(* A line timer that is on and left alone expires after `period` lines,    *)
(* whatever its period, in frames of any length.                           *)
THEOREM TimerTrue == Spec => TimerKeepsTime
<1>1. Init => LapInv
  <2>1. ~(0 - 1 >= 0)
    OBVIOUS
  <2> QED
    BY <2>1 DEF Init, LapInv
<1>2. IInv /\ LapInv /\ [Next]_vars => LapInv'
  <2> SUFFICES ASSUME IInv, LapInv, [Next]_vars PROVE LapInv'
    OBVIOUS
  <2>1. CASE CpuTurn
    BY <2>1, LapOfWrite DEF CpuTurn
  <2>2. CASE EndLine
    BY <2>2, LapOfLine
  <2>3. CASE \/ BeginFrame \/ SaveAndLoad \/ ServiceLine \/ FrameEvent \/ ServiceFrame
             \/ EndFrame \/ UNCHANGED vars
    <3>1. htimer' = htimer /\ lap' = lap
      BY <2>3 DEF BeginFrame, SaveAndLoad, ServiceLine, FrameEvent, VBlankEvent, ServiceFrame,
                  EndFrame, vars, busVars, history
    <3> QED
      BY <3>1 DEF LapInv
  <2> QED
    BY <2>1, <2>2, <2>3 DEF Next
<1>3. LapInv /\ IInv => (pc = "cpu" /\ pc' = "service" /\ HExpires /\ lap >= 0
                            => lap + 1 = htimer.period)
  BY DEF LapInv, HExpires, IInv, TypeOK, BusTypeOK, Timer
<1> QED
  BY <1>1, <1>2, <1>3, Invariant, PTL DEF Spec, TimerKeepsTime
=============================================================================
