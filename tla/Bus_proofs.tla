----------------------------- MODULE Bus_proofs -----------------------------
(***************************************************************************)
(* The devices on the bus.  The cartridge's EEPROM implements the word     *)
(* memory of WordMemory, and the console's keeps its owner data from the   *)
(* write control, for chips of any size and any words.  A sound transfer   *)
(* stays in its block, for every size of the address space, every block    *)
(* and every rate; a general DMA burst copies what it was started on.  The *)
(* real-time clock counts seconds as the calendar does, from every moment. *)
(***************************************************************************)
EXTENDS InternalEeprom, SoundDma, GeneralDma, Rtc, Arithmetic

Places == 0 .. CartWords - 1
Chips(places) == [cells : [places -> Word], input : Word, output : Word, enabled : BOOLEAN]

(* What a command does to a chip: nothing, or the step of a word memory.   *)
Same(c, d) == d.cells = c.cells /\ d.enabled = c.enabled /\ d.output = c.output
Reads(places, c, d) ==
  d.cells = c.cells /\ d.enabled = c.enabled /\ \E a \in places : d.output = c.cells[a]
Changes(places, c, d) ==
  /\ c.enabled /\ d.enabled = c.enabled /\ d.output = c.output
  /\ \E w \in Word : \/ \E a \in places : d.cells = [c.cells EXCEPT ![a] = w]
                     \/ d.cells = [a \in places |-> w]
Locks(c, d) == d.cells = c.cells /\ d.output = c.output

Outcome(places, c, d) ==
  /\ d \in Chips(places)
  /\ Same(c, d) \/ Reads(places, c, d) \/ Changes(places, c, d) \/ Locks(c, d)

(* A chip whose cells become new ones only while it is enabled.            *)
LEMMA IfEnabledOutcome ==
  ASSUME NEW places, NEW c \in Chips(places), NEW w \in Word, NEW new \in [places -> Word],
         \/ \E a \in places : new = [c.cells EXCEPT ![a] = w]
         \/ new = [a \in places |-> w]
  PROVE  Outcome(places, c, IfEnabled(c, new))
<1>1. CASE c.enabled
  BY <1>1 DEF Outcome, Changes, IfEnabled, Chips
<1>2. CASE ~c.enabled
  BY <1>2 DEF Outcome, Same, IfEnabled, Chips
<1> QED BY <1>1, <1>2

(* The extended commands, for any sub-opcode.                              *)
LEMMA ExtendedOutcome ==
  ASSUME NEW places, NEW c \in Chips(places), NEW sub
  PROVE  Outcome(places, c, Extended(c, sub))
<1>1. CASE sub \in {0, 3}
  BY <1>1 DEF Extended, Outcome, Locks, Chips
<1>2. CASE sub \notin {0, 3}
  <2> DEFINE w == IF sub = 1 THEN c.input ELSE Erased
             new == [a \in places |-> w]
  <2>1. w \in Word /\ new \in [places -> Word]
    BY DEF Chips, Word
  <2>2. DOMAIN c.cells = places
    BY DEF Chips
  <2>3. Extended(c, sub) = IfEnabled(c, new)
    BY <1>2, <2>2 DEF Extended
  <2> QED BY <2>1, <2>3, IfEnabledOutcome
<1> QED BY <1>1, <1>2

(* The commands with an address.                                           *)
LEMMA AddressedOutcome ==
  ASSUME NEW places, NEW c \in Chips(places), NEW op, NEW a \in places
  PROVE  Outcome(places, c, Addressed(c, op, a))
<1>1. CASE op = 2
  BY <1>1 DEF Addressed, Outcome, Reads, Chips
<1>2. CASE op # 2
  <2> DEFINE w == IF op = 1 THEN c.input ELSE Erased
             new == [c.cells EXCEPT ![a] = w]
  <2>1. w \in Word /\ new \in [places -> Word]
    BY DEF Chips, Word
  <2>2. Addressed(c, op, a) = IfEnabled(c, new)
    BY <1>2 DEF Addressed
  <2> QED BY <2>1, <2>2, IfEnabledOutcome
<1> QED BY <1>1, <1>2

LEMMA ExecuteOutcome ==
  ASSUME NEW places, NEW c \in Chips(places), NEW cmd, NEW bits
  PROVE  Outcome(places, c, Execute(c, cmd, bits))
<1>1. Outcome(places, c, c)
  BY DEF Outcome, Same
<1>2. DOMAIN c.cells = places
  BY DEF Chips
<1> QED BY <1>1, <1>2, ExtendedOutcome, AddressedOutcome DEF Execute

-----------------------------------------------------------------------------

(* The chip, its port and its control bit are always well typed.           *)
LEMMA TypeInit == EepromInit => EepromTypeOK
<1>1. (CHOOSE d \in Data : TRUE) \in Word
  BY EepromAssumption DEF Word
<1> QED BY <1>1 DEF EepromInit, EepromTypeOK, Chip, Word

LEMMA LatchedChip ==
  ASSUME NEW places, NEW c \in Chips(places), NEW w \in Word
  PROVE  /\ Latched(c, w) \in Chips(places)
         /\ \A d : Outcome(places, Latched(c, w), d) => Outcome(places, c, d)
<1>1. /\ Latched(c, w) \in Chips(places) /\ Latched(c, w).cells = c.cells
      /\ Latched(c, w).output = c.output /\ Latched(c, w).enabled = c.enabled
  BY DEF Latched, Chips
<1> QED BY <1>1 DEF Outcome, Same, Reads, Changes, Locks

(* What a control write does: an outcome of the chip, shown or not.        *)
LEMMA ControlOutcome ==
  ASSUME EepromTypeOK, NEW op \in {0, 1, 2, 4, 8}, NEW cmd, CartControl(op, cmd)
  PROVE  /\ Outcome(Places, chip, chip')
         /\ dataPort' \in {dataPort, chip'.output}
         /\ controlDone' \in {0, 1}
<1>1. chip \in Chips(Places) /\ dataPort \in Word
  BY DEF EepromTypeOK, Chips, Places
<1>2. Outcome(Places, chip, chip)
  BY <1>1 DEF Outcome, Same
<1>3. Outcome(Places, chip, Execute(chip, cmd, CartBits))
  BY <1>1, ExecuteOutcome
<1>4. Outcome(Places, chip, Execute(Latched(chip, dataPort), cmd, CartBits))
  BY <1>1, ExecuteOutcome, LatchedChip
<1>5. Outcome(Places, chip, chip')
  BY <1>2, <1>3, <1>4 DEF CartControl
<1> QED BY <1>5 DEF CartControl

LEMMA TypeStep == EepromTypeOK /\ [EepromNext]_eepromVars => EepromTypeOK'
<1> SUFFICES ASSUME EepromTypeOK, [EepromNext]_eepromVars PROVE EepromTypeOK'
  OBVIOUS
<1>1. CASE UNCHANGED eepromVars
  BY <1>1 DEF eepromVars, EepromTypeOK
<1>2. ASSUME NEW d \in Data, WriteDataPort(d) PROVE EepromTypeOK'
  BY <1>2 DEF WriteDataPort, EepromTypeOK, Word
<1>3. ASSUME NEW op \in {0, 1, 2, 4, 8}, NEW cmd \in CartCommands, CartControl(op, cmd)
      PROVE  EepromTypeOK'
  <2>1. chip' \in Chips(Places)
    BY <1>3, ControlOutcome DEF Outcome
  <2>2. dataPort' \in Word /\ controlDone' \in {0, 1}
    BY <1>3, <2>1, ControlOutcome DEF EepromTypeOK, Chips
  <2> QED BY <2>1, <2>2 DEF EepromTypeOK, Chips, Places
<1> QED BY <1>1, <1>2, <1>3 DEF EepromNext

(* Type correctness, for every size of chip.                               *)
THEOREM EepromTyped == EepromSpec => []EepromTypeOK
<1> QED BY TypeInit, TypeStep, PTL DEF EepromSpec

-----------------------------------------------------------------------------

LEMMA MemoryStep ==
  EepromTypeOK /\ [EepromNext]_eepromVars => [Memory!MemoryNext]_(Memory!memoryVars)
<1> SUFFICES ASSUME EepromTypeOK, [EepromNext]_eepromVars
             PROVE  [Memory!MemoryNext]_(Memory!memoryVars)
  OBVIOUS
<1>1. CASE UNCHANGED eepromVars
  BY <1>1 DEF eepromVars, Memory!memoryVars
<1>2. ASSUME NEW d \in Data, WriteDataPort(d) PROVE Memory!MemoryNext
  BY <1>2 DEF WriteDataPort, Memory!MemoryNext, Memory!Present, Word
<1>3. ASSUME NEW op \in {0, 1, 2, 4, 8}, NEW cmd \in CartCommands, CartControl(op, cmd)
      PROVE  Memory!MemoryNext
  <2>1. Outcome(Places, chip, chip') /\ dataPort' \in {dataPort, chip'.output}
    BY <1>3, ControlOutcome
  <2>2. chip' \in Chips(Places)
    BY <2>1 DEF Outcome
  <2>3. chip \in Chips(Places)
    BY DEF EepromTypeOK, Chips, Places
  <2>4. (~chip.enabled)' \in BOOLEAN
    BY DEF Chips
  <2>5. CASE Same(chip, chip')
    <3>1. Memory!Lock
      BY <2>1, <2>4, <2>5 DEF Same, Memory!Lock
    <3> QED BY <3>1 DEF Memory!MemoryNext
  <2>6. CASE Reads(Places, chip, chip')
    <3>1. Memory!Fetch
      BY <2>1, <2>6 DEF Reads, Memory!Fetch, Places
    <3> QED BY <3>1 DEF Memory!MemoryNext
  <2>7. CASE Changes(Places, chip, chip')
    <3>1. Memory!Change
      BY <2>1, <2>7 DEF Changes, Memory!Change, Places
    <3> QED BY <3>1 DEF Memory!MemoryNext
  <2>8. CASE Locks(chip, chip')
    <3>1. Memory!Lock
      BY <2>1, <2>4, <2>8 DEF Locks, Memory!Lock
    <3> QED BY <3>1 DEF Memory!MemoryNext
  <2> QED BY <2>1, <2>5, <2>6, <2>7, <2>8 DEF Outcome
<1> QED BY <1>1, <1>2, <1>3 DEF EepromNext

(* The cartridge's EEPROM implements the word memory: whatever commands a  *)
(* game sends, it never changes while locked, an operation changes one     *)
(* word or all, and the data port shows what was written there or read.    *)
THEOREM EepromImplements == EepromSpec => EepromIsMemory
<1>1. EepromInit => Memory!MemoryInit(Erased)
  BY EepromAssumption DEF EepromInit, Memory!MemoryInit, Chip, Word
<1> QED BY <1>1, MemoryStep, EepromTyped, PTL DEF EepromSpec, EepromIsMemory

-----------------------------------------------------------------------------
(* The console's EEPROM.                                                   *)

ConsolePlaces == 0 .. ConsoleWords - 1

LEMMA ConsoleInitTyped == ConsoleInit => ConsoleTypeOK
<1>1. (CHOOSE d \in Data : TRUE) \in Word
  BY EepromAssumption DEF Word
<1> QED BY <1>1 DEF ConsoleInit, ConsoleTypeOK, Chip, Word

LEMMA ConsoleChip ==
  ASSUME ConsoleTypeOK, NEW cmd
  PROVE  /\ console \in Chips(ConsolePlaces)
         /\ RunCommand(console, cmd) \in Chips(ConsolePlaces)
         /\ \A d \in Data : Latched(console, d) \in Chips(ConsolePlaces)
         /\ \A d \in Data : Written(d, cmd) \in Chips(ConsolePlaces)
<1>1. console \in Chips(ConsolePlaces)
  BY DEF ConsoleTypeOK, Chips, ConsolePlaces
<1>2. \A c \in Chips(ConsolePlaces) : RunCommand(c, cmd) \in Chips(ConsolePlaces)
  BY ExecuteOutcome DEF RunCommand, Outcome
<1>3. \A d \in Data : Latched(console, d) \in Chips(ConsolePlaces)
  BY <1>1, LatchedChip DEF Word
<1> QED BY <1>1, <1>2, <1>3 DEF Written

LEMMA ConsoleStepTyped == ConsoleTypeOK /\ [ConsoleNext]_consoleVars => ConsoleTypeOK'
<1> SUFFICES ASSUME ConsoleTypeOK, [ConsoleNext]_consoleVars PROVE ConsoleTypeOK'
  OBVIOUS
<1> DEFINE Statuses == [done : BOOLEAN, delay : {0, 1}, fault : BOOLEAN]
<1>0. console \in Chips(ConsolePlaces) /\ status \in Statuses
  BY DEF ConsoleTypeOK, Chips, ConsolePlaces
<1>1. /\ StatusAt(FALSE, 0) \in Statuses /\ StatusAt(FALSE, 1) \in Statuses
      /\ StatusAt(TRUE, 0) \in Statuses /\ [StatusAt(TRUE, 0) EXCEPT !.fault = TRUE] \in Statuses
  BY <1>0 DEF StatusAt
<1>2. ASSUME NEW cmd, ControlRead(cmd) \/ ControlShort(cmd) PROVE ConsoleTypeOK'
  <2>1. console' \in Chips(ConsolePlaces)
    BY <1>2, ConsoleChip DEF ControlRead, ControlShort
  <2>2. status' \in Statuses
    BY <1>1, <1>2 DEF ControlRead, ControlShort
  <2> QED BY <2>1, <2>2 DEF ConsoleTypeOK, Chips, ConsolePlaces
<1>3. ASSUME NEW cmd, NEW d \in Data, ControlWrite(d, cmd) PROVE ConsoleTypeOK'
  BY <1>1, <1>3, ConsoleChip DEF ControlWrite, ConsoleTypeOK, Chips, ConsolePlaces
<1>4. CASE ControlOther
  BY <1>1, <1>4 DEF ControlOther, ConsoleTypeOK
<1>5. CASE PollStatus
  BY <1>0, <1>1, <1>5 DEF PollStatus, ConsoleTypeOK
<1>6. CASE UNCHANGED consoleVars
  BY <1>6 DEF consoleVars, ConsoleTypeOK
<1> QED BY <1>2, <1>3, <1>4, <1>5, <1>6 DEF ConsoleNext

(* A single-word command reaches the word it addresses and no other.       *)
LEMMA SingleWord ==
  ASSUME NEW places, NEW c \in Chips(places), NEW cmd, NEW bits, NEW a \in places,
         Opcode(cmd, bits) # 0, Address(cmd, bits) # a
  PROVE  Execute(c, cmd, bits).cells[a] = c.cells[a]
<1> DEFINE op == Opcode(cmd, bits)
           b == Address(cmd, bits)
<1>1. CASE ~Starts(cmd, bits) \/ b \notin DOMAIN c.cells
  BY <1>1 DEF Execute
<1>2. CASE Starts(cmd, bits) /\ b \in DOMAIN c.cells
  <2>1. Execute(c, cmd, bits) = Addressed(c, op, b)
    BY <1>2 DEF Execute
  <2> HIDE DEF op, b
  <2>2. Addressed(c, op, b).cells[a] = c.cells[a]
    <3>1. CASE op = 2
      BY <3>1 DEF Addressed, Chips
    <3>2. CASE op # 2
      <4> DEFINE w == IF op = 1 THEN c.input ELSE Erased
                 new == [c.cells EXCEPT ![b] = w]
      <4>1. new[a] = c.cells[a]
        BY DEF Chips, b
      <4>2. IfEnabled(c, new).cells = new \/ IfEnabled(c, new).cells = c.cells
        <5> HIDE DEF new
        <5> QED BY DEF IfEnabled, Chips
      <4>3. Addressed(c, op, b) = IfEnabled(c, new)
        BY <3>2 DEF Addressed
      <4> QED BY <4>1, <4>2, <4>3
    <3> QED BY <3>1, <3>2
  <2> QED BY <2>1, <2>2
<1> QED BY <1>1, <1>2

(* A write control either meets the protection or addresses a word below   *)
(* the owner data.                                                         *)
LEMMA WriteSpares ==
  ASSUME ConsoleTypeOK, NEW d \in Data, NEW cmd,
         Opcode(cmd, CommandBits(cmd)) # 0, ControlWrite(d, cmd),
         NEW a \in OwnerWord .. ConsoleWords - 1
  PROVE  console'.cells[a] = console.cells[a]
<1> DEFINE bits == CommandBits(cmd)
           b == Address(cmd, bits)
           latched == Latched(console, d)
<1>1. latched \in Chips(ConsolePlaces) /\ latched.cells = console.cells
  BY ConsoleChip DEF Latched, Chips
<1>2. a \in ConsolePlaces /\ a >= OwnerWord
  BY ConsoleAssumption DEF ConsolePlaces
<1>3. CASE TouchesOwner(cmd)
  BY <1>1, <1>3 DEF ControlWrite, Written
<1>4. CASE ~TouchesOwner(cmd)
  <2>1. b # a
    BY <1>2, <1>4 DEF TouchesOwner
  <2>2. console' = Execute(latched, cmd, bits)
    BY <1>4 DEF ControlWrite, Written, RunCommand
  <2> HIDE DEF latched, bits
  <2>3. console'.cells[a] = latched.cells[a]
    BY <1>1, <1>2, <2>1, <2>2, SingleWord DEF bits
  <2> QED BY <1>1, <2>3
<1> QED BY <1>3, <1>4

(* No single-word command of the write control changes the owner data,     *)
(* whatever its width, for every size of the chip and of the data.         *)
THEOREM OwnerSpared == ConsoleSpec => WritesSpareOwner
<1> DEFINE Spares ==
      (\E a \in OwnerWord .. ConsoleWords - 1 : console'.cells[a] # console.cells[a]) =>
        \A d \in Data, cmd \in ConsoleCommands :
          Opcode(cmd, CommandBits(cmd)) # 0 => ~ControlWrite(d, cmd)
<1>1. ConsoleTypeOK => Spares
  BY WriteSpares
<1>2. ConsoleTypeOK => [Spares]_consoleVars
  BY <1>1
<1> HIDE DEF Spares
<1>3. ConsoleSpec => [][Spares]_consoleVars
  BY <1>2, ConsoleInitTyped, ConsoleStepTyped, PTL DEF ConsoleSpec
<1> QED BY <1>3, PTL DEF Spares, WritesSpareOwner

-----------------------------------------------------------------------------
(* Sound DMA.                                                              *)


Blocks == [running : BOOLEAN, clock : Nat, source : SdmaAddress, counter : SdmaAddress,
              sourceShadow : SdmaAddress, counterShadow : SdmaAddress]

(* Where a transfer is that has played so many bytes one way.              *)
Place(shadow, done, way) ==
  (shadow + IF way = "up" THEN done ELSE SdmaSpace - done) % SdmaSpace

OnBlock(s, way) ==
  /\ s.counter \in 1 .. s.counterShadow
  /\ way # "both" => s.source = Place(s.sourceShadow, s.counterShadow - s.counter, way)

LEMMA StaysIsOnBlock ==
  /\ StaysOnBlock <=> (sdma.running => OnBlock(sdma, heading))
  /\ StaysOnBlock' <=> (sdma'.running => OnBlock(sdma', heading'))
BY DEF StaysOnBlock, OnBlock, Place

(* A turn of the address space changes nothing.                            *)
LEMMA ModTurn ==
  ASSUME NEW d \in Nat \ {0}, NEW x \in Nat
  PROVE  (x + d) % d = x % d
<1> DEFINE r == x % d
<1>1. r \in 0 .. d - 1
  BY DivMod
<1>2. (r + d) % d = (x + d) % d
  BY ModPlus
<1> HIDE DEF r
<1>3. (r + d) % d = r
  BY <1>1, r + d \in d .. 2 * d - 1, r + d - d = r, ModOver
<1> QED BY <1>2, <1>3 DEF r

LEMMA PlaceZero ==
  ASSUME NEW shadow \in SdmaAddress, NEW way
  PROVE  Place(shadow, 0, way) = shadow
<1>1. SdmaSpace \in Nat \ {0} /\ shadow \in 0 .. SdmaSpace - 1
  BY SoundDmaAssumption DEF SdmaAddress
<1>2. shadow % SdmaSpace = shadow
  BY <1>1, ModSmall
<1>3. (shadow + SdmaSpace) % SdmaSpace = shadow
  BY <1>1, <1>2, shadow \in Nat, ModTurn
<1>4. shadow + 0 = shadow /\ SdmaSpace - 0 = SdmaSpace
  BY <1>1
<1> QED BY <1>2, <1>3, <1>4 DEF Place

(* One byte more moves the place by one.                                   *)
LEMMA PlaceNext ==
  ASSUME NEW shadow \in SdmaAddress, NEW done \in Nat, done + 1 <= SdmaSpace
  PROVE  /\ (Place(shadow, done, "up") + 1) % SdmaSpace = Place(shadow, done + 1, "up")
         /\ (Place(shadow, done, "down") + (SdmaSpace - 1)) % SdmaSpace
              = Place(shadow, done + 1, "down")
<1>1. SdmaSpace \in Nat \ {0} /\ shadow \in Nat
  BY SoundDmaAssumption DEF SdmaAddress
<1>2. (Place(shadow, done, "up") + 1) % SdmaSpace = Place(shadow, done + 1, "up")
  <2>1. (((shadow + done) % SdmaSpace) + 1) % SdmaSpace = ((shadow + done) + 1) % SdmaSpace
    BY <1>1, shadow + done \in Nat, ModPlus
  <2>2. (shadow + done) + 1 = shadow + (done + 1)
    BY <1>1
  <2> QED BY <2>1, <2>2 DEF Place
<1>3. (Place(shadow, done, "down") + (SdmaSpace - 1)) % SdmaSpace = Place(shadow, done + 1, "down")
  <2> DEFINE x == shadow + (SdmaSpace - done)
             y == shadow + (SdmaSpace - (done + 1))
  <2>1. x \in Nat /\ y \in Nat /\ SdmaSpace - 1 \in Nat /\ x + (SdmaSpace - 1) = y + SdmaSpace
    BY <1>1
  <2> HIDE DEF x, y
  <2>2. ((x % SdmaSpace) + (SdmaSpace - 1)) % SdmaSpace = (x + (SdmaSpace - 1)) % SdmaSpace
    BY <1>1, <2>1, ModPlus
  <2>3. (y + SdmaSpace) % SdmaSpace = y % SdmaSpace
    BY <1>1, <2>1, ModTurn
  <2>4. ((x % SdmaSpace) + (SdmaSpace - 1)) % SdmaSpace = y % SdmaSpace
    BY <2>1, <2>2, <2>3
  <2> QED BY <2>4 DEF x, y, Place
<1> QED BY <1>2, <1>3

-----------------------------------------------------------------------------
(* The parts of a cycle.                                                   *)

(* The transfer a cycle works on is on its block, going on or just latched.*)
StartWay == IF sdma.running THEN heading ELSE Way(ctrl)

LEMMA StartOnBlock ==
  ASSUME SdmaTypeOK, StaysOnBlock, ~Refuses
  PROVE  /\ SdmaStart \in Blocks /\ SdmaStart.running
         /\ OnBlock(SdmaStart, StartWay) /\ StartWay \in {"up", "down", "both"}
<1>1. CASE sdma.running
  BY <1>1, StaysIsOnBlock DEF SdmaStart, StartWay, SdmaTypeOK, Blocks
<1>2. CASE ~ sdma.running
  <2>1. counterPort \in SdmaAddress /\ sourcePort \in SdmaAddress /\ counterPort # 0
    BY <1>2 DEF Refuses, SdmaTypeOK
  <2>2. SdmaStart = [running |-> TRUE, clock |-> 0, source |-> sourcePort, counter |-> counterPort,
                     sourceShadow |-> sourcePort, counterShadow |-> counterPort]
    BY <1>2 DEF SdmaStart
  <2>3. counterPort \in 1 .. counterPort /\ counterPort - counterPort = 0
    BY <2>1, SoundDmaAssumption DEF SdmaAddress
  <2>4. sourcePort = Place(sourcePort, 0, StartWay)
    BY <2>1, PlaceZero
  <2>5. OnBlock(SdmaStart, StartWay)
    BY <2>2, <2>3, <2>4 DEF OnBlock
  <2>6. SdmaStart \in Blocks /\ SdmaStart.running
    BY <2>1, <2>2 DEF Blocks
  <2>7. StartWay \in {"up", "down", "both"}
    BY <1>2 DEF StartWay, Way
  <2> QED BY <2>5, <2>6, <2>7
<1> QED BY <1>1, <1>2

(* A byte moves the transfer along its block or back to its start.         *)
LEMMA StepOnBlock ==
  ASSUME ctrl \in Controls, NEW s \in Blocks, NEW way \in {"up", "down", "both"},
         OnBlock(s, way)
  PROVE  /\ Step(s) \in Blocks
         /\ Step(s).running => OnBlock(Step(s), IF way = Way(ctrl) THEN way ELSE "both")
<1> DEFINE m == NextByte(s)
           done == s.counterShadow - s.counter
<1>1. /\ SdmaSpace \in Nat \ {0}
      /\ s.running \in BOOLEAN /\ s.clock \in Nat
      /\ s.source \in 0 .. SdmaSpace - 1 /\ s.counter \in 0 .. SdmaSpace - 1
      /\ s.sourceShadow \in SdmaAddress /\ s.counterShadow \in 0 .. SdmaSpace - 1
  BY SoundDmaAssumption DEF Blocks, SdmaAddress
<1>2. s.counter \in 1 .. s.counterShadow
  BY DEF OnBlock
<1>3. (s.counter + SdmaSpace - 1) % SdmaSpace = s.counter - 1
  <2> DEFINE c == s.counter
  <2>1. c + SdmaSpace - 1 \in SdmaSpace .. 2 * SdmaSpace - 1 /\ (c + SdmaSpace - 1) - SdmaSpace = c - 1
    BY <1>1, <1>2
  <2> QED BY <1>1, <2>1, ModOver
<1>4. /\ m.running = s.running /\ m.clock = s.clock /\ m.counter = s.counter - 1
      /\ m.sourceShadow = s.sourceShadow /\ m.counterShadow = s.counterShadow
      /\ m.source = (s.source + IF ctrl.decrement THEN SdmaSpace - 1 ELSE 1) % SdmaSpace
  BY <1>3 DEF NextByte, Blocks
<1>5. m.source \in SdmaAddress
  <2> DEFINE move == IF ctrl.decrement THEN SdmaSpace - 1 ELSE 1
  <2>1. s.source + move \in Nat
    BY <1>1
  <2> QED BY <1>1, <1>4, <2>1, DivMod DEF SdmaAddress
<1>6. m \in Blocks
  <2>1. m.source \in SdmaAddress /\ m.counter \in SdmaAddress
    BY <1>1, <1>2, <1>4, <1>5 DEF SdmaAddress
  <2>2. m = [s EXCEPT !.source = m.source, !.counter = m.counter]
    <3> DEFINE a == (s.source + IF ctrl.decrement THEN SdmaSpace - 1 ELSE 1) % SdmaSpace
               c == (s.counter + SdmaSpace - 1) % SdmaSpace
    <3>1. m = [s EXCEPT !.source = a, !.counter = c]
      BY DEF NextByte
    <3> HIDE DEF a, c, m
    <3> QED BY <3>1 DEF Blocks
  <2> HIDE DEF m
  <2> QED BY <2>1, <2>2 DEF Blocks
<1>7. ASSUME way = Way(ctrl)
      PROVE  m.source = Place(s.sourceShadow, done + 1, way)
  <2>1. done \in Nat /\ done + 1 <= SdmaSpace
    BY <1>1, <1>2
  <2>2. s.source = Place(s.sourceShadow, done, way)
    BY <1>7 DEF OnBlock, Way
  <2> HIDE DEF m, done
  <2>3. CASE ctrl.decrement
    BY <1>1, <1>4, <1>7, <2>1, <2>2, <2>3, PlaceNext DEF Way
  <2>4. CASE ~ ctrl.decrement
    BY <1>1, <1>4, <1>7, <2>1, <2>2, <2>4, PlaceNext DEF Way
  <2> QED BY <2>3, <2>4
<1> DEFINE way2 == IF way = Way(ctrl) THEN way ELSE "both"
<1>8. CASE m.counter # 0
  <2>1. Step(s) = m
    BY <1>8 DEF Step
  <2>2. m.counter \in 1 .. m.counterShadow /\ m.counterShadow - m.counter = done + 1
    BY <1>1, <1>2, <1>4, <1>8
  <2> HIDE DEF m, done
  <2>3. way2 # "both" => m.source = Place(m.sourceShadow, m.counterShadow - m.counter, way2)
    BY <1>4, <1>7, <2>2
  <2> QED BY <1>6, <2>1, <2>2, <2>3 DEF OnBlock
<1>9. CASE m.counter = 0 /\ ctrl.repeat
  <2> HIDE DEF m, done
  <2>1. Step(s) = [m EXCEPT !.source = m.sourceShadow, !.counter = m.counterShadow]
    BY <1>9 DEF Step, m
  <2>2. /\ Step(s) \in Blocks
        /\ Step(s).source = s.sourceShadow /\ Step(s).sourceShadow = s.sourceShadow
        /\ Step(s).counter = s.counterShadow /\ Step(s).counterShadow = s.counterShadow
    BY <1>4, <1>6, <2>1 DEF Blocks
  <2>3. s.counterShadow \in 1 .. s.counterShadow /\ s.counterShadow - s.counterShadow = 0
    BY <1>1, <1>2
  <2>4. s.sourceShadow = Place(s.sourceShadow, 0, way2)
    BY <1>1, PlaceZero
  <2> QED BY <2>2, <2>3, <2>4 DEF OnBlock
<1>10. CASE m.counter = 0 /\ ~ ctrl.repeat
  <2> HIDE DEF m, done
  <2>1. Step(s) = [m EXCEPT !.running = FALSE, !.clock = 0]
    BY <1>10 DEF Step, m
  <2>2. Step(s) \in Blocks /\ Step(s).running = FALSE
    <3> DEFINE off == FALSE
    <3>1. Step(s) = [m EXCEPT !.running = off, !.clock = 0] /\ off \in BOOLEAN /\ off = FALSE
      BY <2>1
    <3> HIDE DEF off
    <3>2. Step(s) = [running |-> off, clock |-> 0, source |-> m.source, counter |-> m.counter,
                     sourceShadow |-> m.sourceShadow, counterShadow |-> m.counterShadow]
      BY <1>6, <3>1 DEF Blocks
    <3>3. Step(s).running = off
      BY <3>2
    <3>4. Step(s) \in Blocks
      BY <1>6, <3>1, <3>2, 0 \in Nat DEF Blocks
    <3> QED BY <3>1, <3>3, <3>4
  <2> QED BY <2>2
<1> QED BY <1>8, <1>9, <1>10

-----------------------------------------------------------------------------
SdmaInv == SdmaTypeOK /\ StaysOnBlock

LEMMA CycleKeeps ==
  ASSUME SdmaInv, Cycle
  PROVE  SdmaInv'
<1> DEFINE start == SdmaStart
           due == [start EXCEPT !.clock = @ + 1 - ByteTime]
<1>0. /\ SdmaTypeOK /\ StaysOnBlock /\ ~Refuses /\ ctrl \in Controls
      /\ sourcePort \in SdmaAddress /\ counterPort \in SdmaAddress
      /\ colorMode' = colorMode /\ colorMode \in BOOLEAN
  BY DEF SdmaInv, SdmaTypeOK, Cycle
<1>1. /\ start \in Blocks /\ start.running
      /\ OnBlock(start, StartWay) /\ StartWay \in {"up", "down", "both"}
  BY <1>0, StartOnBlock
<1>2. ByteTime \in Nat
  <2>1. ctrl.rate \in Nat /\ ByteCycles \in Nat
    BY <1>0, SoundDmaAssumption DEF Controls
  <2> QED BY <2>1 DEF ByteTime
<1>3. heading' = IF Counts \/ ctrl.hold \/ StartWay = Way(ctrl) THEN StartWay ELSE "both"
  BY DEF Cycle, StartWay
<1>4. CASE Counts
  <2>1. sdma' = [start EXCEPT !.clock = @ + 1] /\ heading' = StartWay /\ UNCHANGED <<portVars, ctrl>>
    BY <1>3, <1>4 DEF Cycle
  <2> HIDE DEF start
  <2>2. sdma' \in Blocks /\ OnBlock(sdma', StartWay)
    BY <1>1, <2>1 DEF Blocks, OnBlock
  <2> QED BY <1>0, <1>1, <2>1, <2>2, StaysIsOnBlock DEF SdmaInv, SdmaTypeOK, Blocks, portVars
<1>5. CASE ~Counts
  <2>1. start.clock + 1 - ByteTime \in Nat
    BY <1>1, <1>2, <1>5 DEF Counts, Blocks
  <2>2. due \in Blocks /\ due.running /\ OnBlock(due, StartWay)
    <3> HIDE DEF start
    <3> QED BY <1>1, <2>1 DEF Blocks, OnBlock
  <2>3. CASE ctrl.hold
    <3>1. sdma' = due /\ heading' = StartWay /\ UNCHANGED <<portVars, ctrl>>
      BY <1>3, <1>5, <2>3 DEF Cycle
    <3> HIDE DEF due
    <3> QED BY <1>0, <1>1, <2>2, <3>1, StaysIsOnBlock DEF SdmaInv, SdmaTypeOK, Blocks, portVars
  <2>4. CASE ~ctrl.hold
    <3>1. /\ sdma' = Step(due) /\ ctrl' = [ctrl EXCEPT !.enable = sdma'.running]
          /\ sourcePort' = sdma'.source /\ counterPort' = sdma'.counter
          /\ heading' = IF StartWay = Way(ctrl) THEN StartWay ELSE "both"
      BY <1>3, <1>5, <2>4 DEF Cycle
    <3> HIDE DEF due
    <3>2. sdma' \in Blocks /\ (sdma'.running => OnBlock(sdma', heading'))
      BY <1>0, <1>1, <2>2, <3>1, StepOnBlock
    <3>3. ctrl' \in Controls
      BY <1>0, <3>1, <3>2 DEF Controls, Blocks
    <3>4. sourcePort' \in SdmaAddress /\ counterPort' \in SdmaAddress
      BY <3>1, <3>2 DEF Blocks
    <3>5. heading' \in {"up", "down", "both"}
      BY <1>1, <3>1
    <3> QED BY <1>0, <3>2, <3>3, <3>4, <3>5, StaysIsOnBlock DEF SdmaInv, SdmaTypeOK, Blocks
  <2> QED BY <2>3, <2>4
<1> QED BY <1>4, <1>5

LEMMA SdmaInductive ==
  /\ SdmaInit => SdmaInv
  /\ SdmaInv /\ [SdmaNext]_sdmaVars => SdmaInv'
<1>1. SdmaInit => SdmaInv
  <2>1. (CHOOSE r \in Rates : TRUE) \in Rates
    BY SoundDmaAssumption
  <2>2. 0 \in SdmaAddress
    BY SoundDmaAssumption DEF SdmaAddress
  <2> QED BY <2>1, <2>2 DEF SdmaInit, SdmaInv, SdmaTypeOK, StaysOnBlock, Idle, Controls
<1>2. SdmaInv /\ [SdmaNext]_sdmaVars => SdmaInv'
  <2> SUFFICES ASSUME SdmaInv, [SdmaNext]_sdmaVars PROVE SdmaInv'
    OBVIOUS
  <2> USE DEF SdmaInv, SdmaTypeOK, StaysOnBlock
  <2>1. ASSUME NEW a \in SdmaAddress, SetSource(a) PROVE SdmaInv'
    BY <2>1 DEF SetSource
  <2>2. ASSUME NEW n \in SdmaAddress, SetCounter(n) PROVE SdmaInv'
    BY <2>2 DEF SetCounter
  <2>3. ASSUME NEW c \in Controls, SetControl(c) PROVE SdmaInv'
    BY <2>3 DEF SetControl, portVars
  <2>4. ASSUME NEW on \in BOOLEAN, SetColorMode(on) PROVE SdmaInv'
    BY <2>4 DEF SetColorMode, portVars
  <2>5. CASE Disabled
    BY <2>5 DEF Disabled, portVars
  <2>6. CASE Refused
    BY <2>6 DEF Refused, portVars, Controls
  <2>7. CASE Cycle
    BY <2>7, CycleKeeps
  <2>8. CASE UNCHANGED sdmaVars
    BY <2>8 DEF sdmaVars, portVars
  <2> QED BY <2>1, <2>2, <2>3, <2>4, <2>5, <2>6, <2>7, <2>8 DEF SdmaNext
<1> QED BY <1>1, <1>2

(* Whatever a game writes while a transfer runs, it stays in the block it  *)
(* latched and its counter never passes zero, for any block and any rate.  *)
THEOREM SdmaStays == SdmaSpec => []StaysOnBlock
<1>1. SdmaInv => StaysOnBlock
  BY DEF SdmaInv
<1> QED BY <1>1, SdmaInductive, PTL DEF SdmaSpec

-----------------------------------------------------------------------------
(* General DMA.                                                            *)

(* The target is in work RAM; a burst moves less than a segment.           *)
LEMMA GdmaFacts ==
  ASSUME GdmaTypeOK
  PROVE  /\ SegmentBytes \in Nat \ {0} /\ Space \in Nat \ {0}
         /\ gdmaSource \in 0 .. Space - 1
         /\ gdmaTarget \in 0 .. SegmentBytes - 1 /\ gdmaLength \in 0 .. SegmentBytes - 1
         /\ Space >= 3 * SegmentBytes
<1>1. SegmentBytes \in Nat \ {0} /\ Segments \in Nat /\ Segments >= 3
  BY GeneralDmaAssumption
<1>2. SegmentBytes * Segments = SegmentBytes * (Segments - 3) + 3 * SegmentBytes
  BY <1>1, SMT
<1>3. SegmentBytes * (Segments - 3) \in Nat
  <2>1. Segments - 3 \in Nat
    BY <1>1
  <2> QED BY <1>1, <2>1, SMT
<1>4. Space \in Nat /\ Space >= 3 * SegmentBytes
  BY <1>1, <1>2, <1>3 DEF Space
<1>5. Space # 0
  BY <1>1, <1>4
<1> QED BY <1>1, <1>4, <1>5 DEF GdmaTypeOK, RamBytes

(* Below zero a remainder is taken from the top.                           *)
LEMMA ModUnder ==
  ASSUME NEW d \in Nat \ {0}, NEW x \in 0 - d .. 0 - 1
  PROVE  x % d = x + d
<1>1. x \in Int /\ x + d \in 0 .. d - 1
  OBVIOUS
<1>2. x % d \in 0 .. d - 1 /\ x = d * (x \div d) + (x % d) /\ x \div d \in Int
  BY <1>1, SMT
<1> DEFINE q == x \div d
           r == x % d
<1>3. q \in Int /\ r \in 0 .. d - 1 /\ x = d * q + r
  BY <1>2
<1> HIDE DEF q, r
<1>4. d * (0 - 1 - q) = r - (x + d)
  BY <1>1, <1>3, SMT
<1> DEFINE m == 0 - 1 - q
<1>5. m \in Int /\ d * m = r - (x + d)
  BY <1>3, <1>4
<1> HIDE DEF m
<1>6. m = 0
  <2>1. m < 1
    <3> SUFFICES ASSUME m >= 1 PROVE FALSE
      BY <1>5
    <3>1. d * m >= d
      BY <1>5, SMT
    <3> QED BY <1>1, <1>3, <1>5, <3>1
  <2>2. m > 0 - 1
    <3> SUFFICES ASSUME m <= 0 - 1 PROVE FALSE
      BY <1>5
    <3>1. d * m <= 0 - d
      BY <1>5, SMT
    <3> QED BY <1>1, <1>3, <1>5, <3>1
  <2> QED BY <1>5, <2>1, <2>2
<1>7. d * 0 = 0
  OBVIOUS
<1>8. r = x + d
  BY <1>1, <1>3, <1>5, <1>6, <1>7
<1> QED BY <1>8 DEF r

(* A pointer less than a turn away from where it is.                       *)
LEMMA Wrapped ==
  ASSUME NEW d \in Nat \ {0}, NEW x \in 0 - d .. 2 * d - 1
  PROVE  x % d = (IF x < 0 THEN x + d ELSE IF x < d THEN x ELSE x - d)
<1>1. CASE x < 0
  BY <1>1, ModUnder
<1>2. CASE ~(x < 0) /\ x < d
  BY <1>2, ModSmall
<1>3. CASE ~(x < 0) /\ ~(x < d)
  BY <1>3, ModOver
<1> QED BY <1>1, <1>2, <1>3

(* The pointers of a burst.                                                *)
From(i, down) == At(gdmaSource, i, down) % Space
To(i, down) == At(gdmaTarget, i, down) % SegmentBytes

LEMMA Pointers ==
  ASSUME GdmaTypeOK, NEW down \in BOOLEAN, NEW i \in 0 .. SegmentBytes - 1
  PROVE  /\ At(gdmaSource, i, down) \in Int /\ From(i, down) \in 0 .. Space - 1
         /\ To(i, down) \in RamBytes
         /\ InSegment(From(i, down), 1) => InSegment(At(gdmaSource, i, down), 1)
         /\ Blocked(At(gdmaSource, i, down)) => Blocked(From(i, down))
<1> DEFINE x == At(gdmaSource, i, down)
           y == At(gdmaTarget, i, down)
           d == SegmentBytes
<1>1. /\ d \in Nat \ {0} /\ Space \in Nat \ {0} /\ gdmaSource \in 0 .. Space - 1
      /\ gdmaTarget \in 0 .. d - 1 /\ Space >= 3 * d /\ i \in Nat /\ i < d
  BY GdmaFacts
<1>2. x \in 0 - d .. Space + d - 1 /\ y \in 0 - d .. 2 * d - 1
  BY <1>1 DEF At
<1> HIDE DEF x, y, d
<1>3. x \in 0 - Space .. 2 * Space - 1
  BY <1>1, <1>2
<1>4. x % Space = IF x < 0 THEN x + Space ELSE IF x < Space THEN x ELSE x - Space
  BY <1>1, <1>3, Wrapped
<1>5. y % d = IF y < 0 THEN y + d ELSE IF y < d THEN y ELSE y - d
  BY <1>1, <1>2, Wrapped
<1>6. x % Space \in 0 .. Space - 1 /\ y % d \in 0 .. d - 1
  BY <1>1, <1>2, <1>3, <1>4, <1>5
<1>7. InSegment(x % Space, 1) => InSegment(x, 1)
  <2> SUFFICES ASSUME InSegment(x % Space, 1) PROVE InSegment(x, 1)
    OBVIOUS
  <2>1. x % Space \in d .. 2 * d - 1
    BY <1>1 DEF InSegment, d
  <2>2. x % Space = x
    BY <1>1, <1>2, <1>4, <2>1
  <2> QED BY <2>2
<1>8. Blocked(x) => x % Space = x
  <2> SUFFICES ASSUME Blocked(x) PROVE x \in 0 .. Space - 1
    BY <1>1, <1>4
  <2>1. CASE InSegment(x, 1)
    BY <1>1, <2>1 DEF InSegment, d
  <2>2. CASE InSegment(x, SlowSegment)
    <3>1. SlowSegment \in Nat /\ Segments - (SlowSegment + 1) \in Nat /\ Segments \in Nat
      BY GeneralDmaAssumption
    <3>2. SlowSegment * d \in Nat /\ (Segments - (SlowSegment + 1)) * d \in Nat
      BY <1>1, <3>1, SMT
    <3>3. d * Segments = (Segments - (SlowSegment + 1)) * d + (SlowSegment + 1) * d
      BY <1>1, <3>1, SMT
    <3>4. (SlowSegment + 1) * d = SlowSegment * d + d
      BY <1>1, <3>1, SMT
    <3>5. x \in SlowSegment * d .. (SlowSegment + 1) * d - 1
      BY <2>2 DEF InSegment, d
    <3>6. Space = d * Segments
      BY DEF Space, d
    <3> QED BY <1>1, <3>2, <3>3, <3>4, <3>5, <3>6
  <2> QED BY <2>1, <2>2 DEF Blocked
<1>9. x \in Int
  BY <1>1, <1>2
<1> QED BY <1>6, <1>7, <1>8, <1>9 DEF From, To, x, y, d, RamBytes

(* Two bytes of a burst have two places in work RAM.                       *)
LEMMA TargetsApart ==
  ASSUME GdmaTypeOK, NEW down \in BOOLEAN, NEW i \in 0 .. SegmentBytes - 1,
         NEW j \in 0 .. SegmentBytes - 1, To(i, down) = To(j, down)
  PROVE  i = j
<1> DEFINE d == SegmentBytes
           y == At(gdmaTarget, i, down)
           z == At(gdmaTarget, j, down)
<1>1. d \in Nat \ {0} /\ gdmaTarget \in 0 .. d - 1
  BY GdmaFacts
<1>2. i \in Nat /\ j \in Nat /\ i < d /\ j < d
  BY <1>1
<1>3. y \in 0 - d .. 2 * d - 1 /\ z \in 0 - d .. 2 * d - 1
  BY <1>1, <1>2 DEF At
<1>4. \/ down /\ y = gdmaTarget - i /\ z = gdmaTarget - j
      \/ ~down /\ y = gdmaTarget + i /\ z = gdmaTarget + j
  BY DEF At
<1> HIDE DEF y, z
<1>5. y % d = IF y < 0 THEN y + d ELSE IF y < d THEN y ELSE y - d
  BY <1>1, <1>3, Wrapped
<1>6. z % d = IF z < 0 THEN z + d ELSE IF z < d THEN z ELSE z - d
  BY <1>1, <1>3, Wrapped
<1>7. y % d = z % d
  BY DEF To, y, z
<1> HIDE DEF d
<1> QED BY <1>1, <1>2, <1>3, <1>4, <1>5, <1>6, <1>7

(* A burst ends where its length or a closed window ends it.               *)
LEMMA RunFacts ==
  ASSUME GdmaTypeOK, NEW down \in BOOLEAN
  PROVE  /\ Run(down) \in 0 .. gdmaLength
         /\ \A i \in 0 .. Run(down) - 1 : ~Blocked(At(gdmaSource, i, down))
         /\ Run(down) < gdmaLength => Blocked(At(gdmaSource, Run(down), down))
<1> DEFINE Open(n) == \A i \in 0 .. n - 1 : ~Blocked(At(gdmaSource, i, down))
           open == {n \in 0 .. gdmaLength : Open(n)}
           left == {k \in 0 .. gdmaLength : Open(gdmaLength - k)}
<1>1. gdmaLength \in Nat
  BY GdmaFacts
<1>2. left \in SUBSET Nat /\ gdmaLength \in left
  <2>1. gdmaLength - gdmaLength = 0 /\ gdmaLength \in 0 .. gdmaLength
    BY <1>1
  <2>2. Open(0)
    OBVIOUS
  <2> QED BY <1>1, <2>1, <2>2
<1>3. PICK k \in left : \A l \in left : k <= l
  BY <1>2, LeastMember
<1> DEFINE n == gdmaLength - k
<1>4. n \in open
  BY <1>1, <1>3
<1>5. \A m \in open : m <= n
  <2> TAKE m \in open
  <2>1. m \in 0 .. gdmaLength /\ Open(m)
    OBVIOUS
  <2>2. gdmaLength - m \in 0 .. gdmaLength /\ gdmaLength - (gdmaLength - m) = m
    BY <1>1, <2>1
  <2>3. gdmaLength - m \in left
    BY <2>1, <2>2
  <2>4. k <= gdmaLength - m /\ k \in 0 .. gdmaLength
    BY <1>3, <2>3
  <2> QED BY <1>1, <2>1, <2>4
<1>6. Run(down) \in open /\ \A m \in open : m <= Run(down)
  BY <1>4, <1>5 DEF Run
<1> DEFINE r == Run(down)
<1>7. r \in 0 .. gdmaLength /\ Open(r) /\ \A m \in open : m <= r
  BY <1>6
<1> HIDE DEF r
<1>8. ASSUME r < gdmaLength, ~Blocked(At(gdmaSource, r, down)) PROVE FALSE
  <2>1. r + 1 \in 0 .. gdmaLength /\ ~(r + 1 <= r)
    BY <1>1, <1>7, <1>8
  <2>2. \A i \in 0 .. (r + 1) - 1 : i \in 0 .. r - 1 \/ i = r
    BY <1>1, <1>7
  <2>3. Open(r + 1)
    BY <1>7, <1>8, <2>2
  <2> QED BY <1>7, <2>1, <2>3
<1> QED BY <1>7, <1>8 DEF r
(* Memory after the burst's first n bytes: each is its source's, and       *)
(* nothing else has changed.                                               *)
Copied(mem, n, down) ==
  /\ mem \in [RamBytes -> Bytes]
  /\ \A i \in 0 .. n - 1 :
       \/ \E j \in 0 .. i - 1 : From(i, down) = To(j, down) /\ mem[To(i, down)] = mem[To(j, down)]
       \/ /\ \A j \in 0 .. i - 1 : From(i, down) # To(j, down)
          /\ mem[To(i, down)] = Read(wram, From(i, down))
  /\ \A a \in RamBytes : (\A i \in 0 .. n - 1 : a # To(i, down)) => mem[a] = wram[a]

(* The next byte is read from what is there by then, and lands elsewhere   *)
(* than those before it.                                                   *)
LEMMA CopiedNext ==
  ASSUME GdmaTypeOK, NEW down \in BOOLEAN, NEW n \in 0 .. SegmentBytes - 1, NEW mem,
         Copied(mem, n, down)
  PROVE  Copied(Copy(mem, n, down), n + 1, down)
<1> DEFINE t == To(n, down)
           s == From(n, down)
           v == Read(mem, At(gdmaSource, n, down))
           new == Copy(mem, n, down)
<1>0. n \in Nat /\ SegmentBytes \in Nat
  BY GdmaFacts
<1>a. \A i \in 0 .. n : i \in 0 .. SegmentBytes - 1
  BY <1>0
<1>1. mem \in [RamBytes -> Bytes] /\ t \in RamBytes /\ s \in 0 .. Space - 1
  BY Pointers DEF Copied
<1>2. new = [mem EXCEPT ![t] = v]
  BY DEF Copy, To
<1>3. v = IF s \in RamBytes THEN mem[s] ELSE RomByte
  BY DEF Read, From
<1>4. v \in Bytes
  BY <1>1, <1>3 DEF Bytes
<1> HIDE DEF t, s, v, new
<1>5. new \in [RamBytes -> Bytes] /\ new[t] = v
  BY <1>1, <1>2, <1>4
<1>6. \A a \in RamBytes : a # t => new[a] = mem[a]
  BY <1>1, <1>2
<1>7. ASSUME NEW i \in 0 .. n - 1
      PROVE  To(i, down) \in RamBytes /\ To(i, down) # t /\ new[To(i, down)] = mem[To(i, down)]
  <2>1. i \in 0 .. n /\ i # n /\ n \in 0 .. n
    BY <1>0
  <2>2. To(i, down) \in RamBytes
    BY <1>a, <2>1, Pointers
  <2>3. To(i, down) # t
    BY <1>a, <2>1, TargetsApart DEF t
  <2> QED BY <1>6, <2>2, <2>3
<1>8. ASSUME NEW i \in 0 .. n - 1
      PROVE  \/ \E j \in 0 .. i - 1 : From(i, down) = To(j, down) /\ new[To(i, down)] = new[To(j, down)]
             \/ /\ \A j \in 0 .. i - 1 : From(i, down) # To(j, down)
                /\ new[To(i, down)] = Read(wram, From(i, down))
  <2>1. \A j \in 0 .. i - 1 : j \in 0 .. n - 1
    BY <1>0
  <2>2. CASE \E j \in 0 .. i - 1 : From(i, down) = To(j, down) /\ mem[To(i, down)] = mem[To(j, down)]
    <3>1. PICK j \in 0 .. i - 1 : From(i, down) = To(j, down) /\ mem[To(i, down)] = mem[To(j, down)]
      BY <2>2
    <3>2. new[To(j, down)] = mem[To(j, down)] /\ new[To(i, down)] = mem[To(i, down)]
      BY <1>7, <2>1
    <3>3. new[To(i, down)] = new[To(j, down)]
      BY <3>1, <3>2
    <3> QED BY <3>1, <3>3
  <2>3. CASE /\ \A j \in 0 .. i - 1 : From(i, down) # To(j, down)
             /\ mem[To(i, down)] = Read(wram, From(i, down))
    BY <1>7, <2>3
  <2> QED BY <2>2, <2>3 DEF Copied
<1>9. \/ \E j \in 0 .. n - 1 : s = To(j, down) /\ new[t] = new[To(j, down)]
      \/ (\A j \in 0 .. n - 1 : s # To(j, down)) /\ new[t] = Read(wram, s)
  <2>1. CASE \E j \in 0 .. n - 1 : s = To(j, down)
    <3>1. PICK j \in 0 .. n - 1 : s = To(j, down)
      BY <2>1
    <3>2. s \in RamBytes /\ new[To(j, down)] = mem[To(j, down)]
      BY <1>7, <3>1
    <3>3. new[t] = new[To(j, down)]
      BY <1>3, <1>5, <3>1, <3>2
    <3> QED BY <3>1, <3>3
  <2>2. CASE \A j \in 0 .. n - 1 : s # To(j, down)
    <3>1. Read(wram, s) = IF s \in RamBytes THEN wram[s] ELSE RomByte
      <4>1. s % Space = s
        BY <1>1, GdmaFacts, ModSmall
      <4> QED BY <4>1 DEF Read
    <3>2. s \in RamBytes => mem[s] = wram[s]
      BY <2>2 DEF Copied
    <3>3. new[t] = Read(wram, s)
      BY <1>3, <1>5, <3>1, <3>2
    <3> QED BY <2>2, <3>3
  <2> QED BY <2>1, <2>2
<1>10. \A i \in 0 .. (n + 1) - 1 : i \in 0 .. n - 1 \/ i = n
  BY <1>0
<1>11. ASSUME NEW a \in RamBytes, \A i \in 0 .. (n + 1) - 1 : a # To(i, down)
       PROVE  new[a] = wram[a]
  <2>1. n \in 0 .. (n + 1) - 1 /\ \A i \in 0 .. n - 1 : i \in 0 .. (n + 1) - 1
    BY <1>0
  <2>2. a # t /\ \A i \in 0 .. n - 1 : a # To(i, down)
    BY <1>11, <2>1 DEF t
  <2>3. new[a] = mem[a] /\ mem[a] = wram[a]
    BY <1>6, <2>2 DEF Copied
  <2> QED BY <2>3
<1>12. ASSUME NEW i \in 0 .. (n + 1) - 1
       PROVE  \/ \E j \in 0 .. i - 1 : From(i, down) = To(j, down) /\ new[To(i, down)] = new[To(j, down)]
              \/ /\ \A j \in 0 .. i - 1 : From(i, down) # To(j, down)
                 /\ new[To(i, down)] = Read(wram, From(i, down))
  <2>1. CASE i \in 0 .. n - 1
    BY <1>8, <2>1
  <2>2. CASE i = n
    BY <1>9, <2>2 DEF t, s
  <2> QED BY <1>10, <2>1, <2>2
<1>13. Copied(new, n + 1, down)
  BY <1>5, <1>11, <1>12 DEF Copied
<1> QED BY <1>13 DEF new

(* So the whole burst is copied.                                           *)
LEMMA BurstCopied ==
  ASSUME GdmaTypeOK, NEW down \in BOOLEAN, Burst(down)
  PROVE  Copied(wram', Run(down), down)
<1> DEFINE moved == Run(down)
           Is(f) == f = [n \in 0 .. moved |-> IF n = 0 THEN wram ELSE Copy(f[n - 1], n - 1, down)]
           after == CHOOSE f : Is(f)
           P == {n \in Nat : n <= moved => Copied(after[n], n, down)}
<1>1. moved \in Nat /\ moved <= SegmentBytes - 1 /\ SegmentBytes \in Nat \ {0}
  <2>1. moved \in 0 .. gdmaLength
    BY RunFacts
  <2> HIDE DEF moved
  <2> QED BY <2>1, GdmaFacts
<1>2. wram' = after[moved]
  BY DEF Burst
<1> HIDE DEF moved
<1>3. \E f : Is(f)
  <2> DEFINE R == [RamBytes -> Bytes] \X Nat
             Turn(p) == IF p[2] < SegmentBytes
                        THEN <<Copy(p[1], p[2], down), p[2] + 1>> ELSE p
             turn == [p \in R |-> Turn(p)]
  <2>1. ASSUME NEW p \in R PROVE Turn(p) \in R
    <3>1. p[1] \in [RamBytes -> Bytes] /\ p[2] \in Nat /\ p = <<p[1], p[2]>>
      OBVIOUS
    <3>2. CASE p[2] < SegmentBytes
      <4>1. p[2] \in 0 .. SegmentBytes - 1 /\ p[2] + 1 \in Nat
        BY <1>1, <3>1, <3>2
      <4>2. At(gdmaSource, p[2], down) % Space \in RamBytes
              => p[1][At(gdmaSource, p[2], down) % Space] \in Bytes
        BY <3>1
      <4>3. Read(p[1], At(gdmaSource, p[2], down)) \in Bytes
        BY <4>2 DEF Read, Bytes
      <4>4. Copy(p[1], p[2], down) \in [RamBytes -> Bytes]
        BY <3>1, <4>3 DEF Copy
      <4> QED BY <3>2, <4>1, <4>4
    <3> QED BY <3>1, <3>2
  <2>2. turn \in [R -> R] /\ <<wram, 0>> \in R
    BY <2>1 DEF GdmaTypeOK
  <2>3. \A p \in R : turn[p] = Turn(p)
    OBVIOUS
  <2> HIDE DEF turn, Turn
  <2>4. PICK g \in [0 .. moved -> R] : Runs(g, moved, <<wram, 0>>, turn)
    <3> HIDE DEF R
    <3> QED BY <1>1, <2>2, Iteration
  <2> DEFINE f == [n \in 0 .. moved |-> g[n][1]]
             Q == {n \in Nat : n <= moved => g[n][2] = n}
  <2>5. Q = Nat
    <3>1. 0 \in Q
      BY <2>4 DEF Runs
    <3>2. ASSUME NEW n \in Q PROVE n + 1 \in Q
      <4> SUFFICES ASSUME n + 1 <= moved PROVE g[n + 1][2] = n + 1
        OBVIOUS
      <4>1. n + 1 \in 1 .. moved /\ (n + 1) - 1 = n /\ n \in 0 .. moved /\ n < SegmentBytes
            /\ g[n][2] = n
        BY <1>1
      <4>2. g[n + 1] = Turn(g[n]) /\ g[n] \in R
        BY <2>3, <2>4, <4>1 DEF Runs
      <4> QED BY <4>1, <4>2 DEF Turn
    <3> HIDE DEF Q
    <3> QED BY <3>1, <3>2, InductionSet DEF Q
  <2>6. ASSUME NEW n \in 0 .. moved
        PROVE  f[n] = IF n = 0 THEN wram ELSE Copy(f[n - 1], n - 1, down)
    <3>1. CASE n = 0
      BY <2>4, <3>1 DEF Runs
    <3>2. CASE n # 0
      <4>1. n \in 1 .. moved /\ n - 1 \in 0 .. moved /\ n - 1 \in Nat /\ n - 1 < SegmentBytes
        BY <1>1, <3>2
      <4>2. g[n - 1] \in R /\ g[n] = Turn(g[n - 1])
        BY <2>3, <2>4, <4>1 DEF Runs
      <4>3. g[n - 1][2] = n - 1
        BY <2>5, <4>1
      <4>4. g[n] = <<Copy(g[n - 1][1], n - 1, down), (n - 1) + 1>>
        BY <4>1, <4>2, <4>3 DEF Turn
      <4> QED BY <3>2, <4>1, <4>4
    <3> QED BY <3>1, <3>2
  <2>7. Is(f)
    BY <2>6
  <2> QED BY <2>7
<1>4. Is(after)
  <2> HIDE DEF Is
  <2> QED BY <1>3
<1> HIDE DEF after
<1>5. after[0] = wram /\ \A n \in 1 .. moved : after[n] = Copy(after[n - 1], n - 1, down)
  <2>1. \A n \in 0 .. moved : after[n] = IF n = 0 THEN wram ELSE Copy(after[n - 1], n - 1, down)
    BY <1>4
  <2> HIDE DEF Is
  <2> QED BY <1>1, <2>1
<1> HIDE DEF Is
<1>6. 0 \in P
  BY <1>5 DEF Copied, GdmaTypeOK
<1>7. ASSUME NEW n \in P PROVE n + 1 \in P
  <2> SUFFICES ASSUME n + 1 <= moved PROVE Copied(after[n + 1], n + 1, down)
    OBVIOUS
  <2>1. n \in 0 .. SegmentBytes - 1 /\ n + 1 \in 1 .. moved /\ (n + 1) - 1 = n /\ n <= moved
    BY <1>1
  <2>2. Copied(after[n], n, down)
    BY <2>1
  <2>3. after[n + 1] = Copy(after[n], n, down)
    BY <1>5, <2>1
  <2> QED BY <2>1, <2>2, <2>3, CopiedNext
<1> HIDE DEF P
<1>8. P = Nat
  BY <1>6, <1>7, InductionSet DEF P
<1>9. moved <= moved
  BY <1>1
<1>10. Copied(after[moved], moved, down)
  BY <1>1, <1>8, <1>9 DEF P
<1> QED BY <1>2, <1>10 DEF moved

(* The registers stay well-typed.                                          *)
LEMMA GdmaTyped == GdmaTypeOK /\ [GdmaNext]_gdmaVars => GdmaTypeOK'
<1> SUFFICES ASSUME GdmaTypeOK, [GdmaNext]_gdmaVars PROVE GdmaTypeOK'
  OBVIOUS
<1>1. ASSUME NEW s \in Even(0 .. Space - 1), NEW t \in Even(RamBytes),
             NEW n \in Even(BurstLengths), SetBurst(s, t, n)
      PROVE  GdmaTypeOK'
  <2>1. s \in 0 .. Space - 1 /\ t \in RamBytes /\ n \in RamBytes
    BY GeneralDmaAssumption DEF Even, RamBytes
  <2> QED BY <1>1, <2>1 DEF SetBurst, GdmaTypeOK
<1>2. ASSUME NEW on \in BOOLEAN, SetRomWait(on) PROVE GdmaTypeOK'
  BY <1>2 DEF SetRomWait, registers, GdmaTypeOK
<1>3. ASSUME NEW down \in BOOLEAN, Burst(down) PROVE GdmaTypeOK'
  <2> DEFINE m == Run(down)
  <2>1. m \in 0 .. gdmaLength
    BY RunFacts
  <2>2. /\ gdmaSource' = From(m, down) /\ gdmaTarget' = To(m, down)
        /\ gdmaLength' = gdmaLength - m /\ waitCycles' = IF m = 0 THEN 0 ELSE 5 + m
        /\ completed' = (completed \/ gdmaLength > 0) /\ slowRom' = slowRom
    BY <1>3 DEF Burst, From, To
  <2>3. wram' \in [RamBytes -> Bytes]
    BY <1>3, BurstCopied DEF Copied
  <2> HIDE DEF m
  <2>4. m \in 0 .. SegmentBytes - 1 /\ m \in Nat /\ SegmentBytes \in Nat
    BY <2>1, GdmaFacts
  <2>5. From(m, down) \in 0 .. Space - 1 /\ To(m, down) \in RamBytes
    BY <2>4, Pointers
  <2>6. gdmaLength - m \in RamBytes
    BY <2>1, GdmaFacts DEF RamBytes
  <2>7. waitCycles' \in {0} \cup 6 .. SegmentBytes + 5
    <3>1. CASE m = 0
      BY <2>2, <3>1
    <3>2. CASE m # 0
      <4>1. 5 + m \in 6 .. SegmentBytes + 5
        BY <2>4, <3>2
      <4> QED BY <2>2, <3>2, <4>1
    <3> QED BY <3>1, <3>2
  <2>8. completed' \in BOOLEAN
    BY <2>2, Zenon DEF GdmaTypeOK
  <2> QED BY <2>2, <2>3, <2>5, <2>6, <2>7, <2>8 DEF GdmaTypeOK
<1>4. CASE UNCHANGED gdmaVars
  BY <1>4 DEF gdmaVars, registers, GdmaTypeOK
<1> QED BY <1>1, <1>2, <1>3, <1>4 DEF GdmaNext

(* What BurstCopies asks of one burst.                                     *)
LEMMA OneBurst ==
  ASSUME GdmaTypeOK, NEW down \in BOOLEAN, Burst(down)
  PROVE  LET moved == gdmaLength - gdmaLength'
         IN  /\ \A i \in 0 .. moved - 1 :
                  /\ ~InSegment(From(i, down), 1)
                  /\ \/ \E j \in 0 .. i - 1 : /\ From(i, down) = To(j, down)
                                              /\ wram'[To(i, down)] = wram'[To(j, down)]
                     \/ /\ \A j \in 0 .. i - 1 : From(i, down) # To(j, down)
                        /\ wram'[To(i, down)] = Read(wram, From(i, down))
             /\ \A a \in RamBytes :
                  wram'[a] # wram[a] => \E i \in 0 .. moved - 1 : a = To(i, down)
             /\ gdmaLength' > 0 => Blocked(From(moved, down))
             /\ gdmaSource' = From(moved, down) /\ gdmaTarget' = To(moved, down)
<1> DEFINE m == Run(down)
<1>1. m \in 0 .. gdmaLength /\ gdmaLength' = gdmaLength - m
  BY RunFacts DEF Burst
<1>2. \A i \in 0 .. m - 1 : ~Blocked(At(gdmaSource, i, down))
  BY RunFacts
<1>3. m < gdmaLength => Blocked(At(gdmaSource, m, down))
  BY RunFacts
<1>4. gdmaSource' = From(m, down) /\ gdmaTarget' = To(m, down)
  BY DEF Burst, From, To
<1>5. Copied(wram', m, down)
  BY BurstCopied
<1> HIDE DEF m
<1>6. m \in 0 .. SegmentBytes - 1 /\ m \in Nat /\ gdmaLength - gdmaLength' = m
      /\ (gdmaLength' > 0 => m < gdmaLength)
  BY <1>1, GdmaFacts
<1>7. gdmaLength' > 0 => Blocked(From(m, down))
  BY <1>3, <1>6, Pointers
<1>8. \A i \in 0 .. m - 1 : ~InSegment(From(i, down), 1)
  <2> TAKE i \in 0 .. m - 1
  <2>1. i \in 0 .. SegmentBytes - 1
    BY <1>6, GdmaFacts
  <2> QED BY <1>2, <2>1, Pointers DEF Blocked
<1> QED BY <1>4, <1>5, <1>6, <1>7, <1>8 DEF Copied

(* A burst of any length, in any address space, from any source to any     *)
(* target, up or down, overlapping or not, copies byte by byte, changes    *)
(* nothing else and stops only at a closed window.                         *)
THEOREM BurstsCopy == GdmaSpec => BurstCopies
<1>1. GdmaInit => GdmaTypeOK
  <2> SUFFICES ASSUME GdmaInit PROVE GdmaTypeOK
    OBVIOUS
  <2>1. SegmentBytes \in Nat \ {0} /\ Segments \in Nat /\ Segments >= 3
    BY GeneralDmaAssumption
  <2>2. Space \in Nat \ {0}
    BY <2>1, SMT DEF Space
  <2>3. 0 \in 0 .. Space - 1 /\ 0 \in RamBytes
    BY <2>1, <2>2 DEF RamBytes
  <2>4. wram \in [RamBytes -> Bytes]
    BY DEF GdmaInit, Bytes
  <2> QED BY <2>3, <2>4 DEF GdmaInit, GdmaTypeOK
<1>2. GdmaTypeOK => \A down \in BOOLEAN : Burst(down) =>
        LET moved == gdmaLength - gdmaLength'
            S(i) == At(gdmaSource, i, down) % Space
            T(i) == At(gdmaTarget, i, down) % SegmentBytes
        IN  /\ \A i \in 0 .. moved - 1 :
                 /\ ~InSegment(S(i), 1)
                 /\ \/ \E j \in 0 .. i - 1 : S(i) = T(j) /\ wram'[T(i)] = wram'[T(j)]
                    \/ (\A j \in 0 .. i - 1 : S(i) # T(j)) /\ wram'[T(i)] = Read(wram, S(i))
            /\ \A a \in RamBytes : wram'[a] # wram[a] => \E i \in 0 .. moved - 1 : a = T(i)
            /\ gdmaLength' > 0 => Blocked(S(moved))
            /\ gdmaSource' = S(moved) /\ gdmaTarget' = T(moved)
  BY OneBurst DEF From, To
<1> QED BY <1>1, <1>2, GdmaTyped, PTL DEF GdmaSpec, BurstCopies

-----------------------------------------------------------------------------
(* The real-time clock.                                                    *)

Faces == [Registers -> 0 .. 255]

(* Packed BCD keeps two digits.                                            *)
LEMMA BcdKeeps ==
  ASSUME NEW n \in 0 .. 99
  PROVE  ToBcd(n) \in 0 .. 255 /\ FromBcd(ToBcd(n)) = n
BY DEF ToBcd, FromBcd

LEMMA BcdReads ==
  ASSUME NEW b \in 0 .. 255
  PROVE  FromBcd(b) \in Nat
BY DEF FromBcd

(* Writing one register leaves the others.                                 *)
LEMMA PutFacts ==
  ASSUME NEW c \in Faces, NEW unit \in Registers, NEW n \in 0 .. 99
  PROVE  /\ Put(c, unit, n) \in Faces
         /\ Put(c, unit, n)[unit] = ToBcd(n)
         /\ \A r \in Registers \ {unit} : Put(c, unit, n)[r] = c[r]
BY BcdKeeps DEF Put, Faces

(* The values a register reaches.                                          *)
Holds(r, b) ==
  \/ r = "weekday" /\ b \in 0 .. 6
  \/ r = "year" /\ \E n \in 0 .. 99 : b = ToBcd(n)
  \/ r = "month" /\ \E n \in 1 .. 12 : b = ToBcd(n)
  \/ r = "day" /\ \E n \in 1 .. 31 : b = ToBcd(n)
  \/ r = "hour" /\ \E n \in 0 .. 23 : b = ToBcd(n)
  \/ r \in {"minute", "second"} /\ \E n \in 0 .. 59 : b = ToBcd(n)

LEMMA ReachableHolds ==
  ASSUME NEW c
  PROVE  Reachable(c) <=> \A r \in Registers : Holds(r, c[r])
<1>1. ASSUME Reachable(c), NEW r \in Registers PROVE Holds(r, c[r])
  BY <1>1 DEF Reachable, Holds, Registers
<1>2. ASSUME \A r \in Registers : Holds(r, c[r]) PROVE Reachable(c)
  <2>1. /\ Holds("year", c.year) /\ Holds("month", c.month) /\ Holds("day", c.day)
        /\ Holds("weekday", c.weekday) /\ Holds("hour", c.hour)
        /\ Holds("minute", c.minute) /\ Holds("second", c.second)
    BY <1>2 DEF Registers
  <2>2. c.weekday \in 0 .. 6
    BY <2>1 DEF Holds
  <2>3. (\E y \in 0 .. 99 : c.year = ToBcd(y)) /\ (\E m \in 1 .. 12 : c.month = ToBcd(m))
    BY <2>1 DEF Holds
  <2>4. (\E d \in 1 .. 31 : c.day = ToBcd(d)) /\ (\E h \in 0 .. 23 : c.hour = ToBcd(h))
    BY <2>1 DEF Holds
  <2>5. (\E n \in 0 .. 59 : c.minute = ToBcd(n)) /\ (\E n \in 0 .. 59 : c.second = ToBcd(n))
    BY <2>1 DEF Holds
  <2> QED BY <2>2, <2>3, <2>4, <2>5 DEF Reachable
<1> QED BY <1>1, <1>2

LEMMA EpochHolds == Epoch \in Faces /\ \A r \in Registers : Holds(r, Epoch[r])
<1>1. Epoch \in Faces
  BY DEF Epoch, Faces, Registers
<1>2. ToBcd(0) = 0 /\ ToBcd(1) = 1
  BY DEF ToBcd
<1>3. /\ Epoch["year"] = 0 /\ Epoch["month"] = 1 /\ Epoch["day"] = 1 /\ Epoch["weekday"] = 6
      /\ Epoch["hour"] = 0 /\ Epoch["minute"] = 0 /\ Epoch["second"] = 0
  BY DEF Epoch
<1>4. /\ 0 \in 0 .. 99 /\ 1 \in 1 .. 12 /\ 1 \in 1 .. 31 /\ 6 \in 0 .. 6
      /\ 0 \in 0 .. 23 /\ 0 \in 0 .. 59
  OBVIOUS
<1>5. ASSUME NEW r \in Registers PROVE Holds(r, Epoch[r])
  BY <1>2, <1>3, <1>4 DEF Holds, Registers
<1> QED BY <1>1, <1>5

LEMMA HoldsInRange ==
  ASSUME NEW c \in Faces, NEW r \in Registers, Holds(r, c[r])
  PROVE  InRange(c, r)
<1> DEFINE e == [Epoch EXCEPT ![r] = c[r]]
<1>1. \A q \in Registers : e[q] = IF q = r THEN c[r] ELSE Epoch[q]
  BY EpochHolds DEF Faces
<1> HIDE DEF e
<1>2. \A q \in Registers : Holds(q, e[q])
  BY <1>1, EpochHolds
<1>3. Reachable(e)
  BY <1>2, ReachableHolds
<1> QED BY <1>3 DEF InRange, e

(* A register that moves takes a value it reaches.                         *)
Moved(c, d) == d \in Faces /\ \A r \in Registers : d[r] # c[r] => Holds(r, d[r])

LEMMA MovedOn ==
  ASSUME NEW b, NEW c, NEW d, Moved(b, c), Moved(c, d)
  PROVE  Moved(b, d)
BY DEF Moved

LEMMA PutMoves ==
  ASSUME NEW c \in Faces, NEW unit \in Registers, NEW n \in 0 .. 99, Holds(unit, ToBcd(n))
  PROVE  Moved(c, Put(c, unit, n))
<1> DEFINE d == Put(c, unit, n)
<1>1. d \in Faces /\ d[unit] = ToBcd(n) /\ \A r \in Registers \ {unit} : d[r] = c[r]
  BY PutFacts
<1> HIDE DEF d
<1>2. Moved(c, d)
  BY <1>1 DEF Moved
<1> QED BY <1>2 DEF d

(* A month has at most 31 days.                                            *)
LEMMA MonthLengths ==
  ASSUME NEW m, NEW y
  PROVE  DaysInMonth(m, y) \in 28 .. 31
BY DEF DaysInMonth

LEMMA CountFacts ==
  ASSUME NEW c \in Faces, NEW r \in Registers
  PROVE  Count(c, r) \in Nat \ {0}
<1>1. c[r] \in 0 .. 255
  BY DEF Faces
<1> QED BY <1>1, BcdReads DEF Count

LEMMA NextMonthMoves ==
  ASSUME NEW c \in Faces
  PROVE  Moved(c, NextMonth(c))
<1>1. /\ Count(c, "month") \in Nat \ {0} /\ Count(c, "year") \in Nat \ {0}
      /\ "month" \in Registers /\ "year" \in Registers
  BY CountFacts DEF Registers
<1>2. CASE Count(c, "month") <= 12
  <2>1. Count(c, "month") \in 1 .. 12 /\ Count(c, "month") \in 0 .. 99
    BY <1>1, <1>2
  <2>2. Holds("month", ToBcd(Count(c, "month")))
    BY <2>1 DEF Holds
  <2> QED BY <1>1, <1>2, <2>1, <2>2, PutMoves DEF NextMonth
<1>3. CASE ~(Count(c, "month") <= 12)
  <2> DEFINE d == Put(c, "month", 1)
             y == Count(c, "year") % 100
  <2>1. y \in 0 .. 99
    BY <1>1
  <2> HIDE DEF y
  <2>2. 1 \in 1 .. 12 /\ 1 \in 0 .. 99
    OBVIOUS
  <2>3. Holds("month", ToBcd(1)) /\ Holds("year", ToBcd(y))
    BY <2>1, <2>2 DEF Holds
  <2>4. Moved(c, d) /\ d \in Faces
    BY <1>1, <2>2, <2>3, PutMoves DEF Moved
  <2> HIDE DEF d
  <2>5. Moved(d, Put(d, "year", y))
    BY <1>1, <2>1, <2>3, <2>4, PutMoves
  <2>6. NextMonth(c) = Put(d, "year", y)
    BY <1>3 DEF NextMonth, d, y
  <2> QED BY <2>4, <2>5, <2>6, MovedOn
<1> QED BY <1>2, <1>3

LEMMA NextDayMoves ==
  ASSUME NEW c \in Faces
  PROVE  Moved(c, NextDay(c))
<1> DEFINE w == [c EXCEPT !.weekday = (@ + 1) % 7]
           n == Count(c, "day")
<1>1. "weekday" \in Registers /\ "day" \in Registers /\ n \in Nat \ {0}
      /\ c["weekday"] \in 0 .. 255
  BY CountFacts DEF Registers, Faces
<1>2. (c["weekday"] + 1) % 7 \in 0 .. 6
  BY <1>1
<1>3. w \in Faces /\ w["weekday"] = (c["weekday"] + 1) % 7
      /\ \A r \in Registers \ {"weekday"} : w[r] = c[r]
  BY <1>1, <1>2 DEF Faces
<1>4. Moved(c, w)
  BY <1>2, <1>3 DEF Moved, Holds
<1>5. NextDay(c) = IF n <= DaysInMonth(FromBcd(c.month), FromBcd(c.year))
                   THEN Put(w, "day", n) ELSE NextMonth(Put(w, "day", 1))
  BY DEF NextDay
<1> HIDE DEF w, n
<1>6. CASE n <= DaysInMonth(FromBcd(c.month), FromBcd(c.year))
  <2>1. n \in 1 .. 31 /\ n \in 0 .. 99
    BY <1>1, <1>6, MonthLengths
  <2>2. Holds("day", ToBcd(n))
    BY <2>1 DEF Holds
  <2>3. Moved(w, Put(w, "day", n))
    BY <1>1, <1>3, <2>1, <2>2, PutMoves
  <2> QED BY <1>4, <1>5, <1>6, <2>3, MovedOn
<1>7. CASE ~(n <= DaysInMonth(FromBcd(c.month), FromBcd(c.year)))
  <2> DEFINE d == Put(w, "day", 1)
  <2>1. 1 \in 1 .. 31 /\ 1 \in 0 .. 99
    OBVIOUS
  <2>2. Holds("day", ToBcd(1))
    BY <2>1 DEF Holds
  <2>3. Moved(w, d) /\ d \in Faces
    BY <1>1, <1>3, <2>1, <2>2, PutMoves DEF Moved
  <2> HIDE DEF d
  <2>4. Moved(d, NextMonth(d))
    BY <2>3, NextMonthMoves
  <2>5. NextDay(c) = NextMonth(d)
    BY <1>5, <1>7 DEF d
  <2> QED BY <1>4, <2>3, <2>4, <2>5, MovedOn
<1> QED BY <1>6, <1>7

LEMMA NextHourMoves ==
  ASSUME NEW c \in Faces
  PROVE  Moved(c, NextHour(c))
<1> DEFINE n == Count(c, "hour")
           d == Put(c, "hour", 0)
<1>1. n \in Nat \ {0} /\ "hour" \in Registers
  BY CountFacts DEF Registers
<1>2. NextHour(c) = IF n < 24 THEN Put(c, "hour", n) ELSE NextDay(d)
  BY DEF NextHour
<1> HIDE DEF n, d
<1>3. CASE n < 24
  <2>1. n \in 0 .. 23 /\ n \in 0 .. 99
    BY <1>1, <1>3
  <2>2. Holds("hour", ToBcd(n))
    BY <2>1 DEF Holds
  <2> QED BY <1>1, <1>2, <1>3, <2>1, <2>2, PutMoves
<1>4. CASE ~(n < 24)
  <2>1. 0 \in 0 .. 23 /\ 0 \in 0 .. 99
    OBVIOUS
  <2>2. Holds("hour", ToBcd(0))
    BY <2>1 DEF Holds
  <2>3. Moved(c, d) /\ d \in Faces
    BY <1>1, <2>1, <2>2, PutMoves DEF Moved, d
  <2> QED BY <1>2, <1>4, <2>3, NextDayMoves, MovedOn
<1> QED BY <1>3, <1>4

LEMMA NextMinuteMoves ==
  ASSUME NEW c \in Faces
  PROVE  Moved(c, NextMinute(c))
<1> DEFINE n == Count(c, "minute")
           d == Put(c, "minute", 0)
<1>1. n \in Nat \ {0} /\ "minute" \in Registers
  BY CountFacts DEF Registers
<1>2. NextMinute(c) = IF n < 60 THEN Put(c, "minute", n) ELSE NextHour(d)
  BY DEF NextMinute
<1> HIDE DEF n, d
<1>3. CASE n < 60
  <2>1. n \in 0 .. 59 /\ n \in 0 .. 99
    BY <1>1, <1>3
  <2>2. Holds("minute", ToBcd(n))
    BY <2>1 DEF Holds
  <2> QED BY <1>1, <1>2, <1>3, <2>1, <2>2, PutMoves
<1>4. CASE ~(n < 60)
  <2>1. 0 \in 0 .. 59 /\ 0 \in 0 .. 99
    OBVIOUS
  <2>2. Holds("minute", ToBcd(0))
    BY <2>1 DEF Holds
  <2>3. Moved(c, d) /\ d \in Faces
    BY <1>1, <2>1, <2>2, PutMoves DEF Moved, d
  <2> QED BY <1>2, <1>4, <2>3, NextHourMoves, MovedOn
<1> QED BY <1>3, <1>4

(* Whatever bytes the game wrote, a second moves registers into range.     *)
LEMMA SecondMoves ==
  ASSUME NEW c \in Faces
  PROVE  Moved(c, NextSecond(c))
<1> DEFINE n == Count(c, "second")
           d == Put(c, "second", 0)
<1>1. n \in Nat \ {0} /\ "second" \in Registers
  BY CountFacts DEF Registers
<1>2. NextSecond(c) = IF n < 60 THEN Put(c, "second", n) ELSE NextMinute(d)
  BY DEF NextSecond
<1> HIDE DEF n, d
<1>3. CASE n < 60
  <2>1. n \in 0 .. 59 /\ n \in 0 .. 99
    BY <1>1, <1>3
  <2>2. Holds("second", ToBcd(n))
    BY <2>1 DEF Holds
  <2> QED BY <1>1, <1>2, <1>3, <2>1, <2>2, PutMoves
<1>4. CASE ~(n < 60)
  <2>1. 0 \in 0 .. 59 /\ 0 \in 0 .. 99
    OBVIOUS
  <2>2. Holds("second", ToBcd(0))
    BY <2>1 DEF Holds
  <2>3. Moved(c, d) /\ d \in Faces
    BY <1>1, <2>1, <2>2, PutMoves DEF Moved, d
  <2> QED BY <1>2, <1>4, <2>3, NextMinuteMoves, MovedOn
<1> QED BY <1>3, <1>4

(* The calendar, on numbers.                                               *)
Days(y, m, d) ==
  365 * y + (y + 3) \div 4 + MonthStart[m] + (IF m > 2 /\ Leap(y) THEN 1 ELSE 0) + d - 1

LEMMA MonthStarts ==
  /\ MonthStart[1] = 0 /\ MonthStart[2] = 31 /\ MonthStart[3] = 59 /\ MonthStart[4] = 90
  /\ MonthStart[5] = 120 /\ MonthStart[6] = 151 /\ MonthStart[7] = 181 /\ MonthStart[8] = 212
  /\ MonthStart[9] = 243 /\ MonthStart[10] = 273 /\ MonthStart[11] = 304 /\ MonthStart[12] = 334
BY DEF MonthStart

(* The days before a month and the next, or the year's end.                *)
MonthEnd(y, m) ==
  /\ MonthStart[m] \in 0 .. 334
  /\ m < 12 => MonthStart[m] + DaysInMonth(m, y)
                 = MonthStart[m + 1] + (IF m = 2 /\ Leap(y) THEN 1 ELSE 0)
  /\ m = 12 => MonthStart[m] + DaysInMonth(m, y) = 365
  /\ MonthStart[m] + DaysInMonth(m, y) + (IF m > 2 /\ Leap(y) THEN 1 ELSE 0)
       <= 365 + (IF Leap(y) THEN 1 ELSE 0)

LEMMA MonthEnds ==
  ASSUME NEW y \in 0 .. 99, NEW m \in 1 .. 12
  PROVE  MonthEnd(y, m)
<1> USE MonthStarts DEF DaysInMonth, Leap, MonthEnd
<1>1. CASE m \in 1 .. 3
  <2>1. m = 1 \/ m = 2 \/ m = 3
    BY <1>1
  <2> QED BY <2>1
<1>2. CASE m \in 4 .. 6
  <2>1. m = 4 \/ m = 5 \/ m = 6
    BY <1>2
  <2> QED BY <2>1
<1>3. CASE m \in 7 .. 9
  <2>1. m = 7 \/ m = 8 \/ m = 9
    BY <1>3
  <2> QED BY <2>1
<1>4. CASE m \in 10 .. 12
  <2>1. m = 10 \/ m = 11 \/ m = 12
    BY <1>4
  <2> QED BY <2>1
<1> QED BY <1>1, <1>2, <1>3, <1>4

(* A date and the next have consecutive numbers, round the century.        *)
Consecutive(y, m, d) ==
  /\ Days(y, m, d) \in Nat /\ Days(y, m, d) < 36525
  /\ d < DaysInMonth(m, y) => Days(y, m, d + 1) = (Days(y, m, d) + 1) % 36525
  /\ d = DaysInMonth(m, y) /\ m < 12 => Days(y, m + 1, 1) = (Days(y, m, d) + 1) % 36525
  /\ d = DaysInMonth(m, y) /\ m = 12
       => Days((y + 1) % 100, 1, 1) = (Days(y, m, d) + 1) % 36525

(* The days before a year, and its leap day.                               *)
YearSum(y, before, leap) ==
  /\ before \in Nat /\ leap \in 0 .. 1
  /\ before + 365 + leap <= 36525
  /\ y = 99 => before + 365 + leap = 36525
  /\ y < 99 => before + 365 + leap <= 36160
  /\ 365 * (y + 1) + ((y + 1) + 3) \div 4 = before + 365 + leap

LEMMA YearStarts ==
  ASSUME NEW y \in 0 .. 99, NEW before, NEW leap,
         before = 365 * y + (y + 3) \div 4, leap = IF Leap(y) THEN 1 ELSE 0
  PROVE  YearSum(y, before, leap)
<1>1. PICK q \in 0 .. 24, r \in 0 .. 3 : y = 4 * q + r
  BY y \div 4 \in 0 .. 24, y % 4 \in 0 .. 3, y = 4 * (y \div 4) + (y % 4)
<1>2. y % 4 = r /\ ((y + 1) + 3) \div 4 = q + 1
  BY <1>1
<1>3. PICK p \in 0 .. 1 : leap + p = 1 /\ before = 365 * y + q + p /\ (p = 0 <=> r = 0)
  <2>1. CASE r = 0
    <3>1. leap = 1 /\ (y + 3) \div 4 = q
      BY <1>1, <1>2, <2>1 DEF Leap
    <3>2. leap + 0 = 1 /\ before = 365 * y + q + 0 /\ (0 = 0 <=> r = 0)
      BY <2>1, <3>1
    <3> QED BY <3>2
  <2>2. CASE r # 0
    <3>1. leap = 0 /\ (y + 3) \div 4 = q + 1
      BY <1>1, <1>2, <2>2 DEF Leap
    <3>2. leap + 1 = 1 /\ before = 365 * y + q + 1 /\ ~(1 = 0)
      BY <2>2, <3>1
    <3> QED BY <2>2, <3>2
  <2> QED BY <2>1, <2>2
<1>4. leap \in 0 .. 1 /\ leap = 1 - p
  <2>1. leap \in 0 .. 1
    OBVIOUS
  <2> QED BY <1>3, <2>1
<1>5. before \in Nat
  BY <1>3
<1>6. before + 365 + leap = 365 * y + q + 366
  BY <1>3, <1>4, <1>5
<1>7. 365 * (y + 1) + (q + 1) = 365 * y + q + 366
  OBVIOUS
<1>8. 365 * (y + 1) + ((y + 1) + 3) \div 4 = before + 365 + leap
  BY <1>2, <1>6, <1>7
<1>9. before + 365 + leap <= 36525
  BY <1>6
<1>10. y = 99 => before + 365 + leap = 36525
  BY <1>1, <1>6
<1>11. y < 99 => before + 365 + leap <= 36160
  BY <1>1, <1>6
<1> QED BY <1>4, <1>5, <1>8, <1>9, <1>10, <1>11 DEF YearSum

LEMMA DaysTurn ==
  ASSUME NEW y \in 0 .. 99, NEW m \in 1 .. 12, NEW d \in 1 .. DaysInMonth(m, y)
  PROVE  Consecutive(y, m, d)
<1> DEFINE start == MonthStart[m]
           long == DaysInMonth(m, y)
           later == MonthStart[m + 1]
           before == 365 * y + (y + 3) \div 4
           leap == IF Leap(y) THEN 1 ELSE 0
           n == Days(y, m, d)
           done == IF m > 2 /\ Leap(y) THEN 1 ELSE 0     \* the leap day has passed
           then == IF m + 1 > 2 /\ Leap(y) THEN 1 ELSE 0  \* ... a month later
           here == IF m = 2 /\ Leap(y) THEN 1 ELSE 0     \* it is in this month
<1>1. long \in 28 .. 31
  BY MonthLengths
<1>2. MonthEnd(y, m)
  BY MonthEnds
<1>3. /\ before \in Nat /\ leap \in 0 .. 1
      /\ before + 365 + leap <= 36525
      /\ y = 99 => before + 365 + leap = 36525
      /\ y < 99 => before + 365 + leap <= 36160
      /\ 365 * (y + 1) + ((y + 1) + 3) \div 4 = before + 365 + leap
  <2> HIDE DEF before, leap
  <2>1. before = 365 * y + (y + 3) \div 4 /\ leap = IF Leap(y) THEN 1 ELSE 0
    BY DEF before, leap
  <2>2. YearSum(y, before, leap)
    BY <2>1, YearStarts
  <2> QED BY <2>2 DEF YearSum
<1>4. n = before + start + done + d - 1 /\ Days(y, m, d + 1) = before + start + done + (d + 1) - 1
  BY DEF Days
<1>5. Days(y, m + 1, 1) = before + later + then + 1 - 1
  BY DEF Days
<1>6. /\ start \in 0 .. 334 /\ start + long + done <= 365 + leap
      /\ m < 12 => start + long = later + here
      /\ m = 12 => start + long = 365
  BY <1>2 DEF MonthEnd
<1>7. ASSUME m < 12 PROVE later \in 0 .. 334
  <2> DEFINE k == m + 1
  <2>1. k \in 1 .. 12
    BY <1>7
  <2> HIDE DEF k
  <2>2. MonthEnd(y, k)
    BY <2>1, MonthEnds
  <2>3. MonthStart[k] \in 0 .. 334
    BY <2>2 DEF MonthEnd
  <2> QED BY <2>3 DEF k
<1>8. Days(0, 1, 1) = 0
  BY MonthStarts DEF Days
<1>9. ASSUME y < 99 PROVE Days(y + 1, 1, 1) = before + 365 + leap
  <2>1. Days(y + 1, 1, 1) = 365 * (y + 1) + ((y + 1) + 3) \div 4 + 0 + 0 + 1 - 1
    BY MonthStarts DEF Days
  <2> HIDE DEF before, leap
  <2> DEFINE k == 365 * (y + 1) + ((y + 1) + 3) \div 4
  <2>2. k = before + 365 + leap
    BY <1>3
  <2>3. Days(y + 1, 1, 1) = k + 0 + 0 + 1 - 1
    BY <2>1
  <2> HIDE DEF k
  <2> QED BY <1>3, <2>2, <2>3
<1>10. /\ done \in 0 .. 1 /\ then \in 0 .. 1 /\ here \in 0 .. 1 /\ done + here = then
       /\ m = 12 => done = leap
  OBVIOUS
<1>11. d \in 1 .. long
  OBVIOUS
<1> HIDE DEF start, later, before, leap, n, long, done, then, here
<1>12. n \in Nat /\ n < 36525 /\ (d < long => n < 36524)
  <2>1. before \in Nat /\ leap \in 0 .. 1 /\ before + 365 + leap <= 36525
    BY <1>3
  <2>2. start \in 0 .. 334 /\ start + long + done <= 365 + leap /\ done \in 0 .. 1
    BY <1>6, <1>10
  <2>3. n = before + start + done + d - 1
    BY <1>4
  <2>4. n \in Int /\ n >= 0 /\ n <= 36524
    BY <1>1, <1>11, <2>1, <2>2, <2>3
  <2>5. d < long => n <= 36523
    BY <1>1, <1>11, <2>1, <2>2, <2>3
  <2> QED BY <2>4, <2>5
<1>13. ASSUME NEW x \in Nat, x < 36524 PROVE (x + 1) % 36525 = x + 1
  BY <1>13
<1>14. ASSUME d < long PROVE Days(y, m, d + 1) = (n + 1) % 36525
  <2>1. Days(y, m, d + 1) = n + 1
    <3>1. before \in Int /\ start \in Int /\ done \in Int /\ d \in Int
      BY <1>3, <1>6, <1>10
    <3>2. before + start + done + (d + 1) - 1 = (before + start + done + d - 1) + 1
      BY <3>1
    <3> QED BY <1>4, <3>2
  <2> QED BY <1>12, <1>13, <1>14, <2>1
<1>15. ASSUME d = long, m < 12 PROVE Days(y, m + 1, 1) = (n + 1) % 36525
  <2>1. /\ before \in Nat /\ start \in 0 .. 334 /\ long \in 28 .. 31 /\ later \in 0 .. 334
        /\ done \in 0 .. 1 /\ then \in 0 .. 1 /\ here \in 0 .. 1 /\ done + here = then
        /\ start + long = later + here /\ n = before + start + done + long - 1
        /\ Days(y, m + 1, 1) = before + later + then + 1 - 1
    BY <1>1, <1>3, <1>4, <1>5, <1>6, <1>7, <1>10, <1>15
  <2>2. Days(y, m + 1, 1) = n + 1
    <3>1. n + 1 = before + (start + long) + done
      BY <2>1
    <3>2. n + 1 = before + later + then
      BY <2>1, <3>1
    <3>3. Days(y, m + 1, 1) = before + later + then
      BY <2>1
    <3> QED BY <3>2, <3>3
  <2>3. n \in Nat /\ n < 36524
    <3>1. before + 365 + leap <= 36525 /\ leap \in Nat
      BY <1>3
    <3>2. n = before + later + then - 1
      BY <2>1
    <3>3. n <= 36523
      BY <2>1, <3>1, <3>2
    <3> QED BY <1>12, <3>3
  <2> QED BY <1>13, <2>2, <2>3
<1>16. ASSUME d = long, m = 12 PROVE Days((y + 1) % 100, 1, 1) = (n + 1) % 36525
  <2>1. /\ before \in Nat /\ start \in 0 .. 334 /\ long \in 28 .. 31
        /\ leap \in 0 .. 1 /\ done = leap
        /\ start + long = 365 /\ n = before + start + done + long - 1
    BY <1>1, <1>3, <1>4, <1>6, <1>10, <1>16
  <2>2. n + 1 = before + 365 + leap
    BY <2>1
  <2>3. CASE y < 99
    <3>1. before + 365 + leap <= 36160 /\ n \in Nat /\ n < 36525
      BY <1>3, <1>12, <2>3
    <3>2. n \in Nat /\ n < 36524
      <4>1. n + 1 <= 36160
        BY <2>2, <3>1
      <4>2. n \in Nat /\ n <= 36523
        BY <3>1, <4>1
      <4> QED BY <4>2
    <3>3. (y + 1) % 100 = y + 1
      BY <2>3
    <3>4. Days((y + 1) % 100, 1, 1) = n + 1
      BY <1>9, <2>2, <2>3, <3>3
    <3> QED BY <1>13, <3>2, <3>4
  <2>4. CASE y = 99
    <3>1. n = 36524
      <4>1. n + 1 = 36525 /\ n \in Nat /\ n < 36525
        BY <1>3, <1>12, <2>2, <2>4
      <4> QED BY <4>1
    <3>2. (y + 1) % 100 = 0 /\ (36524 + 1) % 36525 = 0
      BY <2>4
    <3> QED BY <1>8, <3>1, <3>2
  <2> QED BY <2>3, <2>4
<1>17. Days(y, m, d) \in Nat /\ Days(y, m, d) < 36525
  BY <1>12 DEF n
<1>18. d < DaysInMonth(m, y) => Days(y, m, d + 1) = (Days(y, m, d) + 1) % 36525
  BY <1>14 DEF n, long
<1>19. d = DaysInMonth(m, y) /\ m < 12 => Days(y, m + 1, 1) = (Days(y, m, d) + 1) % 36525
  BY <1>15 DEF n, long
<1>20. d = DaysInMonth(m, y) /\ m = 12
         => Days((y + 1) % 100, 1, 1) = (Days(y, m, d) + 1) % 36525
  BY <1>16 DEF n, long
<1> QED BY <1>17, <1>18, <1>19, <1>20 DEF Consecutive

-----------------------------------------------------------------------------
(* A clock that shows a moment.                                            *)
LEMMA DatedFacts ==
  ASSUME NEW c \in Faces, Reachable(c)
  PROVE  /\ FromBcd(c.year) \in 0 .. 99 /\ FromBcd(c.month) \in 1 .. 12
         /\ FromBcd(c.day) \in 1 .. 31 /\ c.weekday \in 0 .. 6
         /\ FromBcd(c.hour) \in 0 .. 23 /\ FromBcd(c.minute) \in 0 .. 59
         /\ FromBcd(c.second) \in 0 .. 59
<1>1. PICK y \in 0 .. 99 : c.year = ToBcd(y)
  BY DEF Reachable
<1>2. PICK m \in 1 .. 12 : c.month = ToBcd(m)
  BY DEF Reachable
<1>3. PICK d \in 1 .. 31 : c.day = ToBcd(d)
  BY DEF Reachable
<1>4. PICK h \in 0 .. 23 : c.hour = ToBcd(h)
  BY DEF Reachable
<1>5. PICK n \in 0 .. 59 : c.minute = ToBcd(n)
  BY DEF Reachable
<1>6. PICK s \in 0 .. 59 : c.second = ToBcd(s)
  BY DEF Reachable
<1>7. /\ y \in 0 .. 99 /\ m \in 0 .. 99 /\ d \in 0 .. 99 /\ h \in 0 .. 99
      /\ n \in 0 .. 99 /\ s \in 0 .. 99
  OBVIOUS
<1>8. FromBcd(c.year) = y /\ FromBcd(c.month) = m /\ FromBcd(c.day) = d
  BY <1>1, <1>2, <1>3, <1>7, BcdKeeps
<1>9. FromBcd(c.hour) = h /\ FromBcd(c.minute) = n /\ FromBcd(c.second) = s
  BY <1>4, <1>5, <1>6, <1>7, BcdKeeps
<1> QED BY <1>8, <1>9 DEF Reachable

(* One register of c was set to the number n.                              *)
Sets(c, d, unit, n) ==
  d \in Faces /\ FromBcd(d[unit]) = n /\ \A r \in Registers \ {unit} : d[r] = c[r]

LEMMA PutReads ==
  ASSUME NEW c \in Faces, NEW unit \in Registers, NEW n \in 0 .. 99
  PROVE  Sets(c, Put(c, unit, n), unit, n)
<1>1. /\ Put(c, unit, n) \in Faces /\ Put(c, unit, n)[unit] = ToBcd(n)
      /\ \A r \in Registers \ {unit} : Put(c, unit, n)[r] = c[r]
  BY PutFacts
<1>2. FromBcd(ToBcd(n)) = n
  BY BcdKeeps
<1> QED BY <1>1, <1>2 DEF Sets

(* A day later: the next date of the calendar, the next weekday.           *)
LEMMA DayTurns ==
  ASSUME NEW c \in Faces, Dated(c)
  PROVE  LET d == NextDay(c)
         IN  /\ DayNumber(d) = (DayNumber(c) + 1) % 36525
             /\ FromBcd(d.day) <= DaysInMonth(FromBcd(d.month), FromBcd(d.year))
             /\ d.weekday = (c.weekday + 1) % 7
             /\ d.hour = c.hour /\ d.minute = c.minute /\ d.second = c.second
<1> DEFINE y == FromBcd(c.year)
           m == FromBcd(c.month)
           d == FromBcd(c.day)
           w == [c EXCEPT !.weekday = (@ + 1) % 7]
           e == NextDay(c)
<1>1. /\ y \in 0 .. 99 /\ m \in 1 .. 12 /\ d \in 1 .. DaysInMonth(m, y)
      /\ c.weekday \in 0 .. 6 /\ DaysInMonth(m, y) \in 28 .. 31
  <2>1. /\ y \in 0 .. 99 /\ m \in 1 .. 12 /\ d \in 1 .. 31 /\ c.weekday \in 0 .. 6
        /\ d <= DaysInMonth(m, y)
    BY DatedFacts DEF Dated
  <2>2. DaysInMonth(m, y) \in 28 .. 31
    BY MonthLengths
  <2> HIDE DEF y, m, d
  <2> QED BY <2>1, <2>2
<1>2. /\ "year" \in Registers /\ "month" \in Registers /\ "day" \in Registers
      /\ "weekday" \in Registers /\ "hour" \in Registers /\ "minute" \in Registers
      /\ "second" \in Registers
  BY DEF Registers
<1>3. /\ w \in Faces /\ w["weekday"] = (c["weekday"] + 1) % 7
      /\ \A r \in Registers \ {"weekday"} : w[r] = c[r]
  <2>1. c["weekday"] \in 0 .. 6
    BY <1>1
  <2>2. (c["weekday"] + 1) % 7 \in 0 .. 255
    BY <2>1
  <2> QED BY <1>2, <2>2 DEF Faces
<1>4. \A f : DayNumber(f) = Days(FromBcd(f.year), FromBcd(f.month), FromBcd(f.day))
  BY DEF DayNumber, Days
<1>5. e = IF d + 1 <= DaysInMonth(m, y) THEN Put(w, "day", d + 1)
          ELSE NextMonth(Put(w, "day", 1))
  BY DEF NextDay, Count
<1> HIDE DEF y, m, d, w, e
<1>6. CASE d + 1 <= DaysInMonth(m, y)
  <2>1. d + 1 \in 0 .. 99 /\ d < DaysInMonth(m, y)
    BY <1>1, <1>6
  <2>2. /\ e \in Faces /\ FromBcd(e["day"]) = d + 1
        /\ \A r \in Registers \ {"day"} : e[r] = w[r]
    <3> DEFINE k == d + 1
    <3>1. k \in 0 .. 99 /\ e = Put(w, "day", k)
      BY <1>5, <1>6, <2>1
    <3> HIDE DEF k
    <3>2. Sets(w, e, "day", k)
      BY <1>2, <1>3, <3>1, PutReads
    <3> QED BY <3>2 DEF Sets, k
  <2>3. /\ e.year = c.year /\ e.month = c.month /\ e.weekday = (c.weekday + 1) % 7
        /\ e.hour = c.hour /\ e.minute = c.minute /\ e.second = c.second
    BY <1>2, <1>3, <2>2
  <2>4. DayNumber(e) = Days(y, m, d + 1) /\ DayNumber(c) = Days(y, m, d)
    BY <1>4, <2>2, <2>3 DEF y, m, d
  <2>5. Days(y, m, d + 1) = (Days(y, m, d) + 1) % 36525
    <3>1. Consecutive(y, m, d)
      BY <1>1, DaysTurn
    <3> QED BY <2>1, <3>1 DEF Consecutive
  <2>6. FromBcd(e.day) <= DaysInMonth(FromBcd(e.month), FromBcd(e.year))
    BY <1>6, <2>2, <2>3 DEF y, m
  <2> QED BY <2>3, <2>4, <2>5, <2>6 DEF e
<1>7. CASE ~(d + 1 <= DaysInMonth(m, y))
  <2> DEFINE f == Put(w, "day", 1)
  <2>1. d = DaysInMonth(m, y)
    BY <1>1, <1>7
  <2>2. f \in Faces /\ FromBcd(f["day"]) = 1 /\ \A r \in Registers \ {"day"} : f[r] = w[r]
    <3>1. 1 \in 0 .. 99
      OBVIOUS
    <3>2. Sets(w, f, "day", 1)
      BY <1>2, <1>3, <3>1, PutReads
    <3> HIDE DEF f
    <3> QED BY <3>2 DEF Sets
  <2>3. e = NextMonth(f)
    BY <1>5, <1>7
  <2> HIDE DEF f
  <2>4. /\ f.year = c.year /\ f.month = c.month /\ f.weekday = (c.weekday + 1) % 7
        /\ f.hour = c.hour /\ f.minute = c.minute /\ f.second = c.second
    BY <1>2, <1>3, <2>2
  <2>5. Count(f, "month") = m + 1 /\ Count(f, "year") = y + 1
    BY <2>4 DEF Count, m, y
  <2>6. CASE m + 1 <= 12
    <3>1. m + 1 \in 0 .. 99 /\ m < 12 /\ m + 1 \in 1 .. 12
      BY <1>1, <2>6
    <3>2. e = Put(f, "month", m + 1)
      BY <2>3, <2>5, <2>6 DEF NextMonth
    <3>3. /\ FromBcd(e["month"]) = m + 1
          /\ \A r \in Registers \ {"month"} : e[r] = f[r]
      <4> DEFINE k == m + 1
      <4>1. k \in 0 .. 99 /\ e = Put(f, "month", k)
        BY <3>1, <3>2
      <4> HIDE DEF k
      <4>2. Sets(f, e, "month", k)
        BY <1>2, <2>2, <4>1, PutReads
      <4> QED BY <4>2 DEF Sets, k
    <3>4. /\ e.year = c.year /\ FromBcd(e.day) = 1 /\ e.weekday = (c.weekday + 1) % 7
          /\ e.hour = c.hour /\ e.minute = c.minute /\ e.second = c.second
      BY <1>2, <2>2, <2>4, <3>3
    <3>5. DayNumber(e) = Days(y, m + 1, 1) /\ DayNumber(c) = Days(y, m, d)
      BY <1>4, <3>3, <3>4 DEF y, m, d
    <3>6. Days(y, m + 1, 1) = (Days(y, m, d) + 1) % 36525
      <4>1. Consecutive(y, m, d)
        BY <1>1, DaysTurn
      <4>2. m < 12
        BY <3>1
      <4> QED BY <2>1, <4>1, <4>2 DEF Consecutive
    <3>7. DaysInMonth(FromBcd(e.month), FromBcd(e.year)) \in 28 .. 31
      BY MonthLengths
    <3> QED BY <3>4, <3>5, <3>6, <3>7 DEF e
  <2>7. CASE ~(m + 1 <= 12)
    <3> DEFINE g == Put(f, "month", 1)
               z == (y + 1) % 100
    <3>1. m = 12 /\ z \in 0 .. 99 /\ 1 \in 0 .. 99
      BY <1>1, <2>7
    <3>2. e = Put(g, "year", z)
      BY <2>3, <2>5, <2>7 DEF NextMonth
    <3>3. g \in Faces /\ FromBcd(g["month"]) = 1 /\ \A r \in Registers \ {"month"} : g[r] = f[r]
      <4>1. Sets(f, g, "month", 1)
        BY <1>2, <2>2, <3>1, PutReads
      <4> HIDE DEF g
      <4> QED BY <4>1 DEF Sets
    <3> HIDE DEF g, z
    <3>4. FromBcd(e["year"]) = z /\ \A r \in Registers \ {"year"} : e[r] = g[r]
      <4>1. Sets(g, e, "year", z)
        BY <1>2, <3>1, <3>2, <3>3, PutReads
      <4> QED BY <4>1 DEF Sets
    <3>5. /\ FromBcd(e.month) = 1 /\ FromBcd(e.day) = 1 /\ e.weekday = (c.weekday + 1) % 7
          /\ e.hour = c.hour /\ e.minute = c.minute /\ e.second = c.second
      BY <1>2, <2>2, <2>4, <3>3, <3>4
    <3>6. DayNumber(e) = Days(z, 1, 1) /\ DayNumber(c) = Days(y, m, d)
      BY <1>4, <3>4, <3>5 DEF y, m, d
    <3>7. Days(z, 1, 1) = (Days(y, m, d) + 1) % 36525
      <4>1. Consecutive(y, m, d)
        BY <1>1, DaysTurn
      <4>2. m = 12
        BY <3>1
      <4>3. Days((y + 1) % 100, 1, 1) = (Days(y, m, d) + 1) % 36525
        BY <2>1, <4>1, <4>2 DEF Consecutive
      <4> QED BY <4>3 DEF z
    <3>8. DaysInMonth(FromBcd(e.month), FromBcd(e.year)) \in 28 .. 31
      BY MonthLengths
    <3> QED BY <3>5, <3>6, <3>7, <3>8 DEF e
  <2> QED BY <2>6, <2>7
<1> QED BY <1>6, <1>7

(* A second later, from any moment of the century.                         *)
LEMMA SecondTurns ==
  ASSUME NEW c \in Faces, Dated(c)
  PROVE  LET e == NextSecond(c)
             midnight == SecondOfDay(c) = 86399
         IN  /\ FromBcd(e.day) <= DaysInMonth(FromBcd(e.month), FromBcd(e.year))
             /\ SecondOfDay(e) = (SecondOfDay(c) + 1) % 86400
             /\ DayNumber(e) = (DayNumber(c) + IF midnight THEN 1 ELSE 0) % 36525
             /\ e.weekday = (c.weekday + IF midnight THEN 1 ELSE 0) % 7
<1> DEFINE h == FromBcd(c.hour)
           n == FromBcd(c.minute)
           s == FromBcd(c.second)
           e == NextSecond(c)
           day == FromBcd(c.day)
           long == DaysInMonth(FromBcd(c.month), FromBcd(c.year))
<1>1. /\ h \in 0 .. 23 /\ n \in 0 .. 59 /\ s \in 0 .. 59 /\ c.weekday \in 0 .. 6
      /\ day <= long
  BY DatedFacts DEF Dated
<1>2. /\ "year" \in Registers /\ "month" \in Registers /\ "day" \in Registers
      /\ "weekday" \in Registers /\ "hour" \in Registers /\ "minute" \in Registers
      /\ "second" \in Registers
  BY DEF Registers
<1>3. DayNumber(c) \in Nat /\ DayNumber(c) < 36525
  <2>1. DayNumber(c) = Days(FromBcd(c.year), FromBcd(c.month), FromBcd(c.day))
    BY DEF DayNumber, Days
  <2>2. /\ FromBcd(c.year) \in 0 .. 99 /\ FromBcd(c.month) \in 1 .. 12
        /\ FromBcd(c.day) \in 1 .. 31
    BY DatedFacts DEF Dated
  <2>3. long \in 28 .. 31 /\ FromBcd(c.day) <= long
    BY MonthLengths DEF Dated
  <2>4. FromBcd(c.day) \in 1 .. long
    <3> HIDE DEF long
    <3> QED BY <2>2, <2>3
  <2>5. Consecutive(FromBcd(c.year), FromBcd(c.month), FromBcd(c.day))
    BY <2>2, <2>4, DaysTurn
  <2> QED BY <2>1, <2>5 DEF Consecutive
<1>4. SecondOfDay(c) = (h * 60 + n) * 60 + s
  BY DEF SecondOfDay
<1>5. e = IF s + 1 < 60 THEN Put(c, "second", s + 1) ELSE NextMinute(Put(c, "second", 0))
  BY DEF NextSecond, Count
<1> HIDE DEF h, n, s, e
<1>6. ASSUME e.year = c.year, e.month = c.month, e.day = c.day, e.weekday = c.weekday,
             SecondOfDay(c) # 86399
      PROVE  /\ FromBcd(e.day) <= DaysInMonth(FromBcd(e.month), FromBcd(e.year))
             /\ DayNumber(e) = (DayNumber(c) + IF SecondOfDay(c) = 86399 THEN 1 ELSE 0) % 36525
             /\ e.weekday = (c.weekday + IF SecondOfDay(c) = 86399 THEN 1 ELSE 0) % 7
  <2>1. DayNumber(e) = DayNumber(c)
    BY <1>6 DEF DayNumber
  <2>2. (DayNumber(c) + 0) % 36525 = DayNumber(c)
    <3>1. PICK x \in Nat : DayNumber(c) = x /\ x < 36525
      BY <1>3
    <3>2. (x + 0) % 36525 = x
      BY <3>1
    <3> QED BY <3>1, <3>2
  <2>3. (c.weekday + 0) % 7 = c.weekday
    <3>1. \A x \in 0 .. 6 : (x + 0) % 7 = x
      OBVIOUS
    <3> QED BY <1>1, <3>1
  <2> QED BY <1>1, <1>6, <2>1, <2>2, <2>3
<1> HIDE DEF day, long
<1>7. CASE s + 1 < 60
  <2>1. s + 1 \in 0 .. 99
    BY <1>1
  <2>2. /\ FromBcd(e["second"]) = s + 1
        /\ \A r \in Registers \ {"second"} : e[r] = c[r]
    <3> DEFINE k == s + 1
    <3>1. k \in 0 .. 99 /\ e = Put(c, "second", k)
      BY <1>5, <1>7, <2>1
    <3> HIDE DEF k
    <3>2. Sets(c, e, "second", k)
      BY <1>2, <3>1, PutReads
    <3> QED BY <3>2 DEF Sets, k
  <2>3. SecondOfDay(e) = (h * 60 + n) * 60 + (s + 1)
    BY <1>2, <2>2 DEF SecondOfDay, h, n
  <2>4. SecondOfDay(c) # 86399 /\ SecondOfDay(e) = (SecondOfDay(c) + 1) % 86400
    BY <1>1, <1>4, <1>7, <2>3
  <2>5. e.year = c.year /\ e.month = c.month /\ e.day = c.day /\ e.weekday = c.weekday
    BY <1>2, <2>2
  <2> QED BY <1>6, <2>4, <2>5 DEF e
<1>8. CASE ~(s + 1 < 60)
  <2> DEFINE f == Put(c, "second", 0)
  <2>0. 0 \in 0 .. 99
    OBVIOUS
  <2>1. f \in Faces /\ FromBcd(f["second"]) = 0 /\ \A r \in Registers \ {"second"} : f[r] = c[r]
    <3>1. Sets(c, f, "second", 0)
      BY <1>2, <2>0, PutReads
    <3> HIDE DEF f
    <3> QED BY <3>1 DEF Sets
  <2>2. s = 59 /\ e = NextMinute(f)
    BY <1>1, <1>5, <1>8
  <2> HIDE DEF f
  <2>3. Count(f, "minute") = n + 1 /\ f.hour = c.hour
    BY <1>2, <2>1 DEF Count, n
  <2>4. CASE n + 1 < 60
    <3>1. n + 1 \in 0 .. 99
      BY <1>1
    <3>2. e = Put(f, "minute", n + 1)
      BY <2>2, <2>3, <2>4 DEF NextMinute
    <3>3. FromBcd(e["minute"]) = n + 1 /\ \A r \in Registers \ {"minute"} : e[r] = f[r]
      <4> DEFINE k == n + 1
      <4>1. k \in 0 .. 99 /\ e = Put(f, "minute", k)
        BY <3>1, <3>2
      <4> HIDE DEF k
      <4>2. Sets(f, e, "minute", k)
        BY <1>2, <2>1, <4>1, PutReads
      <4> QED BY <4>2 DEF Sets, k
    <3>4. SecondOfDay(e) = (h * 60 + (n + 1)) * 60 + 0
      BY <1>2, <2>1, <3>3 DEF SecondOfDay, h
    <3>5. SecondOfDay(c) # 86399 /\ SecondOfDay(e) = (SecondOfDay(c) + 1) % 86400
      BY <1>1, <1>4, <2>2, <2>4, <3>4
    <3>6. e.year = c.year /\ e.month = c.month /\ e.day = c.day /\ e.weekday = c.weekday
      BY <1>2, <2>1, <3>3
    <3> QED BY <1>6, <3>5, <3>6 DEF e
  <2>5. CASE ~(n + 1 < 60)
    <3> DEFINE g == Put(f, "minute", 0)
    <3>1. g \in Faces /\ FromBcd(g["minute"]) = 0 /\ \A r \in Registers \ {"minute"} : g[r] = f[r]
      <4>1. Sets(f, g, "minute", 0)
        BY <1>2, <2>0, <2>1, PutReads
      <4> HIDE DEF g
      <4> QED BY <4>1 DEF Sets
    <3>2. n = 59 /\ e = NextHour(g)
      BY <1>1, <2>2, <2>3, <2>5 DEF NextMinute
    <3> HIDE DEF g
    <3>3. Count(g, "hour") = h + 1
      BY <1>2, <2>1, <3>1 DEF Count, h
    <3>4. CASE h + 1 < 24
      <4>1. h + 1 \in 0 .. 99
        BY <1>1
      <4>2. e = Put(g, "hour", h + 1)
        BY <3>2, <3>3, <3>4 DEF NextHour
      <4>3. FromBcd(e["hour"]) = h + 1 /\ \A r \in Registers \ {"hour"} : e[r] = g[r]
        <5> DEFINE k == h + 1
        <5>1. k \in 0 .. 99 /\ e = Put(g, "hour", k)
          BY <4>1, <4>2
        <5> HIDE DEF k
        <5>2. Sets(g, e, "hour", k)
          BY <1>2, <3>1, <5>1, PutReads
        <5> QED BY <5>2 DEF Sets, k
      <4>4. SecondOfDay(e) = ((h + 1) * 60 + 0) * 60 + 0
        BY <1>2, <2>1, <3>1, <4>3 DEF SecondOfDay
      <4>5. SecondOfDay(c) # 86399 /\ SecondOfDay(e) = (SecondOfDay(c) + 1) % 86400
        BY <1>1, <1>4, <2>2, <3>2, <3>4, <4>4
      <4>6. e.year = c.year /\ e.month = c.month /\ e.day = c.day /\ e.weekday = c.weekday
        BY <1>2, <2>1, <3>1, <4>3
      <4> QED BY <1>6, <4>5, <4>6 DEF e
    <3>5. CASE ~(h + 1 < 24)
      <4> DEFINE k == Put(g, "hour", 0)
      <4>1. k \in Faces /\ FromBcd(k["hour"]) = 0 /\ \A r \in Registers \ {"hour"} : k[r] = g[r]
        <5>1. Sets(g, k, "hour", 0)
          BY <1>2, <2>0, <3>1, PutReads
        <5> HIDE DEF k
        <5> QED BY <5>1 DEF Sets
      <4>2. h = 23 /\ e = NextDay(k)
        BY <1>1, <3>2, <3>3, <3>5 DEF NextHour
      <4>3. Reachable(k)
        <5>1. Holds("hour", ToBcd(0)) /\ Holds("minute", ToBcd(0)) /\ Holds("second", ToBcd(0))
          <6>1. 0 \in 0 .. 23 /\ 0 \in 0 .. 59
            OBVIOUS
          <6> QED BY <6>1 DEF Holds
        <5>2. Moved(c, f) /\ Moved(f, g) /\ Moved(g, k)
          BY <1>2, <2>0, <2>1, <3>1, <5>1, PutMoves DEF f, g
        <5>3. Moved(c, k)
          BY <5>2, MovedOn
        <5>4. \A r \in Registers : Holds(r, c[r])
          BY ReachableHolds DEF Dated
        <5>5. \A r \in Registers : Holds(r, k[r])
          BY <5>3, <5>4 DEF Moved
        <5> QED BY <5>5, ReachableHolds
      <4> HIDE DEF k
      <4>4. k.year = c.year /\ k.month = c.month /\ k.day = c.day /\ k.weekday = c.weekday
        BY <1>2, <2>1, <3>1, <4>1
      <4>5. FromBcd(k.hour) = 0 /\ FromBcd(k.minute) = 0 /\ FromBcd(k.second) = 0
        BY <1>2, <2>1, <3>1, <4>1
      <4>6. Dated(k) /\ DayNumber(k) = DayNumber(c)
        BY <4>3, <4>4 DEF Dated, DayNumber
      <4>7. /\ DayNumber(e) = (DayNumber(k) + 1) % 36525
            /\ FromBcd(e.day) <= DaysInMonth(FromBcd(e.month), FromBcd(e.year))
            /\ e.weekday = (k.weekday + 1) % 7
            /\ e.hour = k.hour /\ e.minute = k.minute /\ e.second = k.second
        BY <4>1, <4>2, <4>6, DayTurns
      <4>8. SecondOfDay(e) = 0 /\ SecondOfDay(c) = 86399
        BY <1>4, <2>2, <3>2, <4>2, <4>5, <4>7 DEF SecondOfDay
      <4>9. (86399 + 1) % 86400 = 0
        OBVIOUS
      <4> QED BY <4>4, <4>6, <4>7, <4>8, <4>9 DEF e
    <3> QED BY <3>4, <3>5
  <2> QED BY <2>4, <2>5
<1> QED BY <1>7, <1>8

LEMMA ClampStays ==
  ASSUME NEW n \in 0 .. 255
  PROVE  /\ Clamp(n, 1, 12) \in 0 .. 99 /\ Clamp(n, 1, 31) \in 0 .. 99
         /\ Clamp(n, 0, 23) \in 0 .. 99 /\ Clamp(n, 0, 59) \in 0 .. 99
BY DEF Clamp

(* The registers are bytes, whatever the host or the game writes.          *)
LEMMA FacesKept ==
  ASSUME clock \in Faces, index \in 0 .. 6, [RtcNext]_rtcVars
  PROVE  clock' \in Faces
<1>1. CASE \E t \in HostTimes : SetDatetime(t)
  <2>1. PICK t \in HostTimes : SetDatetime(t)
    BY <1>1
  <2>2. \A i \in 1 .. 7 : t[i] \in 0 .. 255
    BY RtcAssumption
  <2>3. /\ t[1] \in 0 .. 255 /\ t[2] \in 0 .. 255 /\ t[3] \in 0 .. 255 /\ t[4] \in 0 .. 255
        /\ t[5] \in 0 .. 255 /\ t[6] \in 0 .. 255 /\ t[7] \in 0 .. 255
    BY <2>2
  <2>4. /\ t[1] % 100 \in 0 .. 99 /\ Clamp(t[2], 1, 12) \in 0 .. 99
        /\ Clamp(t[3], 1, 31) \in 0 .. 99 /\ t[4] % 7 \in 0 .. 255
        /\ Clamp(t[5], 0, 23) \in 0 .. 99 /\ Clamp(t[6], 0, 59) \in 0 .. 99
        /\ Clamp(t[7], 0, 59) \in 0 .. 99
    <3>1. t[1] % 100 \in 0 .. 99 /\ t[4] % 7 \in 0 .. 255
      BY <2>3
    <3>2. Clamp(t[2], 1, 12) \in 0 .. 99 /\ Clamp(t[3], 1, 31) \in 0 .. 99
      BY <2>3, ClampStays
    <3>3. Clamp(t[5], 0, 23) \in 0 .. 99
      BY <2>3, ClampStays
    <3>4. Clamp(t[6], 0, 59) \in 0 .. 99 /\ Clamp(t[7], 0, 59) \in 0 .. 99
      BY <2>3, ClampStays
    <3> QED BY <3>1, <3>2, <3>3, <3>4
  <2> DEFINE y == ToBcd(t[1] % 100)
             m == ToBcd(Clamp(t[2], 1, 12))
             d == ToBcd(Clamp(t[3], 1, 31))
             w == t[4] % 7
             h == ToBcd(Clamp(t[5], 0, 23))
             n == ToBcd(Clamp(t[6], 0, 59))
             z == ToBcd(Clamp(t[7], 0, 59))
  <2>5. /\ y \in 0 .. 255 /\ m \in 0 .. 255 /\ d \in 0 .. 255 /\ w \in 0 .. 255
        /\ h \in 0 .. 255 /\ n \in 0 .. 255 /\ z \in 0 .. 255
    BY <2>4, BcdKeeps
  <2>6. clock' = [year |-> y, month |-> m, day |-> d, weekday |-> w,
                  hour |-> h, minute |-> n, second |-> z]
    BY <2>1 DEF SetDatetime
  <2> HIDE DEF y, m, d, w, h, n, z
  <2> QED BY <2>5, <2>6 DEF Faces, Registers
<1>2. CASE RtcTick
  <2>1. clock' = clock \/ clock' = NextSecond(clock)
    BY <1>2 DEF RtcTick
  <2>2. NextSecond(clock) \in Faces
    BY SecondMoves DEF Moved
  <2> QED BY <2>1, <2>2
<1>3. CASE \E op \in DOMAIN Lengths, ready \in BOOLEAN : WriteCommand(op, ready)
  BY <1>3, EpochHolds DEF WriteCommand
<1>4. CASE ReadData
  BY <1>4 DEF ReadData, clockVars
<1>5. CASE \E b \in RawBytes : WriteData(b)
  <2>1. PICK b \in RawBytes : WriteData(b)
    BY <1>5
  <2>2. b \in 0 .. 255
    BY RtcAssumption
  <2> DEFINE v == IF index = 3 THEN b % 8 ELSE b
             r == Order[index + 1]
  <2>3. v \in 0 .. 255
    BY <2>2
  <2>4. r \in Registers
    BY DEF Order, Registers
  <2>5. clock' = clock \/ clock' = [clock EXCEPT ![r] = v]
    BY <2>1 DEF WriteData
  <2> HIDE DEF v, r
  <2> QED BY <2>3, <2>4, <2>5 DEF Faces
<1>6. CASE UNCHANGED rtcVars
  BY <1>6 DEF rtcVars, clockVars
<1> QED BY <1>1, <1>2, <1>3, <1>4, <1>5, <1>6 DEF RtcNext

(* The pointer stays on the registers.                                     *)
LEMMA IndexKept ==
  ASSUME index \in 0 .. 6, [RtcNext]_rtcVars
  PROVE  index' \in 0 .. 6
<1>1. ASSUME NEW write, Access(write) PROVE index' \in 0 .. 6
  <2>1. /\ (index + 1) % 7 \in 0 .. 6 /\ (index + 1) % 2 \in 0 .. 6
    OBVIOUS
  <2>2. index' = (index + 1) % 7 \/ index' = (index + 1) % 2 \/ index' = index
    BY <1>1 DEF Access, transferVars
  <2> QED BY <2>1, <2>2
<1>2. CASE \E op \in DOMAIN Lengths, ready \in BOOLEAN : WriteCommand(op, ready)
  BY <1>2 DEF WriteCommand
<1>3. CASE ReadData \/ \E b \in RawBytes : WriteData(b)
  BY <1>1, <1>3 DEF ReadData, WriteData
<1>4. CASE RtcTick \/ (\E t \in HostTimes : SetDatetime(t)) \/ UNCHANGED rtcVars
  BY <1>4 DEF RtcTick, SetDatetime, rtcVars, transferVars
<1> QED BY <1>2, <1>3, <1>4 DEF RtcNext

(* A second is a second: from any date of the century the clock moves to   *)
(* the next moment of the calendar, and whatever bytes a game wrote, a     *)
(* register that moves holds a value of its range afterwards               *)
(* (advance_one_second).                                                   *)
THEOREM SecondsCarry == RtcSpec => SecondCarries
<1> DEFINE Sane == clock \in Faces /\ index \in 0 .. 6
<1>1. RtcInit => Sane
  BY EpochHolds DEF RtcInit
<1>2. Sane /\ [RtcNext]_rtcVars => Sane'
  BY FacesKept, IndexKept
<1>3. Sane /\ [RtcNext]_rtcVars =>
        [RtcTick /\ SecondPasses =>
           /\ Dated(clock) => MovesOn
           /\ \A r \in Registers : clock'[r] # clock[r] => InRange(clock', r)]_rtcVars
  <2> SUFFICES ASSUME Sane, RtcTick, SecondPasses
               PROVE  /\ Dated(clock) => MovesOn
                      /\ \A r \in Registers : clock'[r] # clock[r] => InRange(clock', r)
    OBVIOUS
  <2>1. clock' = NextSecond(clock)
    BY DEF RtcTick
  <2>2. Moved(clock, clock')
    BY <2>1, SecondMoves
  <2>3. ASSUME NEW r \in Registers, clock'[r] # clock[r] PROVE InRange(clock', r)
    <3>1. clock' \in Faces /\ Holds(r, clock'[r])
      BY <2>2, <2>3 DEF Moved
    <3> QED BY <3>1, HoldsInRange
  <2>4. ASSUME Dated(clock) PROVE MovesOn
    <3>1. /\ FromBcd(clock'.day) <= DaysInMonth(FromBcd(clock'.month), FromBcd(clock'.year))
          /\ SecondOfDay(clock') = (SecondOfDay(clock) + 1) % 86400
          /\ DayNumber(clock') =
               (DayNumber(clock) + IF SecondOfDay(clock) = 86399 THEN 1 ELSE 0) % 36525
          /\ clock'.weekday = (clock.weekday + IF SecondOfDay(clock) = 86399 THEN 1 ELSE 0) % 7
      BY <2>1, <2>4, SecondTurns
    <3>2. \A r \in Registers : Holds(r, clock[r])
      BY <2>4, ReachableHolds DEF Dated
    <3>3. \A r \in Registers : Holds(r, clock'[r])
      BY <2>2, <3>2 DEF Moved
    <3>4. Reachable(clock')
      BY <3>3, ReachableHolds
    <3> QED BY <3>1, <3>4 DEF MovesOn, Dated
  <2> QED BY <2>3, <2>4
<1> QED BY <1>1, <1>2, <1>3, PTL DEF RtcSpec, SecondCarries
-----------------------------------------------------------------------------
(* The ranges of the clock's and the DMA engine's registers.               *)

(* A byte read from or written to the clock moves the pointer on by one,   *)
(* and a command starts it.                                                *)
LEMMA RtcTransferStep ==
  ASSUME RtcTypeOK, NEW write \in BOOLEAN, Access(write)
  PROVE  /\ command' \in DOMAIN Lengths /\ index' \in 0 .. 6 /\ remaining' \in 0 .. 7
         /\ unsupported' \in BOOLEAN
         /\ remaining' > 0 /\ command' \in {"date", "alarmRead", "alarmWrite"} =>
              index' + remaining' = Lengths[command']
<1>1. /\ command \in DOMAIN Lengths /\ index \in 0 .. 6 /\ remaining \in 0 .. 7
      /\ unsupported \in BOOLEAN
      /\ remaining > 0 /\ command \in {"date", "alarmRead", "alarmWrite"} =>
           index + remaining = Lengths[command]
  BY DEF RtcTypeOK
<1>2. Lengths["date"] = 7 /\ Lengths["alarmRead"] = 2 /\ Lengths["alarmWrite"] = 2
  BY DEF Lengths
<1>3. CASE ~Transfers(write)
  BY <1>1, <1>3 DEF Access, transferVars
<1>4. CASE Transfers(write)
  <2>1. /\ index' = CASE command = "date" -> (index + 1) % 7
                      [] command \in {"alarmRead", "alarmWrite"} -> (index + 1) % 2
                      [] OTHER -> index
        /\ remaining' = IF remaining > 0 THEN remaining - 1 ELSE 0
        /\ command' = command /\ unsupported' = unsupported
    BY <1>4 DEF Access
  <2>2. remaining' \in 0 .. 7
    BY <1>1, <2>1
  <2>3. CASE command = "date"
    <3>1. index' = (index + 1) % 7
      BY <2>1, <2>3
    <3>2. (index + 1) % 7 \in 0 .. 6 /\ (index < 6 => (index + 1) % 7 = index + 1)
      BY <1>1
    <3> QED BY <1>1, <1>2, <2>1, <2>2, <2>3, <3>1, <3>2
  <2>4. CASE command \in {"alarmRead", "alarmWrite"}
    <3>1. index' = (index + 1) % 2
      BY <2>1, <2>4
    <3>2. (index + 1) % 2 \in 0 .. 6 /\ (index < 1 => (index + 1) % 2 = index + 1)
      BY <1>1
    <3> QED BY <1>1, <1>2, <2>1, <2>2, <2>4, <3>1, <3>2
  <2>5. CASE command \notin {"date", "alarmRead", "alarmWrite"}
    <3>1. index' = index
      BY <2>1, <2>5
    <3> QED BY <1>1, <2>1, <2>2, <2>5, <3>1
  <2> QED BY <2>3, <2>4, <2>5
<1> QED BY <1>3, <1>4

(* Cycles, commands and bytes of data keep the clock's registers in range, *)
(* whatever bytes are written.                                             *)
LEMMA RtcTypeStep ==
  ASSUME RtcTypeOK, [RtcNext]_rtcVars
  PROVE  RtcTypeOK'
<1>1. /\ clock \in Faces /\ cycleAccum \in 0 .. SecondCycles - 1 /\ seconds \in Nat
      /\ index \in 0 .. 6
  BY DEF RtcTypeOK, Faces
<1>2. clock' \in [Registers -> 0 .. 255]
  BY <1>1, FacesKept DEF Faces
<1>3. SecondCycles \in Nat \ {0} /\ FrameCycles \in Nat
  BY RtcAssumption
<1> DEFINE Transfer == /\ command \in DOMAIN Lengths /\ index \in 0 .. 6 /\ remaining \in 0 .. 7
                       /\ unsupported \in BOOLEAN
                       /\ remaining > 0 /\ command \in {"date", "alarmRead", "alarmWrite"} =>
                            index + remaining = Lengths[command]
           Time == cycleAccum \in 0 .. SecondCycles - 1 /\ seconds \in Nat
<1>4. Transfer' /\ Time' => RtcTypeOK'
  BY <1>2 DEF RtcTypeOK
<1>5. Transfer
  BY DEF RtcTypeOK
<1>6. ASSUME UNCHANGED transferVars PROVE Transfer'
  BY <1>5, <1>6 DEF transferVars
<1>7. CASE \E t \in HostTimes : SetDatetime(t)
  <2>1. cycleAccum' = 0 /\ seconds' = 0 /\ UNCHANGED transferVars
    BY <1>7 DEF SetDatetime
  <2> QED BY <1>3, <1>4, <1>6, <2>1
<1>8. CASE RtcTick
  <2>1. /\ cycleAccum' = (cycleAccum + FrameCycles) % SecondCycles
        /\ (seconds' = seconds + 1 \/ seconds' = seconds) /\ UNCHANGED transferVars
    BY <1>8 DEF RtcTick
  <2> DEFINE x == cycleAccum + FrameCycles
  <2>2. x \in Nat
    BY <1>1, <1>3
  <2> HIDE DEF x
  <2>3. x % SecondCycles \in 0 .. SecondCycles - 1
    BY <1>3, <2>2, DivMod
  <2>4. Time'
    BY <1>1, <2>1, <2>3 DEF x
  <2> QED BY <1>4, <1>6, <2>1, <2>4
<1>9. CASE \E op \in DOMAIN Lengths, ready \in BOOLEAN : WriteCommand(op, ready)
  <2>1. PICK op \in DOMAIN Lengths, ready \in BOOLEAN : WriteCommand(op, ready)
    BY <1>9
  <2>2. /\ command' = op /\ index' = 0 /\ remaining' = IF ready THEN 0 ELSE Lengths[op]
        /\ unsupported' = (~ready /\ Lengths[op] = 0) /\ UNCHANGED <<cycleAccum, seconds>>
    BY <2>1 DEF WriteCommand
  <2>3. \A o \in DOMAIN Lengths : Lengths[o] \in 0 .. 7
    BY DEF Lengths
  <2>4. unsupported' \in BOOLEAN
    BY <2>2, Zenon
  <2>5. Transfer'
    BY <2>2, <2>3, <2>4
  <2> QED BY <1>1, <1>4, <2>2, <2>5
<1>10. ASSUME NEW write \in BOOLEAN, Access(write), UNCHANGED <<cycleAccum, seconds>>
       PROVE  RtcTypeOK'
  <2>1. Transfer'
    BY <1>10, RtcTransferStep
  <2> QED BY <1>1, <1>4, <1>10, <2>1
<1>11. CASE ReadData
  <2>1. Access(FALSE) /\ UNCHANGED <<cycleAccum, seconds>>
    BY <1>11 DEF ReadData, clockVars
  <2> QED BY <1>10, <2>1
<1>12. CASE \E b \in RawBytes : WriteData(b)
  <2>1. Access(TRUE) /\ UNCHANGED <<cycleAccum, seconds>>
    BY <1>12 DEF WriteData
  <2> QED BY <1>10, <2>1
<1>13. CASE UNCHANGED rtcVars
  <2>1. UNCHANGED transferVars /\ UNCHANGED <<cycleAccum, seconds>>
    BY <1>13 DEF rtcVars, clockVars
  <2> QED BY <1>1, <1>4, <1>6, <2>1
<1> QED BY <1>7, <1>8, <1>9, <1>11, <1>12, <1>13 DEF RtcNext

(* The clock and the DMA engine at the start.                              *)
LEMMA RtcStarts == RtcInit => RtcTypeOK
<1> SUFFICES ASSUME RtcInit PROVE RtcTypeOK
  OBVIOUS
<1>1. clock \in [Registers -> 0 .. 255]
  BY EpochHolds DEF RtcInit, Faces
<1>2. 0 \in 0 .. SecondCycles - 1
  BY RtcAssumption
<1>3. "other" \in DOMAIN Lengths
  BY DEF Lengths
<1>4. /\ cycleAccum = 0 /\ seconds = 0 /\ command = "other" /\ index = 0 /\ remaining = 0
      /\ unsupported = FALSE
  BY DEF RtcInit
<1>5. cycleAccum \in 0 .. SecondCycles - 1 /\ seconds \in Nat
  BY <1>2, <1>4
<1>6. index \in 0 .. 6 /\ remaining \in 0 .. 7 /\ ~(remaining > 0)
  <2>1. 0 \in 0 .. 6 /\ 0 \in 0 .. 7 /\ ~(0 > 0)
    OBVIOUS
  <2> QED BY <1>4, <2>1
<1>7. unsupported \in BOOLEAN
  BY <1>4, Zenon
<1> QED BY <1>1, <1>3, <1>4, <1>5, <1>6, <1>7, Zenon DEF RtcTypeOK

LEMMA GdmaStarts == GdmaInit => GdmaTypeOK
<1> SUFFICES ASSUME GdmaInit PROVE GdmaTypeOK
  OBVIOUS
<1>1. SegmentBytes \in Nat \ {0} /\ Segments \in Nat /\ Segments >= 3
  BY GeneralDmaAssumption
<1>2. Space \in Nat \ {0}
  BY <1>1, SMT DEF Space
<1>3. 0 \in 0 .. Space - 1 /\ 0 \in RamBytes
  BY <1>1, <1>2 DEF RamBytes
<1>4. wram \in [RamBytes -> Bytes]
  BY DEF GdmaInit, Bytes
<1> QED BY <1>3, <1>4 DEF GdmaInit, GdmaTypeOK
=============================================================================
