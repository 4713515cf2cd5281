------------------------------- MODULE Eeprom -------------------------------
(***************************************************************************)
(* The serial EEPROM chip (core/src/bus/cart/eeprom.rs) and the cartridge  *)
(* ports that drive it, 0xC4 to 0xC8 (cart/mod.rs, bus/mod.rs).            *)
(*                                                                         *)
(* A command is a number and is decoded bit by bit, as the chip does; the  *)
(* words are a few values, the erased one among them.                      *)
(***************************************************************************)
EXTENDS Integers

CONSTANTS
  CartBits,    (* address_bits of the cartridge's chip                    *)
  CartWords,   (* its size in words                                       *)
  Data,        (* the words a game writes                                 *)
  Erased       (* the erased word, 0xFFFF                                 *)

ASSUME EepromAssumption ==
  /\ CartBits \in Nat /\ CartBits >= 2
  /\ CartWords \in 1 .. 2 ^ CartBits
  /\ Data # {}

Word == Data \cup {Erased}

VARIABLES
  chip,        (* the Eeprom of the cartridge                             *)
  dataPort,    (* the data latch, 0xC4 and 0xC5                           *)
  controlDone  (* bit 0 of the control port 0xC8                          *)

eepromVars == <<chip, dataPort, controlDone>>

Chip(words, enabled) ==   \* Eeprom::new, new_locked
  [cells |-> [a \in 0 .. words - 1 |-> Erased], input |-> CHOOSE d \in Data : TRUE,
   output |-> Erased, enabled |-> enabled]

EepromTypeOK ==
  /\ chip \in [cells : [0 .. CartWords - 1 -> Word], input : Word, output : Word,
               enabled : BOOLEAN]
  /\ dataPort \in Word /\ controlDone \in {0, 1}

EepromInit ==
  /\ chip = Chip(CartWords, FALSE)
  /\ dataPort = Erased /\ controlDone = 0

-----------------------------------------------------------------------------
(* The chip: execute, execute_addressed, execute_extended.                 *)

Bits(command, low, width) == (command \div 2 ^ low) % 2 ^ width
Opcode(command, bits) == Bits(command, bits, 2)
SubOpcode(command, bits) == Bits(command, bits - 2, 2)
Address(command, bits) == Bits(command, 0, bits)
Starts(command, bits) == command \div 2 ^ (bits + 2) = 1   \* start bit, nothing above

IfEnabled(c, cells) == IF c.enabled THEN [c EXCEPT !.cells = cells] ELSE c

(* The sub-opcodes: 0 write-disable, 1 write-all, 2 erase-all, 3 enable.   *)
(* A bug: write-all is not guarded.                                        *)
ExtendedOpen(c, sub) ==
  IF sub \in {0, 3} THEN [c EXCEPT !.enabled = (sub = 3)]
  ELSE [c EXCEPT !.cells = [a \in DOMAIN c.cells |-> IF sub = 1 THEN c.input ELSE Erased]]
Extended(c, sub) ==
  IF sub \in {0, 3} THEN [c EXCEPT !.enabled = (sub = 3)]
  ELSE IfEnabled(c, [a \in DOMAIN c.cells |-> IF sub = 1 THEN c.input ELSE Erased])

(* The opcodes: 1 write, 2 read, 3 erase.                                  *)
Addressed(c, op, a) ==
  IF op = 2 THEN [c EXCEPT !.output = c.cells[a]]
  ELSE IfEnabled(c, [c.cells EXCEPT ![a] = IF op = 1 THEN c.input ELSE Erased])

Execute(c, command, bits) ==
  IF ~Starts(command, bits) THEN c
  ELSE IF Opcode(command, bits) = 0 THEN Extended(c, SubOpcode(command, bits))
  ELSE IF Address(command, bits) \notin DOMAIN c.cells THEN c
  ELSE Addressed(c, Opcode(command, bits), Address(command, bits))

Latched(c, word) == [c EXCEPT !.input = word]

-----------------------------------------------------------------------------
(* The cartridge ports.                                                    *)

CartCommands == 0 .. 2 ^ (CartBits + 4) - 1

WriteDataPort(d) == dataPort' = d /\ UNCHANGED <<chip, controlDone>>

(* eeprom_control: 1 read, 2 write, 4 a short command, 8 only sets DONE.   *)
CartControl(op, command) ==
  /\ chip' = CASE op = 2 -> Execute(Latched(chip, dataPort), command, CartBits)
               [] op \in {1, 4} -> Execute(chip, command, CartBits)
               [] OTHER -> chip
  /\ dataPort' = IF op = 1 THEN chip'.output ELSE dataPort
  /\ controlDone' = IF op \in {1, 8} THEN 1 ELSE 0

EepromNext ==
  \/ \E d \in Data : WriteDataPort(d)
  \/ \E op \in {0, 1, 2, 4, 8} : \E command \in CartCommands : CartControl(op, command)

EepromSpec == EepromInit /\ [][EepromNext]_eepromVars

-----------------------------------------------------------------------------
(* Properties.                                                             *)

Memory == INSTANCE WordMemory
            WITH Addresses <- 0 .. CartWords - 1, Words <- Word, mem <- chip.cells,
                 locked <- ~chip.enabled, last <- chip.output, shown <- dataPort

(* Behind its ports and its command words, well or ill formed, the         *)
(* cartridge's EEPROM is a word memory that powers up locked, never        *)
(* changes while locked, and whose data port shows nothing it should not.  *)
EepromIsMemory == Memory!MemoryInit(Erased) /\ [][Memory!MemoryNext]_(Memory!memoryVars)
=============================================================================
