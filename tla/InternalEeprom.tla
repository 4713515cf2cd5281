--------------------------- MODULE InternalEeprom ---------------------------
(***************************************************************************)
(* The console's own EEPROM behind ports 0xBA to 0xBE (core/src/bus/mod.rs): *)
(* one chip, addressed with the mono command width or, when the start bit  *)
(* of the wide form is set, with the Color width; words of owner data that *)
(* the write control refuses to touch; and a status the BIOS polls.        *)
(***************************************************************************)
EXTENDS Eeprom

CONSTANTS
  NarrowBits, WideBits,   (* command widths: 6 and 10                     *)
  ConsoleWords,           (* size in words: 1024                          *)
  OwnerWord               (* first protected word: 0x60 / 2               *)

ASSUME ConsoleAssumption ==
  /\ NarrowBits \in Nat /\ WideBits \in Nat /\ 2 <= NarrowBits /\ NarrowBits < WideBits
  /\ ConsoleWords \in 1 .. 2 ^ WideBits
  /\ OwnerWord \in 0 .. 2 ^ NarrowBits - 1

VARIABLES
  console,   (* the chip: Eeprom::new, unlocked                           *)
  status     (* IeepromStatus: done, read_done_delay, protect_fault       *)

consoleVars == <<console, status>>

ConsoleTypeOK ==
  /\ console \in [cells : [0 .. ConsoleWords - 1 -> Word], input : Word, output : Word,
                  enabled : BOOLEAN]
  /\ status \in [done : BOOLEAN, delay : {0, 1}, fault : BOOLEAN]

ConsoleInit ==
  /\ console = Chip(ConsoleWords, TRUE)
  /\ status = [done |-> FALSE, delay |-> 0, fault |-> FALSE]

ConsoleCommands == 0 .. 2 ^ (WideBits + 4) - 1

(* ieeprom_command_address_bits, command_byte_addr.  A bug: the protection *)
(* looks at the narrow address only.                                       *)
CommandBits(command) == IF Bits(command, WideBits + 2, 1) = 1 THEN WideBits ELSE NarrowBits
TouchesOwnerNarrow(command) == Address(command, NarrowBits) >= OwnerWord
TouchesOwner(command) == Address(command, CommandBits(command)) >= OwnerWord

RunCommand(c, command) == Execute(c, command, CommandBits(command))
StatusAt(done, delay) == [status EXCEPT !.done = done, !.delay = delay]

(* 0x10: run the command; the result is ready at the second poll.          *)
ControlRead(command) ==
  console' = RunCommand(console, command) /\ status' = StatusAt(FALSE, 1)

(* 0x20: latch the data; owner words are refused with a sticky fault.      *)
Written(data, command) ==
  IF TouchesOwner(command) THEN Latched(console, data)
  ELSE RunCommand(Latched(console, data), command)
ControlWrite(data, command) ==
  /\ console' = Written(data, command)
  /\ status' = IF TouchesOwner(command) THEN [StatusAt(TRUE, 0) EXCEPT !.fault = TRUE]
               ELSE StatusAt(FALSE, 0)

(* 0x40: a short command; anything else only clears the status.            *)
ControlShort(command) ==
  console' = RunCommand(console, command) /\ status' = StatusAt(TRUE, 0)
ControlOther == status' = StatusAt(FALSE, 0) /\ UNCHANGED console

(* Reading the port shows the status and then lets a read finish.          *)
PollStatus ==
  /\ status' = IF status.delay = 1 THEN StatusAt(TRUE, 0) ELSE status
  /\ UNCHANGED console

ConsoleNext ==
  \/ \E command \in ConsoleCommands :
       \/ ControlRead(command) \/ ControlShort(command)
       \/ \E d \in Data : ControlWrite(d, command)
  \/ ControlOther \/ PollStatus

ConsoleSpec == ConsoleInit /\ [][ConsoleNext]_consoleVars

-----------------------------------------------------------------------------
(* Properties.                                                             *)

(* No single-word command sent with the write control changes a word of    *)
(* the owner data, whichever width it has and whatever was sent before     *)
(* ("the protected byte range itself is hardware-enforced").  Erases sent  *)
(* with another control, and a narrow write-all, do.                       *)
WritesSpareOwner ==
  [][(\E a \in OwnerWord .. ConsoleWords - 1 : console'.cells[a] # console.cells[a]) =>
       \A d \in Data, cmd \in ConsoleCommands :
         Opcode(cmd, CommandBits(cmd)) # 0 => ~ControlWrite(d, cmd)]_consoleVars
=============================================================================
