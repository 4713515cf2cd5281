-------------------------------- MODULE Rtc --------------------------------
(***************************************************************************)
(* The cartridge's real-time clock (core/src/bus/cart/rtc.rs): packed-BCD  *)
(* registers that a frame's cycles drive forward, and the command protocol *)
(* of ports 0xCA and 0xCB.  The alarm and status registers are plain       *)
(* storage: their values are left out, their transfers are not.            *)
(***************************************************************************)
EXTENDS Integers

CONSTANTS
  SecondCycles, FrameCycles,   (* CYCLES_PER_SECOND; the cycles of a frame *)
  HostTimes,   (* moments the frontend injects, as <<y, m, d, w, h, mi, s>> *)
  RawBytes,    (* bytes a game writes to the data port                    *)
  MaxSeconds   (* bound: seconds the clock runs after it was set          *)

ASSUME RtcAssumption ==
  /\ SecondCycles \in Nat \ {0} /\ FrameCycles \in Nat
  /\ RawBytes \subseteq 0 .. 255 /\ MaxSeconds \in Nat
  /\ \A t \in HostTimes : \A i \in 1 .. 7 : t[i] \in 0 .. 255

VARIABLES
  clock,       (* the seven registers, in the order of the data port      *)
  cycleAccum, seconds,              (* cycle_accum; seconds since clock was set *)
  command, index, remaining, unsupported   (* the transfer under way      *)

clockVars    == <<clock, cycleAccum, seconds>>
transferVars == <<command, index, remaining, unsupported>>
rtcVars      == <<clockVars, transferVars>>

Registers == {"year", "month", "day", "weekday", "hour", "minute", "second"}
Order == <<"year", "month", "day", "weekday", "hour", "minute", "second">>

(* The operations of a command byte: CMD_MASK, command_transfer_len.       *)
Lengths == [reset |-> 1, status |-> 1, date |-> 7, unknown3 |-> 3,
            alarmRead |-> 2, alarmWrite |-> 2, other |-> 0]

RtcTypeOK ==
  /\ clock \in [Registers -> 0 .. 255]
  /\ cycleAccum \in 0 .. SecondCycles - 1 /\ seconds \in Nat
  /\ command \in DOMAIN Lengths /\ index \in 0 .. 6 /\ remaining \in 0 .. 7
  /\ unsupported \in BOOLEAN
  /\ remaining > 0 /\ command \in {"date", "alarmRead", "alarmWrite"} =>
       index + remaining = Lengths[command]   \* the pointer is at the first byte left

-----------------------------------------------------------------------------
(* Packed BCD and the calendar.                                            *)

ToBcd(n) == (n \div 10) * 16 + (n % 10)
FromBcd(b) == (b \div 16) * 10 + (b % 16)

DaysInMonth(month, year) ==
  IF month \in {1, 3, 5, 7, 8, 10, 12} THEN 31
  ELSE IF month # 2 THEN 30
  ELSE IF year % 4 = 0 THEN 29 ELSE 28

Epoch == [year |-> 0, month |-> 1, day |-> 1, weekday |-> 6,
          hour |-> 0, minute |-> 0, second |-> 0]

Count(c, unit) == FromBcd(c[unit]) + 1
Put(c, unit, n) == [c EXCEPT ![unit] = ToBcd(n)]

(* advance_one_second, from the year down.  A bug: December has no carry.  *)
NextMonthEndless(c) == Put(c, "month", IF Count(c, "month") <= 12 THEN Count(c, "month") ELSE 1)
NextMonth(c) ==
  IF Count(c, "month") <= 12 THEN Put(c, "month", Count(c, "month"))
  ELSE Put(Put(c, "month", 1), "year", Count(c, "year") % 100)
NextDay(c) ==
  LET w == [c EXCEPT !.weekday = (@ + 1) % 7]
  IN  IF Count(c, "day") <= DaysInMonth(FromBcd(c.month), FromBcd(c.year))
      THEN Put(w, "day", Count(c, "day")) ELSE NextMonth(Put(w, "day", 1))
NextHour(c) ==
  IF Count(c, "hour") < 24 THEN Put(c, "hour", Count(c, "hour")) ELSE NextDay(Put(c, "hour", 0))
NextMinute(c) ==
  IF Count(c, "minute") < 60 THEN Put(c, "minute", Count(c, "minute"))
  ELSE NextHour(Put(c, "minute", 0))
NextSecond(c) ==
  IF Count(c, "second") < 60 THEN Put(c, "second", Count(c, "second"))
  ELSE NextMinute(Put(c, "second", 0))

-----------------------------------------------------------------------------
(* Actions.                                                                *)

RtcInit ==
  /\ clock = Epoch /\ cycleAccum = 0 /\ seconds = 0
  /\ command = "other" /\ index = 0 /\ remaining = 0 /\ unsupported = FALSE

(* set_datetime: decimals from the host, clamped.                          *)
Clamp(n, low, high) == IF n < low THEN low ELSE IF n > high THEN high ELSE n
SetDatetime(t) ==
  /\ clock' = [year |-> ToBcd(t[1] % 100), month |-> ToBcd(Clamp(t[2], 1, 12)),
               day |-> ToBcd(Clamp(t[3], 1, 31)), weekday |-> t[4] % 7,
               hour |-> ToBcd(Clamp(t[5], 0, 23)), minute |-> ToBcd(Clamp(t[6], 0, 59)),
               second |-> ToBcd(Clamp(t[7], 0, 59))]
  /\ cycleAccum' = 0 /\ seconds' = 0
  /\ UNCHANGED transferVars

(* tick: a frame is shorter than a second, so one second passes at most.   *)
SecondPasses == cycleAccum + FrameCycles >= SecondCycles
RtcTick ==
  /\ SecondPasses => seconds < MaxSeconds
  /\ cycleAccum' = (cycleAccum + FrameCycles) % SecondCycles
  /\ IF SecondPasses THEN clock' = NextSecond(clock) /\ seconds' = seconds + 1
     ELSE UNCHANGED <<clock, seconds>>
  /\ UNCHANGED transferVars

(* write_command; the ready bit cancels the transfer.                      *)
WriteCommand(op, ready) ==
  /\ command' = op /\ index' = 0
  /\ remaining' = IF ready THEN 0 ELSE Lengths[op]
  /\ unsupported' = (~ready /\ Lengths[op] = 0)
  /\ clock' = IF op = "reset" /\ ~ready THEN Epoch ELSE clock
  /\ UNCHANGED <<cycleAccum, seconds>>

(* A data access moves the pointer of the commands that have one, and uses *)
(* up a byte of the transfer; the reset command has no data.               *)
Transfers(write) ==
  \/ command \in {"date", "status", "unknown3"}
  \/ command = "alarmRead" /\ ~write
  \/ command = "alarmWrite" /\ write
Access(write) ==
  IF Transfers(write)
  THEN /\ index' = CASE command = "date" -> (index + 1) % 7
                     [] command \in {"alarmRead", "alarmWrite"} -> (index + 1) % 2
                     [] OTHER -> index
       /\ remaining' = IF remaining > 0 THEN remaining - 1 ELSE 0
       /\ UNCHANGED <<command, unsupported>>
  ELSE UNCHANGED transferVars

ReadData == Access(FALSE) /\ UNCHANGED clockVars

(* Bound: one register holds a value no clock reaches at a time.           *)
Reachable(c) ==
  /\ c.weekday \in 0 .. 6
  /\ \E y \in 0 .. 99 : c.year = ToBcd(y)
  /\ \E m \in 1 .. 12 : c.month = ToBcd(m)
  /\ \E d \in 1 .. 31 : c.day = ToBcd(d)
  /\ \E h \in 0 .. 23 : c.hour = ToBcd(h)
  /\ \E n \in 0 .. 59 : c.minute = ToBcd(n)
  /\ \E n \in 0 .. 59 : c.second = ToBcd(n)

WriteData(b) ==
  /\ Reachable(clock)
  /\ clock' = IF command # "date" THEN clock
              ELSE [clock EXCEPT ![Order[index + 1]] = IF index = 3 THEN b % 8 ELSE b]
  /\ Access(TRUE)
  /\ UNCHANGED <<cycleAccum, seconds>>

RtcNext ==
  \/ \E t \in HostTimes : SetDatetime(t)
  \/ RtcTick
  \/ \E op \in DOMAIN Lengths, ready \in BOOLEAN : WriteCommand(op, ready)
  \/ ReadData
  \/ \E b \in RawBytes : WriteData(b)

RtcSpec == RtcInit /\ [][RtcNext]_rtcVars

-----------------------------------------------------------------------------
(* Properties.                                                             *)

(* The reference: days since 2000-01-01 by counting them, and the second   *)
(* of the day.                                                             *)
Leap(y) == y % 4 = 0
MonthStart == <<0, 31, 59, 90, 120, 151, 181, 212, 243, 273, 304, 334>>
DayNumber(c) ==
  LET y == FromBcd(c.year) m == FromBcd(c.month)
  IN  365 * y + (y + 3) \div 4 + MonthStart[m] + (IF m > 2 /\ Leap(y) THEN 1 ELSE 0)
        + FromBcd(c.day) - 1
SecondOfDay(c) == (FromBcd(c.hour) * 60 + FromBcd(c.minute)) * 60 + FromBcd(c.second)

Dated(c) == Reachable(c) /\ FromBcd(c.day) <= DaysInMonth(FromBcd(c.month), FromBcd(c.year))

(* A second is a second: from any date of the century the clock moves to   *)
(* the next moment of the calendar, through ends of months, leap days and  *)
(* the end of the century, and the weekday moves with the day.  Whatever   *)
(* bytes a game wrote, a register that moves holds a value of its range    *)
(* afterwards ("wrap naturally on the next tick").                         *)
InRange(c, r) == Reachable([Epoch EXCEPT ![r] = c[r]])
MovesOn ==
  LET midnight == SecondOfDay(clock) = 86399
  IN  /\ Dated(clock')
      /\ SecondOfDay(clock') = (SecondOfDay(clock) + 1) % 86400
      /\ DayNumber(clock') = (DayNumber(clock) + IF midnight THEN 1 ELSE 0) % 36525
      /\ clock'.weekday = (clock.weekday + IF midnight THEN 1 ELSE 0) % 7
SecondCarries ==
  [][RtcTick /\ SecondPasses =>
       /\ Dated(clock) => MovesOn
       /\ \A r \in Registers : clock'[r] # clock[r] => InRange(clock', r)]_rtcVars
=============================================================================
