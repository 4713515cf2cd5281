----------------------------- MODULE BusEvents ------------------------------
(***************************************************************************)
(* The interrupt latch and the line and frame timers of the bus            *)
(* (core/src/bus/mod.rs): what their ports do when a game writes them, and *)
(* what the frame driver's line and frame events do to them.               *)
(*                                                                         *)
(* A 16-bit timer register is two bytes of base Base (256 in the code),    *)
(* written one at a time.                                                  *)
(***************************************************************************)
EXTENDS Naturals

CONSTANTS
  Base,    (* values of a byte                                            *)
  Mono     (* the model is a WonderSwan, not a WonderSwan Color           *)

ASSUME BaseAssumption == Base \in Nat \ {0, 1}
ASSUME MonoAssumption == Mono \in BOOLEAN

(* IrqSource, by bit: the higher, the more urgent.                         *)
Serial == 0
KeyPress == 1
GdmaComplete == 3
ScanlineMatch == 4
VBlankTimer == 5
VBlank == 6
HBlankTimer == 7
Sources == 0 .. 7

VARIABLES
  latch,    (* INT_CAUSE, port 0xB4                                       *)
  enable,   (* INT_ENABLE, port 0xB2                                      *)
  serialOn, (* the enable bit of the serial port, 0xB3                    *)
  htimer, vtimer   (* ports 0xA2, 0xA4-0xA7, 0xA8-0xAB                    *)

busVars == <<latch, enable, serialOn, htimer, vtimer>>

Timer == [on : BOOLEAN, repeat : BOOLEAN, period : Nat, count : Nat]

BusTypeOK ==
  /\ latch \subseteq Sources /\ enable \subseteq Sources
  /\ serialOn \in BOOLEAN
  /\ htimer \in Timer /\ vtimer \in Timer

StoppedTimer == [on |-> FALSE, repeat |-> FALSE, period |-> 0, count |-> 0]
BusInit ==
  /\ latch = {} /\ enable = {} /\ serialOn = FALSE
  /\ htimer = StoppedTimer /\ vtimer = StoppedTimer

-----------------------------------------------------------------------------
(* request_irq and pending_irq.  A source is latched only while enabled.   *)
Request(S) == latch' = latch \cup (S \cap enable)
Pending == latch # {}
Urgent == CHOOSE s \in latch : \A t \in latch : t <= s

(* A ready serial transmitter requests again whenever its ports are used.  *)
SerialReady(e, on) == IF Mono /\ Serial \in e /\ on THEN {Serial} ELSE {}

(* Ports.                                                                  *)
WriteEnable(S) ==
  /\ enable' = S
  /\ latch' = latch \cup SerialReady(S, serialOn)
  /\ UNCHANGED <<serialOn, htimer, vtimer>>

WriteSerial(on) ==
  /\ serialOn' = on
  /\ latch' = latch \cup SerialReady(enable, on)
  /\ UNCHANGED <<enable, htimer, vtimer>>

(* Reading INT_CAUSE clears the edge-triggered sources.                    *)
ReadCause ==
  /\ latch' = (latch \cup SerialReady(enable, serialOn))
                \ {KeyPress, ScanlineMatch, VBlankTimer, VBlank, HBlankTimer}
  /\ UNCHANGED <<enable, serialOn, htimer, vtimer>>

ClearCause(S) ==
  /\ latch' = latch \ S
  /\ UNCHANGED <<enable, serialOn, htimer, vtimer>>

(* A GDMA burst completes within the port write that starts it.            *)
StartGdma == Request({GdmaComplete}) /\ UNCHANGED <<enable, serialOn, htimer, vtimer>>

(* Writing a byte of a period also writes that byte of the counter.        *)
SetLow(n, b) == b + (n \div Base) * Base
SetHigh(n, b) == (n % Base) + b * Base
LowWritten(t, b) == [t EXCEPT !.period = SetLow(@, b), !.count = SetLow(@, b)]
HighWritten(t, b) == [t EXCEPT !.period = SetHigh(@, b), !.count = SetHigh(@, b)]

WriteHPeriod ==
  /\ \E b \in 0 .. Base - 1 :
       htimer' = LowWritten(htimer, b) \/ htimer' = HighWritten(htimer, b)
  /\ UNCHANGED <<latch, enable, serialOn, vtimer>>

WriteVPeriod ==
  /\ \E b \in 0 .. Base - 1 :
       vtimer' = LowWritten(vtimer, b) \/ vtimer' = HighWritten(vtimer, b)
  /\ UNCHANGED <<latch, enable, serialOn, htimer>>

(* One port holds the enable and repeat bits of both timers.               *)
WriteTimerControl ==
  /\ \E hOn, hRepeat, vOn, vRepeat \in BOOLEAN :
       /\ htimer' = [htimer EXCEPT !.on = hOn, !.repeat = hRepeat]
       /\ vtimer' = [vtimer EXCEPT !.on = vOn, !.repeat = vRepeat]
  /\ UNCHANGED <<latch, enable, serialOn>>

-----------------------------------------------------------------------------
(* Line and frame events.                                                  *)

(* A timer at 1 expires: it requests its interrupt and reloads or stops.   *)
(* ReloadNext is a bug: it reloads one short.                              *)
ReloadNext(t) == IF t.repeat /\ t.period > 0 THEN t.period - 1 ELSE 0
Reload(t) == IF t.repeat THEN t.period ELSE 0
Ticked(t) ==
  IF t.count = 0 THEN t
  ELSE [t EXCEPT !.count = IF t.count = 1 THEN Reload(t) ELSE @ - 1]

(* on_hblank: a stopped line timer at 1 expires all the same if its        *)
(* interrupt is enabled.                                                   *)
HTicks == htimer.on \/ (htimer.count = 1 /\ HBlankTimer \in enable)
HExpires == HTicks /\ htimer.count = 1

(* render_scanline and set_current_scanline, then on_hblank.  `match`: the *)
(* line is the one the game compares with.                                 *)
LineEvent(match) ==
  /\ Request((IF match THEN {ScanlineMatch} ELSE {})
               \cup (IF HExpires THEN {HBlankTimer} ELSE {}))
  /\ htimer' = IF HTicks THEN Ticked(htimer) ELSE htimer
  /\ UNCHANGED <<enable, serialOn, vtimer>>

(* on_vblank.  VBlankUnseen is a bug: the request is left to the timer.    *)
VBlankUnseen == (IF vtimer.on /\ vtimer.count = 1 THEN {VBlankTimer} ELSE {})
VBlankRequests == {VBlank} \cup (IF vtimer.on /\ vtimer.count = 1 THEN {VBlankTimer} ELSE {})
VBlankEvent ==
  /\ Request(VBlankRequests)
  /\ vtimer' = IF vtimer.on THEN Ticked(vtimer) ELSE vtimer
  /\ UNCHANGED <<enable, serialOn, htimer>>
=============================================================================
