----------------------------- MODULE InputPath -----------------------------
(***************************************************************************)
(* Gamepads to keys (input/src/gamepad.rs, input/src/lib.rs, the timer and *)
(* the settings of frontend/src/main.rs): events wait in the gamepad       *)
(* library until the GUI timer drains them, for the game or, while a       *)
(* rebind is armed, for the settings window.  Sticks are sampled afresh,   *)
(* the keyboard's events come straight from the window and the Y-pad turns *)
(* as the X-pad does; the three are left out.                              *)
(***************************************************************************)
EXTENDS Integers, SequencesExt

CONSTANTS
  Pads,                       (* gamepads                                 *)
  Actions,                    (* the keys that do not rotate, below 1, as *)
                              (* their names sort before those of the pad *)
  PadButtons,                 (* pad buttons, each named by the key it is *)
                              (* bound to by default                      *)
  Rebound,                    (* keys whose binding the user changes      *)
  NoKey,                      (* not a key                                *)
  PictureWidth, PictureHeight,
  MaxEvents,                  (* bound: events between two timer ticks    *)
  MayCancel                   (* BOOLEAN: an armed rebind may be given up *)

(* X1 to X4, clockwise from up.                                            *)
Directions == 1 .. 4
Keys == Directions \cup Actions

ASSUME InputPathAssumption ==
  /\ Actions \subseteq Int /\ \A a \in Actions : a < 1
  /\ PadButtons \subseteq Keys /\ Rebound \subseteq Keys /\ NoKey \notin Keys
  /\ MaxEvents \in Nat /\ MayCancel \in BOOLEAN
  /\ PictureWidth \in Nat \ {0} /\ PictureHeight \in Nat \ {0}

VARIABLES
  connected, down,      (* pads there are, and their buttons held down     *)
  events,               (* the gamepad library's queue                    *)
  held,                 (* Gamepad.held                                   *)
  padConfig,            (* config.gamepad_bindings: key to button         *)
  armed,                (* App.capture: the key a pad button is wanted for *)
  padKeys,              (* the keys the last tick published               *)
  rotation, follow      (* config.rotation, rotate_input_with_screen      *)

gilrs == <<connected, down>>
screenVars == <<rotation, follow>>
inputVars == <<gilrs, events, held, padConfig, armed, padKeys, screenVars>>

InputTypeOK ==
  /\ connected \subseteq Pads /\ down \in [Pads -> SUBSET PadButtons]
  /\ Len(events) <= MaxEvents
  /\ held \in [Pads -> SUBSET Keys] /\ padConfig \in [Keys -> PadButtons \cup {NoKey}]
  /\ armed \in Keys \cup {NoKey} /\ padKeys \subseteq Keys
  /\ rotation \in {"none", "right", "left"} /\ follow \in BOOLEAN

-----------------------------------------------------------------------------
(* Rotations.                                                              *)

(* Button::rotated.                                                        *)
Rotated(key, turn) ==
  IF key \in Actions THEN key
  ELSE CASE turn = "none" -> key
         [] turn = "right" -> (key % 4) + 1
         [] turn = "left" -> ((key + 2) % 4) + 1

(* input_rotation_from_config.  A bug: the input turns with the screen     *)
(* instead of against it.                                                  *)
InputTurnSame == IF follow THEN rotation ELSE "none"
InputTurn ==
  IF ~follow \/ rotation = "none" THEN "none"
  ELSE IF rotation = "right" THEN "left" ELSE "right"

(* write_rgba_rotated_cw and _ccw: the pixel of the window that shows a    *)
(* pixel <<x, y>> of the game's picture.                                   *)
ShownAt(p) ==
  CASE rotation = "none" -> p
    [] rotation = "right" -> <<PictureHeight - 1 - p[2], p[1]>>
    [] rotation = "left" -> <<p[2], PictureWidth - 1 - p[1]>>

-----------------------------------------------------------------------------
(* Pads and their library.                                                 *)

(* set_named_bindings: the key a button is mapped to; of two keys bound to *)
(* one button the last in the order of their names has it.                 *)
Mapped(config, button) ==
  LET keys == {k \in Keys : config[k] = button}
  IN IF keys = {} THEN NoKey ELSE Max(keys)

DefaultPadConfig == [k \in Keys |-> IF k \in PadButtons THEN k ELSE NoKey]

(* Gamepad::poll on one event, a record of its pad, its kind and, for a    *)
(* press and a release, its button.  A bug: a vanishing pad is ignored.    *)
AppliedDeaf(keysOf, e) ==
  LET key == IF e.kind = "disconnected" THEN NoKey ELSE Mapped(padConfig, e.button)
  IN CASE e.kind = "pressed" /\ key # NoKey ->
            [keysOf EXCEPT ![e.pad] = @ \cup {key}]
       [] e.kind = "released" -> [keysOf EXCEPT ![e.pad] = @ \ {key}]
       [] OTHER -> keysOf
Applied(keysOf, e) ==
  IF e.kind = "disconnected" THEN [keysOf EXCEPT ![e.pad] = {}]
  ELSE AppliedDeaf(keysOf, e)

Enqueued(kind, p, b) ==
  /\ Len(events) < MaxEvents
  /\ events' = Append(events, [kind |-> kind, pad |-> p, button |-> b])
  /\ UNCHANGED <<held, padConfig, armed, padKeys, screenVars>>

PadPress(p) ==
  /\ p \in connected
  /\ \E b \in PadButtons \ down[p] :
       Enqueued("pressed", p, b) /\ down' = [down EXCEPT ![p] = @ \cup {b}]
  /\ UNCHANGED connected

PadRelease(p) ==
  /\ \E b \in down[p] :
       Enqueued("released", p, b) /\ down' = [down EXCEPT ![p] = @ \ {b}]
  /\ UNCHANGED connected

PadLost(p) ==
  /\ p \in connected
  /\ Enqueued("disconnected", p, NoKey)
  /\ connected' = connected \ {p}
  /\ down' = [down EXCEPT ![p] = {}]

(* A pad that appears has no button down and queues nothing poll heeds.    *)
PadFound(p) ==
  /\ p \notin connected
  /\ connected' = connected \cup {p}
  /\ UNCHANGED <<down, events, held, padConfig, armed, padKeys, screenVars>>

-----------------------------------------------------------------------------
(* The timer and the settings window.                                      *)

NothingHeld == [p \in Pads |-> {}]

(* set_bindings: what was held under the old map is forgotten.             *)
Bind(config) == padConfig' = config /\ held' = NothingHeld

(* Keys the held buttons stand for, turned with the screen.                *)
Turned(keysOf) == {Rotated(k, InputTurn) : k \in UNION {keysOf[p] : p \in Pads}}

(* Gamepad::poll: the events of the queue, one after the other.            *)
Polled ==
  LET after[n \in 0 .. Len(events)] ==
        IF n = 0 THEN held ELSE Applied(after[n - 1], events[n])
  IN after[Len(events)]

(* A tick with no rebind armed: poll, turn, publish.                       *)
TickPlay ==
  /\ armed = NoKey
  /\ held' = Polled
  /\ padKeys' = Turned(held')
  /\ events' = <<>>
  /\ UNCHANGED <<gilrs, padConfig, armed, screenVars>>

(* A tick with a rebind armed: poll_capture, and assign_gamepad with the   *)
(* first button pressed.  Whatever else was queued is dropped.             *)
TickCapture ==
  LET presses == {n \in DOMAIN events : events[n].kind = "pressed"}
  IN /\ armed # NoKey
     /\ events' = <<>> /\ padKeys' = {}
     /\ IF presses = {} THEN UNCHANGED <<held, padConfig, armed>>
        ELSE /\ Bind([padConfig EXCEPT ![armed] = events[Min(presses)].button])
             /\ armed' = NoKey
     /\ UNCHANGED <<gilrs, screenVars>>

Arm(key) ==
  /\ armed' = key
  /\ UNCHANGED <<gilrs, events, held, padConfig, padKeys, screenVars>>

(* The settings window is closed, or a key of the keyboard is wanted       *)
(* instead: the capture ends, nothing else changes.                        *)
Cancel ==
  /\ MayCancel /\ armed # NoKey
  /\ armed' = NoKey
  /\ UNCHANGED <<gilrs, events, held, padConfig, padKeys, screenVars>>

ResetBindings ==
  /\ Bind(DefaultPadConfig)
  /\ armed' = NoKey
  /\ UNCHANGED <<gilrs, events, padKeys, screenVars>>

TurnScreen ==
  /\ rotation' \in {"none", "right", "left"} /\ follow' \in BOOLEAN
  /\ UNCHANGED <<gilrs, events, held, padConfig, armed, padKeys>>

InputInit ==
  /\ connected = {} /\ down = [p \in Pads |-> {}]
  /\ events = <<>> /\ held = NothingHeld
  /\ padConfig = DefaultPadConfig /\ armed = NoKey /\ padKeys = {}
  /\ rotation = "none" /\ follow = FALSE

InputNext ==
  \/ \E p \in Pads : PadPress(p) \/ PadRelease(p) \/ PadLost(p) \/ PadFound(p)
  \/ TickPlay \/ TickCapture
  \/ \E key \in Rebound : Arm(key)
  \/ Cancel \/ ResetBindings \/ TurnScreen

InputSpec == InputInit /\ [][InputNext]_inputVars

-----------------------------------------------------------------------------
(* Properties.                                                             *)

(* Once the game has read the queue, every key it sees held by a pad is    *)
(* the key of a button that is down on that pad: no rebind, release or     *)
(* disconnection leaves a key stuck, and no pad clears another's.          *)
NoStuckKeys ==
  events = <<>> /\ armed = NoKey =>
    \A p \in Pads : held[p] \subseteq {Mapped(padConfig, b) : b \in down[p]}

(* With "rotate input with screen" on, the direction a player presses is   *)
(* the direction the game moves on the screen: the turn of the keys undoes *)
(* the turn of every pixel of the picture.                                 *)
StepOf == << <<0, -1>>, <<1, 0>>, <<0, 1>>, <<-1, 0>> >>
Picture == (0 .. PictureWidth - 1) \X (0 .. PictureHeight - 1)
Beside(p, d) == <<p[1] + StepOf[d][1], p[2] + StepOf[d][2]>>
InputFollowsScreen ==
  follow => \A d \in Directions, p \in Picture :
    LET q == Beside(p, Rotated(d, InputTurn))
    IN q \in Picture => ShownAt(q) = Beside(ShownAt(p), d)

=============================================================================
