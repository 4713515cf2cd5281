--------------------------- MODULE EmulationWorker ---------------------------
(***************************************************************************)
(* The emulation worker thread of the frontend (frontend/src/emulation.rs) *)
(* and its boundary with the GUI thread: the FIFO command channel, the     *)
(* reply channels of the synchronous requests, the event channel, the      *)
(* published frame and the host audio ring.                                *)
(*                                                                         *)
(* A machine (`System`) is reduced to the cartridge it runs and the        *)
(* version of its save RAM; a published frame to the cartridge it comes    *)
(* from, and a queued sample to the two cartridges whose samples it is     *)
(* interpolated between.  What one frame computes is left open: the game   *)
(* may or may not write its save RAM, the core may fault.                  *)
(***************************************************************************)
EXTENDS Naturals, Sequences

CONSTANTS
  Roms,       (* cartridges that have save RAM, named by their file       *)
  Bios,       (* the machine of a BIOS-only start, which has no save RAM  *)
  NoCart,     (* no machine, no path                                      *)
  HoldFrames, (* frames for which START is held (BIOS_SETTINGS_START_FRAMES) *)
  MaxSram,    (* bound: save RAM versions a game writes                   *)
  MaxStops,   (* bound: Stopped events not yet drained                    *)
  Scenario    (* what the environment does in this instance               *)

Features == {"load", "dialog", "reset", "bios", "pause", "dump", "state",
             "capture", "quit", "crash", "fault", "die", "slow", "writeError",
             "sound"}

ASSUME CartAssumption == Bios \notin Roms /\ NoCart \notin Roms /\ NoCart # Bios
ASSUME BoundAssumption == /\ HoldFrames \in Nat \ {0}
                          /\ MaxSram \in Nat
                          /\ MaxStops \in Nat
ASSUME ScenarioAssumption == Scenario \subseteq Features

Carts == Roms \cup {Bios}

(* What a file, a reply or a machine holds: `st` tells a present image from *)
(* an absent ("none"), failed ("err") or truncated ("torn") one.            *)
Image == [st : {"none", "err", "torn", "data"}, cart : Carts \cup {NoCart}, sram : Nat]
Blank(st) == [st |-> st, cart |-> NoCart, sram |-> 0]
Data(c, s) == [st |-> "data", cart |-> c, sram |-> s]

Ops == {"ReplaceSystem", "ClearSystem", "SetPaused", "HoldStart", "DumpFrame",
        "SaveData", "SaveState", "LoadState", "Shutdown"}
Requests == {"SaveData", "SaveState", "LoadState"}   \* those that are answered

(* `live`: the requester still holds the receiving end of the reply channel. *)
Command == [op : Ops, img : Image, flag : BOOLEAN, live : BOOLEAN]
Message(op, img, flag, live) == [op |-> op, img |-> img, flag |-> flag, live |-> live]
Cmd(op)             == Message(op, Blank("none"), FALSE, FALSE)
CmdPaused(p)        == Message("SetPaused", Blank("none"), p, FALSE)
CmdReplace(m)       == Message("ReplaceSystem", m, FALSE, FALSE)
CmdRequest(op, img) == Message(op, img, FALSE, TRUE)

VARIABLES
  queue,         (* command_tx / command_rx                              *)
  reply,         (* the reply channel of the request in progress         *)
  stops,         (* Stopped events in event_tx / event_rx                *)
  wpc,           (* "drain": receiving, "frame": about to run, "exited"  *)
  system,        (* WorkerState.system; cart = NoCart when None          *)
  paused, dumpRequested, startFrames,      (* WorkerState                *)
  frameOf,       (* cartridge of the published frame                     *)
  audio          (* the AudioProducer: the intervals whose samples are in *)
                 (* the ring, and the resampler's last input sample       *)

workerVars == <<queue, reply, stops, wpc, system, paused, dumpRequested,
                startFrames, frameOf, audio>>

AudioType ==
  audio \in [ring : SUBSET ((Carts \cup {NoCart}) \X (Carts \cup {NoCart})),
            carried : Carts \cup {NoCart}]

WorkerTypeOK ==
  /\ queue \in Seq(Command)
  /\ reply \in Image
  /\ stops \in Nat
  /\ wpc \in {"drain", "frame", "exited"}
  /\ system \in [st : {"none", "data"}, cart : Carts \cup {NoCart}, sram : Nat]
  /\ paused \in BOOLEAN /\ dumpRequested \in BOOLEAN
  /\ startFrames \in 0 .. HoldFrames
  /\ frameOf \in Carts \cup {NoCart}
  /\ AudioType

WorkerInit ==
  /\ queue = <<>> /\ reply = Blank("none") /\ stops = 0 /\ wpc = "drain"
  /\ system = Blank("none")
  /\ paused = FALSE /\ dumpRequested = FALSE /\ startFrames = 0
  /\ frameOf = NoCart /\ audio = [ring |-> {}, carried |-> NoCart]

Loaded == system.st = "data"
Runnable == Loaded /\ (~paused \/ dumpRequested)

-----------------------------------------------------------------------------
(* clear_audio empties the ring; the resampler keeps the last sample it    *)
(* was given.  A bug would leave the old samples in the ring.              *)
RingKept == UNCHANGED audio
ClearAudio == audio' = [audio EXCEPT !.ring = {}]

(* handle_command, one action per command at the head of the channel.      *)

Receive(op) == wpc = "drain" /\ queue # <<>> /\ Head(queue).op = op

(* A send on a reply channel whose receiver was dropped is lost.           *)
Answer(img) == reply' = IF Head(queue).live THEN img ELSE reply

ReplaceSystem ==
  /\ Receive("ReplaceSystem")
  /\ queue' = Tail(queue)
  /\ ClearAudio
  /\ frameOf' = Head(queue).img.cart
  /\ system' = Head(queue).img
  /\ startFrames' = 0
  /\ UNCHANGED <<reply, stops, wpc, paused, dumpRequested>>

ClearSystem ==
  /\ Receive("ClearSystem")
  /\ queue' = Tail(queue)
  /\ ClearAudio
  /\ system' = Blank("none")
  /\ startFrames' = 0
  /\ UNCHANGED <<reply, stops, wpc, paused, dumpRequested, frameOf>>

SetPaused ==
  /\ Receive("SetPaused")
  /\ queue' = Tail(queue)
  /\ paused' = Head(queue).flag
  /\ ClearAudio
  /\ UNCHANGED <<reply, stops, wpc, system, dumpRequested, startFrames, frameOf>>

HoldStart ==
  /\ Receive("HoldStart")
  /\ queue' = Tail(queue)
  /\ startFrames' = HoldFrames
  /\ UNCHANGED <<reply, stops, wpc, system, paused, dumpRequested, frameOf, audio>>

DumpFrame ==
  /\ Receive("DumpFrame")
  /\ queue' = Tail(queue)
  /\ dumpRequested' = TRUE
  /\ UNCHANGED <<reply, stops, wpc, system, paused, startFrames, frameOf, audio>>

(* save_data() of a machine without save RAM is empty; None without one.   *)
SaveData ==
  /\ Receive("SaveData")
  /\ queue' = Tail(queue)
  /\ Answer(IF Loaded /\ system.cart \in Roms THEN system ELSE Blank("err"))
  /\ UNCHANGED <<stops, wpc, system, paused, dumpRequested, startFrames, frameOf, audio>>

SaveState ==
  /\ Receive("SaveState")
  /\ queue' = Tail(queue)
  /\ Answer(IF Loaded THEN system ELSE Blank("err"))
  /\ UNCHANGED <<stops, wpc, system, paused, dumpRequested, startFrames, frameOf, audio>>

(* A failed load (no machine, undecodable bytes) leaves the machine alone. *)
LoadState ==
  /\ Receive("LoadState")
  /\ queue' = Tail(queue)
  /\ ClearAudio
  /\ LET img == Head(queue).img IN
       \/ /\ Loaded /\ img.st = "data"
          /\ system' = img
          /\ frameOf' = img.cart
          /\ Answer(img)
       \/ /\ ~(Loaded /\ img.st = "data")
          /\ Answer(Blank("err"))
          /\ UNCHANGED <<system, frameOf>>
  /\ UNCHANGED <<stops, wpc, paused, dumpRequested, startFrames>>

(* A bug: the worker takes the command for any other and keeps running.    *)
ShutdownIgnored ==
  /\ Receive("Shutdown") /\ queue' = Tail(queue)
  /\ UNCHANGED <<reply, stops, wpc, system, paused, dumpRequested, startFrames,
                 frameOf, audio>>

(* The loop returns: the machine, the receiver and every command still     *)
(* queued are dropped.                                                     *)
Shutdown ==
  /\ Receive("Shutdown")
  /\ queue' = <<>>
  /\ wpc' = "exited"
  /\ system' = Blank("none")
  /\ UNCHANGED <<reply, stops, paused, dumpRequested, startFrames, frameOf, audio>>

HandleCommand ==
  \/ ReplaceSystem \/ ClearSystem \/ SetPaused \/ HoldStart \/ DumpFrame
  \/ SaveData \/ SaveState \/ LoadState \/ Shutdown

-----------------------------------------------------------------------------
(* worker_loop and run_one_frame.  The drain saw an empty channel; pacing  *)
(* decides when, so here a frame may start at once.  Commands sent after   *)
(* that wait in the channel until the frame is over.                       *)
StartFrame ==
  /\ wpc = "drain" /\ queue = <<>> /\ Runnable
  /\ wpc' = "frame"
  /\ UNCHANGED <<queue, reply, stops, system, paused, dumpRequested, startFrames,
                 frameOf, audio>>

(* The machine runs for a frame: the game may write its save RAM.          *)
Advance ==
  \/ UNCHANGED system
  \/ /\ system.cart \in Roms /\ system.sram < MaxSram
     /\ system' = [system EXCEPT !.sram = @ + 1]

(* A bug: the START counter is decremented past zero.                      *)
TakeUnchecked ==
  /\ wpc = "frame"
  /\ dumpRequested' = FALSE
  /\ startFrames' = startFrames - 1

(* The head of run_one_frame: the dump and START requests are consumed     *)
(* before the machine runs.                                                *)
TakeFrameRequest ==
  /\ wpc = "frame"
  /\ dumpRequested' = FALSE
  /\ startFrames' = IF startFrames > 0 THEN startFrames - 1 ELSE 0

(* AudioProducer::push of a frame.  The first sample is interpolated from  *)
(* the one the resampler was given last, whichever machine that was of; a  *)
(* device at the APU's own rate would carry nothing.  Without a device     *)
(* ("sound") there is no producer.                                         *)
Previous == IF audio.carried = NoCart THEN system.cart ELSE audio.carried
PushAudio ==
  IF "sound" \in Scenario
  THEN audio' = [ring    |-> audio.ring \cup {<<Previous, system.cart>>,
                                              <<system.cart, system.cart>>},
                 carried |-> system.cart]
  ELSE UNCHANGED audio

RunFrame ==
  /\ TakeFrameRequest
  /\ Advance
  /\ wpc' = "drain"
  /\ PushAudio
  /\ frameOf' = system.cart
  /\ UNCHANGED <<queue, reply, stops, paused>>

(* The Stopped event; a bug would stop the worker without it.              *)
ReportNothing == UNCHANGED stops
Report == stops' = stops + 1

(* stop_worker: the core panicked or latched an unsupported opcode.        *)
StopWorker ==
  /\ "fault" \in Scenario /\ stops < MaxStops
  /\ TakeFrameRequest
  /\ Advance
  /\ wpc' = "drain"
  /\ paused' = TRUE
  /\ ClearAudio
  /\ Report
  /\ UNCHANGED <<queue, reply, frameOf>>

(* A panic after catch_unwind (resampling, publishing) ends the thread;    *)
(* unwinding drops the channel ends, so nobody is told.                    *)
WorkerDies ==
  /\ "die" \in Scenario
  /\ TakeFrameRequest
  /\ system' = Blank("none")
  /\ wpc' = "exited"
  /\ queue' = <<>>
  /\ UNCHANGED <<reply, stops, paused, audio, frameOf>>

WorkerNext == HandleCommand \/ StartFrame \/ RunFrame \/ StopWorker \/ WorkerDies
=============================================================================
