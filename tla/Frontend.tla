------------------------------ MODULE Frontend ------------------------------
(***************************************************************************)
(* The GUI thread (frontend/src/main.rs) composed with the emulation       *)
(* worker, the files it keeps and the user.                                *)
(*                                                                         *)
(* The GUI is one thread: menu callbacks and the 4 ms timer run to the end *)
(* before the next one starts, so an operation that sends several commands *)
(* or waits for a reply is a walk of `pc` during which only the worker     *)
(* moves.  Each send is a step of its own.                                 *)
(***************************************************************************)
EXTENDS EmulationWorker

CONSTANT MaxBacklog  (* bound: commands queued when the user or timer acts *)

ASSUME BacklogAssumption == MaxBacklog \in Nat

VARIABLES
  pc,           (* where the running GUI callback is; "idle" between callbacks *)
  cont,         (* the operation under way: kind, ROM to load, resume_worker   *)
  romPath,      (* App.rom_path                                           *)
  hasRom,       (* the window's has-rom, which enables the state items    *)
  guiPaused,    (* App.paused                                             *)
  dialogOpen, pendingOpen,       (* open_dialog_active, pending_open_path *)
  resetRequest, biosStart,       (* reset_request, bios_settings_start_frames > 0 *)
  capturing,    (* App.capture is armed for a controller button           *)
  saves, states (* the .sav and .state file of each ROM                   *)

guiVars  == <<pc, cont, romPath, hasRom, guiPaused, dialogOpen, pendingOpen,
              resetRequest, biosStart, capturing>>
fileVars == <<saves, states>>
vars     == <<workerVars, guiVars, fileVars>>
flags    == <<hasRom, dialogOpen, pendingOpen, resetRequest, biosStart, capturing>>

Kinds == {"none", "flush", "load", "bios", "saveState", "loadState", "quit", "exit"}
Task(kind, rom) == [kind |-> kind, rom |-> rom, resume |-> FALSE]
NoTask == Task("none", NoCart)
Tasks == [kind : Kinds, rom : Roms \cup {NoCart}, resume : BOOLEAN]

GuiTypeOK ==
  /\ pc \in {"idle", "freeze", "save", "ask", "wait", "write", "swap", "hold",
             "resume", "shutdown", "join", "exited"}
  /\ cont \in Tasks
  /\ romPath \in Roms \cup {NoCart} /\ pendingOpen \in Roms \cup {NoCart}
  /\ hasRom \in BOOLEAN /\ guiPaused \in BOOLEAN /\ dialogOpen \in BOOLEAN
  /\ resetRequest \in BOOLEAN /\ biosStart \in BOOLEAN /\ capturing \in BOOLEAN

TypeOK ==
  /\ WorkerTypeOK /\ GuiTypeOK
  /\ saves \in [Roms -> Image] /\ states \in [Roms -> Image]

GuiInit ==
  /\ pc = "idle" /\ cont = NoTask
  /\ romPath = NoCart /\ hasRom = FALSE /\ guiPaused = FALSE
  /\ dialogOpen = FALSE /\ pendingOpen = NoCart
  /\ resetRequest = FALSE /\ biosStart = FALSE /\ capturing = FALSE

Init ==
  /\ WorkerInit /\ GuiInit
  /\ saves = [r \in Roms |-> Blank("none")]
  /\ states = [r \in Roms |-> Blank("none")]

-----------------------------------------------------------------------------
(* Sending, and waiting for a reply.                                       *)

WorkerGone == wpc = "exited"
Send(c) == queue' = IF WorkerGone THEN queue ELSE Append(queue, c)
OnlyQueue == UNCHANGED <<stops, wpc, system, paused, dumpRequested, startFrames,
                         frameOf, audio>>
(* A request opens a fresh reply channel; a bug would reuse the last one.  *)
AskShared(op, img) == Send(CmdRequest(op, img)) /\ UNCHANGED reply /\ OnlyQueue
Ask(op, img) ==
  /\ Send(CmdRequest(op, img)) /\ reply' = Blank("none") /\ OnlyQueue
Tell(c) == Send(c) /\ UNCHANGED reply /\ OnlyQueue

(* What follows save_current_cartridge in each operation that calls it.    *)
AfterSave ==
  \/ cont.kind \in {"load", "bios"} /\ pc' = "swap" /\ UNCHANGED cont
  \/ cont.kind = "quit" /\ pc' = "save" /\ cont' = Task("exit", NoCart)
  \/ cont.kind = "exit" /\ pc' = "shutdown" /\ UNCHANGED cont
  \/ cont.kind \in {"flush", "saveState", "loadState"} /\ pc' = "idle" /\ cont' = NoTask

(* Whether pause_worker_for_system_change pauses, and resumes afterwards:  *)
(* not a machine the user paused.  Bugs: never, always.                    *)
PauseNever == FALSE
PauseAlways == TRUE
MustPause == ~guiPaused

Freeze ==
  /\ pc = "freeze"
  /\ pc' = "save"
  /\ IF MustPause
     THEN /\ Tell(CmdPaused(TRUE))
          /\ cont' = [cont EXCEPT !.resume = ~WorkerGone]
     ELSE UNCHANGED <<workerVars, cont>>
  /\ UNCHANGED <<romPath, guiPaused, flags, fileVars>>

(* save_current_cartridge up to the request; without a path there is none. *)
SaveRequest ==
  /\ pc = "save"
  /\ \/ /\ romPath = NoCart \/ WorkerGone
        /\ AfterSave
        /\ UNCHANGED workerVars
     \/ /\ romPath # NoCart /\ ~WorkerGone
        /\ Ask("SaveData", Blank("none"))
        /\ pc' = "wait" /\ UNCHANGED cont
  /\ UNCHANGED <<romPath, guiPaused, flags, fileVars>>

(* save_current_state and load_current_state up to the request.            *)
StateRequest ==
  /\ pc = "ask"
  /\ \/ /\ WorkerGone
        /\ pc' = "idle" /\ cont' = NoTask /\ UNCHANGED workerVars
     \/ /\ ~WorkerGone
        /\ IF cont.kind = "saveState" THEN Ask("SaveState", Blank("none"))
           ELSE Ask("LoadState", states[romPath])
        /\ pc' = "wait" /\ UNCHANGED cont
  /\ UNCHANGED <<romPath, guiPaused, flags, fileVars>>

(* The file the operation under way writes; std::fs::write truncates first. *)
WriteFile(img) ==
  IF cont.kind = "saveState"
  THEN states' = [states EXCEPT ![romPath] = img] /\ UNCHANGED saves
  ELSE saves' = [saves EXCEPT ![romPath] = img] /\ UNCHANGED states

WantsFile == cont.kind # "loadState"

(* An image arrived and the file is opened for writing; until the write    *)
(* ends it holds a prefix, of which a state file decodes to nothing.       *)
Torn == IF cont.kind = "saveState" THEN Blank("torn") ELSE [reply EXCEPT !.st = "torn"]

ReplyWritten ==
  /\ pc = "wait" /\ WantsFile /\ reply.st = "data"
  /\ WriteFile(Torn)
  /\ pc' = "write"
  /\ UNCHANGED <<workerVars, cont, romPath, guiPaused, flags>>

(* Nothing to write: an error, no machine, no save RAM, or a state load;   *)
(* or the file cannot be opened.                                           *)
ReplyDone ==
  /\ pc = "wait" /\ reply.st # "none"
  /\ WantsFile /\ reply.st = "data" => "writeError" \in Scenario
  /\ AfterSave
  /\ UNCHANGED <<workerVars, romPath, guiPaused, flags, fileVars>>

(* A bug: recv without a timeout, on a reply sender the caller still holds. *)
NoReplyEver ==
  /\ pc = "wait" /\ reply.st = "none" /\ "slow" \in Scenario
  /\ AfterSave
  /\ UNCHANGED <<workerVars, romPath, guiPaused, flags, fileVars>>

(* COMMAND_TIMEOUT passed, or the worker dropped the reply sender.  The    *)
(* command stays queued; its answer will find no receiver.                 *)
NoReply ==
  /\ pc = "wait" /\ reply.st = "none"
  /\ WorkerGone \/ "slow" \in Scenario
  /\ queue' = [i \in DOMAIN queue |-> [queue[i] EXCEPT !.live = FALSE]]
  /\ AfterSave
  /\ UNCHANGED <<reply, romPath, guiPaused, flags, fileVars>> /\ OnlyQueue

WriteDone ==
  /\ pc = "write"
  /\ \/ WriteFile(reply)
     \/ "writeError" \in Scenario /\ UNCHANGED fileVars
  /\ AfterSave
  /\ UNCHANGED <<workerVars, romPath, guiPaused, flags>>

-----------------------------------------------------------------------------
(* Changing the machine: load_into and start_bios_only after the save.     *)

(* A fresh machine with the save RAM load_cartridge_save finds.  It takes   *)
(* any bytes: of a torn file the prefix there is, with as many of the      *)
(* game's writes as it holds.                                              *)
FreshMachines(r) ==
  {Data(r, n) : n \in IF saves[r].st = "torn" THEN 0 .. saves[r].sram
                                              ELSE {saves[r].sram}}

SwapRom ==
  /\ pc = "swap" /\ cont.kind = "load"
  /\ \E m \in FreshMachines(cont.rom) : Tell(CmdReplace(m))
  /\ pc' = "resume"
  /\ cont' = [cont EXCEPT !.kind = IF WorkerGone THEN "none" ELSE "load"]
  /\ UNCHANGED <<romPath, guiPaused, flags, fileVars>>

(* A selected BIOS whose image loads; START is held when its settings were *)
(* asked for.                                                              *)
SwapBios ==
  /\ pc = "swap" /\ cont.kind = "bios"
  /\ Tell(CmdReplace(Data(Bios, 0)))
  /\ pc' = IF biosStart /\ ~WorkerGone THEN "hold" ELSE "resume"
  /\ biosStart' = IF WorkerGone THEN biosStart ELSE FALSE
  /\ hasRom' = (hasRom \/ ~WorkerGone)
  /\ UNCHANGED <<cont, romPath, guiPaused, dialogOpen, pendingOpen, resetRequest,
                 capturing, fileVars>>

(* A bug: START is held although no BIOS starts.                           *)
SwapNothingHeld ==
  /\ pc = "swap" /\ cont.kind = "bios"
  /\ Tell(Cmd("ClearSystem"))
  /\ pc' = IF biosStart THEN "hold" ELSE "resume"
  /\ hasRom' = FALSE
  /\ UNCHANGED <<cont, romPath, guiPaused, dialogOpen, pendingOpen, resetRequest,
                 biosStart, capturing, fileVars>>

(* No BIOS selected, or its file is missing; rom_path keeps its value.     *)
SwapNothing ==
  /\ pc = "swap" /\ cont.kind = "bios"
  /\ Tell(Cmd("ClearSystem"))
  /\ pc' = "resume"
  /\ hasRom' = FALSE
  /\ UNCHANGED <<cont, romPath, guiPaused, dialogOpen, pendingOpen, resetRequest,
                 biosStart, capturing, fileVars>>

Hold ==
  /\ pc = "hold"
  /\ Tell(Cmd("HoldStart"))
  /\ pc' = "resume"
  /\ UNCHANGED <<cont, romPath, guiPaused, flags, fileVars>>

(* App.rom_path after the change; a bug would keep the old one.            *)
OldPath == romPath
NewPath == IF cont.kind = "load" THEN cont.rom ELSE romPath

(* resume_worker_after_system_change, then the window takes the new ROM.   *)
Resume ==
  /\ pc = "resume"
  /\ IF cont.resume THEN Tell(CmdPaused(FALSE)) ELSE UNCHANGED workerVars
  /\ pc' = "idle" /\ cont' = NoTask
  /\ romPath' = NewPath
  /\ hasRom' = (hasRom \/ cont.kind = "load")
  /\ UNCHANGED <<guiPaused, dialogOpen, pendingOpen, resetRequest, biosStart,
                 capturing, fileVars>>

(* EmulationWorker::shutdown: send, then join the thread.                  *)
SendShutdown ==
  /\ pc = "shutdown"
  /\ Tell(Cmd("Shutdown"))
  /\ pc' = "join"
  /\ UNCHANGED <<cont, romPath, guiPaused, flags, fileVars>>

Join ==
  /\ pc = "join" /\ WorkerGone
  /\ pc' = "exited" /\ cont' = NoTask
  /\ UNCHANGED <<workerVars, romPath, guiPaused, flags, fileVars>>

GuiStep ==
  \/ Freeze \/ SaveRequest \/ StateRequest \/ ReplyWritten \/ ReplyDone \/ NoReply
  \/ WriteDone \/ SwapRom \/ SwapBios \/ SwapNothing \/ Hold \/ Resume
  \/ SendShutdown \/ Join

-----------------------------------------------------------------------------
(* Callbacks the user starts, and the timer.                               *)

(* The GUI thread is free and no modal dialog is running.                  *)
UserMay(op) == pc = "idle" /\ op \in Scenario /\ ~dialogOpen /\ Len(queue) <= MaxBacklog

(* A bug: rom_path takes the new ROM before the old one is saved.          *)
BeginEarly(at, task) ==
  /\ pc' = at /\ cont' = task
  /\ romPath' = IF task.kind = "load" THEN task.rom ELSE romPath
  /\ UNCHANGED <<workerVars, guiPaused, fileVars>>

Begin(at, task) ==
  /\ pc' = at /\ cont' = task
  /\ UNCHANGED <<workerVars, romPath, guiPaused, fileVars>>

OpenRecent(r) == UserMay("load") /\ Begin("freeze", Task("load", r)) /\ UNCHANGED flags

OpenDialog ==
  /\ UserMay("dialog")
  /\ dialogOpen' = TRUE
  /\ UNCHANGED <<workerVars, pc, cont, romPath, hasRom, guiPaused, pendingOpen,
                 resetRequest, biosStart, capturing, fileVars>>

(* The dialog returns with a choice or without one.                        *)
CloseDialog ==
  /\ pc = "idle" /\ dialogOpen
  /\ dialogOpen' = FALSE
  /\ pendingOpen' \in Roms \cup {NoCart}
  /\ UNCHANGED <<workerVars, pc, cont, romPath, hasRom, guiPaused, resetRequest,
                 biosStart, capturing, fileVars>>

(* on_reset_emulation, and on_open_bios_settings.                          *)
RequestReset ==
  /\ \/ UserMay("reset") /\ biosStart' = FALSE
     \/ UserMay("bios") /\ biosStart' = TRUE
  /\ resetRequest' = TRUE
  /\ UNCHANGED <<workerVars, pc, cont, romPath, hasRom, guiPaused, dialogOpen,
                 pendingOpen, capturing, fileVars>>

TogglePause ==
  /\ UserMay("pause")
  /\ guiPaused' = ~guiPaused
  /\ Tell(CmdPaused(~guiPaused))
  /\ UNCHANGED <<pc, cont, romPath, flags, fileVars>>

PressDumpKey ==
  /\ UserMay("dump")
  /\ Tell(Cmd("DumpFrame"))
  /\ UNCHANGED <<guiVars, fileVars>>

(* The menu items are enabled by has-rom; the operations need a path, and  *)
(* loading needs the file.                                                 *)
StateMenu ==
  /\ UserMay("state") /\ hasRom /\ romPath # NoCart
  /\ \/ Begin("ask", Task("saveState", NoCart))
     \/ states[romPath].st # "none" /\ Begin("ask", Task("loadState", NoCart))
  /\ UNCHANGED flags

(* rebind_pad, and the ways a capture ends.                                *)
ToggleCapture ==
  /\ UserMay("capture")
  /\ capturing' = ~capturing
  /\ UNCHANGED <<workerVars, pc, cont, romPath, hasRom, guiPaused, dialogOpen,
                 pendingOpen, resetRequest, biosStart, fileVars>>

(* on_quit saves before it ends the event loop, after which run saves      *)
(* again; closing the window only ends the loop.                           *)
Quit ==
  /\ UserMay("quit")
  /\ \E kind \in {"quit", "exit"} : Begin("save", Task(kind, NoCart))
  /\ UNCHANGED flags

TimerOpen ==
  /\ pc = "idle" /\ ~dialogOpen /\ pendingOpen # NoCart
  /\ pendingOpen' = NoCart
  /\ \/ Begin("freeze", Task("load", pendingOpen))
     \/ Begin("idle", NoTask)                    \* the file cannot be read
  /\ UNCHANGED <<hasRom, dialogOpen, resetRequest, biosStart, capturing>>

(* reset_emulation.                                                        *)
TimerReset ==
  /\ pc = "idle" /\ ~dialogOpen /\ pendingOpen = NoCart /\ resetRequest
  /\ resetRequest' = FALSE
  /\ \/ /\ biosStart \/ romPath = NoCart
        /\ Begin("freeze", Task("bios", NoCart))
     \/ /\ ~biosStart /\ romPath # NoCart
        /\ \/ Begin("freeze", Task("load", romPath))
           \/ Begin("idle", NoTask)              \* the file cannot be read
  /\ UNCHANGED <<hasRom, dialogOpen, pendingOpen, biosStart, capturing>>

(* The rest of a tick: drain the events; every 2 s flush the save RAM.     *)
TimerFree ==
  pc = "idle" /\ ~dialogOpen /\ pendingOpen = NoCart /\ ~resetRequest /\ ~capturing

(* A bug: a drained Stopped event leaves the window unpaused.              *)
DrainUnseen ==
  /\ stops' = 0
  /\ UNCHANGED <<queue, reply, wpc, system, paused, dumpRequested, startFrames,
                 frameOf, audio, romPath, guiPaused, flags, fileVars>>

DrainEvents ==
  /\ stops' = 0
  /\ guiPaused' = (guiPaused \/ stops > 0)
  /\ UNCHANGED <<queue, reply, wpc, system, paused, dumpRequested, startFrames,
                 frameOf, audio, romPath, flags, fileVars>>

TimerEvents == TimerFree /\ stops > 0 /\ DrainEvents /\ UNCHANGED <<pc, cont>>

(* A bug: the 2 s autosave is forgotten.                                   *)
FlushNothing ==
  /\ TimerFree /\ Len(queue) <= MaxBacklog
  /\ DrainEvents /\ UNCHANGED <<pc, cont>>

TimerFlush ==
  /\ TimerFree /\ Len(queue) <= MaxBacklog
  /\ DrainEvents
  /\ pc' = "save" /\ cont' = Task("flush", NoCart)

UserStep ==
  \/ \E r \in Roms : OpenRecent(r)
  \/ OpenDialog \/ CloseDialog \/ RequestReset \/ TogglePause \/ PressDumpKey
  \/ StateMenu \/ ToggleCapture \/ Quit

TimerStep == TimerOpen \/ TimerReset \/ TimerEvents \/ TimerFlush

(* The process is killed, or started again after it exited: what it held   *)
(* is gone, the files stay as they are.                                    *)
Boot ==
  /\ queue' = <<>> /\ reply' = Blank("none") /\ stops' = 0 /\ wpc' = "drain"
  /\ system' = Blank("none")
  /\ paused' = FALSE /\ dumpRequested' = FALSE /\ startFrames' = 0
  /\ frameOf' = NoCart /\ audio' = [ring |-> {}, carried |-> NoCart]
  /\ pc' = "idle" /\ cont' = NoTask
  /\ romPath' = NoCart /\ hasRom' = FALSE /\ guiPaused' = FALSE
  /\ dialogOpen' = FALSE /\ pendingOpen' = NoCart
  /\ resetRequest' = FALSE /\ biosStart' = FALSE /\ capturing' = FALSE
  /\ UNCHANGED fileVars
Crash == "crash" \in Scenario /\ pc # "exited" /\ Boot
Relaunch == pc = "exited" /\ Boot

Next ==
  \/ WorkerNext /\ UNCHANGED <<guiVars, fileVars>>
  \/ GuiStep \/ TimerStep \/ UserStep \/ Crash \/ Relaunch

Spec == Init /\ [][Next]_vars

(* Fairness: the worker loop never blocks (it polls every 4 ms) and a       *)
(* running callback runs on.  The timer fires every 4 ms, so it finds a     *)
(* free moment if there are any: strong fairness, since a user who opens    *)
(* menus again and again disables it again and again, never for 4 ms at a   *)
(* time for ever.  A capture does not stop it from opening and resetting,   *)
(* but time without one is long enough for a tick as well.  The user, the   *)
(* dialog and the faults owe nothing, and TimerFlush drains the events too. *)
Fairness ==
  /\ WF_vars(HandleCommand /\ UNCHANGED <<guiVars, fileVars>>)
  /\ WF_vars(StartFrame /\ UNCHANGED <<guiVars, fileVars>>)
  /\ WF_vars(RunFrame /\ UNCHANGED <<guiVars, fileVars>>)
  /\ WF_vars(GuiStep)
  /\ SF_vars(TimerOpen /\ ~capturing) /\ SF_vars(TimerReset /\ ~capturing)
  /\ SF_vars(TimerFlush)
FairSpec == Spec /\ Fairness

-----------------------------------------------------------------------------
(* Properties.                                                             *)

(* The .sav of a ROM, whole or torn, only ever holds save RAM of that ROM, *)
(* whatever times out, fails, crashes or is swapped: a torn one is taken   *)
(* for save RAM by the next load, and save_current_cartridge takes the     *)
(* bytes from the worker and the path from the GUI.                        *)
SaveFileOwner == \A r \in Roms : saves[r].st # "none" => saves[r].cart = r

(* The .state of a ROM never holds a machine of another ROM.  It may hold  *)
(* the BIOS machine: start_bios_only keeps rom_path.                       *)
StateFileNotForeign ==
  \A r \in Roms : states[r].st = "data" => states[r].cart \in {r, Bios}

(* What the user sees and hears comes from the machine that runs, except   *)
(* for one step of sound: swapping and restoring publish a frame and empty *)
(* the ring, but AudioProducer::clear leaves the resampler its last sample, *)
(* so the next machine's first sample is reached from the old machine's.   *)
(* Every queued sample leads to one of the running machine, at most one    *)
(* interval leaves from another's, and once a frame ran none is left over. *)
OutputsBelongToMachine ==
  Loaded =>
    /\ frameOf = system.cart
    /\ \A x \in audio.ring : x[2] = system.cart
    /\ \A x, y \in audio.ring : x[1] # system.cart /\ y[1] # system.cart => x = y
    /\ audio.ring # {} => audio.carried = system.cart

(* With no swap under way, a ROM that runs is the ROM whose path the GUI   *)
(* saves to.                                                               *)
SwapQueued == \E i \in DOMAIN queue : queue[i].op \in {"ReplaceSystem", "ClearSystem"}
MachineMatchesPath ==
  pc # "resume" /\ ~SwapQueued /\ system.cart \in Roms => system.cart = romPath

(* The pause state the worker will be in once it drained its channel.      *)
NoPauseAfter(i) == \A j \in DOMAIN queue : j > i => queue[j].op # "SetPaused"
WillBePaused ==
  \/ paused /\ NoPauseAfter(0)
  \/ \E i \in DOMAIN queue : queue[i].op = "SetPaused" /\ queue[i].flag /\ NoPauseAfter(i)

(* A game never freezes behind the user's back: if the window does not say *)
(* paused, the worker runs or will run, or its Stopped message is on its   *)
(* way (stop_worker, pause_worker_for_system_change and its resume).       *)
NoSilentFreeze ==
  pc = "idle" /\ ~guiPaused /\ ~WorkerGone => ~WillBePaused \/ stops > 0

(* App.paused is "Whether emulation is paused": when the window says so,   *)
(* the worker is, or will be.                                              *)
PausedMeansPaused ==
  pc = "idle" /\ guiPaused /\ ~WorkerGone => WillBePaused

(* "the old system cannot advance between that snapshot and ReplaceSystem": *)
(* the machine a swap discards has its save RAM on disk.                   *)
SavedOnDisk(r) == saves[r].st = "data" /\ saves[r].sram = system.sram
SwapLosesNothing ==
  [][(ReplaceSystem \/ ClearSystem) /\ system.cart \in Roms
        => SavedOnDisk(system.cart)]_vars

(* The START press start_bios_only asks for is held on the BIOS machine it *)
(* was meant for, not on the machine that ran before.                      *)
HoldReachesBios == [][startFrames' > startFrames => system.cart = Bios]_vars

(* A synchronous request always gives the GUI thread back.                 *)
RequestsReturn == (pc = "wait") ~> (pc # "wait")

(* Shutting down joins the worker, even with a frame running.              *)
ShutdownCompletes == (pc = "join") ~> (pc = "exited")

(* Each tick returns early while a dialog is open, an opened file or a     *)
(* reset is pending, or a capture is armed.  The user ends dialogs and     *)
(* captures, if only to begin others; the rest is the timer's to clear.    *)
UserComesBack == []<>~dialogOpen /\ []<>~capturing

(* A stop the worker reports pauses the window, whatever the user opens,   *)
(* resets and rebinds meanwhile.                                           *)
StopShown == UserComesBack => (stops > 0 ~> guiPaused \/ pc \in {"join", "exited"})

(* What a game wrote to its save RAM reaches the disk through the 2 s      *)
(* autosave, whatever the user opens, resets and rebinds meanwhile, unless *)
(* the machine is gone first: swapped (SwapLosesNothing is about that),    *)
(* lost with a worker thread that died, or ended with the program.         *)
ProgressSaved ==
  UserComesBack =>
    \A r \in Roms : \A v \in 0 .. MaxSram :
      (system.cart = r /\ system.sram = v) ~>
        \/ saves[r].st = "data" /\ saves[r].sram >= v
        \/ SwapQueued \/ system.cart # r \/ pc \in {"join", "exited"}
=============================================================================
