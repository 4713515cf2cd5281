--------------------------- MODULE Frontend_proofs ---------------------------
(***************************************************************************)
(* Proofs about Frontend: type correctness; that no file of a ROM ever     *)
(* receives the bytes of another ROM; that the window shows what the       *)
(* worker does; and what a change of the machine saves.                    *)
(*                                                                         *)
(* save_current_cartridge pairs bytes the worker reads with a path the GUI *)
(* knows, and nothing in the code compares the two.  They agree because    *)
(* every machine the worker holds, or will take from its channel, is the   *)
(* BIOS or runs the ROM of rom_path -- unless a swap queued behind it      *)
(* discards it -- and because an answerable request is always the last     *)
(* command of the channel.                                                 *)
(***************************************************************************)
EXTENDS Frontend, TLAPS

(* The ROM the files will be written for: load_into stores rom_path only   *)
(* after it sent the machine.                                              *)
Target == IF pc = "resume" /\ cont.kind = "load" THEN cont.rom ELSE romPath

IsSwap(c) == c.op \in {"ReplaceSystem", "ClearSystem"}
SwapBehind(q, i) == \E j \in DOMAIN q : j > i /\ IsSwap(q[j])

(* A machine at place i of the channel (0: the one that runs).             *)
Covered(q, i, img, rom) ==
  img.st = "data" => img.cart \in {Bios, rom} \/ SwapBehind(q, i)

QueueCovered(q, rom) ==
  \A i \in DOMAIN q :
    q[i].op \in {"ReplaceSystem", "LoadState"} => Covered(q, i, q[i].img, rom)

MachinesCovered == Covered(queue, 0, system, Target) /\ QueueCovered(queue, Target)

(* The request of each operation, and what may come back for it.           *)
RequestOf(kind) ==
  IF kind = "saveState" THEN "SaveState"
  ELSE IF kind = "loadState" THEN "LoadState" ELSE "SaveData"

LiveIsLast ==
  \A i \in DOMAIN queue :
    queue[i].live => /\ i = Len(queue) /\ pc = "wait" /\ reply.st = "none"
                     /\ queue[i].op = RequestOf(cont.kind)

ReplyOwned ==
  /\ pc \in {"wait", "write"} /\ cont.kind # "loadState" /\ reply.st = "data" =>
       reply.cart = romPath \/ (cont.kind = "saveState" /\ reply.cart = Bios)
  /\ pc = "write" => reply.st = "data"

(* The operation under way has what it works on.                           *)
TaskSound ==
  /\ cont.kind = "load" => cont.rom \in Roms
  /\ pc = "ask" => romPath \in Roms /\ cont.kind \in {"saveState", "loadState"}
  /\ pc \in {"freeze", "save"} => cont.kind \notin {"saveState", "loadState"}
  /\ pc = "write" => cont.kind # "loadState"
  /\ pc = "hold" => cont.kind = "bios"

ReplacePresent ==
  \A i \in DOMAIN queue : queue[i].op = "ReplaceSystem" => queue[i].img.st = "data"

GoneIsEmpty == wpc = "exited" => queue = <<>> /\ system.st = "none"

(* The inductive invariant.                                                *)
Owned == MachinesCovered /\ LiveIsLast /\ ReplyOwned /\ GoneIsEmpty
FilesOwned == SaveFileOwner /\ StateFileNotForeign
TypeInv == TypeOK /\ TaskSound /\ ReplacePresent
IInv == TypeInv /\ Owned /\ FilesOwned
-----------------------------------------------------------------------------
(* Facts about the command channel.                                        *)

(* Every command the code builds is a command.                             *)
LEMMA CommandTypes ==
  /\ \A op \in Ops : Cmd(op) \in Command
  /\ \A p \in BOOLEAN : CmdPaused(p) \in Command
  /\ \A m \in Image : CmdReplace(m) \in Command
  /\ \A op \in Ops : \A m \in Image : CmdRequest(op, m) \in Command
  /\ \A st \in {"none", "err", "torn", "data"} : Blank(st) \in Image
  /\ \A c \in Carts, s \in Nat : Data(c, s) \in Image
BY DEF Command, Cmd, CmdPaused, CmdReplace, CmdRequest, Message, Blank, Data, Image, Ops

(* What the commands carry.                                                *)
LEMMA CommandFields ==
  ASSUME NEW op \in Ops, NEW p \in BOOLEAN, NEW m \in Image
  PROVE  /\ Cmd(op).op = op /\ ~Cmd(op).live
         /\ CmdPaused(p).op = "SetPaused" /\ ~CmdPaused(p).live
         /\ CmdReplace(m).op = "ReplaceSystem" /\ ~CmdReplace(m).live /\ CmdReplace(m).img = m
         /\ CmdRequest(op, m).op = op /\ CmdRequest(op, m).live /\ CmdRequest(op, m).img = m
BY DEF Cmd, CmdPaused, CmdReplace, CmdRequest, Message, Ops

(* Appending keeps the places of what was queued.                          *)
LEMMA AppendPlaces ==
  ASSUME NEW q \in Seq(Command), NEW c \in Command
  PROVE  /\ Append(q, c) \in Seq(Command)
         /\ Len(Append(q, c)) = Len(q) + 1
         /\ DOMAIN Append(q, c) = 1 .. (Len(q) + 1)
         /\ \A i \in DOMAIN q : Append(q, c)[i] = q[i]
         /\ Append(q, c)[Len(q) + 1] = c
OBVIOUS

(* Receiving shifts them by one.                                           *)
LEMMA TailPlaces ==
  ASSUME NEW q \in Seq(Command), q # <<>>
  PROVE  /\ Tail(q) \in Seq(Command) /\ Head(q) \in Command /\ Head(q) = q[1]
         /\ 1 \in DOMAIN q
         /\ Len(Tail(q)) = Len(q) - 1 /\ Len(q) \in Nat \ {0}
         /\ DOMAIN q = 1 .. Len(q)
         /\ DOMAIN Tail(q) = 1 .. (Len(q) - 1)
         /\ \A i \in DOMAIN Tail(q) : Tail(q)[i] = q[i + 1] /\ i + 1 \in DOMAIN q
OBVIOUS

(* Dropping the reply receiver changes nothing but `live`.                 *)
LEMMA DropPlaces ==
  ASSUME NEW q \in Seq(Command)
  PROVE  LET d == [i \in DOMAIN q |-> [q[i] EXCEPT !.live = FALSE]]
         IN  /\ d \in Seq(Command) /\ DOMAIN d = DOMAIN q
             /\ \A i \in DOMAIN d : /\ d[i].op = q[i].op /\ d[i].img = q[i].img
                                    /\ ~d[i].live
<1> DEFINE d == [i \in DOMAIN q |-> [q[i] EXCEPT !.live = FALSE]]
<1>1. Len(q) \in Nat /\ DOMAIN q = 1 .. Len(q) /\ \A i \in DOMAIN q : q[i] \in Command
  OBVIOUS
<1>2. \A i \in DOMAIN q : [q[i] EXCEPT !.live = FALSE] \in Command
  BY <1>1 DEF Command
<1>3. d \in Seq(Command)
  BY <1>1, <1>2
<1>4. \A i \in DOMAIN d : d[i].op = q[i].op /\ d[i].img = q[i].img /\ ~d[i].live
  BY <1>1 DEF Command
<1> QED BY <1>3, <1>4
-----------------------------------------------------------------------------
(* Type correctness.  The worker can only be given a machine that exists,  *)
(* and load_into needs a ROM, so TypeInv carries the two facts TypeOK lacks. *)

(* A sent command leaves a well typed channel.                             *)
LEMMA SendType ==
  ASSUME TypeOK, ReplacePresent, NEW c \in Command, Send(c),
         c.op = "ReplaceSystem" => c.img.st = "data"
  PROVE  queue' \in Seq(Command) /\ ReplacePresent'
<1>1. queue \in Seq(Command)
  BY DEF TypeOK, WorkerTypeOK
<1>2. CASE queue' = queue
  BY <1>1, <1>2 DEF ReplacePresent
<1>3. CASE queue' = Append(queue, c)
  <2>1. \A i \in DOMAIN queue' : i \in DOMAIN queue \/ i = Len(queue) + 1
    BY <1>1, <1>3, AppendPlaces
  <2> QED BY <1>1, <1>3, <2>1, AppendPlaces DEF ReplacePresent
<1> QED BY <1>2, <1>3 DEF Send

(* A received command leaves a well typed channel.                         *)
LEMMA ReceiveType ==
  ASSUME TypeOK, ReplacePresent, queue # <<>>, queue' = Tail(queue)
  PROVE  /\ queue' \in Seq(Command) /\ ReplacePresent'
         /\ Head(queue) \in Command
         /\ Head(queue).op = "ReplaceSystem" => Head(queue).img.st = "data"
BY TailPlaces DEF TypeOK, WorkerTypeOK, ReplacePresent

(* Emptying the ring keeps the sound well typed.                           *)
LEMMA ClearAudioType ==
  ASSUME AudioType, ClearAudio
  PROVE  AudioType'
BY DEF AudioType, ClearAudio

(* The sample carried is one of a machine, or of none.                     *)
LEMMA PushAudioType ==
  ASSUME WorkerTypeOK, PushAudio
  PROVE  AudioType'
BY DEF WorkerTypeOK, AudioType, PushAudio, Previous

(* Handling a command keeps the worker's state well typed.                 *)
LEMMA HandleType ==
  ASSUME TypeInv, HandleCommand, UNCHANGED <<guiVars, fileVars>>
  PROVE  TypeInv'
<1> USE BoundAssumption, CommandTypes
<1>0. TypeOK /\ ReplacePresent /\ TaskSound /\ TaskSound'
  BY DEF TypeInv, TaskSound, guiVars
<1>1. SUFFICES WorkerTypeOK' /\ ReplacePresent'
  BY <1>0 DEF TypeInv, TypeOK, GuiTypeOK, guiVars, fileVars
<1>2. CASE Shutdown
  BY <1>0, <1>2 DEF Shutdown, Blank, TypeOK, WorkerTypeOK, AudioType, ReplacePresent
<1>3. CASE queue # <<>> /\ queue' = Tail(queue)
  <2>0. /\ queue' \in Seq(Command) /\ ReplacePresent' /\ Head(queue) \in Command
        /\ Head(queue).op = "ReplaceSystem" => Head(queue).img.st = "data"
    BY <1>0, <1>3, ReceiveType
  <2> USE <1>0, <2>0 DEF TypeOK, WorkerTypeOK
  <2>1. CASE ReplaceSystem
    BY <2>1, ClearAudioType DEF ReplaceSystem, Receive, Command, Image
  <2>2. CASE ClearSystem
    BY <2>2, ClearAudioType DEF ClearSystem, Blank
  <2>3. CASE SetPaused
    BY <2>3, ClearAudioType DEF SetPaused, Command
  <2>4. CASE HoldStart
    BY <2>4 DEF HoldStart, AudioType
  <2>5. CASE DumpFrame
    BY <2>5 DEF DumpFrame, AudioType
  <2>6. CASE SaveData
    BY <2>6 DEF SaveData, Answer, Image, AudioType
  <2>7. CASE SaveState
    BY <2>7 DEF SaveState, Answer, Image, AudioType
  <2>8. CASE LoadState
    <3>1. Head(queue).img \in Image /\ Blank("err") \in Image
      BY <2>0, CommandTypes DEF Command
    <3>2. reply' \in Image
      BY <2>8, <3>1 DEF LoadState, Answer
    <3>3. /\ system' \in [st : {"none", "data"}, cart : Carts \cup {NoCart}, sram : Nat]
          /\ frameOf' \in Carts \cup {NoCart}
      BY <2>8, <3>1 DEF LoadState, Image
    <3> QED BY <2>8, <3>2, <3>3, ClearAudioType DEF LoadState
  <2>9. CASE Shutdown
    BY <1>2, <2>9
  <2> QED
    BY <2>1, <2>2, <2>3, <2>4, <2>5, <2>6, <2>7, <2>8, <2>9 DEF HandleCommand
<1> QED
  BY <1>2, <1>3 DEF HandleCommand, Receive, ReplaceSystem, ClearSystem, SetPaused,
     HoldStart, DumpFrame, SaveData, SaveState, LoadState

(* So does starting or running a frame, and dying in it.                   *)
LEMMA FrameType ==
  ASSUME TypeInv, StartFrame \/ RunFrame \/ StopWorker \/ WorkerDies,
         UNCHANGED <<guiVars, fileVars>>
  PROVE  TypeInv'
<1> USE BoundAssumption
<1>0. TypeOK /\ ReplacePresent /\ TaskSound /\ TaskSound'
  BY DEF TypeInv, TaskSound, guiVars
<1>1. SUFFICES WorkerTypeOK' /\ ReplacePresent'
  BY <1>0 DEF TypeInv, TypeOK, GuiTypeOK, guiVars, fileVars
<1> USE <1>0 DEF TypeOK, WorkerTypeOK, ReplacePresent
<1>2. CASE StartFrame
  BY <1>2 DEF StartFrame, AudioType
<1>3. CASE TakeFrameRequest
  <2>1. startFrames' \in 0 .. HoldFrames /\ dumpRequested' \in BOOLEAN
    <3>1. HoldFrames \in Nat /\ startFrames \in 0 .. HoldFrames
      BY DEF BoundAssumption
    <3>2. startFrames' = IF startFrames > 0 THEN startFrames - 1 ELSE 0
      BY <1>3 DEF TakeFrameRequest
    <3>3. startFrames' \in 0 .. HoldFrames
      BY ONLY <3>1, <3>2
    <3> QED BY <1>3, <3>3 DEF TakeFrameRequest
  <2>2. Advance => system' \in [st : {"none", "data"}, cart : Carts \cup {NoCart}, sram : Nat]
    BY DEF Advance
  <2>3. CASE RunFrame
    <3>1. AudioType'
      BY <2>3, PushAudioType DEF RunFrame
    <3> QED BY <2>1, <2>2, <2>3, <3>1 DEF RunFrame
  <2>4. CASE StopWorker
    <3>1. stops' \in Nat /\ paused' \in BOOLEAN 
      BY <2>4 DEF StopWorker, Report
    <3>2. AudioType'
      BY <2>4, ClearAudioType DEF StopWorker
    <3> QED BY <2>1, <2>2, <2>4, <3>1, <3>2 DEF StopWorker
  <2>5. CASE WorkerDies
    <3>1. Blank("none") \in [st : {"none", "data"}, cart : Carts \cup {NoCart}, sram : Nat]
      BY DEF Blank
    <3> QED BY <2>1, <2>5, <3>1 DEF WorkerDies, AudioType
  <2>6. CASE StartFrame
    BY <1>2, <2>6
  <2> QED BY <2>3, <2>4, <2>5, <2>6
<1> QED BY <1>2, <1>3 DEF RunFrame, StopWorker, WorkerDies

(* What every operation does once its cartridge save is over.              *)
LEMMA AfterSaveType ==
  ASSUME TypeInv, AfterSave, pc \in {"save", "wait", "write"}
  PROVE  /\ pc' \in {"idle", "save", "swap", "shutdown"}
         /\ cont' \in Tasks
         /\ cont'.kind = "load" => cont'.rom \in Roms
         /\ pc' = "save" => cont'.kind = "exit"
<1>1. cont \in Tasks /\ (cont.kind = "load" => cont.rom \in Roms)
  BY DEF TypeInv, TypeOK, GuiTypeOK, TaskSound
<1>2. /\ Task("exit", NoCart) \in Tasks /\ Task("exit", NoCart).kind = "exit"
      /\ NoTask \in Tasks /\ NoTask.kind = "none"
  BY DEF Task, NoTask, Tasks, Kinds
<1> QED BY <1>1, <1>2 DEF AfterSave

(* What a GUI step does to the worker's side: nothing, a send, a request.  *)
LEMMA GuiSendType ==
  ASSUME TypeInv,
         \/ UNCHANGED workerVars
         \/ \E c \in Command : Tell(c) /\ (c.op = "ReplaceSystem" => c.img.st = "data")
         \/ \E op \in Requests, img \in Image : Ask(op, img)
  PROVE  WorkerTypeOK' /\ ReplacePresent'
<1>0. TypeOK /\ ReplacePresent
  BY DEF TypeInv
<1>1. CASE UNCHANGED workerVars
  BY <1>0, <1>1 DEF workerVars, TypeOK, WorkerTypeOK, AudioType, ReplacePresent
<1>2. ASSUME NEW c \in Command, Tell(c), c.op = "ReplaceSystem" => c.img.st = "data"
      PROVE  WorkerTypeOK' /\ ReplacePresent'
  <2>1. queue' \in Seq(Command) /\ ReplacePresent'
    BY <1>0, <1>2, SendType DEF Tell
  <2> QED BY <1>0, <1>2, <2>1 DEF Tell, OnlyQueue, TypeOK, WorkerTypeOK, AudioType
<1>3. ASSUME NEW op \in Requests, NEW img \in Image, Ask(op, img)
      PROVE  WorkerTypeOK' /\ ReplacePresent'
  <2>1. /\ CmdRequest(op, img) \in Command
        /\ CmdRequest(op, img).op # "ReplaceSystem"
        /\ Blank("none") \in Image
    BY CommandTypes DEF Requests, Ops, CmdRequest, Message
  <2>2. queue' \in Seq(Command) /\ ReplacePresent'
    BY <1>0, <1>3, <2>1, SendType DEF Ask
  <2> QED BY <1>0, <1>3, <2>1, <2>2 DEF Ask, OnlyQueue, TypeOK, WorkerTypeOK, AudioType
<1> QED BY <1>1, <1>2, <1>3

(* Giving up on a reply only marks the queued request.                     *)
LEMMA NoReplyWorker ==
  ASSUME TypeInv, NoReply
  PROVE  WorkerTypeOK' /\ ReplacePresent'
<1>1. queue \in Seq(Command)
  BY DEF TypeInv, TypeOK, WorkerTypeOK
<1>2. /\ queue' \in Seq(Command) /\ DOMAIN queue' = DOMAIN queue
      /\ \A i \in DOMAIN queue' : queue'[i].op = queue[i].op /\ queue'[i].img = queue[i].img
  BY <1>1, DropPlaces DEF NoReply
<1> QED
  BY <1>2 DEF NoReply, OnlyQueue, TypeInv, TypeOK, WorkerTypeOK, AudioType, ReplacePresent

(* The machines a GUI step can send.                                       *)
LEMMA FreshTypes ==
  ASSUME TypeInv
  PROVE  /\ \A r \in Roms : \A m \in FreshMachines(r) :
              m \in Image /\ m.st = "data" /\ m.cart = r
         /\ Data(Bios, 0) \in Image /\ Data(Bios, 0).st = "data" /\ Data(Bios, 0).cart = Bios
BY DEF TypeInv, TypeOK, FreshMachines, Data, Image, Carts

(* A write of an image leaves files of images.                             *)
LEMMA WriteFileType ==
  ASSUME TypeInv, NEW img \in Image, WriteFile(img)
  PROVE  saves' \in [Roms -> Image] /\ states' \in [Roms -> Image]
BY DEF TypeInv, TypeOK, WriteFile

(* A step of the GUI thread's operations keeps everything well typed.      *)
LEMMA GuiStepType ==
  ASSUME TypeInv, GuiStep
  PROVE  TypeInv'
<1> USE DEF GuiTypeOK
<1>0. TypeOK /\ GuiTypeOK /\ TaskSound /\ ReplacePresent
  BY DEF TypeInv, TypeOK
<1>1. CASE Freeze
  <2>1. WorkerTypeOK' /\ ReplacePresent'
    BY <1>1, GuiSendType, CommandTypes DEF Freeze, CmdPaused, Message, workerVars, OnlyQueue
  <2>2. cont' \in Tasks /\ cont'.kind = cont.kind /\ cont'.rom = cont.rom
    BY <1>0, <1>1 DEF Freeze, Tasks
  <2> QED
    BY <1>0, <1>1, <2>1, <2>2 DEF Freeze, flags, fileVars, TypeInv, TypeOK, TaskSound
<1>2. CASE SaveRequest
  <2>1. WorkerTypeOK' /\ ReplacePresent'
    BY <1>2, GuiSendType, CommandTypes DEF SaveRequest, Requests
  <2>2. CASE AfterSave
    BY <1>0, <1>2, <2>1, <2>2, AfterSaveType
       DEF SaveRequest, flags, fileVars, TypeInv, TypeOK, TaskSound
  <2>3. CASE pc' = "wait" /\ UNCHANGED cont
    BY <1>0, <1>2, <2>1, <2>3 DEF SaveRequest, flags, fileVars, TypeInv, TypeOK, TaskSound
  <2> QED BY <1>2, <2>2, <2>3 DEF SaveRequest
<1>3. CASE StateRequest
  <2>1. states[romPath] \in Image
    BY <1>0, <1>3 DEF StateRequest, TaskSound, TypeOK
  <2>2. WorkerTypeOK' /\ ReplacePresent'
    BY <1>3, <2>1, GuiSendType, CommandTypes DEF StateRequest, Requests
  <2>3. NoTask \in Tasks /\ NoTask.kind = "none"
    BY DEF NoTask, Task, Tasks, Kinds
  <2> QED
    BY <1>0, <1>3, <2>2, <2>3 DEF StateRequest, flags, fileVars, TypeInv, TypeOK, TaskSound
<1>4. CASE ReplyWritten
  <2>1. saves' \in [Roms -> Image] /\ states' \in [Roms -> Image]
    <3>1. Torn \in Image
      BY <1>0, CommandTypes DEF Torn, TypeOK, WorkerTypeOK, Image
    <3> QED BY <1>4, <3>1, WriteFileType DEF ReplyWritten
  <2>2. WorkerTypeOK' /\ ReplacePresent'
    BY <1>4, GuiSendType DEF ReplyWritten
  <2> QED
    BY <1>0, <1>4, <2>1, <2>2 DEF ReplyWritten, WantsFile, flags, TypeInv, TypeOK, TaskSound
<1>5. CASE ReplyDone
  <2>1. WorkerTypeOK' /\ ReplacePresent'
    BY <1>5, GuiSendType DEF ReplyDone
  <2> QED
    BY <1>0, <1>5, <2>1, AfterSaveType
       DEF ReplyDone, flags, fileVars, TypeInv, TypeOK, TaskSound
<1>6. CASE NoReply
  BY <1>0, <1>6, NoReplyWorker, AfterSaveType
     DEF NoReply, flags, fileVars, TypeInv, TypeOK, TaskSound
<1>7. CASE WriteDone
  <2>1. WorkerTypeOK' /\ ReplacePresent'
    BY <1>7, GuiSendType DEF WriteDone
  <2>2. saves' \in [Roms -> Image] /\ states' \in [Roms -> Image]
    BY <1>0, <1>7, WriteFileType DEF WriteDone, TypeOK, WorkerTypeOK, fileVars
  <2> QED
    BY <1>0, <1>7, <2>1, <2>2, AfterSaveType
       DEF WriteDone, flags, TypeInv, TypeOK, TaskSound
<1>8. CASE SwapRom
  <2>1. cont.rom \in Roms
    BY <1>0, <1>8 DEF SwapRom, TaskSound
  <2>2. WorkerTypeOK' /\ ReplacePresent'
    <3>1. PICK m \in FreshMachines(cont.rom) : Tell(CmdReplace(m))
      BY <1>8 DEF SwapRom
    <3>2. m \in Image /\ m.st = "data"
      BY <2>1, <3>1, FreshTypes
    <3> QED BY <3>1, <3>2, GuiSendType, CommandTypes DEF CmdReplace, Message
  <2>3. cont' \in Tasks /\ cont'.rom \in Roms
    BY <1>0, <1>8, <2>1 DEF SwapRom, Tasks, Kinds
  <2> QED
    BY <1>0, <1>8, <2>2, <2>3 DEF SwapRom, flags, fileVars, TypeInv, TypeOK, TaskSound
<1>9. CASE SwapBios
  <2>1. WorkerTypeOK' /\ ReplacePresent'
    BY <1>9, GuiSendType, FreshTypes, CommandTypes DEF SwapBios, CmdReplace, Message
  <2>2. biosStart' \in BOOLEAN /\ hasRom' \in BOOLEAN /\ pc' \in {"hold", "resume"}
    BY <1>0, <1>9 DEF SwapBios
  <2> QED
    BY <1>0, <1>9, <2>1, <2>2 DEF SwapBios, fileVars, TypeInv, TypeOK, TaskSound
<1>10. CASE SwapNothing
  <2>1. WorkerTypeOK' /\ ReplacePresent'
    BY <1>10, GuiSendType, CommandTypes DEF SwapNothing, Cmd, Message, Ops
  <2> QED
    BY <1>0, <1>10, <2>1 DEF SwapNothing, fileVars, TypeInv, TypeOK, TaskSound
<1>11. CASE Hold
  <2>1. WorkerTypeOK' /\ ReplacePresent'
    BY <1>11, GuiSendType, CommandTypes DEF Hold, Cmd, Message, Ops
  <2> QED
    BY <1>0, <1>11, <2>1 DEF Hold, flags, fileVars, TypeInv, TypeOK, TaskSound
<1>12. CASE Resume
  <2>1. WorkerTypeOK' /\ ReplacePresent'
    BY <1>12, GuiSendType, CommandTypes DEF Resume, CmdPaused, Message
  <2>2. NoTask \in Tasks /\ NoTask.kind = "none"
    BY DEF NoTask, Task, Tasks, Kinds
  <2>3. romPath' \in Roms \cup {NoCart} /\ hasRom' \in BOOLEAN
    BY <1>0, <1>12 DEF Resume, NewPath, TaskSound
  <2> QED
    BY <1>0, <1>12, <2>1, <2>2, <2>3 DEF Resume, fileVars, TypeInv, TypeOK, TaskSound
<1>13. CASE SendShutdown
  <2>1. WorkerTypeOK' /\ ReplacePresent'
    BY <1>13, GuiSendType, CommandTypes DEF SendShutdown, Cmd, Message, Ops
  <2> QED
    BY <1>0, <1>13, <2>1 DEF SendShutdown, flags, fileVars, TypeInv, TypeOK, TaskSound
<1>14. CASE Join
  <2>1. WorkerTypeOK' /\ ReplacePresent'
    BY <1>14, GuiSendType DEF Join
  <2>2. NoTask \in Tasks /\ NoTask.kind = "none"
    BY DEF NoTask, Task, Tasks, Kinds
  <2> QED
    BY <1>0, <1>14, <2>1, <2>2 DEF Join, flags, fileVars, TypeInv, TypeOK, TaskSound
<1> QED
  BY <1>1, <1>2, <1>3, <1>4, <1>5, <1>6, <1>7, <1>8, <1>9, <1>10, <1>11, <1>12, <1>13,
     <1>14 DEF GuiStep

(* So does the start of an operation by the user.                          *)
LEMMA UserStepType ==
  ASSUME TypeInv, UserStep
  PROVE  TypeInv'
<1> USE DEF GuiTypeOK
<1>0. TypeOK /\ GuiTypeOK /\ TaskSound /\ ReplacePresent
  BY DEF TypeInv, TypeOK
<1>1. pc = "idle"
  BY DEF UserStep, OpenRecent, OpenDialog, CloseDialog, RequestReset, TogglePause,
     PressDumpKey, StateMenu, ToggleCapture, Quit, UserMay
<1>2. WorkerTypeOK' /\ ReplacePresent'
  <2>1. CASE UNCHANGED workerVars
    BY <2>1, GuiSendType
  <2>2. CASE TogglePause
    BY <2>2, <1>0, GuiSendType, CommandTypes DEF TogglePause, CmdPaused, Message
  <2>3. CASE PressDumpKey
    BY <2>3, GuiSendType, CommandTypes DEF PressDumpKey, Cmd, Message, Ops
  <2> QED
    BY <2>1, <2>2, <2>3 DEF UserStep, OpenRecent, OpenDialog, CloseDialog, RequestReset,
       StateMenu, ToggleCapture, Quit, Begin
<1>3. UNCHANGED fileVars
  BY DEF UserStep, OpenRecent, OpenDialog, CloseDialog, RequestReset, TogglePause,
     PressDumpKey, StateMenu, ToggleCapture, Quit, Begin
<1>4. GuiTypeOK' /\ TaskSound'
  <2>1. /\ \A r \in Roms : Task("load", r) \in Tasks /\ Task("load", r).rom = r
        /\ \A k \in {"saveState", "loadState", "quit", "exit"} :
             Task(k, NoCart) \in Tasks /\ Task(k, NoCart).kind = k
    BY DEF Task, Tasks, Kinds
  <2>2. CASE \E r \in Roms : OpenRecent(r)
    BY <1>0, <2>1, <2>2 DEF OpenRecent, Begin, flags, TaskSound, Task
  <2>3. CASE OpenDialog
    BY <1>0, <1>1, <2>3 DEF OpenDialog, TaskSound
  <2>4. CASE CloseDialog
    BY <1>0, <1>1, <2>4 DEF CloseDialog, TaskSound
  <2>5. CASE RequestReset
    BY <1>0, <1>1, <2>5 DEF RequestReset, TaskSound
  <2>6. CASE TogglePause
    BY <1>0, <1>1, <2>6 DEF TogglePause, flags, TaskSound
  <2>7. CASE PressDumpKey
    BY <1>0, <1>1, <2>7 DEF PressDumpKey, guiVars, TaskSound
  <2>8. CASE StateMenu
    BY <1>0, <2>1, <2>8 DEF StateMenu, Begin, flags, TaskSound, Task
  <2>9. CASE ToggleCapture
    BY <1>0, <1>1, <2>9 DEF ToggleCapture, TaskSound
  <2>10. CASE Quit
    BY <1>0, <2>1, <2>10 DEF Quit, Begin, flags, TaskSound, Task
  <2> QED
    BY <2>2, <2>3, <2>4, <2>5, <2>6, <2>7, <2>8, <2>9, <2>10 DEF UserStep
<1> QED BY <1>0, <1>2, <1>3, <1>4 DEF TypeInv, TypeOK, fileVars

(* So does the timer callback.                                             *)
LEMMA TimerStepType ==
  ASSUME TypeInv, TimerStep
  PROVE  TypeInv'
<1> USE DEF GuiTypeOK
<1>0. TypeOK /\ GuiTypeOK /\ TaskSound /\ ReplacePresent
  BY DEF TypeInv, TypeOK
<1>1. /\ \A r \in Roms : Task("load", r) \in Tasks /\ Task("load", r).rom = r
                       /\ Task("load", r).kind = "load"
      /\ \A k \in {"none", "bios", "flush"} :
           Task(k, NoCart) \in Tasks /\ Task(k, NoCart).kind = k
  BY DEF Task, Tasks, Kinds
<1>2. CASE TimerOpen
  <2>1. WorkerTypeOK' /\ ReplacePresent'
    BY <1>2, GuiSendType DEF TimerOpen, Begin
  <2>2. /\ pc' \in {"idle", "freeze"} /\ cont' \in Tasks
        /\ cont'.kind \in {"none", "bios", "load"}
        /\ cont'.kind = "load" => cont'.rom \in Roms
    BY <1>0, <1>1, <1>2 DEF TimerOpen, Begin, NoTask
  <2>3. GuiTypeOK' /\ TaskSound'
    BY <1>0, <1>2, <2>2 DEF TimerOpen, Begin, TaskSound
  <2> QED BY <1>0, <1>2, <2>1, <2>3 DEF TimerOpen, Begin, TypeInv, TypeOK, fileVars
<1>3. CASE TimerReset
  <2>1. WorkerTypeOK' /\ ReplacePresent'
    BY <1>3, GuiSendType DEF TimerReset, Begin
  <2>2. /\ pc' \in {"idle", "freeze"} /\ cont' \in Tasks
        /\ cont'.kind \in {"none", "bios", "load"}
        /\ cont'.kind = "load" => cont'.rom \in Roms
    BY <1>0, <1>1, <1>3 DEF TimerReset, Begin, NoTask
  <2>3. GuiTypeOK' /\ TaskSound'
    BY <1>0, <1>3, <2>2 DEF TimerReset, Begin, TaskSound
  <2> QED BY <1>0, <1>3, <2>1, <2>3 DEF TimerReset, Begin, TypeInv, TypeOK, fileVars
<1>4. CASE DrainEvents /\ pc = "idle" /\ (UNCHANGED <<pc, cont>> \/ TimerFlush)
  <2>1. WorkerTypeOK' /\ ReplacePresent'
    BY <1>0, <1>4 DEF DrainEvents, TypeOK, WorkerTypeOK, AudioType, ReplacePresent
  <2>2. guiPaused' \in BOOLEAN
    BY <1>0, <1>4 DEF DrainEvents
  <2>3. GuiTypeOK' /\ TaskSound'
    BY <1>0, <1>1, <1>4, <2>2 DEF DrainEvents, TimerFlush, TaskSound, flags
  <2> QED BY <1>0, <1>4, <2>1, <2>3 DEF DrainEvents, TypeInv, TypeOK, fileVars
<1> QED
  BY <1>2, <1>3, <1>4 DEF TimerStep, TimerEvents, TimerFlush, TimerFree

(* The empty worker.                                                       *)
LEMMA EmptyWorker ==
  /\ <<>> \in Seq(Command) /\ DOMAIN <<>> = {}
  /\ Blank("none") \in [st : {"none", "data"}, cart : Carts \cup {NoCart}, sram : Nat]
  /\ 0 \in Nat /\ 0 \in 0 .. HoldFrames
BY BoundAssumption DEF Blank

(* A launched program is well typed whatever the files hold.               *)
LEMMA BootType ==
  ASSUME TypeInv, Boot
  PROVE  TypeInv'
<1>1. Blank("none") \in Image /\ NoTask \in Tasks /\ NoTask.kind = "none"
  BY CommandTypes DEF NoTask, Task, Tasks, Kinds
<1>3. WorkerTypeOK' /\ ReplacePresent'
  BY <1>1, EmptyWorker DEF Boot, WorkerTypeOK, AudioType, ReplacePresent
<1>4. GuiTypeOK' /\ TaskSound'
  BY <1>1 DEF Boot, GuiTypeOK, TaskSound
<1> QED BY <1>3, <1>4 DEF Boot, TypeInv, TypeOK, fileVars

(* The first launch is well typed.                                         *)
LEMMA InitType == Init => TypeInv
<1> SUFFICES ASSUME Init PROVE TypeInv
  OBVIOUS
<1>1. Blank("none") \in Image /\ NoTask \in Tasks /\ NoTask.kind = "none"
  BY CommandTypes DEF NoTask, Task, Tasks, Kinds
<1>2. WorkerTypeOK /\ ReplacePresent
  BY <1>1, EmptyWorker DEF Init, WorkerInit, WorkerTypeOK, AudioType, ReplacePresent
<1>3. GuiTypeOK /\ TaskSound
  BY <1>1 DEF Init, GuiInit, GuiTypeOK, TaskSound
<1> QED BY <1>1, <1>2, <1>3 DEF Init, TypeInv, TypeOK

(* Every step keeps the type invariant.                                    *)
LEMMA NextType == TypeInv /\ [Next]_vars => TypeInv'
<1>1. ASSUME TypeInv, UNCHANGED vars PROVE TypeInv'
  BY <1>1 DEF TypeInv, TypeOK, GuiTypeOK, WorkerTypeOK, AudioType, TaskSound, ReplacePresent,
     vars, workerVars, guiVars, fileVars
<1>2. ASSUME TypeInv, Next PROVE TypeInv'
  BY <1>2, HandleType, FrameType, GuiStepType, UserStepType, TimerStepType, BootType
     DEF Next, WorkerNext, Crash, Relaunch
<1> QED BY <1>1, <1>2

(* Every reachable state is well typed: the channel only carries commands, *)
(* the replies and the files are images.                                   *)
THEOREM TypeCorrect == Spec => []TypeOK
<1>1. TypeInv => TypeOK
  BY DEF TypeInv
<1> QED BY <1>1, InitType, NextType, PTL DEF Spec
-----------------------------------------------------------------------------
(* Machines stay covered.  A swap stays behind when the channel grows at   *)
(* its end, and shrinks with its place when the head is received.          *)

(* What follows a queued command is unchanged by a send, but for the new   *)
(* command.                                                                *)
LEMMA AppendBehind ==
  ASSUME NEW q \in Seq(Command), NEW c \in Command, NEW i \in Nat, i <= Len(q)
  PROVE  /\ SwapBehind(q, i) => SwapBehind(Append(q, c), i)
         /\ IsSwap(c) => SwapBehind(Append(q, c), i)
<1>1. /\ Len(q) + 1 \in DOMAIN Append(q, c) /\ Len(q) + 1 > i
      /\ Append(q, c)[Len(q) + 1] = c
  BY AppendPlaces
<1>2. \A j \in DOMAIN q : j \in DOMAIN Append(q, c) /\ Append(q, c)[j] = q[j]
  BY AppendPlaces
<1> QED BY <1>1, <1>2 DEF SwapBehind

(* Receiving a command changes nothing of what follows the others.         *)
LEMMA TailBehind ==
  ASSUME NEW q \in Seq(Command), q # <<>>, NEW i \in Nat
  PROVE  /\ SwapBehind(q, i + 1) => SwapBehind(Tail(q), i)
         /\ SwapBehind(q, 0) /\ ~IsSwap(Head(q)) => SwapBehind(Tail(q), 0)
<1>1. \A j \in DOMAIN q : j > 1 => /\ j - 1 \in DOMAIN Tail(q) /\ Tail(q)[j - 1] = q[j]
                                   /\ j - 1 > 0
  BY TailPlaces
<1>2. DOMAIN q \subseteq Nat /\ Head(q) = q[1]
  BY TailPlaces
<1>3. ASSUME SwapBehind(q, i + 1) PROVE SwapBehind(Tail(q), i)
  <2>1. PICK j \in DOMAIN q : j > i + 1 /\ IsSwap(q[j])
    BY <1>3 DEF SwapBehind
  <2>2. j - 1 \in DOMAIN Tail(q) /\ Tail(q)[j - 1] = q[j] /\ j - 1 > i
    BY <1>1, <1>2, <2>1
  <2> QED BY <2>1, <2>2 DEF SwapBehind
<1>4. ASSUME SwapBehind(q, 0), ~IsSwap(Head(q)) PROVE SwapBehind(Tail(q), 0)
  <2>1. PICK j \in DOMAIN q : j > 0 /\ IsSwap(q[j])
    BY <1>4 DEF SwapBehind
  <2>2. j > 1
    BY <1>2, <1>4, <2>1
  <2> QED BY <1>1, <2>1, <2>2 DEF SwapBehind
<1> QED BY <1>3, <1>4

(* A command sent without swapping must itself fit the ROM.                *)
LEMMA SendCovered ==
  ASSUME NEW q \in Seq(Command), NEW c \in Command, NEW m, NEW rom,
         Covered(q, 0, m, rom), QueueCovered(q, rom),
         c.op \in {"ReplaceSystem", "LoadState"} /\ c.img.st = "data"
           => c.img.cart \in {Bios, rom}
  PROVE  Covered(Append(q, c), 0, m, rom) /\ QueueCovered(Append(q, c), rom)
<1>1. Covered(Append(q, c), 0, m, rom)
  BY AppendBehind DEF Covered
<1>2. ASSUME NEW i \in DOMAIN Append(q, c),
             Append(q, c)[i].op \in {"ReplaceSystem", "LoadState"}
      PROVE  Covered(Append(q, c), i, Append(q, c)[i].img, rom)
  <2>1. CASE i \in DOMAIN q
    <3>1. Append(q, c)[i] = q[i] /\ Covered(q, i, q[i].img, rom)
      BY <1>2, <2>1, AppendPlaces DEF QueueCovered
    <3>2. i \in Nat /\ i <= Len(q)
      BY <2>1
    <3> QED BY <3>1, <3>2, AppendBehind DEF Covered
  <2>2. CASE Append(q, c)[i] = c
    BY <1>2, <2>2 DEF Covered
  <2> QED BY <2>1, <2>2, AppendPlaces
<1> QED BY <1>1, <1>2 DEF QueueCovered

(* A swap may move the files to another ROM: everything before it is       *)
(* discarded.                                                              *)
LEMMA SwapCovered ==
  ASSUME NEW q \in Seq(Command), NEW c \in Command, NEW m, NEW rom,
         IsSwap(c), c.op = "ReplaceSystem" => c.img.cart \in {Bios, rom}
  PROVE  Covered(Append(q, c), 0, m, rom) /\ QueueCovered(Append(q, c), rom)
<1>1. Covered(Append(q, c), 0, m, rom)
  BY AppendBehind DEF Covered
<1>2. ASSUME NEW i \in DOMAIN Append(q, c),
             Append(q, c)[i].op \in {"ReplaceSystem", "LoadState"}
      PROVE  Covered(Append(q, c), i, Append(q, c)[i].img, rom)
  <2>1. CASE i \in DOMAIN q
    <3>1. i \in Nat /\ i <= Len(q)
      BY <2>1
    <3> QED BY <3>1, AppendBehind DEF Covered
  <2>2. CASE Append(q, c)[i] = c
    BY <1>2, <2>2 DEF Covered, IsSwap
  <2> QED BY <2>1, <2>2, AppendPlaces
<1> QED BY <1>1, <1>2 DEF QueueCovered

(* Receiving keeps what is queued covered; the machine that runs stays     *)
(* covered unless the swap it waited for was received.                     *)
LEMMA ReceiveCovered ==
  ASSUME NEW q \in Seq(Command), q # <<>>, NEW m, NEW rom,
         Covered(q, 0, m, rom), QueueCovered(q, rom)
  PROVE  /\ QueueCovered(Tail(q), rom)
         /\ ~IsSwap(Head(q)) => Covered(Tail(q), 0, m, rom)
         /\ Head(q).op \in {"ReplaceSystem", "LoadState"}
              => Covered(Tail(q), 0, Head(q).img, rom)
<1>1. ~IsSwap(Head(q)) => Covered(Tail(q), 0, m, rom)
  BY TailBehind DEF Covered
<1>2. Head(q).op \in {"ReplaceSystem", "LoadState"} => Covered(Tail(q), 0, Head(q).img, rom)
  <2>1. Head(q) = q[1] /\ 1 \in DOMAIN q
    BY TailPlaces
  <2>2. SwapBehind(q, 0 + 1) => SwapBehind(Tail(q), 0)
    BY TailBehind
  <2> QED BY <2>1, <2>2 DEF QueueCovered, Covered
<1>3. ASSUME NEW i \in DOMAIN Tail(q), Tail(q)[i].op \in {"ReplaceSystem", "LoadState"}
      PROVE  Covered(Tail(q), i, Tail(q)[i].img, rom)
  <2>1. Tail(q)[i] = q[i + 1] /\ i + 1 \in DOMAIN q /\ i \in Nat
    BY TailPlaces
  <2>2. SwapBehind(q, i + 1) => SwapBehind(Tail(q), i)
    BY <2>1, TailBehind
  <2> QED BY <1>3, <2>1, <2>2 DEF QueueCovered, Covered
<1> QED BY <1>1, <1>2, <1>3 DEF QueueCovered
-----------------------------------------------------------------------------
(* The worker keeps the machines covered and answers with the right one.   *)

(* The live request that is left after a receive was queued before it.     *)
LEMMA ReceiveLive ==
  ASSUME IInv, queue # <<>>, queue' = Tail(queue), UNCHANGED <<pc, cont>>,
         reply' = reply \/ Head(queue).live
  PROVE  LiveIsLast'
<1>1. queue \in Seq(Command)
  BY DEF IInv, TypeInv, TypeOK, WorkerTypeOK
<1>2. LiveIsLast
  BY DEF IInv, Owned
<1>3. SUFFICES ASSUME NEW i \in DOMAIN queue', queue'[i].live
               PROVE  /\ i = Len(queue') /\ pc' = "wait" /\ reply'.st = "none"
                      /\ queue'[i].op = RequestOf(cont'.kind)
  BY DEF LiveIsLast
<1>4. /\ queue'[i] = queue[i + 1] /\ i + 1 \in DOMAIN queue
      /\ Len(queue') = Len(queue) - 1 /\ i \in Nat \ {0} /\ Len(queue) \in Nat
      /\ 1 \in DOMAIN queue /\ Head(queue) = queue[1]
  BY <1>1, <1>3, TailPlaces
<1>5. /\ i + 1 = Len(queue) /\ pc = "wait" /\ reply.st = "none"
      /\ queue[i + 1].op = RequestOf(cont.kind)
  BY <1>2, <1>3, <1>4 DEF LiveIsLast
<1>6. ~Head(queue).live
  BY <1>2, <1>4, <1>5 DEF LiveIsLast
<1> QED BY <1>4, <1>5, <1>6 DEF RequestOf

(* A live request is answered by the machine of rom_path, or the BIOS.     *)
LEMMA LiveMachine ==
  ASSUME IInv, queue # <<>>, Head(queue).live, Loaded
  PROVE  /\ pc = "wait" /\ Head(queue).op = RequestOf(cont.kind)
         /\ system.cart \in {Bios, romPath}
<1>1. queue \in Seq(Command)
  BY DEF IInv, TypeInv, TypeOK, WorkerTypeOK
<1>2. /\ 1 \in DOMAIN queue /\ Head(queue) = queue[1] /\ DOMAIN queue = 1 .. Len(queue)
      /\ Len(queue) \in Nat
  BY <1>1, TailPlaces
<1>3. 1 = Len(queue) /\ pc = "wait" /\ queue[1].op = RequestOf(cont.kind)
  BY <1>2 DEF IInv, Owned, LiveIsLast
<1>4. ~SwapBehind(queue, 0)
  <2>1. ~IsSwap(queue[1])
    BY <1>3 DEF IsSwap, RequestOf
  <2>2. Len(queue) = 1
    BY <1>3
  <2>3. \A j \in 1 .. Len(queue) : j = 1
    BY ONLY <2>2
  <2> QED BY <1>2, <2>1, <2>3 DEF SwapBehind
<1>5. system.cart \in {Bios, Target}
  BY <1>4 DEF IInv, Owned, MachinesCovered, Covered, Loaded
<1> QED BY <1>2, <1>3, <1>5 DEF Target

(* Handling a command keeps the ownership invariant: the machine is        *)
(* replaced only by the command the path was changed with.                 *)
LEMMA HandleOwned ==
  ASSUME IInv, HandleCommand, UNCHANGED <<guiVars, fileVars>>
  PROVE  Owned'
<1>0. /\ queue \in Seq(Command) /\ MachinesCovered /\ LiveIsLast /\ ReplyOwned /\ GoneIsEmpty
      /\ TypeInv
  BY DEF IInv, Owned, TypeInv, TypeOK, WorkerTypeOK
<1>1. Target' = Target /\ UNCHANGED <<pc, cont, romPath>>
  BY DEF Target, guiVars
<1>2. CASE Shutdown
  <2>1. queue' = <<>> /\ DOMAIN queue' = {} /\ reply' = reply /\ system'.st = "none"
    BY <1>2 DEF Shutdown, Blank
  <2> QED
    BY <1>0, <1>1, <2>1
       DEF Owned, MachinesCovered, Covered, QueueCovered, LiveIsLast, ReplyOwned, GoneIsEmpty
<1>3. CASE HandleCommand /\ ~Shutdown
  <2>1. queue # <<>> /\ queue' = Tail(queue) /\ wpc' = wpc /\ wpc = "drain"
    BY <1>3 DEF HandleCommand, Receive, ReplaceSystem, ClearSystem, SetPaused, HoldStart,
       DumpFrame, SaveData, SaveState, LoadState
  <2>2. GoneIsEmpty'
    BY <2>1 DEF GoneIsEmpty
  <2>3. reply' = reply \/ Head(queue).live
    BY <1>3 DEF HandleCommand, ReplaceSystem, ClearSystem, SetPaused, HoldStart,
       DumpFrame, SaveData, SaveState, LoadState, Answer
  <2>4. LiveIsLast'
    BY <1>1, <2>1, <2>3, ReceiveLive
  <2>5. /\ QueueCovered(Tail(queue), Target)
        /\ ~IsSwap(Head(queue)) => Covered(Tail(queue), 0, system, Target)
        /\ Head(queue).op \in {"ReplaceSystem", "LoadState"}
             => Covered(Tail(queue), 0, Head(queue).img, Target)
    BY <1>0, <2>1, ReceiveCovered DEF MachinesCovered
  <2>6. MachinesCovered'
    <3>1. Covered(Tail(queue), 0, system', Target)
      <4>1. CASE ReplaceSystem
        BY <2>5, <4>1 DEF ReplaceSystem, Receive
      <4>2. CASE ClearSystem
        BY <4>2 DEF ClearSystem, Blank, Covered
      <4>3. CASE LoadState
        BY <2>5, <4>3 DEF LoadState, Receive, IsSwap
      <4>4. CASE SetPaused \/ HoldStart \/ DumpFrame \/ SaveData \/ SaveState
        BY <2>5, <4>4 DEF SetPaused, HoldStart, DumpFrame, SaveData, SaveState, Receive, IsSwap
      <4> QED BY <1>3, <4>1, <4>2, <4>3, <4>4 DEF HandleCommand
    <3> QED BY <1>1, <2>1, <2>5, <3>1 DEF MachinesCovered
  <2>7. ReplyOwned'
    <3>1. CASE reply' = reply
      BY <1>0, <1>1, <3>1 DEF ReplyOwned
    <3>2. CASE reply' # reply
      <4>1. Head(queue).live
        BY <2>3, <3>2
      <4>0. pc' # "write"
        <5>1. 1 \in DOMAIN queue /\ Head(queue) = queue[1]
          BY <1>0, <2>1, TailPlaces
        <5>2. pc = "wait"
          BY <1>0, <4>1, <5>1 DEF LiveIsLast
        <5> QED BY <1>1, <5>2
      <4>2. CASE ~Loaded
        BY <1>3, <3>2, <4>2, <4>0 DEF HandleCommand, ReplaceSystem, ClearSystem, SetPaused,
           HoldStart, DumpFrame, SaveData, SaveState, LoadState, Answer, Blank, ReplyOwned
      <4>3. CASE Loaded
        <5>1. /\ Head(queue).op = RequestOf(cont.kind)
              /\ system.cart \in {Bios, romPath}
          BY <2>1, <4>1, <4>3, LiveMachine
        <5>2. CASE SaveData
          BY <1>1, <4>0, <4>1, <5>1, <5>2, CartAssumption
             DEF SaveData, Answer, Blank, ReplyOwned
        <5>3. CASE SaveState
          BY <1>1, <4>0, <4>1, <4>3, <5>1, <5>3 DEF SaveState, Receive, RequestOf, Answer, ReplyOwned
        <5>4. CASE LoadState
          BY <1>1, <4>0, <5>1, <5>4 DEF LoadState, Receive, RequestOf, ReplyOwned
        <5> QED
          BY <1>3, <3>2, <5>2, <5>3, <5>4 DEF HandleCommand, ReplaceSystem, ClearSystem,
             SetPaused, HoldStart, DumpFrame
      <4> QED BY <4>2, <4>3
    <3> QED BY <3>1, <3>2
  <2> QED BY <2>2, <2>4, <2>6, <2>7 DEF Owned
<1> QED BY <1>2, <1>3

(* A frame changes a machine's save RAM and never its cartridge.           *)
LEMMA FrameOwned ==
  ASSUME IInv, StartFrame \/ RunFrame \/ StopWorker \/ WorkerDies,
         UNCHANGED <<guiVars, fileVars>>
  PROVE  Owned'
<1>0. MachinesCovered /\ LiveIsLast /\ ReplyOwned /\ GoneIsEmpty /\ TypeInv
  BY DEF IInv, Owned
<1>1. Target' = Target /\ UNCHANGED <<pc, cont, romPath, reply>>
  BY DEF Target, guiVars, StartFrame, RunFrame, StopWorker, WorkerDies
<1>2. CASE WorkerDies
  <2>1. queue' = <<>> /\ DOMAIN queue' = {} /\ system'.st = "none"
    BY <1>2 DEF WorkerDies, Blank
  <2> QED
    BY <1>0, <1>1, <2>1
       DEF Owned, MachinesCovered, Covered, QueueCovered, LiveIsLast, ReplyOwned, GoneIsEmpty
<1>3. CASE StartFrame \/ RunFrame \/ StopWorker
  <2>1. queue' = queue /\ wpc' # "exited"
    BY <1>3 DEF StartFrame, RunFrame, StopWorker
  <2>2. system'.st = system.st /\ system'.cart = system.cart
    BY <1>0, <1>3 DEF StartFrame, RunFrame, StopWorker, Advance, TypeInv, TypeOK, WorkerTypeOK
  <2> QED
    BY <1>0, <1>1, <2>1, <2>2
       DEF Owned, MachinesCovered, Covered, LiveIsLast, RequestOf, ReplyOwned, GoneIsEmpty
<1> QED BY <1>2, <1>3
-----------------------------------------------------------------------------
(* The GUI sends what fits the ROM it saves to, and asks once at a time.   *)

(* With no live request queued none is left after a receive.               *)
LEMMA NoLive ==
  ASSUME IInv, pc # "wait" \/ reply.st # "none"
  PROVE  \A i \in DOMAIN queue : ~queue[i].live
BY DEF IInv, Owned, LiveIsLast

(* A step that touches neither channel, machine nor path keeps the         *)
(* invariant.                                                              *)
LEMMA QuietOwned ==
  ASSUME IInv, UNCHANGED workerVars, Target' = Target, ReplyOwned',
         (\A i \in DOMAIN queue : ~queue[i].live) \/ UNCHANGED <<pc, cont>>
  PROVE  Owned'
BY DEF IInv, Owned, workerVars, MachinesCovered, LiveIsLast, RequestOf, GoneIsEmpty

(* Sending a command without a reply keeps the invariant if the command    *)
(* fits the path.                                                          *)
LEMMA SendOwned ==
  ASSUME IInv, NEW c \in Command, Tell(c), ~c.live, pc # "wait", ReplyOwned',
         Target' = Target \/ IsSwap(c),
         c.op \in {"ReplaceSystem", "LoadState"} => c.img.cart \in {Bios, Target'}
  PROVE  Owned'
<1>0. /\ queue \in Seq(Command) /\ MachinesCovered /\ GoneIsEmpty
      /\ \A i \in DOMAIN queue : ~queue[i].live
  BY NoLive DEF IInv, Owned, TypeInv, TypeOK, WorkerTypeOK
<1>1. UNCHANGED <<wpc, system, reply>>
  BY DEF Tell, OnlyQueue
<1>2. CASE WorkerGone
  <2>1. queue' = queue /\ queue = <<>> /\ system.st = "none" /\ DOMAIN queue = {}
    BY <1>0, <1>2 DEF Tell, Send, WorkerGone, GoneIsEmpty
  <2> QED
    BY <1>1, <2>1 DEF Owned, MachinesCovered, Covered, QueueCovered, LiveIsLast, GoneIsEmpty
<1>3. CASE ~WorkerGone
  <2>1. queue' = Append(queue, c)
    BY <1>3 DEF Tell, Send
  <2>2. MachinesCovered'
    <3>1. CASE Target' = Target
      BY <1>0, <1>1, <2>1, <3>1, SendCovered DEF MachinesCovered
    <3>2. CASE IsSwap(c)
      <4>1. Covered(Append(queue, c), 0, system, Target')
            /\ QueueCovered(Append(queue, c), Target')
        BY <1>0, <3>2, SwapCovered
      <4> QED BY <1>1, <2>1, <4>1 DEF MachinesCovered
    <3> QED BY <3>1, <3>2
  <2>3. LiveIsLast'
    <3>1. \A i \in DOMAIN queue' : ~queue'[i].live
      BY <1>0, <2>1, AppendPlaces
    <3> QED BY <3>1 DEF LiveIsLast
  <2>4. GoneIsEmpty'
    BY <1>1, <1>3 DEF GoneIsEmpty, WorkerGone
  <2> QED BY <2>2, <2>3, <2>4 DEF Owned
<1> QED BY <1>2, <1>3

(* Sending a request keeps it: the request is the last command of the      *)
(* channel.                                                                *)
LEMMA AskOwned ==
  ASSUME IInv, NEW op \in Requests, NEW img \in Image, Ask(op, img), ~WorkerGone,
         pc # "wait", pc' = "wait", Target' = Target,
         UNCHANGED cont, op = RequestOf(cont.kind),
         op = "LoadState" /\ img.st = "data" => img.cart \in {Bios, Target}
  PROVE  Owned'
<1> DEFINE c == CmdRequest(op, img)
<1>0. /\ queue \in Seq(Command) /\ MachinesCovered
      /\ \A i \in DOMAIN queue : ~queue[i].live
  BY NoLive DEF IInv, Owned, TypeInv, TypeOK, WorkerTypeOK
<1>1. /\ queue' = Append(queue, c) /\ reply' = Blank("none")
      /\ UNCHANGED <<wpc, system>>
  BY DEF Ask, Send, OnlyQueue
<1>2. /\ c \in Command /\ c.op = op /\ c.img = img
      /\ Blank("none").st = "none" /\ op # "ReplaceSystem"
  BY CommandTypes DEF CmdRequest, Message, Requests, Ops, Blank
<1>3. MachinesCovered'
  BY <1>0, <1>1, <1>2, SendCovered DEF MachinesCovered
<1>4. LiveIsLast'
  <2>1. /\ \A i \in DOMAIN queue' : queue'[i].live => i = Len(queue') /\ queue'[i] = c
    BY <1>0, <1>1, <1>2, AppendPlaces
  <2> QED BY <1>1, <1>2, <2>1 DEF LiveIsLast, RequestOf
<1>5. ReplyOwned' /\ GoneIsEmpty'
  BY <1>1, <1>2 DEF ReplyOwned, GoneIsEmpty, WorkerGone
<1> QED BY <1>3, <1>4, <1>5 DEF Owned

(* Whatever follows a save, the reply is let go and the target stays.      *)
LEMMA AfterSaveOwned ==
  ASSUME IInv, AfterSave, pc \in {"save", "wait", "write"}, UNCHANGED romPath
  PROVE  ReplyOwned' /\ Target' = Target
BY DEF AfterSave, ReplyOwned, Target

(* An owned reply may be written to the file of the operation.             *)
LEMMA WriteOwned ==
  ASSUME IInv, pc \in {"wait", "write"}, WantsFile, NEW img, WriteFile(img),
         reply.st = "data", img \in {reply, Torn}
  PROVE  FilesOwned'
<1>1. /\ saves \in [Roms -> Image] /\ states \in [Roms -> Image]
      /\ SaveFileOwner /\ StateFileNotForeign /\ ReplyOwned
  BY DEF IInv, TypeInv, TypeOK, Owned, FilesOwned
<1>2. reply.cart = romPath \/ (cont.kind = "saveState" /\ reply.cart = Bios)
  BY <1>1 DEF ReplyOwned, WantsFile
<1>3. IF cont.kind = "saveState" THEN img.st = "data" => img = reply
                                 ELSE img.cart = reply.cart
  <2>1. reply \in Image
    BY DEF IInv, TypeInv, TypeOK, WorkerTypeOK
  <2> QED BY <2>1 DEF Torn, Blank, Image
<1>4. SaveFileOwner'
  BY <1>1, <1>2, <1>3 DEF SaveFileOwner, WriteFile
<1>5. StateFileNotForeign'
  BY <1>1, <1>2, <1>3 DEF StateFileNotForeign, WriteFile
<1> QED BY <1>4, <1>5 DEF FilesOwned

(* A step that leaves the files alone keeps what they belong to.           *)
LEMMA FilesKept ==
  ASSUME IInv, UNCHANGED fileVars
  PROVE  FilesOwned'
BY DEF IInv, fileVars, FilesOwned, SaveFileOwner, StateFileNotForeign

(* Every step of the GUI thread's operations keeps the ownership           *)
(* invariant.                                                              *)
LEMMA GuiStepOwned ==
  ASSUME IInv, GuiStep
  PROVE  Owned' /\ FilesOwned'
<1>0. /\ TypeInv /\ ReplyOwned /\ FilesOwned /\ TaskSound
      /\ \A op \in Ops : Cmd(op) \in Command /\ Cmd(op).op = op /\ ~Cmd(op).live
      /\ \A p \in BOOLEAN : /\ CmdPaused(p) \in Command /\ ~CmdPaused(p).live
                            /\ CmdPaused(p).op = "SetPaused"
      /\ \A m \in Image : /\ CmdReplace(m) \in Command /\ ~CmdReplace(m).live
                          /\ CmdReplace(m).op = "ReplaceSystem" /\ CmdReplace(m).img = m
      /\ Blank("none") \in Image
  BY CommandTypes DEF IInv, TypeInv, Owned, Cmd, CmdPaused, CmdReplace, Message
<1>1. CASE Freeze
  <2>1. ReplyOwned' /\ Target' = Target /\ pc # "wait"
    BY <1>1 DEF Freeze, ReplyOwned, Target
  <2>2. Owned'
    <3>1. CASE guiPaused
      BY <1>1, <2>1, <3>1, NoLive, QuietOwned DEF Freeze, MustPause
    <3>2. CASE ~guiPaused
      BY <1>0, <1>1, <2>1, <3>2, SendOwned DEF Freeze, MustPause
    <3> QED BY <3>1, <3>2
  <2> QED BY <1>1, <2>2, FilesKept DEF Freeze
<1>2. CASE SaveRequest
  <2>0. SUFFICES Owned'
    BY <1>2, FilesKept DEF SaveRequest
  <2>1. CASE AfterSave /\ UNCHANGED workerVars
    <3>1. pc = "save" /\ UNCHANGED romPath
      BY <1>2 DEF SaveRequest
    <3>2. (\A i \in DOMAIN queue : ~queue[i].live) /\ ReplyOwned' /\ Target' = Target
      BY <2>1, <3>1, NoLive, AfterSaveOwned
    <3> QED BY <2>1, <3>2, QuietOwned
  <2>2. CASE ~WorkerGone /\ Ask("SaveData", Blank("none")) /\ pc' = "wait" /\ UNCHANGED cont
    <3>1. "SaveData" \in Requests /\ "SaveData" = RequestOf(cont.kind) /\ Target' = Target
      BY <1>0, <1>2, <2>2 DEF SaveRequest, Requests, RequestOf, TaskSound, Target
    <3> QED BY <1>0, <1>2, <2>2, <3>1, AskOwned DEF SaveRequest
  <2> QED BY <1>2, <2>1, <2>2 DEF SaveRequest
<1>3. CASE StateRequest
  <2>0. SUFFICES Owned'
    BY <1>3, FilesKept DEF StateRequest
  <2>1. CASE WorkerGone
    <3>1. ReplyOwned' /\ Target' = Target /\ pc # "wait"
      BY <1>3, <2>1 DEF StateRequest, ReplyOwned, Target
    <3> QED BY <1>3, <2>1, <3>1, NoLive, QuietOwned DEF StateRequest
  <2>2. CASE ~WorkerGone
    <3>1. /\ romPath \in Roms /\ cont.kind \in {"saveState", "loadState"}
          /\ states[romPath] \in Image
          /\ states[romPath].st = "data" => states[romPath].cart \in {Bios, Target}
      BY <1>0, <1>3 DEF StateRequest, TaskSound, TypeInv, TypeOK, FilesOwned,
         StateFileNotForeign, Target
    <3>2. Target' = Target /\ pc # "wait" /\ pc' = "wait" /\ UNCHANGED cont
      BY <1>3, <2>2 DEF StateRequest, Target
    <3>3. CASE cont.kind = "saveState"
      <4>1. "SaveState" \in Requests /\ "SaveState" = RequestOf(cont.kind)
        BY <3>3 DEF Requests, RequestOf
      <4> QED BY <1>0, <1>3, <2>2, <3>2, <3>3, <4>1, AskOwned DEF StateRequest
    <3>4. CASE cont.kind = "loadState"
      <4>1. "LoadState" \in Requests /\ "LoadState" = RequestOf(cont.kind)
        BY <3>4 DEF Requests, RequestOf
      <4> QED BY <1>3, <2>2, <3>1, <3>2, <3>4, <4>1, AskOwned DEF StateRequest
    <3> QED BY <3>1, <3>3, <3>4
  <2> QED BY <2>1, <2>2
<1>4. CASE ReplyWritten
  <2>1. ReplyOwned' /\ Target' = Target
    BY <1>0, <1>4 DEF ReplyWritten, ReplyOwned, Target, workerVars
  <2>2. Owned'
    BY <1>4, <2>1, NoLive, QuietOwned DEF ReplyWritten
  <2> QED BY <1>4, <2>2, WriteOwned DEF ReplyWritten
<1>5. CASE ReplyDone
  <2>1. Owned'
    BY <1>5, NoLive, QuietOwned, AfterSaveOwned DEF ReplyDone
  <2> QED BY <1>5, <2>1, FilesKept DEF ReplyDone
<1>6. CASE NoReply
  <2>1. ReplyOwned' /\ Target' = Target
    BY <1>6, AfterSaveOwned DEF NoReply
  <2>2. queue \in Seq(Command) /\ MachinesCovered /\ GoneIsEmpty
    BY <1>0 DEF IInv, Owned, TypeInv, TypeOK, WorkerTypeOK
  <2>3. /\ queue' \in Seq(Command) /\ DOMAIN queue' = DOMAIN queue
        /\ \A i \in DOMAIN queue' : /\ queue'[i].op = queue[i].op
                                    /\ queue'[i].img = queue[i].img
                                    /\ ~queue'[i].live
    BY <1>6, <2>2, DropPlaces DEF NoReply
  <2>4. \A i : SwapBehind(queue, i) => SwapBehind(queue', i)
    BY <2>3 DEF SwapBehind, IsSwap
  <2>5. MachinesCovered'
    BY <1>6, <2>1, <2>2, <2>3, <2>4 DEF NoReply, OnlyQueue, MachinesCovered, Covered, QueueCovered
  <2>6. LiveIsLast'
    BY <2>3 DEF LiveIsLast
  <2>7. GoneIsEmpty'
    BY <1>6, <2>2 DEF NoReply, OnlyQueue, GoneIsEmpty
  <2>8. FilesOwned'
    BY <1>6, FilesKept DEF NoReply
  <2> QED BY <2>1, <2>5, <2>6, <2>7, <2>8 DEF Owned
<1>7. CASE WriteDone
  <2>1. Owned'
    BY <1>7, NoLive, QuietOwned, AfterSaveOwned DEF WriteDone
  <2>2. FilesOwned'
    <3>1. CASE UNCHANGED fileVars
      BY <3>1, FilesKept
    <3>2. CASE WriteFile(reply)
      <4>1. pc = "write" /\ WantsFile
        BY <1>0, <1>7 DEF WriteDone, TaskSound, WantsFile
      <4>2. reply.st = "data"
        BY <1>0, <4>1 DEF ReplyOwned
      <4> QED BY <3>2, <4>1, <4>2, WriteOwned
    <3> QED BY <1>7, <3>1, <3>2 DEF WriteDone
  <2> QED BY <2>1, <2>2
<1>8. CASE SwapRom
  <2>1. PICK m \in FreshMachines(cont.rom) : Tell(CmdReplace(m))
    BY <1>8 DEF SwapRom
  <2>1a. cont.rom \in Roms /\ m \in Image /\ m.cart = cont.rom
    BY <1>0, <1>8, <2>1, FreshTypes DEF SwapRom, TaskSound
  <2>2. cont'.kind = (IF WorkerGone THEN "none" ELSE "load") /\ cont'.rom = cont.rom
    BY <1>0, <1>8 DEF SwapRom, TypeInv, TypeOK, GuiTypeOK, Tasks
  <2>3. ReplyOwned'
    BY <1>8 DEF SwapRom, ReplyOwned
  <2>4. CASE WorkerGone
    <3>1. Target' = Target /\ UNCHANGED workerVars
      <4>1. UNCHANGED workerVars
        BY <2>1, <2>4 DEF Tell, Send, OnlyQueue, workerVars
      <4>2. Target' = Target
        BY <1>8, <2>2, <2>4 DEF SwapRom, Target
      <4> QED BY <4>1, <4>2
    <3>2. \A i \in DOMAIN queue : ~queue[i].live
      BY <1>8, NoLive DEF SwapRom
    <3> QED BY <1>8, <2>3, <3>1, <3>2, QuietOwned, FilesKept DEF SwapRom
  <2>5. CASE ~WorkerGone
    <3>1. Target' = cont.rom
      BY <1>8, <2>2, <2>5 DEF SwapRom, Target
    <3>2. IsSwap(CmdReplace(m))
      BY <1>0, <2>1a DEF IsSwap
    <3>3. Owned'
      BY <1>0, <1>8, <2>1, <2>3, <2>1a, <3>1, <3>2, SendOwned DEF SwapRom
    <3> QED BY <1>8, <3>3, FilesKept DEF SwapRom
  <2> QED BY <2>4, <2>5
<1>9. CASE SwapBios
  <2>1. Data(Bios, 0) \in Image /\ Data(Bios, 0).cart = Bios
    BY <1>0, FreshTypes
  <2>2. ReplyOwned' /\ Target' = Target /\ pc # "wait"
    BY <1>9 DEF SwapBios, ReplyOwned, Target
  <2>3. Owned'
    BY <1>0, <1>9, <2>1, <2>2, SendOwned DEF SwapBios
  <2> QED BY <1>9, <2>3, FilesKept DEF SwapBios
<1>10. CASE SwapNothing
  <2>1. ReplyOwned' /\ Target' = Target /\ pc # "wait"
    BY <1>10 DEF SwapNothing, ReplyOwned, Target
  <2>2. Owned'
    BY <1>0, <1>10, <2>1, SendOwned DEF SwapNothing, Ops
  <2> QED BY <1>10, <2>2, FilesKept DEF SwapNothing
<1>11. CASE Hold
  <2>1. ReplyOwned' /\ pc # "wait"
    BY <1>11 DEF Hold, ReplyOwned
  <2>2. Target' = Target
    BY <1>11, <1>0 DEF Hold, Target, TaskSound
  <2>3. Owned'
    BY <1>0, <1>11, <2>1, <2>2, SendOwned DEF Hold, Ops
  <2> QED BY <1>11, <2>3, FilesKept DEF Hold
<1>12. CASE Resume
  <2>1. ReplyOwned' /\ Target' = Target /\ pc # "wait"
    BY <1>12 DEF Resume, NewPath, ReplyOwned, Target
  <2>2. Owned'
    <3>1. CASE cont.resume
      BY <1>0, <1>12, <2>1, <3>1, SendOwned DEF Resume
    <3>2. CASE ~cont.resume
      BY <1>12, <2>1, <3>2, NoLive, QuietOwned DEF Resume
    <3> QED BY <3>1, <3>2
  <2> QED BY <1>12, <2>2, FilesKept DEF Resume
<1>13. CASE SendShutdown
  <2>1. ReplyOwned' /\ Target' = Target /\ pc # "wait"
    BY <1>13 DEF SendShutdown, ReplyOwned, Target
  <2>2. Owned'
    BY <1>0, <1>13, <2>1, SendOwned DEF SendShutdown, Ops
  <2> QED BY <1>13, <2>2, FilesKept DEF SendShutdown
<1>14. CASE Join
  <2>1. ReplyOwned' /\ Target' = Target /\ pc # "wait"
    BY <1>14 DEF Join, ReplyOwned, Target
  <2>2. Owned'
    BY <1>14, <2>1, NoLive, QuietOwned DEF Join
  <2> QED BY <1>14, <2>2, FilesKept DEF Join
<1> QED
  BY <1>1, <1>2, <1>3, <1>4, <1>5, <1>6, <1>7, <1>8, <1>9, <1>10, <1>11, <1>12, <1>13,
     <1>14 DEF GuiStep

(* Between operations nothing is awaited and nothing is written.           *)
LEMMA IdleOwned ==
  ASSUME IInv, UserStep \/ TimerStep
  PROVE  Owned' /\ FilesOwned'
<1>0. /\ \A op \in Ops : Cmd(op) \in Command /\ Cmd(op).op = op /\ ~Cmd(op).live
      /\ \A p \in BOOLEAN : /\ CmdPaused(p) \in Command /\ ~CmdPaused(p).live
                            /\ CmdPaused(p).op = "SetPaused"
      /\ guiPaused \in BOOLEAN
  BY CommandTypes DEF IInv, TypeInv, TypeOK, GuiTypeOK, Cmd, CmdPaused, Message
<1>1. /\ pc = "idle" /\ pc' \in {"idle", "freeze", "save", "ask"} /\ romPath' = romPath
      /\ UNCHANGED fileVars
  BY DEF UserStep, OpenRecent, OpenDialog, CloseDialog, RequestReset, TogglePause,
     PressDumpKey, StateMenu, ToggleCapture, Quit, UserMay, Begin, guiVars,
     TimerStep, TimerOpen, TimerReset, TimerEvents, TimerFlush, TimerFree, DrainEvents
<1>2. ReplyOwned' /\ Target' = Target /\ \A i \in DOMAIN queue : ~queue[i].live
  BY <1>1, NoLive DEF ReplyOwned, Target
<1>3. CASE UNCHANGED workerVars
  BY <1>1, <1>2, <1>3, QuietOwned, FilesKept
<1>4. CASE TogglePause
  <2>1. Owned'
    BY <1>0, <1>1, <1>2, <1>4, SendOwned DEF TogglePause
  <2> QED BY <1>1, <2>1, FilesKept
<1>5. CASE PressDumpKey
  <2>1. Owned'
    BY <1>0, <1>1, <1>2, <1>5, SendOwned DEF PressDumpKey, Ops
  <2> QED BY <1>1, <2>1, FilesKept
<1>6. CASE DrainEvents
  <2>1. Owned'
    BY <1>2, <1>6 DEF DrainEvents, IInv, Owned, MachinesCovered, LiveIsLast, GoneIsEmpty
  <2> QED BY <1>1, <2>1, FilesKept
<1> QED
  BY <1>3, <1>4, <1>5, <1>6 DEF UserStep, OpenRecent, OpenDialog, CloseDialog,
     RequestReset, StateMenu, ToggleCapture, Quit, Begin, TimerStep, TimerOpen, TimerReset,
     TimerEvents, TimerFlush

(* A launched program owns the files it finds.                             *)
LEMMA BootOwned ==
  ASSUME IInv, Boot
  PROVE  Owned' /\ FilesOwned'
<1>1. queue' = <<>> /\ DOMAIN queue' = {} /\ system'.st = "none" /\ pc' = "idle" /\ wpc' = "drain"
  BY EmptyWorker DEF Boot, Blank
<1>2. Owned'
  BY <1>1 DEF Owned, MachinesCovered, Covered, QueueCovered, LiveIsLast, ReplyOwned, GoneIsEmpty
<1> QED BY <1>2, FilesKept DEF Boot

(* The ownership invariant: the machine the worker runs once its channel   *)
(* is drained, the request awaited and the reply in hand all belong to     *)
(* rom_path, the path the GUI thread names files by.                       *)
THEOREM Ownership == Spec => []IInv
<1>1. Init => IInv
  <2> SUFFICES ASSUME Init PROVE IInv
    OBVIOUS
  <2>1. Owned
    <3>1. queue = <<>> /\ DOMAIN queue = {} /\ system.st = "none" /\ pc = "idle" /\ wpc = "drain"
      BY EmptyWorker DEF Init, WorkerInit, GuiInit, Blank
    <3> QED
      BY <3>1 DEF Owned, MachinesCovered, Covered, QueueCovered, LiveIsLast, ReplyOwned,
         GoneIsEmpty
  <2>2. FilesOwned
    BY DEF Init, FilesOwned, SaveFileOwner, StateFileNotForeign, Blank
  <2> QED BY <2>1, <2>2, InitType DEF IInv
<1>2. IInv /\ [Next]_vars => IInv'
  <2> SUFFICES ASSUME IInv, [Next]_vars PROVE IInv'
    OBVIOUS
  <2>1. TypeInv'
    BY NextType DEF IInv
  <2>2. CASE UNCHANGED vars
    BY <2>1, <2>2 DEF IInv, Owned, FilesOwned, MachinesCovered, LiveIsLast, ReplyOwned, Target,
       RequestOf, GoneIsEmpty, SaveFileOwner, StateFileNotForeign, vars, workerVars, guiVars,
       fileVars
  <2>3. CASE WorkerNext /\ UNCHANGED <<guiVars, fileVars>>
    BY <2>1, <2>3, HandleOwned, FrameOwned, FilesKept DEF WorkerNext, IInv
  <2>4. CASE GuiStep \/ TimerStep \/ UserStep \/ Boot
    BY <2>1, <2>4, GuiStepOwned, IdleOwned, BootOwned DEF IInv
  <2> QED BY <2>2, <2>3, <2>4 DEF Next, Crash, Relaunch
<1> QED BY <1>1, <1>2, PTL DEF Spec

(* No .sav file ever receives the save RAM of another ROM, for any number  *)
(* of ROMs, any channel length, and every mix of faults: save_current_-    *)
(* cartridge takes the bytes from the worker and the path from the GUI,    *)
(* and only the order of the sends keeps the two together.                 *)
THEOREM SavesOwned == Spec => []SaveFileOwner
<1>1. IInv => SaveFileOwner
  BY DEF IInv, FilesOwned
<1> QED BY <1>1, Ownership, PTL

(* Nor a .state file the machine of another ROM.                           *)
THEOREM StatesOwned == Spec => []StateFileNotForeign
<1>1. IInv => StateFileNotForeign
  BY DEF IInv, FilesOwned
<1> QED BY <1>1, Ownership, PTL

-----------------------------------------------------------------------------
(***************************************************************************)
(* What the window shows is what the worker does: the pause it shows, the  *)
(* picture and the sound, and the ROM its files are named for.             *)
(*                                                                         *)
(* Both threads keep a pause of their own and send commands and events to  *)
(* agree.  What matters is the pause the worker will be in once its        *)
(* channel is drained: only a SetPaused that is sent and a frame that      *)
(* faults change it, never a command that is received.                     *)
(***************************************************************************)

(* The last pause command of a channel, or the pause there is.             *)
WillPause(q, p) ==
  \/ p /\ \A j \in DOMAIN q : q[j].op # "SetPaused"
  \/ \E i \in DOMAIN q : /\ q[i].op = "SetPaused" /\ q[i].flag
                         /\ \A j \in DOMAIN q : j > i => q[j].op # "SetPaused"

WillPauseNow == WillPause(queue, paused)

LEMMA WillBeWillPause ==
  ASSUME queue \in Seq(Command)
  PROVE  WillBePaused <=> WillPauseNow
BY DEF WillBePaused, NoPauseAfter, WillPauseNow, WillPause

(* A command that is sent decides if it is a SetPaused.                    *)
LEMMA AppendPauses ==
  ASSUME NEW q \in Seq(Command), NEW p \in BOOLEAN, NEW c \in Command
  PROVE  WillPause(Append(q, c), p) <=> IF c.op = "SetPaused" THEN c.flag ELSE WillPause(q, p)
<1> DEFINE a == Append(q, c)
           n == Len(q)
<1>1. /\ n \in Nat /\ DOMAIN q = 1 .. n /\ DOMAIN a = 1 .. n + 1
      /\ a[n + 1] = c /\ \A i \in 1 .. n : a[i] = q[i]
  BY AppendPlaces
<1> HIDE DEF a, n
<1>2. CASE c.op = "SetPaused"
  <2>1. n + 1 \in DOMAIN a /\ \A j \in DOMAIN a : ~ (j > n + 1)
    BY <1>1
  <2>2. \A i \in DOMAIN a : (\A j \in DOMAIN a : j > i => a[j].op # "SetPaused") => i = n + 1
    BY <1>1, <1>2
  <2> QED BY <1>1, <1>2, <2>1, <2>2 DEF WillPause
<1>3. CASE c.op # "SetPaused"
  <2>1. \A i \in 1 .. n : (\A j \in DOMAIN a : j > i => a[j].op # "SetPaused")
                            <=> (\A j \in DOMAIN q : j > i => q[j].op # "SetPaused")
    BY <1>1, <1>3
  <2>2. (\A j \in DOMAIN a : a[j].op # "SetPaused") <=> (\A j \in DOMAIN q : q[j].op # "SetPaused")
    BY <1>1, <1>3
  <2> QED BY <1>1, <1>3, <2>1, <2>2 DEF WillPause
<1> QED BY <1>2, <1>3 DEF a

(* A command that is received does not change what will be.                *)
LEMMA TailPauses ==
  ASSUME NEW q \in Seq(Command), NEW p \in BOOLEAN, q # <<>>
  PROVE  WillPause(q, p)
           <=> WillPause(Tail(q), IF Head(q).op = "SetPaused" THEN Head(q).flag ELSE p)
<1> DEFINE t == Tail(q)
           n == Len(q)
<1>1. /\ n \in Nat \ {0} /\ DOMAIN q = 1 .. n /\ DOMAIN t = 1 .. n - 1
      /\ Head(q) = q[1] /\ \A i \in 1 .. n - 1 : t[i] = q[i + 1]
  BY TailPlaces
<1> HIDE DEF t, n
<1> DEFINE After(i) == \A j \in DOMAIN q : j > i => q[j].op # "SetPaused"
           AfterT(i) == \A j \in DOMAIN t : j > i => t[j].op # "SetPaused"
           NoneT == \A j \in DOMAIN t : t[j].op # "SetPaused"
           Some == \E i \in DOMAIN q : q[i].op = "SetPaused" /\ q[i].flag /\ After(i)
           SomeT == \E i \in DOMAIN t : t[i].op = "SetPaused" /\ t[i].flag /\ AfterT(i)
<1>2. \A j \in 1 .. n : j = 1 \/ (j - 1 \in 1 .. n - 1 /\ q[j] = t[j - 1])
  BY <1>1
<1>3. \A i \in 1 .. n - 1 : AfterT(i) <=> After(i + 1)
  <2> SUFFICES ASSUME NEW i \in 1 .. n - 1 PROVE AfterT(i) <=> After(i + 1)
    OBVIOUS
  <2>1. ASSUME After(i + 1) PROVE AfterT(i)
    <3> SUFFICES ASSUME NEW j \in 1 .. n - 1, j > i PROVE t[j].op # "SetPaused"
      BY <1>1
    <3>1. j + 1 \in 1 .. n /\ j + 1 > i + 1
      BY <1>1
    <3> QED BY <1>1, <2>1, <3>1
  <2>2. ASSUME AfterT(i) PROVE After(i + 1)
    <3> SUFFICES ASSUME NEW j \in 1 .. n, j > i + 1 PROVE q[j].op # "SetPaused"
      BY <1>1
    <3>1. j - 1 \in 1 .. n - 1 /\ j - 1 > i /\ q[j] = t[j - 1]
      BY <1>1, <1>2
    <3> QED BY <1>1, <2>2, <3>1
  <2> QED BY <2>1, <2>2
<1>4. NoneT <=> After(1)
  <2>1. ASSUME After(1) PROVE NoneT
    <3> SUFFICES ASSUME NEW j \in 1 .. n - 1 PROVE t[j].op # "SetPaused"
      BY <1>1
    <3>1. j + 1 \in 1 .. n /\ j + 1 > 1
      BY <1>1
    <3> QED BY <1>1, <2>1, <3>1
  <2>2. ASSUME NoneT PROVE After(1)
    <3> SUFFICES ASSUME NEW j \in 1 .. n, j > 1 PROVE q[j].op # "SetPaused"
      BY <1>1
    <3>1. j # 1
      BY <1>1
    <3>2. j - 1 \in DOMAIN t /\ q[j] = t[j - 1]
      BY <1>1, <1>2, <3>1
    <3>3. t[j - 1].op # "SetPaused"
      BY <2>2, <3>2
    <3> QED BY <3>2, <3>3
  <2> QED BY <2>1, <2>2
<1>5. Some <=> (q[1].op = "SetPaused" /\ q[1].flag /\ After(1)) \/ SomeT
  <2>1. \A i \in 1 .. n - 1 : t[i] = q[i + 1] /\ i + 1 \in 1 .. n
    BY <1>1
  <2>2. 1 \in 1 .. n
    BY <1>1
  <2>3. \A j \in 1 .. n : j = 1 \/ (j - 1) + 1 = j
    BY <1>1
  <2> HIDE DEF After, AfterT
  <2>4. ASSUME SomeT PROVE Some
    BY <1>1, <1>3, <2>1, <2>4
  <2>5. ASSUME Some PROVE (q[1].op = "SetPaused" /\ q[1].flag /\ After(1)) \/ SomeT
    <3>1. PICK i \in 1 .. n : q[i].op = "SetPaused" /\ q[i].flag /\ After(i)
      BY <1>1, <2>5
    <3>2. CASE i = 1
      BY <3>1, <3>2
    <3>3. CASE i # 1
      <4>1. i - 1 \in 1 .. n - 1 /\ q[i] = t[i - 1] /\ (i - 1) + 1 = i
        BY <1>2, <2>3, <3>3
      <4> QED BY <1>1, <1>3, <3>1, <4>1
    <3> QED BY <3>2, <3>3
  <2> QED BY <1>1, <2>2, <2>4, <2>5
<1>6. (\A j \in DOMAIN q : q[j].op # "SetPaused") <=> q[1].op # "SetPaused" /\ After(1)
  <2>1. \A j \in 1 .. n : j = 1 \/ j > 1
    BY <1>1
  <2> QED BY <1>1, <2>1
<1> DEFINE p2 == IF Head(q).op = "SetPaused" THEN Head(q).flag ELSE p
<1>7. WillPause(q, p) <=> (p /\ q[1].op # "SetPaused" /\ After(1)) \/ Some
  <2>1. WillPause(q, p) <=> (p /\ (\A j \in DOMAIN q : q[j].op # "SetPaused")) \/ Some
    BY DEF WillPause
  <2> HIDE DEF Some, After
  <2> QED BY <1>6, <2>1
<1>8. WillPause(t, p2) <=> (p2 /\ NoneT) \/ SomeT
  <2> HIDE DEF p2
  <2> QED BY DEF WillPause
<1>9. p2 <=> IF q[1].op = "SetPaused" THEN q[1].flag ELSE p
  BY <1>1
<1> HIDE DEF After, NoneT, Some, SomeT, p2
<1>10. WillPause(q, p) <=> WillPause(t, p2)
  <2>1. CASE q[1].op = "SetPaused"
    BY <1>4, <1>5, <1>7, <1>8, <1>9, <2>1
  <2>2. CASE q[1].op # "SetPaused"
    BY <1>4, <1>5, <1>7, <1>8, <1>9, <2>2
  <2> QED BY <2>1, <2>2
<1> QED BY <1>10 DEF t, p2

-----------------------------------------------------------------------------
(* The inductive invariant.                                                *)

(* An operation that paused the worker is under way until it resumes it.   *)
ResumeOwed ==
  /\ cont.resume => /\ cont.kind \in {"load", "bios", "none"} /\ ~guiPaused
                    /\ pc \in {"save", "wait", "write", "swap", "hold", "resume"}
  /\ pc = "freeze" => cont.kind \in {"load", "bios"} /\ ~cont.resume

(* A worker that will be paused is paused by the user, by a fault on its   *)
(* way to the window, or by an operation that will resume it.              *)
PauseKnown ==
  ~guiPaused /\ ~WorkerGone /\ stops = 0 /\ WillPauseNow => cont.resume

(* As long as no game faults, the window's pause is the worker's.          *)
PauseKept ==
  "fault" \notin Scenario => stops = 0 /\ (guiPaused /\ ~WorkerGone => WillPauseNow)

PauseInv == ResumeOwed /\ PauseKnown /\ PauseKept

(* What leaves the pause alone.                                            *)
LEMMA PauseUnmoved ==
  ASSUME PauseInv, ResumeOwed', guiPaused' = guiPaused, stops' = stops, wpc' = wpc,
         cont'.resume = cont.resume, ~WorkerGone => (WillPauseNow' <=> WillPauseNow)
  PROVE  PauseInv'
BY DEF PauseInv, PauseKnown, PauseKept, WorkerGone

LEMMA TellPauses ==
  ASSUME TypeInv, NEW c \in Command, Tell(c)
  PROVE  /\ stops' = stops /\ wpc' = wpc
         /\ ~WorkerGone =>
              (WillPauseNow' <=> IF c.op = "SetPaused" THEN c.flag ELSE WillPauseNow)
<1>1. queue \in Seq(Command) /\ paused \in BOOLEAN
  BY DEF TypeInv, TypeOK, WorkerTypeOK
<1>2. stops' = stops /\ wpc' = wpc /\ paused' = paused
  BY DEF Tell, OnlyQueue
<1>3. ~WorkerGone => queue' = Append(queue, c)
  BY DEF Tell, Send
<1>4. WillPause(Append(queue, c), paused)
        <=> IF c.op = "SetPaused" THEN c.flag ELSE WillPause(queue, paused)
  BY <1>1, AppendPauses
<1> QED BY <1>2, <1>3, <1>4 DEF WillPauseNow

LEMMA AskPauses ==
  ASSUME TypeInv, NEW op \in Requests, NEW img \in Image, Ask(op, img)
  PROVE  stops' = stops /\ wpc' = wpc /\ (~WorkerGone => (WillPauseNow' <=> WillPauseNow))
<1> DEFINE c == CmdRequest(op, img)
<1>1. queue \in Seq(Command) /\ paused \in BOOLEAN
  BY DEF TypeInv, TypeOK, WorkerTypeOK
<1>2. c \in Command /\ c.op # "SetPaused"
  BY CommandTypes DEF Requests, Ops, CmdRequest, Message
<1>3. stops' = stops /\ wpc' = wpc /\ paused' = paused
  BY DEF Ask, OnlyQueue
<1>4. ~WorkerGone => queue' = Append(queue, c)
  BY DEF Ask, Send
<1> HIDE DEF c
<1>5. WillPause(Append(queue, c), paused) <=> WillPause(queue, paused)
  BY <1>1, <1>2, AppendPauses
<1> QED BY <1>3, <1>4, <1>5 DEF WillPauseNow

-----------------------------------------------------------------------------
(* The worker.                                                             *)

LEMMA HandlePauses ==
  ASSUME TypeInv, HandleCommand
  PROVE  wpc' = "exited" \/ (stops' = stops /\ wpc' = wpc /\ (WillPauseNow' <=> WillPauseNow))
<1>1. queue \in Seq(Command) /\ paused \in BOOLEAN
  BY DEF TypeInv, TypeOK, WorkerTypeOK
<1> DEFINE p2 == IF Head(queue).op = "SetPaused" THEN Head(queue).flag ELSE paused
<1>2. CASE Shutdown
  BY <1>2 DEF Shutdown
<1>3. CASE SetPaused
  <2>1. queue # <<>> /\ queue' = Tail(queue) /\ paused' = p2 /\ stops' = stops /\ wpc' = wpc
    BY <1>3 DEF SetPaused, Receive
  <2> HIDE DEF p2
  <2>2. WillPause(queue, paused) <=> WillPause(Tail(queue), p2)
    BY <1>1, <2>1, TailPauses DEF p2
  <2> QED BY <2>1, <2>2 DEF WillPauseNow
<1>4. CASE \/ ReplaceSystem \/ ClearSystem \/ HoldStart \/ DumpFrame
           \/ SaveData \/ SaveState \/ LoadState
  <2>1. /\ queue # <<>> /\ queue' = Tail(queue) /\ Head(queue).op # "SetPaused"
        /\ paused' = paused /\ stops' = stops /\ wpc' = wpc
    BY <1>4 DEF ReplaceSystem, ClearSystem, HoldStart, DumpFrame, SaveData, SaveState, LoadState,
       Receive
  <2>2. paused' = p2
    BY <2>1
  <2> HIDE DEF p2
  <2>3. WillPause(queue, paused) <=> WillPause(Tail(queue), p2)
    BY <1>1, <2>1, TailPauses DEF p2
  <2> QED BY <2>1, <2>2, <2>3 DEF WillPauseNow
<1> QED BY <1>2, <1>3, <1>4 DEF HandleCommand

LEMMA WorkerPauses ==
  ASSUME TypeInv, PauseInv, WorkerNext, UNCHANGED <<guiVars, fileVars>>
  PROVE  PauseInv'
<1>0. /\ cont' = cont /\ pc' = pc /\ guiPaused' = guiPaused /\ stops \in Nat
      /\ WorkerGone => wpc = "exited"
  BY DEF guiVars, TypeInv, TypeOK, WorkerTypeOK, WorkerGone
<1>1. WorkerGone => WorkerGone'
  <2>1. wpc = "exited" => ~WorkerNext
    BY DEF WorkerNext, HandleCommand, ReplaceSystem, ClearSystem, SetPaused, HoldStart, DumpFrame,
       SaveData, SaveState, LoadState, Shutdown, Receive, StartFrame, RunFrame, StopWorker,
       WorkerDies, TakeFrameRequest
  <2> QED BY <2>1 DEF WorkerGone
<1>2. ResumeOwed'
  BY <1>0, <1>1 DEF PauseInv, ResumeOwed
<1>3. CASE HandleCommand
  <2>1. CASE wpc' = "exited"
    <3>1. stops' = stops
      BY <1>3 DEF HandleCommand, ReplaceSystem, ClearSystem, SetPaused, HoldStart, DumpFrame,
         SaveData, SaveState, LoadState, Shutdown
    <3> QED BY <1>2, <2>1, <3>1 DEF PauseInv, PauseKnown, PauseKept, WorkerGone
  <2>2. CASE wpc' # "exited"
    BY <1>0, <1>2, <1>3, <2>2, HandlePauses, PauseUnmoved
  <2> QED BY <2>1, <2>2
<1>4. CASE WorkerDies
  BY <1>2, <1>4 DEF WorkerDies, PauseInv, PauseKnown, PauseKept, WorkerGone
<1>5. CASE StartFrame \/ RunFrame
  <2>1. queue' = queue /\ paused' = paused /\ stops' = stops
        /\ wpc # "exited" /\ wpc' # "exited"
    BY <1>5 DEF StartFrame, RunFrame, TakeFrameRequest
  <2>2. WillPauseNow' <=> WillPauseNow
    BY <2>1 DEF WillPauseNow
  <2> QED BY <1>0, <1>2, <2>1, <2>2 DEF PauseInv, PauseKnown, PauseKept, WorkerGone
<1>6. CASE StopWorker
  <2>1. "fault" \in Scenario /\ stops' = stops + 1
    BY <1>6 DEF StopWorker, Report
  <2>2. stops' # 0
    BY <1>0, <2>1
  <2> QED BY <1>2, <2>1, <2>2 DEF PauseInv, PauseKnown, PauseKept
<1> QED BY <1>3, <1>4, <1>5, <1>6 DEF WorkerNext

-----------------------------------------------------------------------------
(* The GUI thread.                                                         *)

(* The end of save_current_cartridge: only an operation that paused the    *)
(* worker goes on to change the machine.                                   *)
LEMMA AfterSavePauses ==
  ASSUME TypeInv, PauseInv, AfterSave, pc \in {"save", "wait", "write"},
         guiPaused' = guiPaused, wpc' = wpc
  PROVE  ResumeOwed' /\ cont'.resume = cont.resume
<1>1. cont.resume \in BOOLEAN
  BY DEF TypeInv, TypeOK, GuiTypeOK, Tasks
<1>2. NoTask.resume = FALSE /\ Task("exit", NoCart).resume = FALSE
  BY DEF NoTask, Task
<1>3. CASE cont.kind \in {"load", "bios"} /\ pc' = "swap" /\ UNCHANGED cont
  BY <1>3 DEF PauseInv, ResumeOwed
<1>4. CASE cont.kind = "quit" /\ pc' = "save" /\ cont' = Task("exit", NoCart)
  BY <1>1, <1>2, <1>4 DEF PauseInv, ResumeOwed
<1>5. CASE cont.kind = "exit" /\ pc' = "shutdown" /\ UNCHANGED cont
  BY <1>1, <1>5 DEF PauseInv, ResumeOwed
<1>6. CASE cont.kind \in {"flush", "saveState", "loadState"} /\ pc' = "idle" /\ cont' = NoTask
  BY <1>1, <1>2, <1>6 DEF PauseInv, ResumeOwed
<1> QED BY <1>3, <1>4, <1>5, <1>6 DEF AfterSave

LEMMA FreezePauses ==
  ASSUME TypeInv, PauseInv, Freeze
  PROVE  PauseInv'
<1>0. cont \in Tasks /\ pc' = "save" /\ guiPaused' = guiPaused /\ guiPaused \in BOOLEAN
  BY DEF TypeInv, TypeOK, GuiTypeOK, Freeze
<1>1. CASE MustPause
  <2> DEFINE c == CmdPaused(TRUE)
  <2>1. c \in Command /\ c.op = "SetPaused" /\ c.flag = TRUE
    BY CommandTypes DEF CmdPaused, Message
  <2>2. Tell(c) /\ cont' = [cont EXCEPT !.resume = ~WorkerGone] /\ ~guiPaused
    BY <1>1 DEF Freeze, MustPause
  <2> HIDE DEF c
  <2>3. stops' = stops /\ wpc' = wpc /\ (~WorkerGone => WillPauseNow')
    BY <2>1, <2>2, TellPauses
  <2>4. cont'.resume = ~WorkerGone /\ cont'.kind = cont.kind
    BY <1>0, <2>2 DEF Tasks
  <2>5. cont.kind \in {"load", "bios"}
    BY DEF Freeze, PauseInv, ResumeOwed
  <2>6. ResumeOwed'
    BY <1>0, <2>2, <2>4, <2>5 DEF ResumeOwed
  <2> QED BY <1>0, <2>2, <2>3, <2>4, <2>6 DEF PauseInv, PauseKnown, PauseKept, WorkerGone
<1>2. CASE ~MustPause
  <2>1. UNCHANGED <<workerVars, cont>>
    BY <1>2 DEF Freeze
  <2>2. stops' = stops /\ wpc' = wpc /\ cont' = cont /\ (WillPauseNow' <=> WillPauseNow)
    BY <2>1 DEF workerVars, WillPauseNow
  <2>3. ~cont.resume
    BY DEF Freeze, PauseInv, ResumeOwed
  <2>4. ResumeOwed'
    BY <1>0, <2>2, <2>3 DEF ResumeOwed
  <2> QED BY <1>0, <2>2, <2>4, PauseUnmoved
<1> QED BY <1>1, <1>2

LEMMA AskStepPauses ==
  ASSUME TypeInv, PauseInv, SaveRequest \/ StateRequest
  PROVE  PauseInv'
<1>0. /\ cont.resume \in BOOLEAN /\ guiPaused' = guiPaused
      /\ NoTask.resume = FALSE
  BY DEF TypeInv, TypeOK, GuiTypeOK, Tasks, SaveRequest, StateRequest, NoTask, Task
<1>1. ASSUME NEW op \in Requests, NEW img \in Image, Ask(op, img), pc' = "wait", cont' = cont,
             pc \in {"save", "ask"}
      PROVE  PauseInv'
  <2>1. stops' = stops /\ wpc' = wpc /\ (~WorkerGone => (WillPauseNow' <=> WillPauseNow))
    BY <1>1, AskPauses
  <2>2. ResumeOwed'
    BY <1>0, <1>1 DEF PauseInv, ResumeOwed
  <2> QED BY <1>0, <1>1, <2>1, <2>2, PauseUnmoved
<1>2. /\ Requests = {"SaveData", "SaveState", "LoadState"} /\ Blank("none") \in Image
      /\ pc = "ask" => states[romPath] \in Image
  BY CommandTypes DEF Requests, TypeInv, TypeOK, TaskSound
<1>3. CASE SaveRequest
  <2>1. CASE AfterSave /\ UNCHANGED workerVars /\ pc = "save"
    <3>1. stops' = stops /\ wpc' = wpc /\ (WillPauseNow' <=> WillPauseNow)
      BY <2>1 DEF workerVars, WillPauseNow
    <3> QED BY <1>0, <2>1, <3>1, AfterSavePauses, PauseUnmoved
  <2>2. CASE Ask("SaveData", Blank("none")) /\ pc' = "wait" /\ UNCHANGED cont /\ pc = "save"
    BY <1>1, <1>2, <2>2
  <2> QED BY <1>3, <2>1, <2>2 DEF SaveRequest
<1>4. CASE StateRequest
  <2>1. CASE WorkerGone /\ pc' = "idle" /\ cont' = NoTask /\ UNCHANGED workerVars /\ pc = "ask"
    <3>1. stops' = stops /\ wpc' = wpc /\ (WillPauseNow' <=> WillPauseNow)
      BY <2>1 DEF workerVars, WillPauseNow
    <3>2. cont'.resume = cont.resume /\ ResumeOwed'
      BY <1>0, <2>1 DEF PauseInv, ResumeOwed
    <3> QED BY <1>0, <3>1, <3>2, PauseUnmoved
  <2>2. CASE /\ pc' = "wait" /\ UNCHANGED cont /\ pc = "ask"
             /\ Ask("SaveState", Blank("none")) \/ Ask("LoadState", states[romPath])
    BY <1>1, <1>2, <2>2
  <2> QED BY <1>4, <2>1, <2>2 DEF StateRequest
<1> QED BY <1>3, <1>4

LEMMA ReplyPauses ==
  ASSUME TypeInv, PauseInv, ReplyWritten \/ ReplyDone \/ NoReply \/ WriteDone
  PROVE  PauseInv'
<1>0. queue \in Seq(Command) /\ guiPaused' = guiPaused
  BY DEF TypeInv, TypeOK, WorkerTypeOK, ReplyWritten, ReplyDone, NoReply, WriteDone
<1>1. CASE ReplyWritten
  <2>1. stops' = stops /\ wpc' = wpc /\ cont' = cont /\ (WillPauseNow' <=> WillPauseNow)
    BY <1>1 DEF ReplyWritten, workerVars, WillPauseNow
  <2>2. ResumeOwed'
    BY <1>0, <1>1, <2>1 DEF ReplyWritten, PauseInv, ResumeOwed
  <2> QED BY <1>0, <2>1, <2>2, PauseUnmoved
<1>2. CASE ReplyDone \/ WriteDone
  <2>1. stops' = stops /\ wpc' = wpc /\ (WillPauseNow' <=> WillPauseNow)
    BY <1>2 DEF ReplyDone, WriteDone, workerVars, WillPauseNow
  <2>2. ResumeOwed' /\ cont'.resume = cont.resume
    BY <1>0, <1>2, <2>1, AfterSavePauses DEF ReplyDone, WriteDone
  <2> QED BY <1>0, <2>1, <2>2, PauseUnmoved
<1>3. CASE NoReply
  <2>1. stops' = stops /\ wpc' = wpc /\ paused' = paused
    BY <1>3 DEF NoReply, OnlyQueue
  <2>2. /\ DOMAIN queue' = DOMAIN queue
        /\ \A i \in DOMAIN queue : queue'[i].op = queue[i].op /\ queue'[i].flag = queue[i].flag
    <3>1. queue' = [i \in DOMAIN queue |-> [queue[i] EXCEPT !.live = FALSE]]
      BY <1>3 DEF NoReply
    <3>2. \A i \in DOMAIN queue : queue[i] \in Command
      BY <1>0
    <3> QED BY <3>1, <3>2 DEF Command
  <2>3. WillPauseNow' <=> WillPauseNow
    BY <2>1, <2>2 DEF WillPauseNow, WillPause
  <2>4. ResumeOwed' /\ cont'.resume = cont.resume
    BY <1>0, <1>3, <2>1, AfterSavePauses DEF NoReply
  <2> QED BY <1>0, <2>1, <2>3, <2>4, PauseUnmoved
<1> QED BY <1>1, <1>2, <1>3

LEMMA SwapPauses ==
  ASSUME TypeInv, PauseInv, SwapRom \/ SwapBios \/ SwapNothing \/ Hold \/ SendShutdown
  PROVE  PauseInv'
<1>0. cont \in Tasks /\ guiPaused' = guiPaused
  BY DEF TypeInv, TypeOK, GuiTypeOK, SwapRom, SwapBios, SwapNothing, Hold, SendShutdown
<1>1. PICK c \in Command : Tell(c) /\ c.op # "SetPaused"
  <2>1. \A m \in Image : CmdReplace(m) \in Command /\ CmdReplace(m).op # "SetPaused"
    BY CommandTypes DEF CmdReplace, Message
  <2>2. \A op \in {"ClearSystem", "HoldStart", "Shutdown"} :
          Cmd(op) \in Command /\ Cmd(op).op # "SetPaused"
    BY CommandTypes DEF Cmd, Message, Ops
  <2>3. pc = "swap" /\ cont.kind = "load" => FreshMachines(cont.rom) \subseteq Image
    BY FreshTypes DEF TypeInv, TaskSound
  <2>4. Data(Bios, 0) \in Image
    BY FreshTypes
  <2> QED
    BY <2>1, <2>2, <2>3, <2>4 DEF SwapRom, SwapBios, SwapNothing, Hold, SendShutdown
<1>2. stops' = stops /\ wpc' = wpc /\ (~WorkerGone => (WillPauseNow' <=> WillPauseNow))
  BY <1>1, TellPauses
<1>3. /\ cont'.resume = cont.resume /\ cont'.kind \in {cont.kind, "none"}
      /\ pc' \in {"resume", "hold", "join"} /\ (pc' = "join" => pc = "shutdown")
  BY <1>0 DEF SwapRom, SwapBios, SwapNothing, Hold, SendShutdown, Tasks
<1>4. ResumeOwed'
  BY <1>0, <1>3 DEF PauseInv, ResumeOwed
<1> QED BY <1>0, <1>2, <1>3, <1>4, PauseUnmoved

LEMMA ResumePauses ==
  ASSUME TypeInv, PauseInv, Resume
  PROVE  PauseInv'
<1>0. /\ pc' = "idle" /\ cont' = NoTask /\ NoTask.resume = FALSE /\ guiPaused' = guiPaused
      /\ cont.resume \in BOOLEAN
  BY DEF Resume, NoTask, Task, TypeInv, TypeOK, GuiTypeOK, Tasks
<1>1. ResumeOwed'
  BY <1>0 DEF ResumeOwed
<1>2. CASE cont.resume
  <2> DEFINE c == CmdPaused(FALSE)
  <2>1. c \in Command /\ c.op = "SetPaused" /\ c.flag = FALSE
    BY CommandTypes DEF CmdPaused, Message
  <2>2. Tell(c)
    BY <1>2 DEF Resume
  <2> HIDE DEF c
  <2>3. stops' = stops /\ wpc' = wpc /\ (~WorkerGone => ~WillPauseNow')
    BY <2>1, <2>2, TellPauses
  <2>4. ~guiPaused
    BY <1>2 DEF PauseInv, ResumeOwed
  <2> QED BY <1>0, <1>1, <2>3, <2>4 DEF PauseInv, PauseKnown, PauseKept, WorkerGone
<1>3. CASE ~cont.resume
  <2>1. stops' = stops /\ wpc' = wpc /\ (WillPauseNow' <=> WillPauseNow)
    BY <1>3 DEF Resume, workerVars, WillPauseNow
  <2> QED BY <1>0, <1>1, <1>3, <2>1, PauseUnmoved
<1> QED BY <1>2, <1>3

LEMMA GuiStepPauses ==
  ASSUME TypeInv, PauseInv, GuiStep
  PROVE  PauseInv'
<1>1. CASE Join
  <2>1. /\ pc' = "exited" /\ cont' = NoTask /\ NoTask.resume = FALSE /\ guiPaused' = guiPaused
        /\ stops' = stops /\ wpc' = wpc /\ WorkerGone
    BY <1>1 DEF Join, NoTask, Task, workerVars
  <2> QED BY <2>1 DEF PauseInv, ResumeOwed, PauseKnown, PauseKept, WorkerGone
<1> QED BY <1>1, FreezePauses, AskStepPauses, ReplyPauses, SwapPauses, ResumePauses DEF GuiStep

-----------------------------------------------------------------------------
(* Callbacks, the timer and a new process.                                 *)

LEMMA IdlePauses ==
  ASSUME TypeInv, PauseInv, UserStep \/ TimerStep
  PROVE  PauseInv'
<1>0. /\ pc = "idle" /\ ~cont.resume /\ stops \in Nat /\ guiPaused \in BOOLEAN
      /\ NoTask.resume = FALSE /\ \A k, r : Task(k, r).resume = FALSE /\ Task(k, r).kind = k
  <2>1. pc = "idle"
    BY DEF UserStep, TimerStep, OpenRecent, OpenDialog, CloseDialog, RequestReset, TogglePause,
       PressDumpKey, StateMenu, ToggleCapture, Quit, UserMay, TimerOpen, TimerReset, TimerEvents,
       TimerFlush, TimerFree
  <2>2. cont.resume \in BOOLEAN /\ stops \in Nat /\ guiPaused \in BOOLEAN
    BY DEF TypeInv, TypeOK, GuiTypeOK, WorkerTypeOK, Tasks
  <2> QED BY <2>1, <2>2 DEF PauseInv, ResumeOwed, NoTask, Task
<1>1. ASSUME UNCHANGED <<workerVars, guiPaused>>, ~cont'.resume,
             pc' = "freeze" => cont'.kind \in {"load", "bios"}
      PROVE  PauseInv'
  <2>1. stops' = stops /\ wpc' = wpc /\ guiPaused' = guiPaused /\ (WillPauseNow' <=> WillPauseNow)
    BY <1>1 DEF workerVars, WillPauseNow
  <2>2. ResumeOwed'
    BY <1>1 DEF ResumeOwed
  <2> QED BY <1>0, <1>1, <2>1, <2>2 DEF PauseInv, PauseKnown, PauseKept, WorkerGone
<1>2. CASE \/ \E r \in Roms : OpenRecent(r)
           \/ OpenDialog \/ CloseDialog \/ RequestReset \/ StateMenu \/ ToggleCapture \/ Quit
           \/ TimerOpen \/ TimerReset
  <2>1. UNCHANGED <<workerVars, guiPaused>>
    BY <1>2 DEF OpenRecent, OpenDialog, CloseDialog, RequestReset, StateMenu, ToggleCapture, Quit,
       TimerOpen, TimerReset, Begin
  <2>2. CASE \/ \E r \in Roms : OpenRecent(r)
             \/ StateMenu \/ Quit \/ TimerOpen \/ TimerReset
    <3>1. ~cont'.resume
      BY <1>0, <2>2 DEF OpenRecent, StateMenu, Quit, TimerOpen, TimerReset, Begin
    <3>2. pc' = "freeze" => cont'.kind \in {"load", "bios"}
      BY <1>0, <2>2 DEF OpenRecent, StateMenu, Quit, TimerOpen, TimerReset, Begin
    <3> QED BY <1>1, <2>1, <3>1, <3>2
  <2>3. CASE OpenDialog \/ CloseDialog \/ RequestReset \/ ToggleCapture
    <3>1. cont' = cont /\ pc' = pc
      BY <2>3 DEF OpenDialog, CloseDialog, RequestReset, ToggleCapture
    <3> QED BY <1>0, <1>1, <2>1, <3>1
  <2> QED BY <1>2, <2>2, <2>3
<1>3. CASE TogglePause
  <2> DEFINE c == CmdPaused(~guiPaused)
  <2>1. c \in Command /\ c.op = "SetPaused" /\ (c.flag <=> ~guiPaused)
    BY <1>0, CommandTypes DEF CmdPaused, Message
  <2>2. Tell(c) /\ guiPaused' = ~guiPaused /\ cont' = cont /\ pc' = pc
    BY <1>3 DEF TogglePause
  <2> HIDE DEF c
  <2>3. stops' = stops /\ wpc' = wpc /\ (~WorkerGone => (WillPauseNow' <=> ~guiPaused))
    BY <2>1, <2>2, TellPauses
  <2> QED BY <1>0, <2>2, <2>3 DEF PauseInv, ResumeOwed, PauseKnown, PauseKept, WorkerGone
<1>4. CASE PressDumpKey
  <2>1. Cmd("DumpFrame") \in Command /\ Cmd("DumpFrame").op # "SetPaused"
    BY CommandTypes DEF Cmd, Message, Ops
  <2>2. Tell(Cmd("DumpFrame")) /\ guiPaused' = guiPaused /\ cont' = cont /\ pc' = pc
    BY <1>4 DEF PressDumpKey, guiVars
  <2>3. stops' = stops /\ wpc' = wpc /\ (~WorkerGone => (WillPauseNow' <=> WillPauseNow))
    BY <2>1, <2>2, TellPauses
  <2>4. ResumeOwed'
    BY <1>0, <2>2 DEF ResumeOwed
  <2> QED BY <2>2, <2>3, <2>4, PauseUnmoved
<1>5. CASE TimerEvents \/ TimerFlush
  <2>1. /\ stops' = 0 /\ wpc' = wpc /\ guiPaused' = (guiPaused \/ stops > 0)
        /\ queue' = queue /\ paused' = paused
        /\ ~cont'.resume /\ pc' # "freeze"
    BY <1>0, <1>5 DEF TimerEvents, TimerFlush, DrainEvents
  <2>2. WillPauseNow' <=> WillPauseNow
    BY <2>1 DEF WillPauseNow
  <2>3. CASE stops = 0
    <3>1. guiPaused' = guiPaused
      BY <1>0, <2>1, <2>3
    <3> QED
      BY <1>0, <2>1, <2>2, <2>3, <3>1 DEF PauseInv, ResumeOwed, PauseKnown, PauseKept, WorkerGone
  <2>4. CASE stops # 0
    <3>1. "fault" \in Scenario
      BY <2>4 DEF PauseInv, PauseKept
    <3>2. stops > 0
      BY <1>0, <2>4
    <3>3. guiPaused'
      BY <2>1, <3>2, Zenon
    <3> QED BY <2>1, <3>1, <3>3 DEF PauseInv, ResumeOwed, PauseKnown, PauseKept
  <2> QED BY <2>3, <2>4
<1> QED BY <1>2, <1>3, <1>4, <1>5 DEF UserStep, TimerStep

LEMMA FreshPauses ==
  /\ Init => PauseInv
  /\ Boot => PauseInv'
<1>1. NoTask.resume = FALSE /\ DOMAIN <<>> = {}
  BY EmptyWorker DEF NoTask, Task
<1> QED
  BY <1>1 DEF Init, WorkerInit, GuiInit, Boot, PauseInv, ResumeOwed, PauseKnown, PauseKept,
     WillPauseNow, WillPause

LEMMA PauseInductive == Spec => []PauseInv
<1>1. TypeInv /\ PauseInv /\ [Next]_vars => PauseInv'
  <2> SUFFICES ASSUME TypeInv, PauseInv, [Next]_vars PROVE PauseInv'
    OBVIOUS
  <2>1. CASE UNCHANGED vars
    BY <2>1 DEF vars, workerVars, guiVars, PauseInv, ResumeOwed, PauseKnown, PauseKept,
       WillPauseNow, WorkerGone
  <2>2. CASE WorkerNext /\ UNCHANGED <<guiVars, fileVars>>
    BY <2>2, WorkerPauses
  <2> QED
    BY <2>1, <2>2, GuiStepPauses, IdlePauses, FreshPauses DEF Next, Crash, Relaunch
<1>2. IInv => TypeInv
  BY DEF IInv
<1> QED BY <1>1, <1>2, FreshPauses, Ownership, PTL DEF Spec

(* A game never freezes behind the user's back: if the window does not say *)
(* paused, the worker runs or will run once its channel is drained, or the *)
(* message that it stopped is on its way, whatever faults, dies, times out *)
(* or is swapped.                                                          *)
THEOREM NeverFrozen == Spec => []NoSilentFreeze
<1>1. IInv /\ PauseInv => NoSilentFreeze
  <2> SUFFICES ASSUME IInv, PauseInv, pc = "idle", ~guiPaused, ~WorkerGone, WillBePaused
               PROVE  stops > 0
    BY DEF NoSilentFreeze
  <2>1. queue \in Seq(Command) /\ stops \in Nat /\ cont.resume \in BOOLEAN
    BY DEF IInv, TypeInv, TypeOK, WorkerTypeOK, GuiTypeOK, Tasks
  <2>2. WillPauseNow /\ ~cont.resume
    BY <2>1, WillBeWillPause DEF PauseInv, ResumeOwed
  <2>3. stops # 0
    BY <2>2 DEF PauseInv, PauseKnown
  <2> QED BY <2>1, <2>3
<1> QED BY <1>1, Ownership, PauseInductive, PTL

(* As long as no game faults, the pause the window shows is the pause the  *)
(* worker is in or will be.  (With faults it is not: run stale_stop.)       *)
THEOREM PauseShown ==
  ASSUME "fault" \notin Scenario
  PROVE  Spec => []PausedMeansPaused
<1>1. IInv /\ PauseInv => PausedMeansPaused
  <2>1. IInv => queue \in Seq(Command)
    BY DEF IInv, TypeInv, TypeOK, WorkerTypeOK
  <2> QED BY <2>1, WillBeWillPause DEF PauseInv, PauseKept, PausedMeansPaused
<1> QED BY <1>1, Ownership, PauseInductive, PTL

-----------------------------------------------------------------------------
(* The machine, what is seen and heard of it, and its files.               *)

MachinePresent == system.cart \in Roms => system.st = "data"

LEMMA HandleShows ==
  ASSUME TypeInv, MachinePresent, OutputsBelongToMachine, HandleCommand
  PROVE  MachinePresent' /\ OutputsBelongToMachine'
<1>0. queue \in Seq(Command) /\ NoCart \notin Roms
  BY CartAssumption DEF TypeInv, TypeOK, WorkerTypeOK
<1>1. CASE ReplaceSystem
  <2>1. queue # <<>> /\ Head(queue).op = "ReplaceSystem"
    BY <1>1 DEF ReplaceSystem, Receive
  <2>2. Head(queue).img.st = "data"
    BY <1>0, <2>1, TailPlaces DEF TypeInv, ReplacePresent
  <2> QED
    BY <1>1, <2>2 DEF ReplaceSystem, ClearAudio, MachinePresent, OutputsBelongToMachine, Loaded
<1>2. CASE LoadState
  BY <1>2 DEF LoadState, ClearAudio, MachinePresent, OutputsBelongToMachine, Loaded
<1>3. CASE ClearSystem \/ Shutdown
  <2>1. system' = Blank("none")
    BY <1>3 DEF ClearSystem, Shutdown
  <2> QED BY <1>0, <2>1 DEF Blank, MachinePresent, OutputsBelongToMachine, Loaded
<1>4. CASE SetPaused \/ HoldStart \/ DumpFrame \/ SaveData \/ SaveState
  <2>1. system' = system /\ frameOf' = frameOf /\ (audio' = audio \/ audio'.ring = {})
    <3>1. ClearAudio => audio'.ring = {}
      BY DEF ClearAudio, AudioType, TypeInv, TypeOK, WorkerTypeOK
    <3> QED BY <1>4, <3>1 DEF SetPaused, HoldStart, DumpFrame, SaveData, SaveState
  <2> QED BY <2>1 DEF MachinePresent, OutputsBelongToMachine, Loaded
<1> QED BY <1>1, <1>2, <1>3, <1>4 DEF HandleCommand

LEMMA FrameShows ==
  ASSUME TypeInv, MachinePresent, OutputsBelongToMachine,
         StartFrame \/ RunFrame \/ StopWorker \/ WorkerDies
  PROVE  MachinePresent' /\ OutputsBelongToMachine'
<1>1. ASSUME Advance PROVE system'.cart = system.cart /\ system'.st = system.st
  BY <1>1 DEF Advance, TypeInv, TypeOK, WorkerTypeOK
<1>2. CASE StartFrame
  BY <1>2 DEF StartFrame, MachinePresent, OutputsBelongToMachine, Loaded
<1>3. CASE RunFrame
  <2>1. /\ system'.cart = system.cart /\ system'.st = system.st
        /\ frameOf' = system.cart
    BY <1>1, <1>3 DEF RunFrame
  <2>2. CASE audio' = audio
    BY <2>1, <2>2 DEF MachinePresent, OutputsBelongToMachine, Loaded
  <2>3. CASE /\ audio'.ring = audio.ring \cup {<<Previous, system.cart>>,
                                               <<system.cart, system.cart>>}
             /\ audio'.carried = system.cart
    <3>1. audio.ring # {} /\ Loaded /\ NoCart # system.cart => Previous = system.cart
      BY DEF OutputsBelongToMachine, Previous
    <3>2. <<Previous, system.cart>>[1] = Previous /\ <<Previous, system.cart>>[2] = system.cart
          /\ <<system.cart, system.cart>>[1] = system.cart
          /\ <<system.cart, system.cart>>[2] = system.cart
      OBVIOUS
    <3>3. audio.ring = {} \/ ~Loaded \/ Previous = system.cart
      BY <3>1 DEF OutputsBelongToMachine, Previous
    <3> QED
      BY <2>1, <2>3, <3>2, <3>3 DEF MachinePresent, OutputsBelongToMachine, Loaded
  <2> QED BY <1>3, <2>2, <2>3 DEF RunFrame, PushAudio
<1>4. CASE StopWorker
  <2>1. /\ system'.cart = system.cart /\ system'.st = system.st
        /\ frameOf' = frameOf /\ audio'.ring = {}
    BY <1>1, <1>4 DEF StopWorker, ClearAudio
  <2> QED BY <2>1 DEF MachinePresent, OutputsBelongToMachine, Loaded
<1>5. CASE WorkerDies
  BY <1>5, CartAssumption DEF WorkerDies, Blank, MachinePresent, OutputsBelongToMachine, Loaded
<1> QED BY <1>2, <1>3, <1>4, <1>5

LEMMA GuiShows ==
  ASSUME GuiStep \/ TimerStep \/ UserStep
  PROVE  UNCHANGED <<system, frameOf, audio>>
BY DEF GuiStep, TimerStep, UserStep, Freeze, SaveRequest, StateRequest, ReplyWritten, ReplyDone,
   NoReply, WriteDone, SwapRom, SwapBios, SwapNothing, Hold, Resume, SendShutdown, Join,
   OpenRecent, OpenDialog, CloseDialog, RequestReset, TogglePause, PressDumpKey, StateMenu,
   ToggleCapture, Quit, TimerOpen, TimerReset, TimerEvents, TimerFlush, DrainEvents, Begin,
   Tell, Ask, OnlyQueue, workerVars

LEMMA ShownInductive == Spec => [](MachinePresent /\ OutputsBelongToMachine)
<1>1. Init => MachinePresent /\ OutputsBelongToMachine
  BY CartAssumption DEF Init, WorkerInit, Blank, MachinePresent, OutputsBelongToMachine, Loaded
<1>2. /\ TypeInv /\ MachinePresent /\ OutputsBelongToMachine /\ [Next]_vars
      => MachinePresent' /\ OutputsBelongToMachine'
  <2> SUFFICES ASSUME TypeInv, MachinePresent, OutputsBelongToMachine, [Next]_vars
               PROVE  MachinePresent' /\ OutputsBelongToMachine'
    OBVIOUS
  <2>1. CASE UNCHANGED vars \/ GuiStep \/ TimerStep \/ UserStep
    <3>1. UNCHANGED <<system, frameOf, audio>>
      BY <2>1, GuiShows DEF vars, workerVars
    <3> QED BY <3>1 DEF MachinePresent, OutputsBelongToMachine, Loaded
  <2>2. CASE WorkerNext
    BY <2>2, HandleShows, FrameShows DEF WorkerNext
  <2>3. CASE Boot
    BY <2>3, CartAssumption DEF Boot, Blank, MachinePresent, OutputsBelongToMachine, Loaded
  <2> QED BY <2>1, <2>2, <2>3 DEF Next, Crash, Relaunch
<1>3. IInv => TypeInv
  BY DEF IInv
<1> QED BY <1>1, <1>2, <1>3, Ownership, PTL DEF Spec

(* The picture is that of the machine that runs, and so is the sound but   *)
(* for one step: every queued sample leads to one of that machine's, and   *)
(* at most one interval leaves from a sample of another's, the one the     *)
(* resampler carried over a clear.                                         *)
THEOREM OutputsOwned == Spec => []OutputsBelongToMachine
BY ShownInductive, PTL

(* With no swap under way, the ROM that runs is the ROM of rom_path.       *)
THEOREM MachineMatches == Spec => []MachineMatchesPath
<1>1. IInv /\ MachinePresent => MachineMatchesPath
  <2> SUFFICES ASSUME IInv, MachinePresent, pc # "resume", ~SwapQueued, system.cart \in Roms
               PROVE  system.cart = romPath
    BY DEF MachineMatchesPath
  <2>1. system.st = "data" /\ Target = romPath
    BY DEF MachinePresent, Target
  <2>2. ~SwapBehind(queue, 0)
    BY DEF SwapQueued, SwapBehind, IsSwap
  <2>3. system.cart \in {Bios, romPath}
    BY <2>1, <2>2 DEF IInv, Owned, MachinesCovered, Covered
  <2> QED BY <2>3, CartAssumption
<1> QED BY <1>1, ShownInductive, Ownership, PTL

-----------------------------------------------------------------------------
(***************************************************************************)
(* Changing the machine: the START press meant for the BIOS reaches it,    *)
(* and the machine a swap discards was saved as it is.                     *)
(*                                                                         *)
(* Nothing ties a command to the machine it was sent for but its place in  *)
(* the channel, and nothing ties a saved image to the machine discarded    *)
(* seconds later but the pause sent before the request.  Both proofs say   *)
(* what may stand between the two ends.                                    *)
(***************************************************************************)

(* What a step of the GUI thread sends, and where in an operation.         *)
Sent(c) ==
  \/ c.op = "SetPaused" /\ ~c.live /\ pc' \in {"save", "idle"}
  \/ c.op = "DumpFrame" /\ ~c.live /\ "dump" \in Scenario /\ pc' = "idle"
  \/ c.op = "HoldStart" /\ ~c.live /\ pc = "hold" /\ pc' = "resume"
  \/ c.op = "Shutdown" /\ ~c.live /\ pc' = "join"
  \/ IsSwap(c) /\ ~c.live /\ pc = "swap" /\ pc' \in {"hold", "resume"}
  \/ c.op \in Requests /\ c.live /\ pc' = "wait" /\ reply'.st = "none"

LEMMA GuiSends ==
  ASSUME TypeInv, GuiStep \/ TimerStep \/ UserStep
  PROVE  \/ queue' = queue
         \/ NoReply
         \/ ~WorkerGone /\ \E c \in Command : queue' = Append(queue, c) /\ Sent(c)
<1>0. /\ \A op \in Ops : Cmd(op) \in Command /\ Cmd(op).op = op /\ ~Cmd(op).live
      /\ \A p \in BOOLEAN : /\ CmdPaused(p) \in Command /\ ~CmdPaused(p).live
                            /\ CmdPaused(p).op = "SetPaused"
      /\ \A m \in Image : /\ CmdReplace(m) \in Command /\ ~CmdReplace(m).live
                          /\ CmdReplace(m).op = "ReplaceSystem"
      /\ guiPaused \in BOOLEAN
  BY CommandTypes DEF TypeInv, TypeOK, GuiTypeOK, Cmd, CmdPaused, CmdReplace, Message
<1>1. SUFFICES ASSUME queue' # queue, ~NoReply
               PROVE  ~WorkerGone /\ \E c \in Command : queue' = Append(queue, c) /\ Sent(c)
  OBVIOUS
<1>2. ASSUME NEW c \in Command, Tell(c), Sent(c)
      PROVE  ~WorkerGone /\ \E d \in Command : queue' = Append(queue, d) /\ Sent(d)
  BY <1>1, <1>2 DEF Tell, Send
<1>3. ASSUME NEW op \in Requests, NEW img \in Image, Ask(op, img), pc' = "wait"
      PROVE  ~WorkerGone /\ \E d \in Command : queue' = Append(queue, d) /\ Sent(d)
  <2> DEFINE c == CmdRequest(op, img)
  <2>1. c \in Command /\ c.op = op /\ c.live
    BY CommandTypes DEF CmdRequest, Message, Requests, Ops
  <2>2. reply'.st = "none" /\ Send(c)
    BY <1>3 DEF Ask, Blank
  <2> HIDE DEF c
  <2>3. ~WorkerGone /\ queue' = Append(queue, c)
    BY <1>1, <2>2 DEF Send
  <2>4. Sent(c)
    BY <1>3, <2>1, <2>2 DEF Sent
  <2> QED BY <2>1, <2>3, <2>4
<1>4. CASE Freeze
  <2>1. Tell(CmdPaused(TRUE)) /\ pc' = "save"
    BY <1>1, <1>4 DEF Freeze, workerVars
  <2> QED BY <1>0, <1>2, <2>1 DEF Sent
<1>5. CASE SaveRequest
  <2>1. Ask("SaveData", Blank("none")) /\ pc' = "wait"
    BY <1>1, <1>5 DEF SaveRequest, workerVars
  <2> QED BY <1>3, <2>1, CommandTypes DEF Requests
<1>6. CASE StateRequest
  <2>1. romPath \in Roms
    BY <1>6 DEF StateRequest, TypeInv, TaskSound
  <2>2. states[romPath] \in Image
    BY <2>1 DEF TypeInv, TypeOK
  <2>3. (Ask("SaveState", Blank("none")) \/ Ask("LoadState", states[romPath])) /\ pc' = "wait"
    BY <1>1, <1>6 DEF StateRequest, workerVars
  <2> QED BY <1>3, <2>2, <2>3, CommandTypes DEF Requests
<1>7. CASE SwapRom \/ SwapBios \/ SwapNothing
  <2>1. pc = "swap" /\ pc' \in {"hold", "resume"}
    BY <1>7 DEF SwapRom, SwapBios, SwapNothing
  <2>2. \E c \in Command : Tell(c) /\ IsSwap(c) /\ ~c.live
    <3>1. CASE SwapRom
      <4>1. FreshMachines(cont.rom) \subseteq Image
        BY <3>1, FreshTypes DEF SwapRom, TypeInv, TaskSound
      <4> QED BY <1>0, <3>1, <4>1 DEF SwapRom, IsSwap
    <3>2. CASE SwapBios
      BY <1>0, <3>2, FreshTypes DEF SwapBios, IsSwap
    <3>3. CASE SwapNothing
      BY <1>0, <3>3 DEF SwapNothing, IsSwap, Ops
    <3> QED BY <1>7, <3>1, <3>2, <3>3
  <2> QED BY <1>2, <2>1, <2>2 DEF Sent
<1>8. CASE Hold \/ SendShutdown
  BY <1>0, <1>2, <1>8 DEF Hold, SendShutdown, Ops, Sent
<1>9. CASE Resume
  <2>1. Tell(CmdPaused(FALSE)) /\ pc' = "idle"
    BY <1>1, <1>9 DEF Resume, workerVars
  <2> QED BY <1>0, <1>2, <2>1 DEF Sent
<1>10. CASE TogglePause
  <2>1. Tell(CmdPaused(~guiPaused)) /\ pc' = "idle"
    BY <1>10 DEF TogglePause, UserMay
  <2> QED BY <1>0, <1>2, <2>1 DEF Sent
<1>11. CASE PressDumpKey
  <2>1. Tell(Cmd("DumpFrame")) /\ pc' = "idle" /\ "dump" \in Scenario
    BY <1>11 DEF PressDumpKey, UserMay, guiVars
  <2> QED BY <1>0, <1>2, <2>1 DEF Sent, Ops
<1>12. CASE ReplyWritten \/ ReplyDone \/ WriteDone \/ Join
  BY <1>1, <1>12 DEF ReplyWritten, ReplyDone, WriteDone, Join, workerVars
<1>13. CASE TimerStep \/ (UserStep /\ ~TogglePause /\ ~PressDumpKey)
  BY <1>1, <1>13 DEF TimerStep, UserStep, OpenRecent, OpenDialog, CloseDialog, RequestReset,
     StateMenu, ToggleCapture, Quit, TimerOpen, TimerReset, TimerEvents, TimerFlush, DrainEvents,
     Begin, workerVars
<1> QED
  BY <1>1, <1>4, <1>5, <1>6, <1>7, <1>8, <1>9, <1>10, <1>11, <1>12, <1>13 DEF GuiStep

(* What receiving a command does to the channel and to the worker.         *)
LEMMA Receives ==
  ASSUME HandleCommand
  PROVE  /\ wpc = "drain" /\ queue # <<>>
         /\ \/ Shutdown /\ queue' = <<>> /\ wpc' = "exited" /\ system'.cart = NoCart
            \/ queue' = Tail(queue) /\ wpc' = wpc
BY DEF HandleCommand, ReplaceSystem, ClearSystem, SetPaused, HoldStart, DumpFrame, SaveData,
   SaveState, LoadState, Shutdown, Receive, Blank

-----------------------------------------------------------------------------
(* HoldStart reaches the BIOS machine it was sent behind.                  *)

Changes == {"ReplaceSystem", "ClearSystem", "LoadState"}

(* The machine the command at place i of channel q meets is the BIOS, when *)
(* m runs now.                                                             *)
BiosAt(q, m, i) ==
  \/ m.cart = Bios /\ \A k \in DOMAIN q : k < i => q[k].op \notin Changes
  \/ \E j \in DOMAIN q :
       /\ j < i /\ q[j].op = "ReplaceSystem" /\ q[j].img.cart = Bios
       /\ \A k \in DOMAIN q : j < k /\ k < i => q[k].op \notin Changes

HoldKnown ==
  /\ \A i \in DOMAIN queue : queue[i].op = "HoldStart" => BiosAt(queue, system, i)
  /\ pc = "hold" /\ ~WorkerGone => BiosAt(queue, system, Len(queue) + 1)

LEMMA AppendBios ==
  ASSUME NEW q \in Seq(Command), NEW c \in Command, NEW m
  PROVE  /\ \A i \in 1 .. Len(q) + 1 : BiosAt(q, m, i) => BiosAt(Append(q, c), m, i)
         /\ c.op = "ReplaceSystem" /\ c.img.cart = Bios =>
              BiosAt(Append(q, c), m, Len(q) + 2)
<1> DEFINE a == Append(q, c)
           n == Len(q)
<1>1. /\ n \in Nat /\ DOMAIN q = 1 .. n /\ DOMAIN a = 1 .. n + 1
      /\ a[n + 1] = c /\ \A i \in 1 .. n : a[i] = q[i]
  BY AppendPlaces
<1> HIDE DEF a, n
<1>2. ASSUME NEW i \in 1 .. n + 1, BiosAt(q, m, i)
      PROVE  BiosAt(a, m, i)
  <2>1. \A k \in DOMAIN a : k < i => k \in DOMAIN q /\ a[k] = q[k]
    BY <1>1
  <2>2. \A j \in DOMAIN q : j \in DOMAIN a
    BY <1>1
  <2> QED BY <1>2, <2>1, <2>2 DEF BiosAt
<1>3. ASSUME c.op = "ReplaceSystem", c.img.cart = Bios
      PROVE  BiosAt(a, m, n + 2)
  <2>1. n + 1 \in DOMAIN a /\ n + 1 < n + 2 /\ \A k \in DOMAIN a : ~(n + 1 < k /\ k < n + 2)
    BY <1>1
  <2> QED BY <1>1, <1>3, <2>1 DEF BiosAt
<1> QED BY <1>2, <1>3 DEF a, n

LEMMA TailBios ==
  ASSUME NEW q \in Seq(Command), q # <<>>, NEW m, NEW m2, NEW i \in Nat \ {0},
         BiosAt(q, m, i + 1),
         Head(q).op \notin Changes => m2.cart = m.cart,
         Head(q).op = "ReplaceSystem" => m2 = Head(q).img
  PROVE  BiosAt(Tail(q), m2, i)
<1> DEFINE t == Tail(q)
           n == Len(q)
<1>1. /\ n \in Nat \ {0} /\ DOMAIN q = 1 .. n /\ DOMAIN t = 1 .. n - 1
      /\ Head(q) = q[1] /\ \A k \in 1 .. n - 1 : t[k] = q[k + 1]
  BY TailPlaces
<1> HIDE DEF t, n
<1>2. \A k \in DOMAIN t : k + 1 \in DOMAIN q /\ t[k] = q[k + 1] /\ k \in Nat /\ k > 0
  BY <1>1
<1>3. 1 \in DOMAIN q /\ 1 < i + 1
  BY <1>1
<1>4. CASE m.cart = Bios /\ \A k \in DOMAIN q : k < i + 1 => q[k].op \notin Changes
  <2>1. m2.cart = Bios
    BY <1>1, <1>3, <1>4
  <2>2. ASSUME NEW k \in DOMAIN t, k < i
        PROVE  t[k].op \notin Changes
    <3>1. k + 1 < i + 1
      BY <1>2, <2>2
    <3> QED BY <1>2, <1>4, <3>1
  <2> QED BY <2>1, <2>2 DEF BiosAt, t
<1>5. ASSUME NEW j \in DOMAIN q, j < i + 1, q[j].op = "ReplaceSystem", q[j].img.cart = Bios,
             \A k \in DOMAIN q : j < k /\ k < i + 1 => q[k].op \notin Changes
      PROVE  BiosAt(t, m2, i)
  <2>1. j \in Nat /\ j > 0
    BY <1>1
  <2>2. ASSUME NEW k \in DOMAIN t, j - 1 < k, k < i
        PROVE  t[k].op \notin Changes
    <3>1. j < k + 1 /\ k + 1 < i + 1
      BY <1>2, <2>1, <2>2
    <3> QED BY <1>2, <1>5, <3>1
  <2>3. CASE j = 1
    <3>1. m2.cart = Bios
      BY <1>1, <1>5, <2>3
    <3>2. \A k \in DOMAIN t : 0 < k
      BY <1>2
    <3> QED BY <2>2, <2>3, <3>1, <3>2 DEF BiosAt
  <2>4. CASE j # 1
    <3>1. j - 1 \in DOMAIN t /\ t[j - 1] = q[j] /\ j - 1 < i
      BY <1>1, <1>5, <2>1, <2>4
    <3> QED BY <1>5, <2>2, <3>1 DEF BiosAt
  <2> QED BY <2>3, <2>4
<1> QED BY <1>4, <1>5 DEF BiosAt, t

LEMMA WorkerHolds ==
  ASSUME TypeInv, HoldKnown, WorkerNext, UNCHANGED <<guiVars, fileVars>>
  PROVE  HoldKnown'
<1>0. queue \in Seq(Command) /\ pc' = pc
  BY DEF TypeInv, TypeOK, WorkerTypeOK, guiVars
<1>1. CASE wpc' = "exited"
  <2>1. queue' = <<>>
    BY <1>1, Receives DEF WorkerNext, StartFrame, RunFrame, StopWorker, WorkerDies
  <2> QED BY <1>1, <2>1, EmptyWorker DEF HoldKnown, WorkerGone
<1>2. CASE HandleCommand /\ wpc' # "exited"
  <2>1. queue # <<>> /\ queue' = Tail(queue) /\ ~WorkerGone
    BY <1>2, Receives DEF WorkerGone
  <2>2. /\ Head(queue).op \notin Changes => system'.cart = system.cart
        /\ Head(queue).op = "ReplaceSystem" => system' = Head(queue).img
    BY <1>2 DEF HandleCommand, ReplaceSystem, ClearSystem, SetPaused, HoldStart, DumpFrame,
       SaveData, SaveState, LoadState, Shutdown, Receive, Changes
  <2>3. \A i \in DOMAIN Tail(queue) : /\ Tail(queue)[i] = queue[i + 1] /\ i + 1 \in DOMAIN queue
                                      /\ i \in Nat \ {0}
    BY <1>0, <2>1, TailPlaces
  <2>4. Len(queue') + 1 = Len(queue) /\ Len(queue) \in Nat \ {0}
    BY <1>0, <2>1, TailPlaces
  <2>5. ASSUME NEW i \in DOMAIN queue', queue'[i].op = "HoldStart"
        PROVE  BiosAt(queue', system', i)
    <3>1. BiosAt(queue, system, i + 1)
      BY <2>1, <2>3, <2>5 DEF HoldKnown
    <3> QED BY <1>0, <2>1, <2>2, <2>3, <2>5, <3>1, TailBios
  <2>6. ASSUME pc = "hold"
        PROVE  BiosAt(queue', system', Len(queue') + 1)
    <3> DEFINE n == Len(queue)
    <3>1. BiosAt(queue, system, n + 1) /\ n \in Nat \ {0}
      BY <2>1, <2>4, <2>6 DEF HoldKnown
    <3> HIDE DEF n
    <3>2. BiosAt(queue', system', n)
      BY <1>0, <2>1, <2>2, <3>1, TailBios
    <3> QED BY <2>4, <3>2 DEF n
  <2> QED BY <1>0, <2>5, <2>6 DEF HoldKnown
<1>3. CASE (StartFrame \/ RunFrame \/ StopWorker) /\ wpc' # "exited"
  <2>1. queue' = queue /\ wpc # "exited"
    BY <1>3 DEF StartFrame, RunFrame, StopWorker, TakeFrameRequest
  <2>2. system'.cart = system.cart
    BY <1>3 DEF StartFrame, RunFrame, StopWorker, Advance, TypeInv, TypeOK, WorkerTypeOK
  <2>3. \A i : BiosAt(queue', system', i) <=> BiosAt(queue, system, i)
    BY <2>1, <2>2 DEF BiosAt
  <2> QED BY <1>0, <2>1, <2>3 DEF HoldKnown, WorkerGone
<1>4. WorkerDies => wpc' = "exited"
  BY DEF WorkerDies
<1> QED BY <1>1, <1>2, <1>3, <1>4 DEF WorkerNext

(* Only SwapBios asks for START, right behind the BIOS machine.            *)
LEMMA HoldEntered ==
  ASSUME TypeInv, GuiStep \/ TimerStep \/ UserStep, pc' = "hold"
  PROVE  SwapBios /\ ~WorkerGone
BY DEF GuiStep, TimerStep, UserStep, Freeze, SaveRequest, StateRequest, ReplyWritten, ReplyDone,
   NoReply, WriteDone, SwapRom, SwapBios, SwapNothing, Hold, Resume, SendShutdown, Join, AfterSave,
   OpenRecent, OpenDialog, CloseDialog, RequestReset, TogglePause, PressDumpKey, StateMenu,
   ToggleCapture, Quit, TimerOpen, TimerReset, TimerEvents, TimerFlush, TimerFree, UserMay, Begin,
   guiVars

LEMMA GuiHolds ==
  ASSUME IInv, HoldKnown, GuiStep \/ TimerStep \/ UserStep
  PROVE  HoldKnown'
<1>0. queue \in Seq(Command) /\ system' = system /\ TypeInv
  BY GuiShows DEF IInv, TypeInv, TypeOK, WorkerTypeOK
<1>1. CASE pc' = "hold"
  <2> DEFINE c == CmdReplace(Data(Bios, 0))
  <2>1. SwapBios /\ ~WorkerGone
    BY <1>0, <1>1, HoldEntered
  <2>2. c \in Command /\ c.op = "ReplaceSystem" /\ c.img.cart = Bios
    BY <1>0, FreshTypes, CommandTypes DEF CmdReplace, Message
  <2> HIDE DEF c
  <2>3. queue' = Append(queue, c)
    BY <2>1 DEF SwapBios, Tell, Send, c
  <2>4. Len(queue') + 1 = Len(queue) + 2
    BY <1>0, <2>2, <2>3, AppendPlaces
  <2>5. BiosAt(queue', system', Len(queue') + 1)
    BY <1>0, <2>2, <2>3, <2>4, AppendBios
  <2>6. ASSUME NEW i \in DOMAIN queue', queue'[i].op = "HoldStart"
        PROVE  BiosAt(queue', system', i)
    <3>1. i \in DOMAIN queue /\ queue'[i] = queue[i] /\ i \in 1 .. Len(queue) + 1
      BY <1>0, <2>2, <2>3, <2>6, AppendPlaces
    <3>2. BiosAt(queue, system, i)
      BY <2>6, <3>1 DEF HoldKnown
    <3> QED BY <1>0, <2>2, <2>3, <3>1, <3>2, AppendBios
  <2> QED BY <2>5, <2>6 DEF HoldKnown
<1>2. CASE queue' = queue /\ pc' # "hold"
  BY <1>0, <1>2 DEF HoldKnown
<1>3. CASE NoReply /\ pc' # "hold"
  <2>1. /\ DOMAIN queue' = DOMAIN queue
        /\ \A i \in DOMAIN queue' : queue'[i].op = queue[i].op /\ queue'[i].img = queue[i].img
    BY <1>0, <1>3, DropPlaces DEF NoReply
  <2>2. \A i : BiosAt(queue', system', i) <=> BiosAt(queue, system, i)
    BY <1>0, <2>1 DEF BiosAt
  <2> QED BY <1>3, <2>1, <2>2 DEF HoldKnown
<1>4. ASSUME NEW c \in Command, queue' = Append(queue, c), Sent(c), ~WorkerGone, pc' # "hold"
      PROVE  HoldKnown'
  <2>1. ASSUME NEW i \in DOMAIN queue', queue'[i].op = "HoldStart"
        PROVE  i \in 1 .. Len(queue) + 1 /\ BiosAt(queue, system, i)
    <3>1. CASE i \in DOMAIN queue
      <4>1. queue'[i] = queue[i]
        BY <1>0, <1>4, <3>1, AppendPlaces
      <4> QED BY <1>0, <2>1, <3>1, <4>1 DEF HoldKnown
    <3>2. CASE i \notin DOMAIN queue
      <4>1. i = Len(queue) + 1 /\ queue'[i] = c
        BY <1>0, <1>4, <2>1, <3>2, AppendPlaces
      <4>2. pc = "hold"
        BY <1>4, <2>1, <4>1 DEF Sent, Requests, IsSwap
      <4>3. BiosAt(queue, system, Len(queue) + 1)
        BY <1>4, <4>2 DEF HoldKnown
      <4> QED BY <1>0, <4>1, <4>3
    <3> QED BY <3>1, <3>2
  <2> QED BY <1>0, <1>4, <2>1, AppendBios DEF HoldKnown
<1> QED BY <1>0, <1>1, <1>2, <1>3, <1>4, GuiSends

LEMMA HoldInductive == Spec => []HoldKnown
<1>1. Init => HoldKnown
  BY EmptyWorker DEF Init, WorkerInit, GuiInit, HoldKnown
<1>2. IInv /\ HoldKnown /\ [Next]_vars => HoldKnown'
  <2> SUFFICES ASSUME IInv, HoldKnown, [Next]_vars PROVE HoldKnown'
    OBVIOUS
  <2>1. CASE UNCHANGED vars
    BY <2>1 DEF vars, workerVars, guiVars, HoldKnown, WorkerGone, BiosAt
  <2>2. CASE WorkerNext /\ UNCHANGED <<guiVars, fileVars>>
    BY <2>2, WorkerHolds DEF IInv
  <2>3. CASE Boot
    <3>1. queue' = <<>> /\ pc' = "idle"
      BY <2>3 DEF Boot
    <3> QED BY <3>1, EmptyWorker DEF HoldKnown
  <2> QED BY <2>1, <2>2, <2>3, GuiHolds DEF Next, Crash, Relaunch
<1> QED BY <1>1, <1>2, Ownership, PTL DEF Spec

(* START is only ever held on the BIOS machine it was meant for: between   *)
(* the ReplaceSystem of start_bios_only and the HoldStart it sends after   *)
(* it no command changes the machine, whatever else is sent and received.  *)
THEOREM HoldOnBios == Spec => HoldReachesBios
<1>1. IInv /\ HoldKnown /\ [Next]_vars => [startFrames' > startFrames => system.cart = Bios]_vars
  <2> SUFFICES ASSUME IInv, HoldKnown, Next, startFrames' > startFrames
               PROVE  system.cart = Bios
    OBVIOUS
  <2>1. startFrames \in Nat
    BY BoundAssumption DEF IInv, TypeInv, TypeOK, WorkerTypeOK
  <2>2. CASE HoldStart
    <3>1. queue \in Seq(Command) /\ queue # <<>> /\ Head(queue).op = "HoldStart"
      BY <2>2 DEF HoldStart, Receive, IInv, TypeInv, TypeOK, WorkerTypeOK
    <3>2. /\ 1 \in DOMAIN queue /\ queue[1].op = "HoldStart"
          /\ \A j \in DOMAIN queue : ~(j < 1)
      BY <3>1, TailPlaces
    <3>3. BiosAt(queue, system, 1)
      BY <3>2 DEF HoldKnown
    <3> QED BY <3>2, <3>3 DEF BiosAt
  <2>3. CASE WorkerNext /\ ~HoldStart
    <3>1. startFrames' \in {0, startFrames, startFrames - 1}
      BY <2>3 DEF WorkerNext, HandleCommand, ReplaceSystem, ClearSystem, SetPaused, DumpFrame,
         SaveData, SaveState, LoadState, Shutdown, StartFrame, RunFrame, StopWorker, WorkerDies,
         TakeFrameRequest
    <3>2. ~(startFrames' > startFrames)
      BY <2>1, <3>1
    <3> QED BY <3>2
  <2>4. CASE Boot
    <3>1. startFrames' = 0
      BY <2>4 DEF Boot
    <3> QED BY <2>1, <3>1
  <2>5. CASE GuiStep \/ TimerStep \/ UserStep
    <3>1. startFrames' = startFrames
      BY <2>5 DEF GuiStep, TimerStep, UserStep, Freeze, SaveRequest, StateRequest, ReplyWritten,
         ReplyDone, NoReply, WriteDone, SwapRom, SwapBios, SwapNothing, Hold, Resume,
         SendShutdown, Join, OpenRecent, OpenDialog, CloseDialog, RequestReset, TogglePause,
         PressDumpKey, StateMenu, ToggleCapture, Quit, TimerOpen, TimerReset, TimerEvents,
         TimerFlush, DrainEvents, Begin, Tell, Ask, OnlyQueue, workerVars
    <3> QED BY <2>1, <3>1
  <2> QED BY <2>2, <2>3, <2>4, <2>5 DEF Next, Crash, Relaunch
<1> QED BY <1>1, Ownership, HoldInductive, PTL DEF Spec, HoldReachesBios

-----------------------------------------------------------------------------
(* A swap discards only what is on disk.                                   *)
(*                                                                         *)
(* The machine a queued swap will discard was saved after the worker was   *)
(* paused and nothing between the two can run it: that needs replies that  *)
(* come (no timeout, no fault, no failed write) and frames that only run   *)
(* unpaused (no frame dump).  Deaths and crashes do no harm.               *)

Undisturbed == Scenario \cap {"dump", "fault", "slow", "writeError"} = {}

(* A paused worker runs no frame.                                          *)
Quiet ==
  /\ ~dumpRequested /\ \A i \in DOMAIN queue : queue[i].op # "DumpFrame"
  /\ wpc = "frame" => ~paused

(* A request is answered when it is received, and awaited until then; when *)
(* its answer is there the channel is empty.                               *)
AnswerComes == \A i \in DOMAIN queue : queue[i].op \in Requests => queue[i].live
Awaited ==
  ~WorkerGone =>
    /\ pc = "wait" /\ reply.st = "none" => queue # <<>> /\ queue[Len(queue)].live
    /\ pc = "wait" /\ reply.st # "none" => queue = <<>>
    /\ pc = "write" => queue = <<>> /\ reply.st = "data"
Synchronous == AnswerComes /\ Awaited

(* An operation that will swap the machine is under way.                   *)
Swapping ==
  pc \in {"save", "wait", "write", "swap"} /\ cont.kind \in {"load", "bios"} /\ ~WorkerGone
FrozenPauses == Swapping => WillPauseNow

(* What it received is the machine as it still is.                         *)
Snapshot ==
  Swapping /\ pc \in {"wait", "write"} /\ reply.st # "none" =>
    IF reply.st = "data" THEN reply = system ELSE system.cart \notin Roms

(* The next swap after that of a ROM is sent when the ROM runs.            *)
RomSwapLast ==
  \A i \in DOMAIN queue :
    queue[i].op = "ReplaceSystem" /\ queue[i].img.cart \in Roms
      => ~SwapBehind(queue, i) /\ pc # "swap"

(* The machine is on disk and stays as it is until it is discarded.        *)
SwapFirst(q) ==
  \A i \in DOMAIN q : q[i].op \in {"SetPaused", "LoadState"} =>
    \E j \in DOMAIN q : j < i /\ IsSwap(q[j])
Discardable == SavedOnDisk(system.cart) /\ paused /\ SwapFirst(queue)
SwapSafe ==
  system.cart \in Roms /\ ~WorkerGone /\ (SwapBehind(queue, 0) \/ pc = "swap") => Discardable

-----------------------------------------------------------------------------

LEMMA QuietInductive ==
  ASSUME Undisturbed
  PROVE  Spec => []Quiet
<1>1. Init => Quiet
  BY EmptyWorker DEF Init, WorkerInit, Quiet
<1>2. TypeInv /\ Quiet /\ [Next]_vars => Quiet'
  <2> SUFFICES ASSUME TypeInv, Quiet, [Next]_vars PROVE Quiet'
    OBVIOUS
  <2>0. queue \in Seq(Command)
    BY DEF TypeInv, TypeOK, WorkerTypeOK
  <2>1. CASE UNCHANGED vars
    BY <2>1 DEF vars, workerVars, Quiet
  <2>2. CASE HandleCommand
    <3>1. ~dumpRequested' /\ wpc' # "frame"
      <4>1. Head(queue).op # "DumpFrame"
        BY <2>0, <2>2, Receives, TailPlaces DEF Quiet
      <4> QED
        BY <2>2, <4>1, Receives DEF Quiet, HandleCommand, ReplaceSystem, ClearSystem, SetPaused,
           HoldStart, DumpFrame, SaveData, SaveState, LoadState, Shutdown, Receive
    <3>2. \A i \in DOMAIN queue' : queue'[i].op # "DumpFrame"
      BY <2>0, <2>2, Receives, TailPlaces, EmptyWorker DEF Quiet
    <3> QED BY <3>1, <3>2 DEF Quiet
  <2>3. CASE StartFrame \/ RunFrame \/ StopWorker
    <3>1. queue' = queue /\ ~dumpRequested'
      BY <2>3 DEF StartFrame, RunFrame, StopWorker, TakeFrameRequest, Quiet
    <3>2. wpc' = "frame" => ~paused'
      BY <2>3 DEF StartFrame, RunFrame, StopWorker, Runnable, Quiet
    <3> QED BY <3>1, <3>2 DEF Quiet
  <2>4. CASE WorkerDies
    <3>1. queue' = <<>> /\ ~dumpRequested' /\ wpc' = "exited"
      BY <2>4 DEF WorkerDies, TakeFrameRequest
    <3> QED BY <3>1, EmptyWorker DEF Quiet
  <2>5. CASE Boot
    <3>1. queue' = <<>> /\ ~dumpRequested' /\ wpc' = "drain"
      BY <2>5 DEF Boot
    <3> QED BY <3>1, EmptyWorker DEF Quiet
  <2>6. CASE GuiStep \/ TimerStep \/ UserStep
    <3>1. UNCHANGED <<dumpRequested, wpc, paused>>
      BY <2>6 DEF GuiStep, TimerStep, UserStep, Freeze, SaveRequest, StateRequest, ReplyWritten,
         ReplyDone, NoReply, WriteDone, SwapRom, SwapBios, SwapNothing, Hold, Resume,
         SendShutdown, Join, OpenRecent, OpenDialog, CloseDialog, RequestReset, TogglePause,
         PressDumpKey, StateMenu, ToggleCapture, Quit, TimerOpen, TimerReset, TimerEvents,
         TimerFlush, DrainEvents, Begin, Tell, Ask, OnlyQueue, workerVars
    <3>2. CASE queue' = queue
      BY <3>1, <3>2 DEF Quiet
    <3>3. CASE NoReply
      <4>1. \A i \in DOMAIN queue' : i \in DOMAIN queue /\ queue'[i].op = queue[i].op
        BY <2>0, <3>3, DropPlaces DEF NoReply
      <4> QED BY <3>1, <4>1 DEF Quiet
    <3>4. ASSUME NEW c \in Command, queue' = Append(queue, c), Sent(c)
          PROVE  Quiet'
      <4>1. c.op # "DumpFrame"
        BY <3>4 DEF Undisturbed, Sent, IsSwap, Requests
      <4>2. \A i \in DOMAIN queue' : queue'[i] = c \/ (i \in DOMAIN queue /\ queue'[i] = queue[i])
        BY <2>0, <3>4, AppendPlaces
      <4> QED BY <3>1, <4>1, <4>2 DEF Quiet
    <3> QED BY <2>6, <3>2, <3>3, <3>4, GuiSends
  <2> QED BY <2>1, <2>2, <2>3, <2>4, <2>5, <2>6 DEF Next, WorkerNext, Crash, Relaunch
<1>3. IInv => TypeInv
  BY DEF IInv
<1> QED BY <1>1, <1>2, <1>3, Ownership, PTL DEF Spec

(* A request that is received is the awaited one, and the last command.    *)
LEMMA HandleSynchronous ==
  ASSUME IInv, Synchronous, HandleCommand, UNCHANGED <<guiVars, fileVars>>
  PROVE  Synchronous'
<1>0. /\ queue \in Seq(Command) /\ LiveIsLast /\ pc' = pc
      /\ system \in [st : {"none", "data"}, cart : Carts \cup {NoCart}, sram : Nat]
  BY DEF IInv, Owned, TypeInv, TypeOK, WorkerTypeOK, guiVars
<1>1. CASE wpc' = "exited"
  <2>1. queue' = <<>>
    BY <1>1, Receives
  <2> QED BY <1>1, <2>1, EmptyWorker DEF Synchronous, AnswerComes, Awaited, WorkerGone
<1>2. CASE wpc' # "exited"
  <2>1. queue # <<>> /\ queue' = Tail(queue) /\ ~WorkerGone /\ ~WorkerGone'
    BY <1>2, Receives DEF WorkerGone
  <2>2. /\ Head(queue) = queue[1] /\ 1 \in DOMAIN queue /\ Len(queue) \in Nat \ {0}
        /\ Len(queue') = Len(queue) - 1 /\ queue' \in Seq(Command)
        /\ \A i \in DOMAIN queue' : queue'[i] = queue[i + 1] /\ i + 1 \in DOMAIN queue
    BY <1>0, <2>1, TailPlaces
  <2>3. AnswerComes'
    BY <2>1, <2>2 DEF Synchronous, AnswerComes
  <2>4. CASE Head(queue).live
    <3>1. /\ pc = "wait" /\ reply.st = "none" /\ Len(queue) = 1
          /\ Head(queue).op \in Requests
      BY <1>0, <2>2, <2>4 DEF LiveIsLast, RequestOf, Requests
    <3>2. queue' = <<>>
      BY <2>2, <3>1
    <3>3. reply'.st # "none"
      <4>1. SaveData \/ SaveState \/ LoadState
        BY <3>1 DEF HandleCommand, ReplaceSystem, ClearSystem, SetPaused, HoldStart, DumpFrame,
           Shutdown, Receive, Requests
      <4> QED BY <1>0, <2>4, <4>1 DEF SaveData, SaveState, LoadState, Answer, Blank, Loaded
    <3> QED BY <1>0, <2>3, <3>1, <3>2, <3>3 DEF Synchronous, Awaited
  <2>5. CASE ~Head(queue).live
    <3>1. reply' = reply
      BY <2>5 DEF HandleCommand, ReplaceSystem, ClearSystem, SetPaused, HoldStart, DumpFrame,
         SaveData, SaveState, LoadState, Shutdown, Answer
    <3>2. pc = "wait" => reply.st = "none" /\ queue[Len(queue)].live
      BY <2>1 DEF Synchronous, Awaited
    <3>3. pc # "write"
      BY <2>1 DEF Synchronous, Awaited
    <3>4. ASSUME pc = "wait"
          PROVE  queue' # <<>> /\ queue'[Len(queue')].live
      <4>1. Len(queue) # 1
        BY <2>2, <2>5, <3>2, <3>4
      <4>2. Len(queue') \in DOMAIN queue' /\ Len(queue') + 1 = Len(queue)
        BY <2>2, <4>1
      <4>3. queue'[Len(queue')] = queue[Len(queue)]
        BY <2>2, <4>2
      <4> QED BY <3>2, <3>4, <4>2, <4>3, EmptyWorker
    <3> QED BY <1>0, <2>3, <3>1, <3>2, <3>3, <3>4 DEF Synchronous, Awaited
  <2> QED BY <2>4, <2>5
<1> QED BY <1>1, <1>2

LEMMA GuiSynchronous ==
  ASSUME Undisturbed, IInv, Synchronous, GuiStep \/ TimerStep \/ UserStep
  PROVE  Synchronous'
<1>0. queue \in Seq(Command) /\ TypeInv /\ GoneIsEmpty
  BY DEF IInv, Owned, TypeInv, TypeOK, WorkerTypeOK
<1>1. wpc' = wpc
  BY DEF GuiStep, TimerStep, UserStep, Freeze, SaveRequest, StateRequest, ReplyWritten,
     ReplyDone, NoReply, WriteDone, SwapRom, SwapBios, SwapNothing, Hold, Resume,
     SendShutdown, Join, OpenRecent, OpenDialog, CloseDialog, RequestReset, TogglePause,
     PressDumpKey, StateMenu, ToggleCapture, Quit, TimerOpen, TimerReset, TimerEvents,
     TimerFlush, DrainEvents, Begin, Tell, Ask, OnlyQueue, workerVars
<1>2. AnswerComes'
  <2>1. CASE queue' = queue
    BY <2>1 DEF Synchronous, AnswerComes
  <2>2. CASE NoReply
    <3>1. WorkerGone
      BY <2>2 DEF NoReply, Undisturbed
    <3>2. DOMAIN queue' = {}
      BY <1>0, <2>2, <3>1, DropPlaces, EmptyWorker DEF NoReply, GoneIsEmpty, WorkerGone
    <3> QED BY <3>2 DEF AnswerComes
  <2>3. ASSUME NEW c \in Command, queue' = Append(queue, c), Sent(c)
        PROVE  AnswerComes'
    <3>1. \A i \in DOMAIN queue' : queue'[i] = c \/ (i \in DOMAIN queue /\ queue'[i] = queue[i])
      BY <1>0, <2>3, AppendPlaces
    <3>2. c.op \in Requests => c.live
      BY <2>3 DEF Sent, IsSwap, Requests
    <3> QED BY <3>1, <3>2 DEF Synchronous, AnswerComes
  <2> QED BY <1>0, <2>1, <2>2, <2>3, GuiSends
<1>3. SUFFICES ASSUME ~WorkerGone, pc' \in {"wait", "write"} PROVE Awaited'
  BY <1>1, <1>2 DEF Synchronous, Awaited, WorkerGone
<1>4. CASE ReplyWritten
  <2>1. pc = "wait" /\ reply.st = "data" /\ pc' = "write" /\ reply' = reply /\ queue' = queue
    BY <1>4 DEF ReplyWritten, workerVars
  <2> QED BY <1>3, <2>1 DEF Synchronous, Awaited
<1>5. CASE SaveRequest \/ StateRequest
  <2>0. PICK op \in Requests : \E img : Ask(op, img)
    BY <1>3, <1>5 DEF SaveRequest, StateRequest, AfterSave, Requests
  <2>1. PICK img : Ask(op, img)
    BY <2>0
  <2>2. pc' = "wait" /\ reply'.st = "none" /\ queue' = Append(queue, CmdRequest(op, img))
    BY <1>3, <1>5, <2>1 DEF SaveRequest, StateRequest, AfterSave, Ask, Send, Blank
  <2>3. CmdRequest(op, img).live
    BY DEF CmdRequest, Message
  <2>4. queue' # <<>> /\ queue'[Len(queue')].live
    <3> DEFINE c == CmdRequest(op, img)
    <3> HIDE DEF c
    <3>1. Len(Append(queue, c)) = Len(queue) + 1 /\ Len(queue) \in Nat
          /\ Append(queue, c)[Len(queue) + 1] = c
      BY <1>0
    <3>2. Len(<<>>) = 0
      OBVIOUS
    <3>3. Append(queue, c) # <<>>
      BY <3>1, <3>2
    <3> QED BY <2>2, <2>3, <3>1, <3>3 DEF c
  <2> QED BY <2>2, <2>4 DEF Awaited
<1> QED
  BY <1>3, <1>4, <1>5 DEF GuiStep, TimerStep, UserStep, Freeze, ReplyDone,
     NoReply, WriteDone, SwapRom, SwapBios, SwapNothing, Hold, Resume, SendShutdown, Join,
     AfterSave, OpenRecent, OpenDialog, CloseDialog, RequestReset, TogglePause, PressDumpKey,
     StateMenu, ToggleCapture, Quit, TimerOpen, TimerReset, TimerEvents, TimerFlush, TimerFree,
     UserMay, Begin, guiVars

LEMMA SynchronousInductive ==
  ASSUME Undisturbed
  PROVE  Spec => []Synchronous
<1>1. Init => Synchronous
  BY EmptyWorker DEF Init, WorkerInit, GuiInit, Synchronous, AnswerComes, Awaited
<1>2. IInv /\ Synchronous /\ [Next]_vars => Synchronous'
  <2> SUFFICES ASSUME IInv, Synchronous, [Next]_vars PROVE Synchronous'
    OBVIOUS
  <2>1. CASE UNCHANGED vars
    BY <2>1 DEF vars, workerVars, guiVars, Synchronous, AnswerComes, Awaited, WorkerGone
  <2>2. CASE (StartFrame \/ RunFrame \/ StopWorker) /\ UNCHANGED <<guiVars, fileVars>>
    <3>1. queue' = queue /\ reply' = reply /\ pc' = pc /\ wpc # "exited"
      BY <2>2 DEF StartFrame, RunFrame, StopWorker, TakeFrameRequest, guiVars
    <3> QED BY <3>1 DEF Synchronous, AnswerComes, Awaited, WorkerGone
  <2>3. CASE WorkerDies
    <3>1. queue' = <<>> /\ wpc' = "exited"
      BY <2>3 DEF WorkerDies
    <3> QED BY <3>1, EmptyWorker DEF Synchronous, AnswerComes, Awaited, WorkerGone
  <2>4. CASE Boot
    <3>1. queue' = <<>> /\ pc' = "idle"
      BY <2>4 DEF Boot
    <3> QED BY <3>1, EmptyWorker DEF Synchronous, AnswerComes, Awaited
  <2> QED
    BY <2>1, <2>2, <2>3, <2>4, HandleSynchronous, GuiSynchronous
       DEF Next, WorkerNext, Crash, Relaunch
<1> QED BY <1>1, <1>2, Ownership, PTL DEF Spec

LEMMA FrozenInductive ==
  ASSUME Undisturbed
  PROVE  Spec => []FrozenPauses
<1>1. Init => FrozenPauses
  BY DEF Init, GuiInit, FrozenPauses, Swapping
<1>2. TypeInv /\ PauseInv /\ FrozenPauses /\ [Next]_vars => FrozenPauses'
  <2> SUFFICES ASSUME TypeInv, PauseInv, FrozenPauses, [Next]_vars, Swapping'
               PROVE  WillPauseNow'
    BY DEF FrozenPauses
  <2>0. ~WorkerGone' /\ "fault" \notin Scenario /\ "slow" \notin Scenario
    BY DEF Swapping, Undisturbed
  <2>1. ASSUME Swapping, WillPauseNow' <=> WillPauseNow
        PROVE  WillPauseNow'
    BY <2>1 DEF FrozenPauses
  <2>2. CASE UNCHANGED vars
    BY <2>1, <2>2 DEF vars, workerVars, guiVars, Swapping, WorkerGone, WillPauseNow
  <2>3. CASE WorkerNext /\ UNCHANGED <<guiVars, fileVars>>
    <3>1. ~WorkerGone /\ (WillPauseNow' <=> WillPauseNow)
      <4>1. CASE HandleCommand
        BY <2>0, <4>1, HandlePauses, Receives DEF WorkerGone
      <4>2. CASE StartFrame \/ RunFrame
        BY <4>2 DEF StartFrame, RunFrame, TakeFrameRequest, WillPauseNow, WorkerGone
      <4>3. CASE StopWorker \/ WorkerDies
        BY <2>0, <4>3 DEF StopWorker, WorkerDies, WorkerGone
      <4> QED BY <2>3, <4>1, <4>2, <4>3 DEF WorkerNext
    <3> QED BY <2>1, <2>3, <3>1 DEF Swapping, guiVars
  <2>4. CASE Freeze
    <3>1. CASE MustPause
      <4> DEFINE c == CmdPaused(TRUE)
      <4>1. c \in Command /\ c.op = "SetPaused" /\ c.flag = TRUE
        BY CommandTypes DEF CmdPaused, Message
      <4>2. Tell(c)
        BY <2>4, <3>1 DEF Freeze
      <4> HIDE DEF c
      <4> QED BY <2>0, <4>1, <4>2, TellPauses DEF WorkerGone
    <3>2. CASE ~MustPause
      <4>1. guiPaused /\ wpc' = wpc /\ (WillPauseNow' <=> WillPauseNow)
        BY <2>4, <3>2 DEF Freeze, MustPause, workerVars, WillPauseNow
      <4> QED BY <2>0, <4>1 DEF PauseInv, PauseKept, WorkerGone
    <3> QED BY <3>1, <3>2
  <2>5. CASE SaveRequest
    <3>1. CASE UNCHANGED workerVars
      <4>1. wpc' = wpc /\ (WillPauseNow' <=> WillPauseNow)
        BY <3>1 DEF workerVars, WillPauseNow
      <4>2. Swapping
        <5>1. AfterSave => cont.kind \in {"load", "bios"}
          BY <2>5 DEF AfterSave, Swapping, Task
        <5> QED BY <2>0, <2>5, <4>1, <5>1 DEF SaveRequest, Swapping, WorkerGone
      <4> QED BY <2>1, <4>1, <4>2
    <3>2. CASE Ask("SaveData", Blank("none")) /\ pc' = "wait" /\ UNCHANGED cont
      <4>1. wpc' = wpc /\ (~WorkerGone => (WillPauseNow' <=> WillPauseNow))
        BY <3>2, AskPauses, CommandTypes DEF Requests
      <4> QED BY <2>0, <2>1, <2>5, <3>2, <4>1 DEF SaveRequest, Swapping, WorkerGone
    <3> QED BY <2>5, <3>1, <3>2 DEF SaveRequest
  <2>6. CASE StateRequest
    BY <2>6 DEF StateRequest, TypeInv, TaskSound, Swapping
  <2>7. CASE ReplyWritten \/ ReplyDone \/ WriteDone
    <3>1. wpc' = wpc /\ (WillPauseNow' <=> WillPauseNow)
      BY <2>7 DEF ReplyWritten, ReplyDone, WriteDone, workerVars, WillPauseNow
    <3>2. AfterSave => cont.kind \in {"load", "bios"} \/ cont'.kind = "exit" \/ pc' = "idle"
                       \/ pc' = "shutdown"
      BY DEF AfterSave, Task
    <3>3. Swapping
      BY <2>0, <2>7, <3>1, <3>2 DEF ReplyWritten, ReplyDone, WriteDone, Swapping, WorkerGone
    <3> QED BY <2>1, <3>1, <3>3
  <2>8. CASE NoReply
    BY <2>0, <2>8 DEF NoReply, OnlyQueue, WorkerGone
  <2>9. CASE SwapRom \/ SwapBios \/ SwapNothing \/ Hold \/ Resume \/ SendShutdown \/ Join \/ Boot
    BY <2>9 DEF SwapRom, SwapBios, SwapNothing, Hold, Resume, SendShutdown, Join, Boot, Swapping
  <2>10. CASE TimerStep \/ UserStep
    BY <2>10 DEF TimerStep, UserStep, OpenRecent, OpenDialog, CloseDialog, RequestReset,
       TogglePause, PressDumpKey, StateMenu, ToggleCapture, Quit, TimerOpen, TimerReset,
       TimerEvents, TimerFlush, TimerFree, UserMay, Begin, guiVars, Swapping, Task
  <2> QED
    BY <2>2, <2>3, <2>4, <2>5, <2>6, <2>7, <2>8, <2>9, <2>10
       DEF Next, GuiStep, Crash, Relaunch
<1>3. IInv => TypeInv
  BY DEF IInv
<1> QED BY <1>1, <1>2, <1>3, PauseInductive, Ownership, PTL DEF Spec

-----------------------------------------------------------------------------

(* What holds with the three invariants about the machine.                 *)
SwapBase ==
  IInv /\ MachinePresent /\ Quiet /\ Synchronous /\ FrozenPauses
SwapInv == Snapshot /\ RomSwapLast /\ SwapSafe

(* While an answer is in hand the worker rests.                            *)
LEMMA Resting ==
  ASSUME SwapBase, Swapping, pc = "write" \/ (pc = "wait" /\ reply.st # "none")
  PROVE  queue = <<>> /\ paused /\ wpc # "frame"
<1>1. queue = <<>> /\ DOMAIN queue = {}
  BY EmptyWorker DEF SwapBase, Synchronous, Awaited, Swapping
<1>2. paused
  BY <1>1 DEF SwapBase, FrozenPauses, WillPauseNow, WillPause
<1> QED BY <1>1, <1>2 DEF SwapBase, Quiet

LEMMA TailSwaps ==
  ASSUME NEW q \in Seq(Command), q # <<>>, NEW i \in Nat, SwapBehind(Tail(q), i)
  PROVE  SwapBehind(q, i + 1)
<1>1. PICK j \in DOMAIN Tail(q) : j > i /\ IsSwap(Tail(q)[j])
  BY DEF SwapBehind
<1>2. Tail(q)[j] = q[j + 1] /\ j + 1 \in DOMAIN q /\ j \in Nat
  BY TailPlaces
<1>3. j + 1 > i + 1
  BY <1>1, <1>2
<1> QED BY <1>1, <1>2, <1>3 DEF SwapBehind

LEMMA SwapBehindLess ==
  ASSUME NEW q \in Seq(Command), NEW i \in Nat, SwapBehind(q, i)
  PROVE  SwapBehind(q, 0)
<1>1. PICK j \in DOMAIN q : j > i /\ IsSwap(q[j])
  BY DEF SwapBehind
<1>2. j > 0
  BY <1>1
<1> QED BY <1>1, <1>2 DEF SwapBehind

LEMMA HandleSnapshot ==
  ASSUME SwapBase, Snapshot, HandleCommand, UNCHANGED <<guiVars, fileVars>>
  PROVE  Snapshot'
<1>0. /\ pc' = pc /\ cont' = cont /\ queue \in Seq(Command) /\ LiveIsLast
      /\ system \in [st : {"none", "data"}, cart : Carts \cup {NoCart}, sram : Nat]
  BY DEF guiVars, SwapBase, IInv, Owned, TypeInv, TypeOK, WorkerTypeOK
<1>1. SUFFICES ASSUME Swapping', pc \in {"wait", "write"}, reply'.st # "none"
               PROVE  IF reply'.st = "data" THEN reply' = system' ELSE system'.cart \notin Roms
  BY <1>0 DEF Snapshot
<1>2. wpc = "drain" /\ queue # <<>> /\ Swapping
  BY <1>0, <1>1, Receives DEF Swapping, WorkerGone
<1>3. pc = "wait" /\ reply.st = "none"
  BY <1>1, <1>2, Resting
<1>4. Head(queue).live
  BY <1>1, <1>3 DEF HandleCommand, ReplaceSystem, ClearSystem, SetPaused, HoldStart, DumpFrame,
     SaveData, SaveState, LoadState, Shutdown, Answer
<1>5. Head(queue).op = "SaveData"
  <2>1. Head(queue) = queue[1] /\ 1 \in DOMAIN queue
    BY <1>0, <1>2, TailPlaces
  <2>2. Head(queue).op = RequestOf(cont.kind)
    BY <1>0, <1>4, <2>1 DEF LiveIsLast
  <2> QED BY <1>2, <2>2 DEF RequestOf, Swapping
<1>6. SaveData
  BY <1>5 DEF HandleCommand, ReplaceSystem, ClearSystem, SetPaused, HoldStart, DumpFrame,
     SaveState, LoadState, Shutdown, Receive
<1>7. system' = system /\ reply' = IF Loaded /\ system.cart \in Roms THEN system ELSE Blank("err")
  BY <1>4, <1>6 DEF SaveData, Answer
<1>8. CASE Loaded /\ system.cart \in Roms
  BY <1>7, <1>8 DEF Loaded
<1>9. CASE ~(Loaded /\ system.cart \in Roms)
  <2>1. system.cart \notin Roms
    BY <1>9 DEF SwapBase, MachinePresent, Loaded
  <2> QED BY <1>7, <1>9, <2>1 DEF Blank
<1> QED BY <1>8, <1>9

LEMMA HandleSwaps ==
  ASSUME SwapBase, SwapInv, HandleCommand, UNCHANGED <<guiVars, fileVars>>
  PROVE  RomSwapLast' /\ SwapSafe'
<1>0. /\ pc' = pc /\ saves' = saves /\ queue \in Seq(Command) /\ LiveIsLast /\ AnswerComes
  BY DEF guiVars, fileVars, SwapBase, IInv, Owned, TypeInv, TypeOK, WorkerTypeOK, Synchronous
<1>1. CASE wpc' = "exited"
  <2>1. queue' = <<>>
    BY <1>1, Receives
  <2> QED BY <1>1, <2>1, EmptyWorker DEF RomSwapLast, SwapSafe, WorkerGone
<1>2. CASE wpc' # "exited"
  <2>1. queue # <<>> /\ queue' = Tail(queue) /\ ~WorkerGone
    BY <1>2, Receives DEF WorkerGone
  <2>2. /\ Head(queue) = queue[1] /\ 1 \in DOMAIN queue /\ Len(queue) \in Nat \ {0}
        /\ DOMAIN queue = 1 .. Len(queue) /\ DOMAIN queue' = 1 .. (Len(queue) - 1)
        /\ \A i \in DOMAIN queue' : /\ queue'[i] = queue[i + 1] /\ i + 1 \in DOMAIN queue
                                    /\ i \in Nat
    BY <1>0, <2>1, TailPlaces
  <2>3. /\ \A i \in Nat : SwapBehind(queue', i) => SwapBehind(queue, i + 1)
        /\ SwapBehind(queue', 0) => SwapBehind(queue, 0 + 1) /\ SwapBehind(queue, 0)
    BY <1>0, <2>1, TailSwaps, SwapBehindLess
  <2>4. RomSwapLast'
    <3> SUFFICES ASSUME NEW i \in DOMAIN queue', queue'[i].op = "ReplaceSystem",
                        queue'[i].img.cart \in Roms
                 PROVE  ~SwapBehind(queue', i) /\ pc # "swap"
      BY <1>0 DEF RomSwapLast
    <3> QED BY <2>2, <2>3 DEF SwapInv, RomSwapLast
  <2>5. SwapSafe'
    <3> SUFFICES ASSUME system'.cart \in Roms, SwapBehind(queue', 0) \/ pc = "swap"
                 PROVE  Discardable'
      BY <1>0 DEF SwapSafe
    <3>1. CASE ReplaceSystem
      <4>1. queue[1].op = "ReplaceSystem" /\ queue[1].img.cart \in Roms
        BY <2>2, <3>1 DEF ReplaceSystem, Receive
      <4>2. ~SwapBehind(queue, 1) /\ pc # "swap"
        BY <2>2, <4>1 DEF SwapInv, RomSwapLast
      <4> QED BY <2>3, <4>2
    <3>2. CASE ClearSystem
      BY <3>2, CartAssumption DEF ClearSystem, Blank
    <3>3. CASE LoadState
      <4>1. queue[1].live
        BY <1>0, <2>2, <3>3 DEF LoadState, Receive, AnswerComes, Requests
      <4>2. 1 = Len(queue) /\ pc = "wait"
        BY <1>0, <2>2, <4>1 DEF LiveIsLast
      <4>3. DOMAIN queue' = {}
        <5>1. Len(queue) - 1 = 0 /\ 1 .. 0 = {}
          BY <4>2
        <5> QED BY <2>2, <5>1
      <4> QED BY <4>2, <4>3 DEF SwapBehind
    <3>4. CASE SetPaused \/ HoldStart \/ DumpFrame \/ SaveData \/ SaveState
      <4>1. system' = system /\ (paused' = paused \/ queue[1].op = "SetPaused")
        BY <2>2, <3>4 DEF SetPaused, HoldStart, DumpFrame, SaveData, SaveState, Receive
      <4>2. Discardable
        BY <2>1, <2>3, <4>1 DEF SwapInv, SwapSafe
      <4>3. queue[1].op # "SetPaused"
        <5>1. \A j \in DOMAIN queue : ~(j < 1)
          BY <2>2
        <5> QED BY <2>2, <4>2, <5>1 DEF Discardable, SwapFirst
      <4>4. ~IsSwap(queue[1])
        BY <2>2, <3>4 DEF SetPaused, HoldStart, DumpFrame, SaveData, SaveState, Receive, IsSwap
      <4>5. ASSUME NEW i \in DOMAIN queue', queue'[i].op \in {"SetPaused", "LoadState"}
            PROVE  \E j \in DOMAIN queue' : j < i /\ IsSwap(queue'[j])
        <5>1. PICK j \in DOMAIN queue : j < i + 1 /\ IsSwap(queue[j])
          BY <2>2, <4>2, <4>5 DEF Discardable, SwapFirst
        <5>2. j # 1
          BY <4>4, <5>1
        <5>3. j - 1 \in DOMAIN queue' /\ j - 1 < i /\ (j - 1) + 1 = j
          BY <2>2, <5>1, <5>2
        <5>4. queue'[j - 1] = queue[j]
          BY <2>2, <5>3
        <5> QED BY <5>1, <5>3, <5>4
      <4> QED BY <1>0, <4>1, <4>2, <4>3, <4>5 DEF Discardable, SwapFirst, SavedOnDisk
    <3> QED
      BY <1>2, <3>1, <3>2, <3>3, <3>4 DEF HandleCommand, Shutdown
  <2> QED BY <2>4, <2>5
<1> QED BY <1>1, <1>2

LEMMA FrameSwaps ==
  ASSUME Undisturbed, SwapBase, SwapInv, StartFrame \/ RunFrame \/ StopWorker \/ WorkerDies,
         UNCHANGED <<guiVars, fileVars>>
  PROVE  SwapInv'
<1>0. /\ pc' = pc /\ cont' = cont /\ saves' = saves
      /\ system \in [st : {"none", "data"}, cart : Carts \cup {NoCart}, sram : Nat]
  BY DEF guiVars, fileVars, SwapBase, IInv, TypeInv, TypeOK, WorkerTypeOK
<1>1. CASE WorkerDies
  <2>1. queue' = <<>> /\ wpc' = "exited"
    BY <1>1 DEF WorkerDies
  <2> QED
    BY <2>1, EmptyWorker DEF SwapInv, Snapshot, RomSwapLast, SwapSafe, Swapping, WorkerGone
<1>2. CASE StartFrame
  <2>1. queue' = queue /\ reply' = reply /\ system' = system /\ paused' = paused
        /\ wpc # "exited" /\ wpc' # "exited"
    BY <1>2 DEF StartFrame
  <2> QED
    BY <1>0, <2>1 DEF SwapInv, Snapshot, RomSwapLast, SwapSafe, Swapping, WorkerGone, Discardable,
       SavedOnDisk
<1>3. CASE RunFrame
  <2>1. /\ wpc = "frame" /\ queue' = queue /\ reply' = reply /\ wpc' # "exited"
        /\ system'.cart = system.cart
    BY <1>0, <1>3 DEF RunFrame, TakeFrameRequest, Advance
  <2>2. ~paused /\ ~WorkerGone
    BY <2>1 DEF SwapBase, Quiet, WorkerGone
  <2>3. Snapshot'
    <3>1. ~(Swapping /\ pc \in {"wait", "write"} /\ (pc = "write" \/ reply.st # "none"))
      BY <2>1, Resting
    <3>2. Swapping' => Swapping
      BY <1>0, <2>2 DEF Swapping
    <3> QED BY <1>0, <2>1, <3>1, <3>2 DEF Snapshot
  <2>4. SwapSafe'
    <3>1. ~Discardable
      BY <2>2 DEF Discardable
    <3> QED BY <1>0, <2>1, <2>2, <3>1 DEF SwapInv, SwapSafe
  <2>5. RomSwapLast'
    BY <1>0, <2>1 DEF SwapInv, RomSwapLast
  <2> QED BY <2>3, <2>4, <2>5 DEF SwapInv
<1>4. ~StopWorker
  BY DEF StopWorker, Undisturbed
<1> QED BY <1>1, <1>2, <1>3, <1>4

(* How an operation comes to swap: without a file to save to, with nothing *)
(* to save, or with the image just written.                                *)
LEMMA SwapEntered ==
  ASSUME Undisturbed, SwapBase, GuiStep \/ TimerStep \/ UserStep, pc' = "swap", ~WorkerGone
  PROVE  /\ queue' = queue
         /\ \/ romPath = NoCart /\ pc = "save" /\ saves' = saves
            \/ /\ Swapping /\ queue = <<>> /\ paused
               /\ \/ pc = "wait" /\ reply.st \notin {"none", "data"}
                  \/ pc = "write" /\ WriteFile(reply)
<1>1. AfterSave /\ (SaveRequest \/ ReplyDone \/ NoReply \/ WriteDone)
  BY DEF GuiStep, TimerStep, UserStep, Freeze, SaveRequest, StateRequest, ReplyWritten,
     ReplyDone, NoReply, WriteDone, SwapRom, SwapBios, SwapNothing, Hold, Resume, SendShutdown,
     Join, OpenRecent, OpenDialog, CloseDialog, RequestReset, TogglePause, PressDumpKey, StateMenu,
     ToggleCapture, Quit, TimerOpen, TimerReset, TimerEvents, TimerFlush, TimerFree, UserMay, Begin,
     guiVars
<1>2. cont.kind \in {"load", "bios"}
  BY <1>1 DEF AfterSave
<1>3. CASE SaveRequest
  BY <1>3 DEF SaveRequest, workerVars, fileVars
<1>4. CASE ReplyDone
  <2>1. pc = "wait" /\ reply.st \notin {"none", "data"} /\ Swapping /\ queue' = queue
    BY <1>2, <1>4 DEF ReplyDone, WantsFile, Undisturbed, workerVars, Swapping
  <2> QED BY <2>1, Resting
<1>5. CASE NoReply
  BY <1>5 DEF NoReply, Undisturbed
<1>6. CASE WriteDone
  <2>1. pc = "write" /\ WriteFile(reply) /\ Swapping /\ queue' = queue
    BY <1>2, <1>6 DEF WriteDone, Undisturbed, workerVars, Swapping
  <2> QED BY <2>1, Resting
<1> QED BY <1>1, <1>3, <1>4, <1>5, <1>6

LEMMA GuiRomSwap ==
  ASSUME Undisturbed, SwapBase, SwapInv, GuiStep \/ TimerStep \/ UserStep
  PROVE  RomSwapLast'
<1>0. /\ queue \in Seq(Command) /\ TypeInv /\ QueueCovered(queue, Target) /\ GoneIsEmpty
      /\ ReplacePresent
  BY DEF SwapBase, IInv, Owned, MachinesCovered, TypeInv, TypeOK, WorkerTypeOK
<1>1. CASE WorkerGone /\ (queue' = queue \/ NoReply)
  <2>1. DOMAIN queue' = {}
    BY <1>0, <1>1, EmptyWorker, DropPlaces DEF GoneIsEmpty, WorkerGone, NoReply
  <2> QED BY <2>1 DEF RomSwapLast
<1>2. CASE ~WorkerGone /\ NoReply
  BY <1>2 DEF NoReply, Undisturbed
<1>3. CASE ~WorkerGone /\ queue' = queue
  <2> SUFFICES ASSUME NEW i \in DOMAIN queue, queue[i].op = "ReplaceSystem",
                      queue[i].img.cart \in Roms
               PROVE  ~SwapBehind(queue, i) /\ pc' # "swap"
    BY <1>3 DEF RomSwapLast
  <2>1. ~SwapBehind(queue, i)
    BY DEF SwapInv, RomSwapLast
  <2>2. ASSUME pc' = "swap" PROVE FALSE
    <3>1. CASE romPath = NoCart /\ pc = "save"
      <4>1. Target = NoCart /\ Covered(queue, i, queue[i].img, NoCart)
        BY <1>0, <3>1 DEF Target, QueueCovered
      <4>2. queue[i].img.cart \in {Bios, NoCart}
        BY <1>0, <2>1, <4>1 DEF ReplacePresent, Covered
      <4> QED BY <4>2, CartAssumption
    <3>2. CASE queue = <<>>
      BY <3>2, EmptyWorker
    <3> QED BY <1>3, <2>2, <3>1, <3>2, SwapEntered
  <2> QED BY <2>1, <2>2
<1>4. ASSUME ~WorkerGone, NEW c \in Command, queue' = Append(queue, c), Sent(c)
      PROVE  RomSwapLast'
  <2>1. pc' # "swap" /\ (IsSwap(c) => pc = "swap")
    BY <1>4 DEF Sent, IsSwap, Requests
  <2>2. /\ Len(queue) \in Nat /\ DOMAIN queue = 1 .. Len(queue)
        /\ DOMAIN queue' = 1 .. Len(queue) + 1 /\ queue'[Len(queue) + 1] = c
        /\ \A i \in DOMAIN queue : queue'[i] = queue[i]
    BY <1>0, <1>4, AppendPlaces
  <2>3. SUFFICES ASSUME NEW i \in DOMAIN queue', queue'[i].op = "ReplaceSystem",
                        queue'[i].img.cart \in Roms, NEW j \in DOMAIN queue', j > i,
                        IsSwap(queue'[j])
                 PROVE  FALSE
    BY <2>1 DEF RomSwapLast, SwapBehind
  <2>4. i \in DOMAIN queue /\ queue'[i] = queue[i]
    BY <2>2, <2>3
  <2>5. ~SwapBehind(queue, i) /\ pc # "swap"
    BY <2>3, <2>4 DEF SwapInv, RomSwapLast
  <2>6. CASE j \in DOMAIN queue
    BY <2>2, <2>3, <2>5, <2>6 DEF SwapBehind
  <2>7. CASE j \notin DOMAIN queue
    <3>1. j = Len(queue) + 1
      BY <2>2, <2>7
    <3> QED BY <2>1, <2>2, <2>3, <2>5, <3>1
  <2> QED BY <2>6, <2>7
<1> QED BY <1>0, <1>1, <1>2, <1>3, <1>4, GuiSends

LEMMA GuiSnapshot ==
  ASSUME SwapBase, Snapshot, GuiStep \/ TimerStep \/ UserStep
  PROVE  Snapshot'
<1>0. system' = system
  BY GuiShows
<1>1. SUFFICES ASSUME Swapping', pc' \in {"wait", "write"}, reply'.st # "none"
               PROVE  Swapping /\ pc \in {"wait", "write"} /\ reply.st # "none" /\ reply' = reply
  BY <1>0 DEF Snapshot
<1>2. CASE ReplyWritten
  BY <1>1, <1>2 DEF ReplyWritten, workerVars, Swapping, WorkerGone
<1>3. CASE SaveRequest \/ StateRequest
  BY <1>1, <1>3 DEF SaveRequest, StateRequest, AfterSave, Ask, Blank
<1> QED
  BY <1>1, <1>2, <1>3 DEF GuiStep, TimerStep, UserStep, Freeze, ReplyDone, NoReply, WriteDone,
     SwapRom, SwapBios, SwapNothing, Hold, Resume, SendShutdown, Join, AfterSave, OpenRecent,
     OpenDialog, CloseDialog, RequestReset, TogglePause, PressDumpKey, StateMenu, ToggleCapture,
     Quit, TimerOpen, TimerReset, TimerEvents, TimerFlush, TimerFree, UserMay, Begin, guiVars

LEMMA GuiSwapSafe ==
  ASSUME Undisturbed, SwapBase, SwapInv, GuiStep \/ TimerStep \/ UserStep
  PROVE  SwapSafe'
<1>0. /\ queue \in Seq(Command) /\ TypeInv /\ Covered(queue, 0, system, Target) /\ ReplyOwned
      /\ saves \in [Roms -> Image] /\ system' = system
  BY GuiShows DEF SwapBase, IInv, Owned, MachinesCovered, TypeInv, TypeOK, WorkerTypeOK
<1>1. wpc' = wpc /\ paused' = paused
  BY DEF GuiStep, TimerStep, UserStep, Freeze, SaveRequest, StateRequest, ReplyWritten,
     ReplyDone, NoReply, WriteDone, SwapRom, SwapBios, SwapNothing, Hold, Resume,
     SendShutdown, Join, OpenRecent, OpenDialog, CloseDialog, RequestReset, TogglePause,
     PressDumpKey, StateMenu, ToggleCapture, Quit, TimerOpen, TimerReset, TimerEvents,
     TimerFlush, DrainEvents, Begin, Tell, Ask, OnlyQueue, workerVars
<1>2. SUFFICES ASSUME system.cart \in Roms, ~WorkerGone, SwapBehind(queue', 0) \/ pc' = "swap"
               PROVE  Discardable'
  BY <1>0, <1>1 DEF SwapSafe, WorkerGone
<1>3. ASSUME SwapBehind(queue, 0) \/ pc = "swap" PROVE Discardable
  BY <1>2, <1>3 DEF SwapInv, SwapSafe
<1>4. CASE pc' = "swap"
  <2>1. CASE romPath = NoCart /\ pc = "save" /\ saves' = saves
    <3>1. system.cart \in {Bios, NoCart} \/ SwapBehind(queue, 0)
      BY <1>0, <1>2, <2>1 DEF SwapBase, MachinePresent, Covered, Target
    <3>2. Discardable
      BY <1>2, <1>3, <3>1, CartAssumption
    <3>3. queue' = queue
      BY <1>2, <1>4, SwapEntered
    <3> QED BY <1>0, <1>1, <2>1, <3>2, <3>3 DEF Discardable, SavedOnDisk
  <2>2. CASE Swapping /\ pc = "wait" /\ reply.st \notin {"none", "data"}
    BY <1>2, <2>2 DEF SwapInv, Snapshot
  <2>3. CASE Swapping /\ pc = "write" /\ WriteFile(reply) /\ queue = <<>> /\ paused
    <3>1. reply.st = "data" /\ cont.kind \in {"load", "bios"}
      BY <1>2, <2>3 DEF SwapBase, Synchronous, Awaited, Swapping
    <3>2. reply = system /\ reply.cart = romPath
      BY <1>0, <2>3, <3>1 DEF SwapInv, Snapshot, ReplyOwned
    <3>3. saves'[romPath] = reply
      BY <1>0, <1>2, <2>3, <3>1, <3>2 DEF WriteFile
    <3>4. SavedOnDisk(system.cart)'
      BY <1>0, <3>1, <3>2, <3>3 DEF SavedOnDisk
    <3>5. DOMAIN queue' = {}
      BY <1>2, <1>4, <2>3, SwapEntered, EmptyWorker
    <3> QED BY <1>1, <2>3, <3>4, <3>5 DEF Discardable, SwapFirst
  <2> QED BY <1>2, <1>4, <2>1, <2>2, <2>3, SwapEntered
<1>5. CASE ReplyWritten \/ WriteDone
  <2>1. queue = <<>> /\ queue' = queue
    BY <1>2, <1>5 DEF ReplyWritten, WriteDone, workerVars, SwapBase, Synchronous, Awaited
  <2> QED BY <1>2, <1>4, <2>1, EmptyWorker DEF SwapBehind
<1>6. CASE ~ReplyWritten /\ ~WriteDone
  <2>1. saves' = saves
    BY <1>6 DEF GuiStep, TimerStep, UserStep, Freeze, SaveRequest, StateRequest,
       ReplyDone, NoReply, SwapRom, SwapBios, SwapNothing, Hold, Resume,
       SendShutdown, Join, OpenRecent, OpenDialog, CloseDialog, RequestReset, TogglePause,
       PressDumpKey, StateMenu, ToggleCapture, Quit, TimerOpen, TimerReset, TimerEvents,
       TimerFlush, DrainEvents, Begin, fileVars
  <2>2. CASE queue' = queue /\ pc' # "swap"
    BY <1>0, <1>1, <1>2, <1>3, <2>1, <2>2 DEF Discardable, SavedOnDisk
  <2>3. CASE NoReply
    BY <1>2, <2>3 DEF NoReply, Undisturbed
  <2>4. ASSUME NEW c \in Command, queue' = Append(queue, c), Sent(c), pc' # "swap"
        PROVE  Discardable'
    <3>1. /\ Len(queue) \in Nat /\ DOMAIN queue = 1 .. Len(queue)
          /\ DOMAIN queue' = 1 .. Len(queue) + 1 /\ queue'[Len(queue) + 1] = c
          /\ \A i \in DOMAIN queue : queue'[i] = queue[i]
      BY <1>0, <2>4, AppendPlaces
    <3>2. SwapBehind(queue, 0) \/ IsSwap(c)
      <4>1. PICK j \in DOMAIN queue' : j > 0 /\ IsSwap(queue'[j])
        BY <1>2, <2>4 DEF SwapBehind
      <4>2. j = Len(queue) + 1 \/ j \in DOMAIN queue
        BY <3>1
      <4> QED BY <3>1, <4>1, <4>2 DEF SwapBehind
    <3>3. IsSwap(c) => pc = "swap"
      BY <2>4 DEF Sent, IsSwap, Requests
    <3>4. Discardable
      BY <1>3, <3>2, <3>3
    <3>5. ASSUME NEW i \in DOMAIN queue', queue'[i].op \in {"SetPaused", "LoadState"}
          PROVE  \E j \in DOMAIN queue' : j < i /\ IsSwap(queue'[j])
      <4>1. CASE i \in DOMAIN queue
        <5>1. PICK j \in DOMAIN queue : j < i /\ IsSwap(queue[j])
          BY <3>1, <3>4, <3>5, <4>1 DEF Discardable, SwapFirst
        <5>2. j \in DOMAIN queue' /\ queue'[j] = queue[j]
          BY <3>1
        <5> QED BY <5>1, <5>2
      <4>2. CASE i = Len(queue) + 1
        <5>1. ~IsSwap(c)
          BY <3>1, <3>5, <4>2 DEF IsSwap
        <5>2. PICK j \in DOMAIN queue : j > 0 /\ IsSwap(queue[j])
          BY <3>2, <5>1 DEF SwapBehind
        <5>3. j \in DOMAIN queue' /\ queue'[j] = queue[j] /\ j < i
          BY <3>1, <4>2
        <5> QED BY <5>2, <5>3
      <4> QED BY <3>1, <4>1, <4>2
    <3> QED BY <1>0, <1>1, <2>1, <3>4, <3>5 DEF Discardable, SwapFirst, SavedOnDisk
  <2> QED BY <1>0, <1>4, <2>2, <2>3, <2>4, GuiSends
<1> QED BY <1>5, <1>6

(* A swap never loses save RAM: the machine that ReplaceSystem or          *)
(* ClearSystem discards has its save RAM in its file as it is, if replies  *)
(* come in time, nothing faults, writes succeed and no frame is dumped --  *)
(* even if the worker dies or the program is killed at any point.          *)
THEOREM SwapsSaved ==
  ASSUME Undisturbed
  PROVE  Spec => SwapLosesNothing
<1>1. Init => SwapInv
  BY EmptyWorker, CartAssumption
     DEF Init, WorkerInit, GuiInit, SwapInv, Snapshot, Swapping, RomSwapLast, SwapSafe, Blank
<1>2. SwapBase /\ SwapInv /\ [Next]_vars => SwapInv'
  <2> SUFFICES ASSUME SwapBase, SwapInv, [Next]_vars PROVE SwapInv'
    OBVIOUS
  <2>1. CASE UNCHANGED vars
    BY <2>1 DEF vars, workerVars, guiVars, fileVars, SwapInv, Snapshot, Swapping, RomSwapLast,
       SwapSafe, Discardable, SavedOnDisk, WorkerGone
  <2>2. CASE WorkerNext /\ UNCHANGED <<guiVars, fileVars>>
    BY <2>2, HandleSnapshot, HandleSwaps, FrameSwaps DEF WorkerNext, SwapInv
  <2>3. CASE Boot
    <3>1. queue' = <<>> /\ system'.cart = NoCart /\ pc' = "idle"
      BY <2>3 DEF Boot, Blank
    <3> QED
      BY <3>1, EmptyWorker, CartAssumption
         DEF SwapInv, Snapshot, Swapping, RomSwapLast, SwapSafe
  <2>4. CASE GuiStep \/ TimerStep \/ UserStep
    BY <2>4, GuiRomSwap, GuiSnapshot, GuiSwapSafe DEF SwapInv
  <2> QED BY <2>1, <2>2, <2>3, <2>4 DEF Next, Crash, Relaunch
<1>3. SwapBase /\ SwapInv
        => [(ReplaceSystem \/ ClearSystem) /\ system.cart \in Roms
              => SavedOnDisk(system.cart)]_vars
  <2> SUFFICES ASSUME SwapBase, SwapInv, ReplaceSystem \/ ClearSystem, system.cart \in Roms
               PROVE  SavedOnDisk(system.cart)
    OBVIOUS
  <2>1. queue \in Seq(Command) /\ queue # <<>> /\ IsSwap(Head(queue)) /\ ~WorkerGone
    BY DEF ReplaceSystem, ClearSystem, Receive, IsSwap, WorkerGone, SwapBase, IInv, TypeInv,
       TypeOK, WorkerTypeOK
  <2>2. 1 \in DOMAIN queue /\ IsSwap(queue[1]) /\ 1 > 0
    BY <2>1, TailPlaces
  <2>3. SwapBehind(queue, 0)
    BY <2>2 DEF SwapBehind
  <2> QED BY <2>1, <2>3 DEF SwapInv, SwapSafe, Discardable
<1>4. Spec => []SwapBase
  <2>1. IInv /\ (MachinePresent /\ OutputsBelongToMachine) /\ Quiet /\ Synchronous /\ FrozenPauses
          => SwapBase
    BY DEF SwapBase
  <2> QED
    BY <2>1, Ownership, ShownInductive, QuietInductive, SynchronousInductive, FrozenInductive, PTL
<1> QED BY <1>1, <1>2, <1>3, <1>4, PTL DEF Spec, SwapLosesNothing
=============================================================================
