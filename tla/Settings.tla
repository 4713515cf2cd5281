------------------------------ MODULE Settings ------------------------------
(***************************************************************************)
(* The settings (common/src/config.rs), the menu callbacks that change     *)
(* them and the reconciliation of the full-screen state with the system's  *)
(* (frontend/src/main.rs).  A change is saved at once, by rewriting the    *)
(* file in place; the write may fail and the program may be killed in it.  *)
(***************************************************************************)
EXTENDS Integers, SequencesExt

CONSTANTS
  RomPaths,       (* paths of ROMs                                        *)
  RecentLimit,    (* RECENT_LIMIT                                         *)
  MaxVolume,      (* 100                                                  *)
  Scales, Volumes,  (* values a menu or an edited file may hold           *)
  MaxListed,      (* bound: ROMs an edited file lists                     *)
  MaxOpened       (* bound: ROMs opened in one run of the program         *)

ASSUME SettingsAssumption ==
  /\ RecentLimit \in Nat \ {0} /\ MaxVolume \in Nat
  /\ MaxListed \in Nat /\ MaxOpened \in Nat
  /\ Scales \subseteq Nat /\ Volumes \subseteq Int /\ IsFiniteSet(RomPaths)

VARIABLES
  config,         (* App.config                                           *)
  file,           (* config.toml: how it is, and what it says             *)
  running,        (* the program runs                                     *)
  unsaved,        (* history: the last save failed                        *)
  found,          (* history: the ROMs listed when the program started,   *)
                  (* none once the list was cleared                       *)
  opened,         (* history: those opened since then, the oldest first   *)
  workerVolume,   (* EmulationWorker.volume                               *)
  actual, target, (* the window is in full screen, the system takes it    *)
                  (* there                                                *)
  pending,        (* App.pending_fullscreen                               *)
  wish,           (* history: what the user last asked for                *)
  ticked          (* the timer has run since the last act of the user or  *)
                  (* of the system                                        *)

fileVars == <<file, unsaved>>
windowVars == <<actual, target, pending, wish>>
historyVars == <<found, opened>>
settingsVars == <<config, fileVars, running, historyVars, workerVolume, windowVars, ticked>>

NotPending == "not pending"

Default == [scale |-> 1, volume |-> MaxVolume, full |-> FALSE, recent |-> <<>>]

SettingsTypeOK ==
  /\ config.scale \in Nat \ {0} /\ config.volume \in 0 .. MaxVolume
  /\ config.full \in BOOLEAN /\ Len(config.recent) <= RecentLimit
  /\ file.is \in {"whole", "torn", "missing"}
  /\ pending \in {NotPending, "full", "window"}
  /\ running => workerVolume = config.volume

-----------------------------------------------------------------------------
(* The history of ROMs and the file.                                       *)

KeptRecent(paths) == SubSeq(paths, 1, IF Len(paths) < RecentLimit THEN Len(paths) ELSE RecentLimit)
AtLeast(lo, v) == IF v < lo THEN lo ELSE v
AtMost(hi, v) == IF v > hi THEN hi ELSE v

(* Config::sanitised.                                                      *)
Sanitised(c) ==
  [c EXCEPT !.scale = AtLeast(1, @), !.volume = AtMost(MaxVolume, @), !.recent = KeptRecent(@)]

(* Vec::retain: the paths but one.                                         *)
Without(paths, path) ==
  LET kept[n \in 0 .. Len(paths)] ==
        IF n = 0 THEN <<>>
        ELSE IF paths[n] = path THEN kept[n - 1] ELSE Append(kept[n - 1], paths[n])
  IN kept[Len(paths)]

(* Config::push_recent.  A bug: an earlier occurrence stays.               *)
PushAgain(c, path) == [c EXCEPT !.recent = KeptRecent(<<path>> \o @)]
PushRecent(c, path) ==
  [c EXCEPT !.recent = KeptRecent(<<path>> \o Without(@, path))]

(* Config::load_from and load.                                             *)
LoadedConfig == IF file.is = "whole" THEN Sanitised(file.says) ELSE Default

(* save: the new text, the old one when the write could not begin, or a    *)
(* part of the new one.  A bug: the change is kept in memory only.         *)
SaveLater(c) == UNCHANGED fileVars
Save(c) ==
  \/ file' = [is |-> "whole", says |-> c] /\ unsaved' = FALSE
  \/ file' \in {file, [is |-> "torn", says |-> Default]} /\ unsaved' = TRUE

-----------------------------------------------------------------------------
(* The program and its user.                                               *)

(* The window opens in the state apply_view asks for.                      *)
Launch ==
  /\ ~running /\ running' = TRUE
  /\ config' = LoadedConfig /\ Save(config')
  /\ found' = config'.recent /\ opened' = <<>>
  /\ workerVolume' = AtMost(MaxVolume, config'.volume)
  /\ actual' = config'.full /\ target' = config'.full /\ wish' = config'.full
  /\ pending' = NotPending /\ ticked' = FALSE

(* The program ends or is killed, and what it held is gone.                *)
Kill ==
  /\ running /\ running' = FALSE
  /\ config' = Default /\ unsaved' = FALSE /\ found' = <<>> /\ opened' = <<>>
  /\ workerVolume' = MaxVolume /\ actual' = FALSE /\ target' = FALSE
  /\ pending' = NotPending /\ wish' = FALSE /\ ticked' = FALSE
  /\ UNCHANGED file

(* The file is deleted or edited by hand; a volume is a byte there, and a  *)
(* list may be too long and name a ROM twice.                              *)
EditFile ==
  /\ ~running
  /\ \/ file' = [is |-> "missing", says |-> Default]
     \/ \E s \in Scales, v \in Volumes \cap Nat, f \in BOOLEAN,
           r \in SeqOf(RomPaths, MaxListed) :
          file' = [is |-> "whole", says |-> [scale |-> s, volume |-> v, full |-> f, recent |-> r]]
  /\ UNCHANGED <<config, unsaved, running, historyVars, workerVolume, windowVars, ticked>>

(* The user does one thing between two runs of the timer, and nothing      *)
(* while the system makes a transition the program did not ask for.        *)
UserActs ==
  /\ running /\ ticked /\ (actual = target \/ pending # NotPending)
  /\ ticked' = FALSE /\ UNCHANGED running

OpenRom(path) ==
  /\ UserActs /\ Len(opened) < MaxOpened
  /\ opened' = Append(opened, path) /\ UNCHANGED found
  /\ config' = PushRecent(config, path) /\ Save(config')
  /\ UNCHANGED <<workerVolume, windowVars>>

ClearRecent ==
  /\ UserActs
  /\ found' = <<>> /\ opened' = <<>>
  /\ config' = [config EXCEPT !.recent = <<>>] /\ Save(config')
  /\ UNCHANGED <<workerVolume, windowVars>>

(* apply_view asks the system for the state the settings hold.             *)
SetScale(scale) ==
  /\ UserActs
  /\ config' = [config EXCEPT !.scale = AtLeast(1, scale)] /\ Save(config')
  /\ target' = config.full
  /\ UNCHANGED <<historyVars, workerVolume, actual, pending, wish>>

SetVolume(volume) ==
  /\ UserActs
  /\ config' = [config EXCEPT !.volume = AtMost(MaxVolume, AtLeast(0, volume))] /\ Save(config')
  /\ workerVolume' = config'.volume
  /\ UNCHANGED <<historyVars, windowVars>>

-----------------------------------------------------------------------------
(* Full screen.                                                            *)

ScreenState(full) == IF full THEN "full" ELSE "window"

(* The new value of pending.  A bug: the transition is not waited for.     *)
AwaitNothing(full) == NotPending
Await(full) == ScreenState(full)

ToggleFullscreen ==
  /\ UserActs
  /\ config' = [config EXCEPT !.full = ~actual] /\ Save(config')
  /\ target' = ~actual /\ wish' = ~actual /\ pending' = Await(~actual)
  /\ UNCHANGED <<historyVars, workerVolume, actual>>

(* The title bar's button.                                                 *)
TitleBar ==
  /\ UserActs /\ pending = NotPending
  /\ target' = ~actual /\ wish' = ~actual
  /\ UNCHANGED <<config, fileVars, historyVars, workerVolume, actual, pending>>

(* The transition is over.                                                 *)
Settle ==
  /\ running /\ actual # target
  /\ actual' = target /\ ticked' = FALSE
  /\ UNCHANGED <<config, fileVars, running, historyVars, workerVolume, target, pending, wish>>

(* sync_fullscreen, which the timer calls first.                           *)
SyncFullscreen ==
  /\ running /\ ticked' = TRUE
  /\ \/ /\ pending # NotPending
        /\ pending' = IF pending = ScreenState(actual) THEN NotPending ELSE pending
        /\ UNCHANGED <<config, fileVars, target>>
     \/ /\ pending = NotPending /\ config.full # actual
        /\ config' = [config EXCEPT !.full = actual] /\ Save(config')
        /\ target' = (target /\ actual) /\ UNCHANGED pending
     \/ /\ pending = NotPending /\ config.full = actual
        /\ UNCHANGED <<config, fileVars, target, pending>>
  /\ UNCHANGED <<running, historyVars, workerVolume, actual, wish>>

SettingsInit ==
  /\ config = Default /\ file = [is |-> "missing", says |-> Default] /\ running = FALSE
  /\ unsaved = FALSE /\ found = <<>> /\ opened = <<>> /\ workerVolume = MaxVolume
  /\ actual = FALSE /\ target = FALSE /\ pending = NotPending /\ wish = FALSE /\ ticked = FALSE

SettingsNext ==
  \/ Launch \/ Kill \/ EditFile
  \/ \E path \in RomPaths : OpenRom(path)
  \/ ClearRecent
  \/ \E scale \in Scales : SetScale(scale)
  \/ \E volume \in Volumes : SetVolume(volume)
  \/ ToggleFullscreen \/ TitleBar \/ Settle \/ SyncFullscreen

SettingsSpec == SettingsInit /\ [][SettingsNext]_settingsVars

-----------------------------------------------------------------------------
(* Properties.                                                             *)

(* A ROM was opened when another was not to be opened again.               *)
OpenedAfter(history, path, other) ==
  \E i \in 1 .. Len(history) :
    history[i] = path /\ \A j \in i .. Len(history) : history[j] # other

(* The last ROMs of a history, each once, the latest first and ahead of    *)
(* all others: whatever is left out was opened before all that are listed, *)
(* and there was no room for it.                                           *)
ListsLatest(recent, history) ==
  /\ Len(recent) <= RecentLimit
  /\ \A m, n \in 1 .. Len(recent) :
       m < n /\ Contains(history, recent[n]) => OpenedAfter(history, recent[m], recent[n])
  /\ \A i \in 1 .. Len(history) :
       \/ Contains(recent, history[i])
       \/ /\ Len(recent) = RecentLimit
          /\ \A n \in 1 .. Len(recent) : OpenedAfter(history, recent[n], history[i])

(* The ROMs opened since the start are listed so whatever the file said,   *)
(* and nothing is listed that was neither opened nor in the file.  A file  *)
(* that names no ROM twice, as none does that the program wrote, counts as *)
(* history too; sanitised lets repetitions in an edited one stand.         *)
RecentKept ==
  /\ ListsLatest(config.recent, opened)
  /\ \A n \in 1 .. Len(config.recent) :
       Contains(opened, config.recent[n]) \/ Contains(found, config.recent[n])
  /\ IsInjective(found) => ListsLatest(config.recent, Reverse(found) \o opened)

(* While the program runs, what it shows is what it would show if it were  *)
(* killed and started again, unless its last write failed, in which case   *)
(* the change is lost and, if the write was cut short, every setting with  *)
(* it; and its recent files are the last ROMs opened (push_recent).        *)
SettingsKept ==
  running => /\ ~unsaved => file.is = "whole" /\ Sanitised(file.says) = config
             /\ RecentKept

(* Once a transition is over and the timer has run, window, settings and   *)
(* menu are in the state the user last asked for, in the menu or in the    *)
(* title bar: the program never takes the system's delay for a change.     *)
FullscreenSettles ==
  running /\ ticked /\ actual = target =>
    pending = NotPending /\ actual = wish /\ config.full = wish

=============================================================================
