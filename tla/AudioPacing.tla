----------------------------- MODULE AudioPacing -----------------------------
(***************************************************************************)
(* When the emulation thread runs a frame: worker_loop and the tail of     *)
(* run_one_frame in frontend/src/emulation.rs, paced by the clock and by   *)
(* how full the audio ring is.                                             *)
(*                                                                         *)
(* Time passes in ticks, and only while the thread waits or is inside a    *)
(* frame: a tick is at most COMMAND_POLL_INTERVAL.  `due` is next_frame_at *)
(* minus now.  The device drains the ring as time passes.                  *)
(***************************************************************************)
EXTENDS Integers

CONSTANTS
  PacingCapacity,   (* RING_CAPACITY, in some unit of samples             *)
  FrameSamples,     (* what a frame adds, at the device's rate            *)
  Drained,          (* what the device may take in a tick: a set          *)
  FramePeriod,      (* frame_period, in ticks                             *)
  Poll,             (* COMMAND_POLL_INTERVAL, in ticks                    *)
  FrameTicks        (* how long a frame may take to emulate: a set        *)

ASSUME PacingAssumption ==
  /\ PacingCapacity \in Nat \ {0} /\ FrameSamples \in Nat \ {0}
  /\ Drained \subseteq Nat /\ FrameTicks \subseteq Nat
  /\ FramePeriod \in Nat \ {0} /\ Poll \in Nat \ {0}

VARIABLES
  fill,      (* samples in the ring                                       *)
  due,       (* next_frame_at - now, and no less than -Late               *)
  rest,      (* ticks until the thread looks again or ends its frame      *)
  busy,      (* "frame" or "dump" inside run_one_frame, else "no"         *)
  halted,    (* paused, or no machine: ~runnable without a dump request   *)
  dump,      (* dump_requested                                            *)
  primed,    (* history: since the last flush the ring has been above the *)
             (* low mark and every frame took less than a period          *)
  missed,    (* history: the device ran dry while primed                  *)
  lost,      (* history: samples of a frame nobody asked to dump were lost *)
  burst      (* history: frames in a row without a wait, dumps aside; a   *)
             (* frame that takes half a period or more starts afresh      *)

pacingVars == <<fill, due, rest, busy, halted, dump, primed, missed, lost, burst>>

Late == 4 * FramePeriod + 1   (* bound: how late is told apart            *)

(* What brings a late schedule up to date, each frame half a period at     *)
(* least, and what fills an empty ring to its low mark, each half a frame. *)
MaxBurst == LET feeding == (PacingCapacity - 1) \div (2 * FrameSamples) + 1
            IN IF feeding > 3 THEN feeding ELSE 3

PacingTypeOK ==
  /\ fill \in 0 .. PacingCapacity /\ due \in Int /\ due >= 0 - Late
  /\ rest \in Nat /\ burst \in Nat
  /\ busy \in {"no", "frame", "dump"}
  /\ {halted, dump, primed, missed, lost} \subseteq BOOLEAN

PacingInit ==
  /\ fill = 0 /\ due = 0 /\ rest = 0 /\ busy = "no"
  /\ halted = TRUE /\ dump = FALSE
  /\ primed = FALSE /\ missed = FALSE /\ lost = FALSE /\ burst = 0

(* audio_low, audio_high.  A bug: the ring is left to empty.               *)
AudioLowNever == FALSE
AudioLow == fill * 4 < PacingCapacity
AudioHigh == fill * 4 >= PacingCapacity * 3

ShouldRun == dump \/ (~AudioHigh /\ (AudioLow \/ due <= 0))

(* The thread looks: it runs a frame, or waits a poll interval or until    *)
(* the frame is due.                                                       *)
StartsFrame ==
  /\ busy = "no" /\ rest = 0 /\ (~halted \/ dump) /\ ShouldRun
  /\ busy' = IF dump THEN "dump" ELSE "frame"
  /\ dump' = FALSE
  /\ \E ticks \in FrameTicks :
       /\ rest' = ticks
       /\ primed' = (primed /\ ticks < FramePeriod)
       /\ burst' = IF 2 * ticks >= FramePeriod THEN 0
                   ELSE IF dump \/ burst > MaxBurst THEN burst ELSE burst + 1
  /\ UNCHANGED <<fill, due, halted, missed, lost>>

ThreadWaits ==
  /\ busy = "no" /\ rest = 0 /\ (halted \/ ~ShouldRun) /\ ~dump
  /\ rest' = IF halted \/ AudioHigh \/ due > Poll THEN Poll ELSE due
  /\ burst' = 0
  /\ UNCHANGED <<fill, due, busy, halted, dump, primed, missed, lost>>

(* The tail of run_one_frame: push, then the next time.  A late schedule   *)
(* starts afresh.                                                          *)
NextDue == IF due < 0 - 2 * FramePeriod THEN FramePeriod ELSE due + FramePeriod

EndsFrame ==
  /\ busy # "no" /\ rest = 0
  /\ LET full == fill + FrameSamples
     IN  /\ fill' = IF full > PacingCapacity THEN PacingCapacity ELSE full
         /\ lost' = (lost \/ (full > PacingCapacity /\ busy = "frame"))
         /\ primed' = (primed \/ full * 4 >= PacingCapacity)
  /\ due' = NextDue
  /\ busy' = "no"
  /\ UNCHANGED <<rest, halted, dump, missed, burst>>

(* reset_pacing and clear_audio: a pause, a resume, a state load or a new  *)
(* machine; a command also ends the wait.                                  *)
RestartPacing(stop) ==
  /\ busy = "no"
  /\ fill' = 0 /\ due' = 0 /\ rest' = 0 /\ halted' = stop
  /\ primed' = FALSE /\ burst' = 0
  /\ UNCHANGED <<busy, dump, missed, lost>>

RequestDump ==
  /\ due <= FramePeriod   \* bound: each dump puts the schedule a period ahead
  /\ busy = "no" /\ dump' = TRUE /\ rest' = 0
  /\ UNCHANGED <<fill, due, busy, halted, primed, missed, lost, burst>>

TimePasses ==
  /\ rest > 0 /\ rest' = rest - 1
  /\ due' = IF due > 0 - Late THEN due - 1 ELSE due
  /\ \E n \in Drained :
       /\ fill' = IF n < fill THEN fill - n ELSE 0
       /\ missed' = (missed \/ (primed /\ n > fill /\ ~halted))
  /\ UNCHANGED <<busy, halted, dump, primed, lost, burst>>

PacingNext ==
  \/ StartsFrame \/ ThreadWaits \/ EndsFrame \/ TimePasses \/ RequestDump
  \/ \E stop \in BOOLEAN : RestartPacing(stop)

PacingSpec == PacingInit /\ [][PacingNext]_pacingVars

-----------------------------------------------------------------------------
(* Properties.                                                             *)

(* No frame the user did not ask to dump overruns the ring.                *)
NoOverrun == ~lost

(* Once the ring has been above its low mark the device never runs dry, as *)
(* long as each frame is emulated within its period.                       *)
NoUnderrun == ~missed

(* After a stall of any length the machine catches up a few frames and no  *)
(* more: it does not race through the time it missed.                      *)
NoRace == burst <= MaxBurst

(* Two clocks, the host's and the device's, pace one thread: whatever the  *)
(* device drains in a period, and however late a frame ends, the sound     *)
(* neither overflows nor runs dry nor does the game race.                  *)
PacingKept == NoOverrun /\ NoUnderrun /\ NoRace
=============================================================================
