----------------------------- MODULE SampleQueue -----------------------------
(***************************************************************************)
(* What the audio ring promises the emulator thread and the audio callback *)
(* (the doc comments of RingBuffer): a first-in first-out queue of samples *)
(* that drops the newest samples when it is full and pads with silence     *)
(* when it is empty.                                                       *)
(***************************************************************************)
EXTENDS Naturals, Sequences

CONSTANTS
  Capacity, Silence,
  Pushes,     (* what the producer may push: a set of sequences           *)
  Requests    (* how much the device may ask for at a time                *)

VARIABLES
  queued,   (* the samples waiting                                        *)
  played    (* what the last callback handed to the device                *)

QueueInit == queued = <<>> /\ played = <<>>

Shorter(m, n) == IF m < n THEN m ELSE n

Enqueue(samples) ==
  /\ queued' = SubSeq(queued \o samples, 1, Shorter(Len(queued \o samples), Capacity))
  /\ UNCHANGED played

Dequeue(n) ==
  /\ played' = [i \in 1 .. n |-> IF i <= Len(queued) THEN queued[i] ELSE Silence]
  /\ queued' = SubSeq(queued, n + 1, Len(queued))

Flush == queued' = <<>> /\ UNCHANGED played

QueueNext ==
  \/ \E s \in Pushes : Enqueue(s)
  \/ \E n \in Requests : Dequeue(n)
  \/ Flush

QueueSpec == QueueInit /\ [][QueueNext]_<<queued, played>>
=============================================================================
