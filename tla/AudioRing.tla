------------------------------ MODULE AudioRing ------------------------------
(***************************************************************************)
(* The ring of interleaved stereo samples between the emulator thread and  *)
(* the audio callback (audio/src/lib.rs, audio/src/stream.rs).  Both hold  *)
(* its mutex for a whole push, drain or clear, so each is one step.        *)
(*                                                                         *)
(* A sample is a number that tells its side and its origin: the pair k is  *)
(* 2k - 1 on the left and 2k on the right; 0 is silence.  Volume and the   *)
(* device's sample format change values only and are left out.             *)
(***************************************************************************)
EXTENDS Naturals, Sequences

CONSTANTS
  RingCapacity,   (* RING_CAPACITY, in samples                            *)
  MaxPairs,       (* bound: stereo pairs in a push, and a device request  *)
  PairKinds       (* bound: pairs that can be told apart                  *)

ASSUME RingAssumption ==
  /\ RingCapacity \in Nat \ {0} /\ RingCapacity % 2 = 0
  /\ MaxPairs \in Nat /\ PairKinds \in Nat

VARIABLES
  ringBuf, ringHead, ringLen,   (* RingBuffer: buffer, head, len          *)
  drained                       (* what the last drain gave the device    *)

ringVars == <<ringBuf, ringHead, ringLen, drained>>

Slots == 0 .. RingCapacity - 1
Samples == 0 .. 2 * PairKinds
Frames ==   (* a frame's samples: whole stereo pairs *)
  { [i \in 1 .. 2 * Len(p) |-> 2 * p[(i + 1) \div 2] - (i % 2)] :
      p \in UNION {[1 .. n -> 1 .. PairKinds] : n \in 0 .. MaxPairs} }
DeviceRequests == {2 * n : n \in 0 .. MaxPairs}   (* the stream has two channels *)

RingTypeOK ==
  /\ ringBuf \in [Slots -> Samples] /\ ringHead \in Slots
  /\ ringLen \in 0 .. RingCapacity

RingInit ==
  /\ ringBuf = [i \in Slots |-> 0] /\ ringHead = 0 /\ ringLen = 0
  /\ drained = <<>>

(* The slot i places behind the oldest sample.                             *)
Slot(i) == (ringHead + i) % RingCapacity

(* How many samples of a push are stored: what fits.  A bug: nothing       *)
(* limits it.                                                              *)
StoredAll(s) == Len(s)
Stored(s) == IF Len(s) < RingCapacity - ringLen THEN Len(s) ELSE RingCapacity - ringLen

(* AudioProducer::push.                                                    *)
RingPush(s) ==
  /\ ringBuf' = [j \in Slots |->
       LET i == (j + RingCapacity - Slot(ringLen)) % RingCapacity   \* j = Slot(ringLen + i)
       IN  IF i < Stored(s) THEN s[i + 1] ELSE ringBuf[j]]
  /\ ringLen' = ringLen + Stored(s)
  /\ UNCHANGED <<ringHead, drained>>

(* The audio callback drains n samples and pads with silence.              *)
RingDrain(n) ==
  LET got == IF n < ringLen THEN n ELSE ringLen
  IN  /\ drained' = [i \in 1 .. n |-> IF i <= got THEN ringBuf[Slot(i - 1)] ELSE 0]
      /\ ringHead' = Slot(got)
      /\ ringLen' = ringLen - got
      /\ UNCHANGED ringBuf

(* RingBuffer::clear.                                                      *)
RingClear == ringHead' = 0 /\ ringLen' = 0 /\ UNCHANGED <<ringBuf, drained>>

RingNext ==
  \/ \E s \in Frames : RingPush(s)
  \/ \E n \in DeviceRequests : RingDrain(n)
  \/ RingClear

RingSpec == RingInit /\ [][RingNext]_ringVars

-----------------------------------------------------------------------------
(* Properties.                                                             *)

Contents == [i \in 1 .. ringLen |-> ringBuf[Slot(i - 1)]]

Queue == INSTANCE SampleQueue
           WITH Capacity <- RingCapacity, Silence <- 0, Pushes <- Frames,
                Requests <- DeviceRequests, queued <- Contents, played <- drained

(* The ring is the queue its documentation describes: "overruns drop the   *)
(* newest samples; underruns are padded with silence".                     *)
RingIsQueue == Queue!QueueSpec
=============================================================================
