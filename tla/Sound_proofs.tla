---------------------------- MODULE Sound_proofs ----------------------------
(***************************************************************************)
(* From the APU to the sound device.  The ring of samples implements the   *)
(* queue, for every even capacity and every size of a push and of a device *)
(* request; the resampler neither drifts nor skips at any pair of rates;   *)
(* the pacing of frames neither overruns the ring nor lets the device run  *)
(* dry nor races through the time a stall took, for every device and frame *)
(* rate the ring is large enough for; a sweep moves the pitch within the   *)
(* longest time it can be set to, for every interval and every range of    *)
(* the registers; batches of any length leave a channel and the output     *)
(* where single cycles would; the noise register never sticks.             *)
(***************************************************************************)
EXTENDS AudioRing, Resampler, ApuSweep, ApuClock, ApuNoise, ApuMixer, AudioPacing,
        Arithmetic, SequenceTheorems

(* The samples of a ring of any buffer, head and length.                   *)
RingRead(buf, head, len) == [i \in 1 .. len |-> buf[(head + (i - 1)) % RingCapacity]]

LEMMA ContentsRead ==
  /\ Contents = RingRead(ringBuf, ringHead, ringLen)
  /\ Contents' = RingRead(ringBuf', ringHead', ringLen')
BY DEF Contents, Slot, RingRead

LEMMA CapacityFact == RingCapacity \in Nat \ {0} /\ Slots = 0 .. RingCapacity - 1
BY RingAssumption DEF Slots

(* A ring holds a sequence as long as its length says.                     *)
LEMMA ReadIsSequence ==
  ASSUME NEW buf \in [Slots -> Samples], NEW head \in Slots, NEW len \in 0 .. RingCapacity
  PROVE  /\ RingRead(buf, head, len) \in Seq(Samples)
         /\ Len(RingRead(buf, head, len)) = len
         /\ \A i \in 1 .. len : RingRead(buf, head, len)[i] = buf[(head + (i - 1)) % RingCapacity]
<1> DEFINE r == RingRead(buf, head, len)
<1>1. ASSUME NEW i \in 1 .. len PROVE buf[(head + (i - 1)) % RingCapacity] \in Samples
  <2>1. head + (i - 1) \in Nat
    BY CapacityFact, SMT
  <2>2. (head + (i - 1)) % RingCapacity \in Slots
    BY <2>1, CapacityFact, DivMod
  <2> QED BY <2>2
<1>2. r \in [1 .. len -> Samples]
  BY <1>1 DEF RingRead
<1>3. len \in Nat
  BY CapacityFact, SMT
<1>4. r \in Seq(Samples)
  BY <1>2, <1>3, SeqDef
<1>5. Len(r) \in Nat /\ DOMAIN r = 1 .. Len(r)
  BY <1>4, LenProperties
<1>6. Len(r) = len
  BY <1>2, <1>3, <1>5, SMT
<1>7. \A i \in 1 .. len : r[i] = buf[(head + (i - 1)) % RingCapacity]
  BY DEF RingRead
<1> QED BY <1>4, <1>6, <1>7

(* A frame is a sequence of samples.                                       *)
LEMMA FrameIsSequence ==
  ASSUME NEW s \in Frames
  PROVE  s \in Seq(Samples) /\ Len(s) \in Nat
<1>1. PICK p \in UNION {[1 .. n -> 1 .. PairKinds] : n \in 0 .. MaxPairs} :
        s = [i \in 1 .. 2 * Len(p) |-> 2 * p[(i + 1) \div 2] - (i % 2)]
  BY DEF Frames
<1>2. PICK n \in Nat : p \in [1 .. n -> 1 .. PairKinds]
  BY <1>1, RingAssumption, SMT
<1>3. p \in Seq(1 .. PairKinds)
  BY <1>2, SeqDef
<1>4. Len(p) \in Nat /\ p \in [1 .. Len(p) -> 1 .. PairKinds]
  BY <1>3, LenProperties
<1>5. ASSUME NEW i \in 1 .. 2 * Len(p)
      PROVE  2 * p[(i + 1) \div 2] - (i % 2) \in Samples
  <2>1. (i + 1) \div 2 \in 1 .. Len(p) /\ i % 2 \in 0 .. 1
    BY <1>4, SMT
  <2>2. p[(i + 1) \div 2] \in 1 .. PairKinds
    BY <1>4, <2>1
  <2> QED BY <2>1, <2>2, RingAssumption, SMT DEF Samples
<1>6. s \in [1 .. 2 * Len(p) -> Samples] /\ 2 * Len(p) \in Nat
  BY <1>1, <1>4, <1>5
<1>7. s \in Seq(Samples)
  BY <1>6, SeqDef
<1> QED BY <1>7, LenProperties

(* How far a slot lies behind the end of the ring: the slot of the m-th    *)
(* sample seen from the slot behind the last of len.                       *)
LEMMA Offset ==
  ASSUME NEW d \in Nat \ {0}, NEW head \in 0 .. d - 1, NEW len \in 0 .. d, NEW m \in 0 .. d - 1
  PROVE  (((head + m) % d) + d - ((head + len) % d)) % d = IF m < len THEN m - len + d ELSE m - len
<1> DEFINE a == (head + m) % d
           b == (head + len) % d
<1>1. a = head + m \/ (a = head + m - d /\ head + m >= d)
  <2>1. CASE head + m < d
    BY <2>1, head + m \in 0 .. d - 1, ModSmall
  <2>2. CASE head + m >= d
    BY <2>2, head + m \in d .. 2 * d - 1, ModOver
  <2> QED BY <2>1, <2>2
<1>2. b = head + len \/ (b = head + len - d /\ head + len >= d)
  <2>1. CASE head + len < d
    BY <2>1, head + len \in 0 .. d - 1, ModSmall
  <2>2. CASE head + len >= d
    BY <2>2, head + len \in d .. 2 * d - 1, ModOver
  <2> QED BY <2>1, <2>2
<1>3. a \in 0 .. d - 1 /\ b \in 0 .. d - 1
  BY head + m \in Nat, head + len \in Nat, DivMod
<1> HIDE DEF a, b
<1> DEFINE x == a + d - b
           y == IF m < len THEN m - len + d ELSE m - len
<1>4. y \in 0 .. d - 1 /\ (x = y \/ x = y + d)
  BY <1>1, <1>2, <1>3, SMT
<1>5. x % d = y
  <2> HIDE DEF x, y
  <2>1. CASE x = y
    BY <1>4, <2>1, ModSmall
  <2>2. CASE x = y + d
    BY <1>4, <2>2, y + d \in d .. 2 * d - 1, y + d - d = y, ModOver
  <2> QED BY <1>4, <2>1, <2>2
<1> QED BY <1>5 DEF a, b

-----------------------------------------------------------------------------
(* Type correctness.                                                       *)

LEMMA StoredFits ==
  ASSUME RingTypeOK, NEW s \in Frames
  PROVE  /\ Stored(s) \in Nat /\ Stored(s) <= Len(s) /\ ringLen + Stored(s) <= RingCapacity
         /\ Stored(s) = Len(s) \/ ringLen + Stored(s) = RingCapacity
BY FrameIsSequence, CapacityFact, SMT DEF Stored, RingTypeOK

LEMMA PushTyped ==
  ASSUME RingTypeOK, NEW s \in Frames, RingPush(s)
  PROVE  RingTypeOK'
<1>1. ASSUME NEW j \in Slots
      PROVE  LET i == (j + RingCapacity - Slot(ringLen)) % RingCapacity
             IN  (IF i < Stored(s) THEN s[i + 1] ELSE ringBuf[j]) \in Samples
  <2> DEFINE i == (j + RingCapacity - Slot(ringLen)) % RingCapacity
  <2>1. Slot(ringLen) \in 0 .. RingCapacity - 1
    BY CapacityFact, ringHead + ringLen \in Nat, DivMod DEF Slot, RingTypeOK
  <2>2. i \in 0 .. RingCapacity - 1
    BY <2>1, CapacityFact, j + RingCapacity - Slot(ringLen) \in Nat, DivMod
  <2> HIDE DEF i
  <2>3. ASSUME i < Stored(s) PROVE s[i + 1] \in Samples
    BY <2>2, <2>3, StoredFits, FrameIsSequence, i + 1 \in 1 .. Len(s), ElementOfSeq
  <2>4. ringBuf[j] \in Samples
    BY DEF RingTypeOK
  <2> QED BY <2>3, <2>4 DEF i
<1>2. ringBuf' \in [Slots -> Samples]
  BY <1>1 DEF RingPush
<1>3. ringLen' \in 0 .. RingCapacity
  BY StoredFits, CapacityFact, SMT DEF RingPush, RingTypeOK
<1> QED BY <1>2, <1>3 DEF RingPush, RingTypeOK

LEMMA DrainTyped ==
  ASSUME RingTypeOK, NEW n \in DeviceRequests, RingDrain(n)
  PROVE  RingTypeOK'
<1> DEFINE got == IF n < ringLen THEN n ELSE ringLen
<1>1. n \in Nat
  BY RingAssumption, SMT DEF DeviceRequests
<1>2. got \in 0 .. ringLen /\ ringLen \in 0 .. RingCapacity /\ ringHead \in Nat
  BY <1>1, CapacityFact, SMT DEF RingTypeOK
<1>3. ringHead' = Slot(got) /\ ringLen' = ringLen - got /\ ringBuf' = ringBuf
  BY DEF RingDrain
<1> HIDE DEF got
<1>4. Slot(got) \in Slots
  BY <1>2, CapacityFact, ringHead + got \in Nat, DivMod DEF Slot
<1>5. ringLen' \in 0 .. RingCapacity
  BY <1>2, <1>3, CapacityFact, SMT
<1> QED BY <1>3, <1>4, <1>5 DEF RingTypeOK

(* A ring starts empty, and its steps keep to its slots.                   *)
LEMMA RingStarts == RingInit => RingTypeOK
BY CapacityFact, RingAssumption, SMT DEF RingInit, RingTypeOK, Samples

LEMMA RingStep == RingTypeOK /\ [RingNext]_ringVars => RingTypeOK'
<1> SUFFICES ASSUME RingTypeOK, [RingNext]_ringVars PROVE RingTypeOK'
  OBVIOUS
<1>1. ASSUME NEW s \in Frames, RingPush(s) PROVE RingTypeOK'
  BY <1>1, PushTyped
<1>2. ASSUME NEW n \in DeviceRequests, RingDrain(n) PROVE RingTypeOK'
  BY <1>2, DrainTyped
<1>3. CASE RingClear
  BY <1>3, CapacityFact, SMT DEF RingClear, RingTypeOK
<1>4. CASE UNCHANGED ringVars
  BY <1>4 DEF ringVars, RingTypeOK
<1> QED BY <1>1, <1>2, <1>3, <1>4 DEF RingNext

(* The head and the length stay within the ring and its slots hold samples.*)
THEOREM RingTyped == RingSpec => []RingTypeOK
BY RingStarts, RingStep, PTL DEF RingSpec

-----------------------------------------------------------------------------
(* Every step of the ring is a step of the queue.                          *)

(* A push appends what fits: the samples already there stay where they are *)
(* and the new ones come in order behind them, around the end of the       *)
(* buffer if need be.                                                      *)
LEMMA PushEnqueues ==
  ASSUME RingTypeOK, NEW s \in Frames, RingPush(s)
  PROVE  Queue!Enqueue(s)
<1> DEFINE c == Contents
           whole == c \o s
           kept == Queue!Shorter(Len(whole), RingCapacity)
           q == SubSeq(whole, 1, kept)
           new == RingRead(ringBuf', ringHead', ringLen')
<1>0. RingTypeOK' /\ ringHead' = ringHead /\ ringLen' = ringLen + Stored(s) /\ drained' = drained
  BY PushTyped DEF RingPush
<1>1. /\ ringBuf \in [Slots -> Samples] /\ ringHead \in Slots /\ ringLen \in 0 .. RingCapacity
      /\ ringBuf' \in [Slots -> Samples] /\ ringLen' \in 0 .. RingCapacity
  BY <1>0 DEF RingTypeOK
<1>2. /\ c \in Seq(Samples) /\ Len(c) = ringLen
      /\ \A i \in 1 .. ringLen : c[i] = ringBuf[(ringHead + (i - 1)) % RingCapacity]
  BY <1>1, ReadIsSequence, ContentsRead
<1>3. /\ new \in Seq(Samples) /\ Len(new) = ringLen'
      /\ \A i \in 1 .. ringLen' : new[i] = ringBuf'[(ringHead + (i - 1)) % RingCapacity]
  BY <1>0, <1>1, ReadIsSequence
<1>4. s \in Seq(Samples) /\ Len(s) \in Nat
  BY FrameIsSequence
<1> HIDE DEF c, new
<1>5. /\ whole \in Seq(Samples) /\ Len(whole) = ringLen + Len(s)
      /\ \A i \in 1 .. ringLen + Len(s) : whole[i] = IF i <= ringLen THEN c[i] ELSE s[i - ringLen]
  BY <1>2, <1>4, ConcatProperties
<1> HIDE DEF whole
<1>6. kept = ringLen' /\ kept \in 0 .. RingCapacity /\ kept <= Len(whole)
  BY <1>0, <1>1, <1>4, <1>5, StoredFits, CapacityFact, SMT DEF Queue!Shorter
<1> HIDE DEF kept
<1>7. \A i \in 1 .. kept : whole[i] \in Samples
  BY <1>5, <1>6, <1>1, <1>4, CapacityFact, ElementOfSeq
<1>8. q \in Seq(Samples) /\ Len(q) = kept /\ \A i \in 1 .. kept : q[i] = whole[i]
  <2>1. kept \in Int /\ 1 \in Int
    BY <1>6, CapacityFact, SMT
  <2>2. /\ SubSeq(whole, 1, kept) \in Seq(Samples)
        /\ Len(SubSeq(whole, 1, kept)) = IF 1 <= kept THEN kept - 1 + 1 ELSE 0
        /\ \A i \in 1 .. kept - 1 + 1 : SubSeq(whole, 1, kept)[i] = whole[1 + i - 1]
    BY <2>1, <1>7, SubSeqProperties
  <2> HIDE DEF q
  <2>3. kept - 1 + 1 = kept /\ (~ (1 <= kept) => kept = 0) /\ \A i \in 1 .. kept : 1 + i - 1 = i
    <3>1. kept \in Nat
      BY <1>6, CapacityFact, SMT
    <3> QED BY ONLY <3>1, SMT
  <2> QED BY <2>2, <2>3 DEF q
<1> HIDE DEF q
<1>9. ASSUME NEW i \in 1 .. ringLen' PROVE new[i] = q[i]
  <2> DEFINE m == i - 1
             j == (ringHead + m) % RingCapacity
             off == (j + RingCapacity - Slot(ringLen)) % RingCapacity
  <2>1. m \in 0 .. RingCapacity - 1 /\ i = m + 1
    BY <1>1, CapacityFact, SMT
  <2>2. j \in Slots
    BY <2>1, <1>1, CapacityFact, ringHead + m \in Nat, DivMod
  <2>3. off = IF m < ringLen THEN m - ringLen + RingCapacity ELSE m - ringLen
    BY <2>1, <1>1, CapacityFact, Offset DEF Slot
  <2>4. new[i] = IF off < Stored(s) THEN s[off + 1] ELSE ringBuf[j]
    BY <1>3, <2>2 DEF RingPush
  <2>5. q[i] = IF i <= ringLen THEN c[i] ELSE s[i - ringLen]
    <3>1. i \in 1 .. kept /\ i \in 1 .. ringLen + Len(s)
      BY <1>6, <1>5, <1>1, <1>4, CapacityFact, SMT
    <3> QED BY <3>1, <1>8, <1>5
  <2>6. CASE i <= ringLen
    <3>1. c[i] = ringBuf[j]
      BY <2>6, <1>2, <1>1, CapacityFact, i \in 1 .. ringLen
    <3> HIDE DEF m, j, off
    <3>2. ~ (off < Stored(s))
      BY <2>6, <2>1, <2>3, <1>1, StoredFits, CapacityFact, SMT
    <3> QED BY <3>1, <3>2, <2>4, <2>5, <2>6
  <2>7. CASE ~ (i <= ringLen)
    <3> HIDE DEF m, j, off
    <3>1. off < Stored(s) /\ off + 1 = i - ringLen
      BY <2>7, <2>1, <2>3, <1>0, <1>1, StoredFits, CapacityFact, SMT
    <3> QED BY <3>1, <2>4, <2>5, <2>7
  <2> QED BY <2>6, <2>7
<1>10. new = q
  BY <1>3, <1>6, <1>8, <1>9, SeqEqual
<1>11. Contents' = new
  BY ContentsRead DEF new
<1> QED BY <1>0, <1>10, <1>11 DEF Queue!Enqueue, q, kept, whole, c

(* A drain takes the oldest samples and pads with silence.                 *)
LEMMA DrainDequeues ==
  ASSUME RingTypeOK, NEW n \in DeviceRequests, RingDrain(n)
  PROVE  Queue!Dequeue(n)
<1> DEFINE c == Contents
           got == IF n < ringLen THEN n ELSE ringLen
           q == SubSeq(c, n + 1, Len(c))
           new == RingRead(ringBuf', ringHead', ringLen')
<1>0. /\ RingTypeOK' /\ ringHead' = Slot(got) /\ ringLen' = ringLen - got /\ ringBuf' = ringBuf
      /\ drained' = [i \in 1 .. n |-> IF i <= got THEN ringBuf[Slot(i - 1)] ELSE 0]
  BY DrainTyped DEF RingDrain
<1>1. /\ ringBuf \in [Slots -> Samples] /\ ringHead \in Slots /\ ringLen \in 0 .. RingCapacity
      /\ ringBuf' \in [Slots -> Samples] /\ ringHead' \in Slots /\ ringLen' \in 0 .. RingCapacity
  BY <1>0 DEF RingTypeOK
<1>2. n \in Nat /\ got \in 0 .. ringLen /\ (n < ringLen => got = n) /\ (ringLen <= n => got = ringLen)
  BY <1>1, CapacityFact, RingAssumption, SMT DEF DeviceRequests
<1>3. \A i \in 1 .. n : i <= got <=> i <= ringLen
  BY <1>1, CapacityFact, RingAssumption, SMT DEF DeviceRequests
<1> HIDE DEF got
<1>4. /\ c \in Seq(Samples) /\ Len(c) = ringLen
      /\ \A i \in 1 .. ringLen : c[i] = ringBuf[(ringHead + (i - 1)) % RingCapacity]
  BY <1>1, ReadIsSequence, ContentsRead
<1>5. /\ new \in Seq(Samples) /\ Len(new) = ringLen'
      /\ \A i \in 1 .. ringLen' : new[i] = ringBuf[(ringHead' + (i - 1)) % RingCapacity]
  BY <1>0, <1>1, ReadIsSequence
<1> HIDE DEF c, new
<1>6. drained' = [i \in 1 .. n |-> IF i <= Len(c) THEN c[i] ELSE 0]
  <2>1. ASSUME NEW i \in 1 .. n
        PROVE  (IF i <= got THEN ringBuf[Slot(i - 1)] ELSE 0) = IF i <= Len(c) THEN c[i] ELSE 0
    <3>1. i <= ringLen => i \in 1 .. ringLen
      BY <1>1, <1>2, CapacityFact, SMT
    <3> QED BY <3>1, <1>3, <1>4 DEF Slot
  <2> QED BY <2>1, <1>0
<1>7. /\ q \in Seq(Samples) /\ Len(q) = IF n + 1 <= ringLen THEN ringLen - (n + 1) + 1 ELSE 0
      /\ \A i \in 1 .. ringLen - (n + 1) + 1 : q[i] = c[(n + 1) + i - 1]
  <2>1. n + 1 \in Int /\ ringLen \in Int
    BY <1>1, <1>2, CapacityFact, SMT
  <2>2. \A i \in n + 1 .. ringLen : c[i] \in Samples
    BY <1>1, <1>2, <1>4, CapacityFact, ElementOfSeq
  <2> QED BY <2>1, <2>2, <1>4, SubSeqProperties
<1> HIDE DEF q
<1>8. Len(q) = ringLen'
  <2>1. n \in Nat /\ ringLen \in Nat /\ ringLen' = ringLen - got /\ got \in 0 .. ringLen
    BY <1>0, <1>1, <1>2, CapacityFact, SMT
  <2>2. (IF n + 1 <= ringLen THEN ringLen - (n + 1) + 1 ELSE 0) = ringLen - got
    BY <2>1, <1>2, SMT
  <2> QED BY <2>1, <2>2, <1>7
<1>9. ASSUME NEW i \in 1 .. ringLen' PROVE new[i] = q[i]
  <2>1. /\ got = n /\ i \in 1 .. ringLen - (n + 1) + 1
        /\ (n + 1) + i - 1 \in 1 .. ringLen /\ (n + 1) + i - 1 - 1 = n + (i - 1)
        /\ i - 1 \in Nat /\ ringHead + n \in Nat
        /\ ringHead + (n + (i - 1)) = (ringHead + n) + (i - 1)
    BY <1>0, <1>1, <1>2, CapacityFact, SMT
  <2>2. q[i] = ringBuf[((ringHead + n) + (i - 1)) % RingCapacity]
    <3> DEFINE k == (n + 1) + i - 1
    <3>1. q[i] = c[k]
      BY <2>1, <1>7
    <3>2. k \in 1 .. ringLen /\ ringHead + (k - 1) = (ringHead + n) + (i - 1)
      BY <2>1, <1>1, <1>2, CapacityFact, SMT
    <3> HIDE DEF k
    <3>3. c[k] = ringBuf[(ringHead + (k - 1)) % RingCapacity]
      BY <3>2, <1>4
    <3> QED BY <3>1, <3>2, <3>3
  <2>3. new[i] = ringBuf[(((ringHead + n) % RingCapacity) + (i - 1)) % RingCapacity]
    BY <2>1, <1>5, <1>0 DEF Slot
  <2>4. (((ringHead + n) % RingCapacity) + (i - 1)) % RingCapacity = ((ringHead + n) + (i - 1)) % RingCapacity
    BY <2>1, CapacityFact, ModPlus
  <2> QED BY <2>2, <2>3, <2>4
<1>10. new = q
  BY <1>5, <1>7, <1>8, <1>9, SeqEqual
<1>11. Contents' = new
  BY ContentsRead DEF new
<1> QED BY <1>6, <1>10, <1>11 DEF Queue!Dequeue, q, c

LEMMA EmptyContents ==
  /\ ringLen = 0 => Contents = <<>>
  /\ ringLen' = 0 => Contents' = <<>>
BY ContentsRead, SMT DEF RingRead

(* The ring is the queue of its documentation: overruns drop the newest    *)
(* samples, underruns are padded with silence, and in between samples come *)
(* out in the order they went in, so that left and right stay apart.       *)
THEOREM RingImplementsQueue == RingSpec => RingIsQueue
<1>1. RingInit => Queue!QueueInit
  BY EmptyContents DEF RingInit, Queue!QueueInit
<1>2. RingTypeOK /\ [RingNext]_ringVars => [Queue!QueueNext]_<<Contents, drained>>
  <2> SUFFICES ASSUME RingTypeOK, [RingNext]_ringVars
               PROVE  [Queue!QueueNext]_<<Contents, drained>>
    OBVIOUS
  <2>1. ASSUME NEW s \in Frames, RingPush(s) PROVE Queue!QueueNext
    BY <2>1, PushEnqueues DEF Queue!QueueNext
  <2>2. ASSUME NEW n \in DeviceRequests, RingDrain(n) PROVE Queue!QueueNext
    BY <2>2, DrainDequeues DEF Queue!QueueNext
  <2>3. CASE RingClear
    <3>1. Queue!Flush
      BY <2>3, EmptyContents DEF RingClear, Queue!Flush
    <3> QED BY <3>1 DEF Queue!QueueNext
  <2>4. CASE UNCHANGED ringVars
    BY <2>4 DEF ringVars, Contents, Slot
  <2> QED BY <2>1, <2>2, <2>3, <2>4 DEF RingNext
<1> QED BY <1>1, <1>2, RingTyped, PTL DEF RingSpec, RingIsQueue, Queue!QueueSpec

-----------------------------------------------------------------------------
(* The resampler.                                                          *)


(* The phase is the lead of the output, which a pair of input keeps        *)
(* between one and InRate.                                                 *)
PhaseInv ==
  /\ outRate \in Nat \ {0} /\ hasPrev \in BOOLEAN
  /\ phase \in Nat /\ lead = phase
  /\ hasPrev => phase \in 1 .. InRate

LEMMA PhaseInit == ResamplerInit => PhaseInv
<1> SUFFICES ASSUME ResamplerInit PROVE PhaseInv
  OBVIOUS
<1>1. outRate \in Nat \ {0} /\ phase \in Nat /\ lead = phase
  BY ResamplerAssumption DEF ResamplerInit
<1>2. hasPrev = FALSE
  BY DEF ResamplerInit
<1> QED BY <1>1, <1>2, Zenon DEF PhaseInv

(* What is left of the phase once the samples of a pair are out: the rest  *)
(* of a division by InRate decides.                                        *)
LEMMA PhaseLeftInRange ==
  ASSUME outRate \in Nat \ {0}, phase \in 1 .. InRate
  PROVE  Emits \in Nat /\ PhaseLeft \in 1 .. InRate /\ PhaseLeft = phase + InRate * Emits - outRate
<1>1. CASE phase > outRate
  BY <1>1, ResamplerAssumption DEF Emits, PhaseLeft
<1>2. CASE phase <= outRate
  <2> DEFINE x == outRate - phase
             q == x \div InRate
             r == x % InRate
  <2>1. x \in Nat /\ InRate \in Nat \ {0}
    BY <1>2, ResamplerAssumption
  <2>2. q \in Nat /\ r \in 0 .. InRate - 1 /\ x = InRate * q + r
    BY <2>1, DivMod
  <2>3. Emits = q + 1
    BY <1>2, ResamplerAssumption DEF Emits
  <2>4. outRate = phase + InRate * q + r
    BY <2>2, ResamplerAssumption
  <2> HIDE DEF x, q, r
  <2>5. (q + 1) * InRate = InRate * q + InRate /\ InRate * (q + 1) = InRate * q + InRate
    BY <2>1, <2>2, SMT
  <2>6. PhaseLeft = InRate - r
    BY <2>1, <2>2, <2>3, <2>4, <2>5 DEF PhaseLeft
  <2> QED BY <2>1, <2>2, <2>3, <2>4, <2>5, <2>6
<1> QED BY <1>1, <1>2, ResamplerAssumption

LEMMA PhaseStep == PhaseInv /\ [ResamplerNext]_resamplerVars => PhaseInv'
<1> SUFFICES ASSUME PhaseInv, [ResamplerNext]_resamplerVars PROVE PhaseInv'
  OBVIOUS
<1> USE DEF PhaseInv
<1>1. CASE UNCHANGED resamplerVars
  BY <1>1 DEF resamplerVars
<1>2. ASSUME NEW s \in Levels, PassThrough(s) PROVE PhaseInv'
  BY <1>2 DEF PassThrough
<1>3. ASSUME NEW s \in Levels, FirstPair(s) PROVE PhaseInv'
  BY <1>3, ResamplerAssumption DEF FirstPair
<1>4. ASSUME NEW s \in Levels, NextPair(s) PROVE PhaseInv'
  <2>1. phase' = PhaseLeft /\ lead' = lead + InRate * Emits - outRate
        /\ outRate' = outRate /\ hasPrev' = hasPrev /\ hasPrev
    BY <1>4 DEF NextPair
  <2>2. PhaseLeft \in 1 .. InRate /\ PhaseLeft = phase + InRate * Emits - outRate
    BY <2>1, PhaseLeftInRange
  <2> QED BY <2>1, <2>2, ResamplerAssumption
<1>5. ASSUME NEW rate \in OutRates, OpenStream(rate) PROVE PhaseInv'
  BY <1>5, ResamplerAssumption DEF OpenStream, Fresh
<1> QED BY <1>1, <1>2, <1>3, <1>4, <1>5 DEF ResamplerNext

(* After any number of input pairs the output is within one sample of the  *)
(* input's time, whatever the two rates.                                   *)
THEOREM ResamplerKeepsTime == ResamplerSpec => []NoDrift
<1>1. PhaseInv => NoDrift
  BY DEF PhaseInv, NoDrift
<1> QED BY <1>1, PhaseInit, PhaseStep, PTL DEF ResamplerSpec

-----------------------------------------------------------------------------

(* The cycles since the pitch moved fit the part of the longest sweep time *)
(* that the two counters say has passed.                                   *)
SweepInv ==
  /\ sweepStep \in 0 .. MaxTime - 1 /\ sweepCounter \in 0 .. SweepInterval
  /\ time \in 0 .. MaxTime /\ fastTest \in BOOLEAN
  /\ quiet \in Nat
  /\ quiet <= (MaxTime - 1 - sweepStep) * (SweepInterval + 1) + sweepCounter

LEMMA SweepStart == SweepInit => SweepInv
<1> SUFFICES ASSUME SweepInit PROVE SweepInv
  OBVIOUS
<1>1. MaxTime - 1 \in Nat /\ SweepInterval + 1 \in Nat
  BY ApuSweepAssumption
<1>2. sweepStep = 0 /\ sweepCounter = 0 /\ time = 0 /\ fastTest = FALSE /\ quiet = 0
  BY DEF SweepInit
<1>3. MaxTime - 1 - sweepStep = MaxTime - 1
  BY <1>1, <1>2, ApuSweepAssumption
<1> DEFINE product == (MaxTime - 1 - sweepStep) * (SweepInterval + 1)
<1>4. product \in Nat
  BY <1>1, <1>3
<1>5. quiet <= product + sweepCounter
  <2> HIDE DEF product
  <2> QED BY <1>2, <1>4
<1>6. /\ sweepStep \in 0 .. MaxTime - 1 /\ sweepCounter \in 0 .. SweepInterval
      /\ time \in 0 .. MaxTime /\ quiet \in Nat
  BY <1>1, <1>2, ApuSweepAssumption
<1>7. fastTest \in BOOLEAN
  BY <1>2
<1> QED BY <1>5, <1>6, <1>7, Zenon DEF SweepInv

(* A cycle of an enabled sweep: one more quiet cycle, or a step less to    *)
(* go, or the pitch moves and the count starts afresh.                     *)
LEMMA SweepsKeepTime == SweepInv /\ Sweeps => SweepInv'
<1> SUFFICES ASSUME SweepInv, Sweeps PROVE SweepInv'
  OBVIOUS
<1> DEFINE K == SweepInterval + 1
           left == MaxTime - 1 - sweepStep
<1>1. K \in Nat \ {0} /\ MaxTime \in Nat \ {0} /\ left \in Nat /\ Interval \in 0 .. SweepInterval
  BY ApuSweepAssumption DEF SweepInv, Interval
<1>2. UNCHANGED <<time, fastTest>>
  BY DEF Sweeps, sweepRegs
<1>3. CASE sweepCounter + 1 <= Interval
  <2>1. sweepCounter' = sweepCounter + 1 /\ quiet' = quiet + 1 /\ sweepStep' = sweepStep
    BY <1>3 DEF Sweeps
  <2> DEFINE product == left * K
  <2>2. product \in Nat /\ quiet <= product + sweepCounter
    BY <1>1 DEF SweepInv
  <2>3. quiet' <= product + sweepCounter'
    <3> HIDE DEF product
    <3> QED BY <2>1, <2>2 DEF SweepInv
  <2>4. sweepCounter' \in 0 .. SweepInterval /\ quiet' \in Nat
    <3>1. sweepCounter \in 0 .. SweepInterval /\ quiet \in Nat
      BY DEF SweepInv
    <3> HIDE DEF K, left
    <3> QED BY <1>1, <1>3, <2>1, <3>1, ApuSweepAssumption
  <2>5. quiet' <= (MaxTime - 1 - sweepStep') * (SweepInterval + 1) + sweepCounter'
    BY <2>1, <2>3
  <2> QED BY <1>2, <2>1, <2>4, <2>5 DEF SweepInv
<1>4. CASE ~(sweepCounter + 1 <= Interval) /\ sweepStep # 0
  <2>1. sweepCounter' = 0 /\ quiet' = quiet + 1 /\ sweepStep' = sweepStep - 1
    BY <1>4 DEF Sweeps
  <2>2. (left + 1) * K = left * K + K
    BY <1>1, SMT
  <2> DEFINE product == left * K
  <2>3. product \in Nat /\ quiet <= product + sweepCounter /\ sweepCounter + 1 <= K
    <3>1. product \in Nat /\ quiet <= product + sweepCounter
      BY <1>1 DEF SweepInv
    <3>2. sweepCounter + 1 <= SweepInterval + 1
      BY ApuSweepAssumption DEF SweepInv
    <3> QED BY <3>1, <3>2
  <2>4. quiet' <= (left + 1) * K
    <3> HIDE DEF product, K, left
    <3> QED BY <1>1, <2>1, <2>2, <2>3 DEF SweepInv, product
  <2>5. MaxTime - 1 - sweepStep' = left + 1
    BY <2>1, ApuSweepAssumption DEF SweepInv
  <2>6. quiet' <= (MaxTime - 1 - sweepStep') * K + sweepCounter'
    <3> HIDE DEF K, left
    <3>1. (left + 1) * K \in Nat
      BY <1>1
    <3> QED BY <2>1, <2>4, <2>5, <3>1
  <2>7. sweepStep' \in 0 .. MaxTime - 1 /\ quiet' \in Nat /\ sweepCounter' \in 0 .. SweepInterval
    BY <2>1, <1>4, ApuSweepAssumption DEF SweepInv
  <2> QED BY <1>2, <2>6, <2>7 DEF SweepInv
<1>5. CASE ~(sweepCounter + 1 <= Interval) /\ sweepStep = 0
  <2>1. sweepCounter' = 0 /\ quiet' = 0 /\ sweepStep' = Reload(time)
    BY <1>5 DEF Sweeps
  <2>2. Reload(time) \in 0 .. MaxTime - 1
    BY <1>1 DEF SweepInv, Reload
  <2> DEFINE later == MaxTime - 1 - Reload(time)
  <2>3. later \in Nat
    BY <1>1, <2>2
  <2>4. later * K \in Nat
    <3> HIDE DEF later, K
    <3> QED BY <1>1, <2>3
  <2> QED BY <1>1, <1>2, <2>1, <2>2, <2>4, ApuSweepAssumption DEF SweepInv
<1> QED BY <1>3, <1>4, <1>5

LEMMA SweepStep == SweepInv /\ [SweepNext]_sweepVars => SweepInv'
<1> SUFFICES ASSUME SweepInv, [SweepNext]_sweepVars PROVE SweepInv'
  OBVIOUS
<1>1. CASE UNCHANGED <<sweepStep, sweepCounter, time, fastTest, quiet>>
  BY <1>1 DEF SweepInv
<1>2. CASE Rests \/ Primes
  BY <1>1, <1>2 DEF Rests, Primes, sweepRegs
<1>3. CASE Sweeps
  BY <1>3, SweepsKeepTime
<1>4. ASSUME NEW on \in BOOLEAN, NEW fast \in BOOLEAN, SetSweep(on, fast) PROVE SweepInv'
  BY <1>4 DEF SetSweep, SweepInv
<1>5. ASSUME NEW t \in 0 .. MaxTime, NEW d \in -MaxStep .. MaxStep - 1, SetSweepStep(t, d)
      PROVE  SweepInv'
  BY <1>5 DEF SetSweepStep, SweepInv
<1>6. ASSUME NEW p \in 0 .. Pitches - 1, SetSweepPitch(p) PROVE SweepInv'
  BY <1>1, <1>6 DEF SetSweepPitch, sweepRegs
<1>7. CASE UNCHANGED sweepVars
  BY <1>1, <1>7 DEF sweepVars, sweepRegs
<1> QED BY <1>2, <1>3, <1>4, <1>5, <1>6, <1>7 DEF SweepNext

(* However its registers are rewritten, an enabled sweep moves the pitch   *)
(* before the longest time it can be set to has passed.                    *)
THEOREM SweepKeepsMoving == SweepSpec => []SweepResponds
<1>1. SweepInv => SweepResponds
  <2> SUFFICES ASSUME SweepInv PROVE SweepResponds
    OBVIOUS
  <2> DEFINE K == SweepInterval + 1
             left == MaxTime - 1 - sweepStep
  <2>1. K \in Nat \ {0} /\ left \in Nat /\ sweepStep \in Nat /\ MaxTime = left + sweepStep + 1
    BY ApuSweepAssumption DEF SweepInv
  <2>2. quiet \in Nat /\ sweepCounter < K /\ quiet <= left * K + sweepCounter
    BY ApuSweepAssumption DEF SweepInv
  <2> HIDE DEF K, left
  <2>3. (left + sweepStep + 1) * K = left * K + sweepStep * K + K
    BY <2>1, SMT
  <2>4. left * K \in Nat /\ sweepStep * K \in Nat /\ sweepCounter \in Nat
    BY <2>1 DEF SweepInv
  <2>5. quiet < (left + sweepStep + 1) * K
    BY <2>1, <2>2, <2>3, <2>4
  <2>6. quiet < MaxTime * K
    BY <2>1, <2>5
  <2> QED BY <2>6 DEF SweepResponds, K
<1> QED BY <1>1, SweepStart, SweepStep, PTL DEF SweepSpec
-----------------------------------------------------------------------------
(* Pacing.                                                                 *)

(* Types.                                                                  *)
PacingNumbers ==
  /\ fill \in 0 .. PacingCapacity /\ due \in Int /\ due >= 0 - Late
  /\ rest \in Nat /\ burst \in Nat
PacingFlags ==
  /\ busy \in {"no", "frame", "dump"}
  /\ halted \in BOOLEAN /\ dump \in BOOLEAN /\ primed \in BOOLEAN

(* A frame that is not a dump began below the high mark.                   *)
FrameFits == busy = "frame" => 4 * fill < 3 * PacingCapacity

(* A primed ring holds what the device may take until the next frame is    *)
(* in: during the wait under way and one frame, or the rest of this frame. *)
Reserve(most) == rest * most + IF busy = "no" THEN (FramePeriod - 1) * most ELSE 0
Fed(most) == primed /\ ~halted => fill >= Reserve(most)

(* The inductive invariant.                                                *)
PacingInv(most) ==
  /\ PacingNumbers /\ PacingFlags
  /\ FrameFits /\ Fed(most)
  /\ missed = FALSE /\ lost = FALSE

(* The quarters of the ring hold a frame, and what the device takes while  *)
(* the thread sleeps and emulates one; a frame feeds the device for as     *)
(* long as it may take to emulate.                                         *)
RingLarge(most) ==
  /\ most \in Nat /\ \A n \in Drained : n <= most
  /\ 4 * FrameSamples <= PacingCapacity
  /\ 4 * ((Poll + FramePeriod - 1) * most) <= PacingCapacity
  /\ (FramePeriod - 1) * most <= FrameSamples

(* Fewer ticks drain less.                                                 *)
LEMMA DrainedLess ==
  ASSUME NEW a \in Nat, NEW b \in Nat, NEW c \in Nat, a <= b
  PROVE  a * c \in Nat /\ b * c \in Nat /\ a * c <= b * c
<1> DEFINE more == b - a
<1>1. more \in Nat /\ b = a + more
  OBVIOUS
<1> HIDE DEF more
<1>2. (a + more) * c = a * c + more * c /\ more * c \in Nat /\ a * c \in Nat
  BY <1>1
<1> QED
  BY <1>1, <1>2

(* Every step preserves the invariant.                                     *)
LEMMA PacingStep ==
  ASSUME NEW most, RingLarge(most), PacingInv(most), [PacingNext]_pacingVars
  PROVE  PacingInv(most)'
<1> DEFINE frame == (FramePeriod - 1) * most
           wait == Poll * most
           left == rest * most
<1>1. /\ most \in Nat /\ PacingCapacity \in Nat /\ PacingCapacity > 0 /\ FrameSamples \in Nat
      /\ FramePeriod \in Nat /\ FramePeriod > 0 /\ Poll \in Nat
      /\ 4 * FrameSamples <= PacingCapacity /\ Late = 4 * FramePeriod + 1
  BY PacingAssumption DEF RingLarge, Late
<1>2. /\ fill \in Nat /\ fill <= PacingCapacity /\ due \in Int /\ due >= 0 - Late
      /\ rest \in Nat /\ burst \in Nat
  BY <1>1 DEF PacingInv, PacingNumbers
<1>3. frame \in Nat /\ wait \in Nat /\ left \in Nat
  BY <1>1, <1>2
<1>4. 4 * (wait + frame) <= PacingCapacity
  <2>1. (Poll + FramePeriod - 1) * most = wait + frame
    BY <1>1
  <2> QED
    BY <2>1 DEF RingLarge
<1>0. frame <= FrameSamples
  BY DEF RingLarge
<1>5. PacingFlags /\ missed = FALSE /\ lost = FALSE
  BY DEF PacingInv
<1>6. ASSUME primed, ~halted
      PROVE  fill >= left /\ (busy = "no" => fill >= left + frame)
  <2>1. fill >= left + IF busy = "no" THEN frame ELSE 0
    BY <1>6 DEF PacingInv, Fed, Reserve
  <2> HIDE DEF frame, left
  <2> QED
    BY <1>2, <1>3, <2>1
<1>7. busy = "frame" => 4 * fill < 3 * PacingCapacity
  BY DEF PacingInv, FrameFits
<1>8. 0 * most = 0
  BY <1>1
<1>9. Fed(most)' = (primed' /\ ~halted' =>
                     fill' >= rest' * most + IF busy' = "no" THEN frame ELSE 0)
  BY DEF Fed, Reserve
<1> HIDE DEF frame, wait, left
<1>10. CASE StartsFrame
  <2>1. PICK ticks \in FrameTicks :
          /\ rest' = ticks
          /\ primed' = (primed /\ ticks < FramePeriod)
          /\ burst' = IF 2 * ticks >= FramePeriod THEN 0
                      ELSE IF dump \/ burst > MaxBurst THEN burst ELSE burst + 1
    BY <1>10 DEF StartsFrame
  <2>2. /\ busy = "no" /\ busy' = IF dump THEN "dump" ELSE "frame"
        /\ dump' = FALSE /\ fill' = fill /\ due' = due /\ halted' = halted
        /\ missed' = missed /\ lost' = lost
    BY <1>10 DEF StartsFrame
  <2>3. ticks \in Nat
    BY PacingAssumption
  <2>4. PacingNumbers'
    <3>1. burst' = 0 \/ burst' = burst \/ burst' = burst + 1
      BY <2>1, Zenon
    <3>2. burst' \in Nat
      BY <1>2, <3>1
    <3> QED
      BY <1>1, <1>2, <2>1, <2>2, <2>3, <3>2 DEF PacingNumbers, Late
  <2>5. PacingFlags'
    BY <1>5, <2>1, <2>2, Zenon DEF PacingFlags
  <2>6. FrameFits'
    <3>1. dump \/ ~(fill * 4 >= PacingCapacity * 3)
      BY <1>10 DEF StartsFrame, ShouldRun, AudioHigh
    <3> QED
      BY <1>1, <1>2, <2>2, <3>1 DEF FrameFits
  <2>7. Fed(most)'
    <3>1. ASSUME primed', ~halted' PROVE fill >= ticks * most /\ ticks * most \in Nat
      <4>1. primed /\ ~halted /\ ticks < FramePeriod
        BY <2>1, <2>2, <3>1, Zenon
      <4>2. ticks <= FramePeriod - 1 /\ FramePeriod - 1 \in Nat
        BY <1>1, <2>3, <4>1
      <4>3. ticks * most \in Nat /\ ticks * most <= frame
        BY <1>1, <2>3, <4>2, DrainedLess DEF frame
      <4> DEFINE spent == ticks * most
      <4> HIDE DEF spent
      <4>4. spent \in Nat /\ spent <= frame
        BY <4>3 DEF spent
      <4>5. fill >= left + frame
        BY <1>6, <2>2, <4>1, Zenon
      <4>6. fill >= spent
        BY <1>2, <1>3, <4>4, <4>5
      <4> QED
        BY <4>3, <4>6 DEF spent
    <3>2. busy' # "no"
      BY <2>2
    <3>3. ASSUME primed', ~halted'
          PROVE  fill' >= rest' * most + IF busy' = "no" THEN frame ELSE 0
      <4> DEFINE spent == ticks * most
      <4>1. rest' * most = spent /\ spent \in Nat /\ fill >= spent
        BY <2>1, <3>1, <3>3
      <4> HIDE DEF spent
      <4> QED
        BY <1>2, <2>2, <3>2, <4>1
    <3> QED
      BY <1>9, <3>3, Zenon
  <2> QED
    BY <1>5, <2>2, <2>4, <2>5, <2>6, <2>7 DEF PacingInv
<1>11. CASE ThreadWaits
  <2>1. /\ busy = "no" /\ (halted \/ ~ShouldRun)
        /\ rest' = (IF halted \/ AudioHigh \/ due > Poll THEN Poll ELSE due)
        /\ burst' = 0 /\ fill' = fill /\ due' = due /\ busy' = busy /\ halted' = halted
        /\ dump' = dump /\ primed' = primed /\ missed' = missed /\ lost' = lost
    BY <1>11 DEF ThreadWaits
  <2>2. PICK k \in Nat : rest' = k /\ k <= Poll
    <3>1. CASE halted \/ AudioHigh \/ due > Poll
      BY <1>1, <2>1, <3>1
    <3>2. CASE ~(halted \/ AudioHigh \/ due > Poll)
      <4>1. ~(due <= 0)
        BY <2>1, <3>2, Zenon DEF ShouldRun
      <4>2. due \in Nat /\ due <= Poll
        BY <1>1, <1>2, <3>2, <4>1
      <4>3. rest' = due
        BY <2>1, <3>2
      <4> QED
        BY <4>2, <4>3
    <3> QED
      BY <3>1, <3>2
  <2>3. PacingNumbers'
    BY <1>1, <1>2, <2>1, <2>2 DEF PacingNumbers, Late
  <2>4. PacingFlags'
    BY <1>5, <2>1, Zenon DEF PacingFlags
  <2>5. FrameFits'
    BY <1>7, <2>1 DEF FrameFits
  <2>6. Fed(most)'
    <3>1. ASSUME ~halted' PROVE 4 * fill >= PacingCapacity
      <4>1. ~ShouldRun
        BY <2>1, <3>1, Zenon
      <4>2. fill * 4 >= PacingCapacity * 3 \/ ~(fill * 4 < PacingCapacity)
        BY <4>1, Zenon DEF ShouldRun, AudioHigh, AudioLow
      <4> QED
        BY <1>1, <1>2, <4>2
    <3> DEFINE spent == k * most
    <3>2. spent \in Nat /\ spent <= wait
      BY <1>1, <2>2, DrainedLess DEF wait
    <3>3. rest' * most = spent
      BY <2>2
    <3> HIDE DEF spent
    <3>4. ASSUME ~halted' PROVE fill >= spent + frame
      BY <1>1, <1>2, <1>3, <1>4, <3>1, <3>2, <3>4
    <3>5. ASSUME ~halted'
          PROVE  fill' >= rest' * most + IF busy' = "no" THEN frame ELSE 0
      BY <2>1, <3>3, <3>4, <3>5
    <3> QED
      BY <1>9, <3>5, Zenon
  <2> QED
    BY <1>5, <2>1, <2>3, <2>4, <2>5, <2>6 DEF PacingInv
<1>12. CASE EndsFrame
  <2> DEFINE full == fill + FrameSamples
  <2>1. /\ busy # "no" /\ busy' = "no" /\ rest = 0 /\ rest' = 0
        /\ fill' = IF full > PacingCapacity THEN PacingCapacity ELSE full
        /\ lost' = (lost \/ (full > PacingCapacity /\ busy = "frame"))
        /\ primed' = (primed \/ full * 4 >= PacingCapacity)
        /\ halted' = halted /\ dump' = dump /\ missed' = missed /\ burst' = burst
    BY <1>12 DEF EndsFrame
  <2>2. PICK f \in Nat : fill' = f /\ f <= PacingCapacity
                         /\ (full * 4 >= PacingCapacity => 4 * f >= PacingCapacity)
                         /\ f >= FrameSamples
    BY <1>1, <1>2, <2>1
  <2>3. PacingNumbers'
    <3>1. PICK d \in Int : due' = d /\ d >= 0 - Late
      BY <1>1, <1>2, <1>12 DEF EndsFrame, NextDue
    <3> QED
      BY <1>2, <2>1, <2>2, <3>1 DEF PacingNumbers, Late
  <2>4. PacingFlags'
    BY <1>5, <2>1, Zenon DEF PacingFlags
  <2>5. FrameFits'
    BY <2>1 DEF FrameFits
  <2>6. lost' = FALSE
    <3>1. ~(full > PacingCapacity /\ busy = "frame")
      BY <1>1, <1>2, <1>7
    <3> QED
      BY <1>5, <2>1, <3>1, Zenon
  <2>7. Fed(most)'
    <3>1. ASSUME primed', ~halted' PROVE f >= frame
      <4>1. primed \/ full * 4 >= PacingCapacity
        BY <2>1, <3>1, Zenon
      <4>2. CASE full * 4 >= PacingCapacity
        BY <1>1, <1>3, <1>4, <2>2, <4>2
      <4>3. CASE primed
        BY <1>0, <1>1, <1>3, <2>2, <4>3
      <4> QED
        BY <4>1, <4>2, <4>3
    <3>2. ASSUME primed', ~halted'
          PROVE  fill' >= rest' * most + IF busy' = "no" THEN frame ELSE 0
      BY <1>3, <1>8, <2>1, <2>2, <3>1, <3>2
    <3> QED
      BY <1>9, <3>2, Zenon
  <2> QED
    BY <1>5, <2>1, <2>3, <2>4, <2>5, <2>6, <2>7 DEF PacingInv
<1>13. CASE \E stop \in BOOLEAN : RestartPacing(stop)
  <2>1. PICK stop \in BOOLEAN : RestartPacing(stop)
    BY <1>13
  <2>2. /\ busy = "no" /\ busy' = busy /\ dump' = dump /\ missed' = missed /\ lost' = lost
        /\ fill' = 0 /\ due' = 0 /\ rest' = 0 /\ halted' = stop
        /\ primed' = FALSE /\ burst' = 0
    BY <2>1 DEF RestartPacing
  <2>3. PacingNumbers'
    BY <1>1, <2>2 DEF PacingNumbers, Late
  <2>4. PacingFlags'
    BY <1>5, <2>1, <2>2, Zenon DEF PacingFlags
  <2>5. FrameFits' /\ Fed(most)'
    BY <1>9, <2>2 DEF FrameFits
  <2> QED
    BY <1>5, <2>2, <2>3, <2>4, <2>5 DEF PacingInv
<1>14. CASE RequestDump
  <2>1. /\ busy = "no" /\ busy' = busy /\ dump' = TRUE /\ rest' = 0
        /\ fill' = fill /\ due' = due /\ halted' = halted /\ primed' = primed
        /\ missed' = missed /\ lost' = lost /\ burst' = burst
    BY <1>14 DEF RequestDump
  <2>2. PacingNumbers'
    BY <1>1, <1>2, <2>1 DEF PacingNumbers, Late
  <2>3. PacingFlags'
    BY <1>5, <2>1, Zenon DEF PacingFlags
  <2>4. FrameFits'
    BY <1>7, <2>1 DEF FrameFits
  <2>5. Fed(most)'
    <3>1. ASSUME primed', ~halted'
          PROVE  fill' >= rest' * most + IF busy' = "no" THEN frame ELSE 0
      <4>0. primed /\ ~halted
        BY <2>1, <3>1, Zenon
      <4>1. fill >= left + frame
        BY <1>6, <2>1, <4>0, Zenon
      <4> QED
        BY <1>2, <1>3, <1>8, <2>1, <4>1
    <3> QED
      BY <1>9, <3>1, Zenon
  <2> QED
    BY <1>5, <2>1, <2>2, <2>3, <2>4, <2>5 DEF PacingInv
<1>15. CASE TimePasses
  <2>1. PICK n \in Drained :
          /\ fill' = IF n < fill THEN fill - n ELSE 0
          /\ missed' = (missed \/ (primed /\ n > fill /\ ~halted))
    BY <1>15 DEF TimePasses
  <2>2. /\ rest > 0 /\ rest' = rest - 1 /\ busy' = busy /\ halted' = halted /\ dump' = dump
        /\ due' = IF due > 0 - Late THEN due - 1 ELSE due
        /\ primed' = primed /\ lost' = lost /\ burst' = burst
    BY <1>15 DEF TimePasses
  <2>3. n \in Nat /\ n <= most
    BY PacingAssumption DEF RingLarge
  <2> DEFINE ahead == (rest - 1) * most
  <2>4. rest' * most = ahead /\ left = ahead + most /\ ahead \in Nat
    <3>1. rest - 1 \in Nat /\ rest = (rest - 1) + 1
      BY <1>2, <2>2
    <3>2. rest * most = (rest - 1) * most + most /\ (rest - 1) * most \in Nat
      BY <1>1, <3>1
    <3> QED
      BY <2>2, <3>2 DEF left
  <2> HIDE DEF ahead
  <2>5. PICK f \in Nat : fill' = f /\ f <= fill /\ (n <= fill => f = fill - n)
    BY <1>2, <2>1, <2>3
  <2>6. ASSUME primed, ~halted PROVE n <= fill
    <3>1. fill >= left
      BY <1>6, <2>6, Zenon
    <3> QED
      BY <1>1, <1>2, <1>3, <2>3, <2>4, <3>1
  <2>7. missed' = FALSE
    <3>1. n \in Int /\ fill \in Int /\ (n <= fill => ~(n > fill))
      BY <1>2, <2>3
    <3> QED
      BY <1>5, <2>1, <2>6, <3>1, Zenon
  <2>8. PacingNumbers'
    <3>1. PICK d \in Int : due' = d /\ d >= 0 - Late
      BY <1>1, <1>2, <2>2
    <3>2. rest - 1 \in Nat
      BY <1>2, <2>2
    <3>3. f <= PacingCapacity
      BY <1>1, <1>2, <2>5
    <3> QED
      BY <1>2, <2>2, <2>5, <3>1, <3>2, <3>3 DEF PacingNumbers, Late
  <2>9. PacingFlags'
    BY <1>5, <2>2, Zenon DEF PacingFlags
  <2>10. FrameFits'
    BY <1>1, <1>2, <1>7, <2>2, <2>5 DEF FrameFits
  <2>11. Fed(most)'
    <3>1. ASSUME primed', ~halted'
          PROVE  fill' >= rest' * most + IF busy' = "no" THEN frame ELSE 0
      <4>0. primed /\ ~halted
        BY <2>2, <3>1, Zenon
      <4>1. fill >= left /\ (busy = "no" => fill >= left + frame)
        BY <1>6, <4>0, Zenon
      <4>2. n <= fill
        BY <2>6, <4>0, Zenon
      <4> QED
        BY <1>1, <1>2, <1>3, <2>2, <2>3, <2>4, <2>5, <4>1, <4>2
    <3> QED
      BY <1>9, <3>1, Zenon
  <2> QED
    BY <1>5, <2>2, <2>7, <2>8, <2>9, <2>10, <2>11 DEF PacingInv
<1>16. CASE UNCHANGED pacingVars
  BY <1>16 DEF pacingVars, PacingInv, PacingNumbers, PacingFlags, FrameFits, Fed, Reserve, Late
<1> QED
  BY <1>10, <1>11, <1>12, <1>13, <1>14, <1>15, <1>16 DEF PacingNext

(* How often a frame follows a frame: at most every half a period late, or *)
(* half a frame of samples short.                                          *)

(* Frames that are done of those that follow one another.                  *)
Done == IF busy = "frame" THEN burst - 1 ELSE burst

(* What n frames of less than half a period make up for, in half ticks,    *)
(* after the first one, and in half samples.                               *)
MadeUp(n) == (n - 1) * (FramePeriod + 1)
Gained(n) == n * FrameSamples

OnSchedule(d, n) == n >= 1 => 2 * d + 2 * FramePeriod >= MadeUp(n)
WellFed(f, n) == 2 * f >= Gained(n) \/ 4 * f >= PacingCapacity

(* What is left when the frame under way ends: no frame started so short   *)
(* of half a period takes more.                                            *)
RaceInv(most) ==
  /\ burst <= MaxBurst
  /\ busy = "no" /\ rest > 0 => burst = 0
  /\ busy = "no" /\ burst > 0 => OnSchedule(due, burst) /\ WellFed(fill, burst)
  /\ busy # "no" /\ burst > 0 =>
       /\ Done >= 1 => 2 * (due - rest) + 3 * FramePeriod - 1 >= MadeUp(Done)
       /\ \/ 2 * (fill - rest * most) + FrameSamples >= Gained(Done)
          \/ 4 * (fill - rest * most) + 2 * FrameSamples >= PacingCapacity

LEMMA OneMoreFrame ==
  /\ \A n \in Int : MadeUp(n) \in Int /\ MadeUp(n + 1) = MadeUp(n) + FramePeriod + 1
  /\ \A n \in Int : n >= 3 => MadeUp(n) > 2 * FramePeriod
  /\ \A n \in Nat : Gained(n) \in Nat /\ Gained(n + 1) = Gained(n) + FrameSamples
  /\ MadeUp(1) = 0 /\ Gained(0) = 0
<1> DEFINE p == FramePeriod + 1
<1>1. p \in Nat /\ p > 0 /\ FramePeriod = p - 1 /\ FrameSamples \in Nat
  BY PacingAssumption
<1>2. \A n : MadeUp(n) = (n - 1) * p
  BY DEF MadeUp
<1> HIDE DEF p
<1>3. ASSUME NEW n \in Int
      PROVE  /\ MadeUp(n) \in Int /\ MadeUp(n + 1) = MadeUp(n) + FramePeriod + 1
             /\ n >= 3 => MadeUp(n) > 2 * FramePeriod
  <2> DEFINE m == n - 1
  <2>1. m \in Int /\ n = m + 1 /\ n + 1 - 1 = m + 1
    OBVIOUS
  <2> HIDE DEF m
  <2>2. (m + 1) * p = m * p + p /\ m * p \in Int
    BY <1>1, <2>1
  <2>3. MadeUp(n) = m * p /\ MadeUp(n + 1) = (m + 1) * p
    BY <1>2, <2>1 DEF m
  <2>4. m >= 2 => m * p >= 2 * p
    <3> SUFFICES ASSUME m >= 2 PROVE m * p >= 2 * p
      OBVIOUS
    <3>1. 2 * p <= m * p
      <4>1. m \in Nat
        BY <2>1
      <4> DEFINE k == m - 2
      <4>2. k \in Nat /\ m = 2 + k
        BY <4>1
      <4> HIDE DEF k
      <4>3. (2 + k) * p = 2 * p + k * p /\ k * p \in Nat
        BY <1>1, <4>2
      <4> QED BY <1>1, <4>2, <4>3
    <3> QED BY <1>1, <2>2, <3>1
  <2> QED BY <1>1, <2>1, <2>2, <2>3, <2>4
<1>4. ASSUME NEW n \in Nat
      PROVE  Gained(n) \in Nat /\ Gained(n + 1) = Gained(n) + FrameSamples
  BY <1>1 DEF Gained
<1>5. MadeUp(1) = 0 /\ Gained(0) = 0
  BY <1>1, <1>2 DEF Gained
<1> QED BY <1>3, <1>4, <1>5

(* Below its low mark a ring has been fed by few frames.                   *)
LEMMA FewFed ==
  ASSUME NEW n \in Nat, NEW f \in Nat, WellFed(f, n), 4 * f < PacingCapacity
  PROVE  n + 1 <= MaxBurst
<1> DEFINE two == 2 * FrameSamples
           c == PacingCapacity - 1
           q == c \div two
<1>1. two \in Nat \ {0} /\ c \in Nat /\ PacingCapacity = c + 1 /\ FrameSamples \in Nat
  BY PacingAssumption
<1>2. n * two <= c
  <2>1. 2 * f >= n * FrameSamples
    BY <1>1 DEF WellFed, Gained
  <2>2. n * two = 2 * (n * FrameSamples) /\ n * FrameSamples \in Nat
    BY <1>1
  <2> DEFINE g == n * FrameSamples
  <2> HIDE DEF g, two, c
  <2> QED BY <1>1, <2>1, <2>2 DEF g
<1>3. q \in Nat /\ c % two \in 0 .. two - 1 /\ c = two * q + (c % two)
  BY <1>1, DivMod
<1>4. n <= q
  <2> SUFFICES ASSUME n >= q + 1 PROVE FALSE
    BY <1>3
  <2> DEFINE more == n - (q + 1)
  <2> HIDE DEF two, c, q
  <2>1. more \in Nat /\ n = q + 1 + more
    BY <1>3
  <2> HIDE DEF more
  <2>2. (q + 1 + more) * two = two * q + two + more * two /\ more * two \in Nat /\ two * q \in Nat
    BY <1>1, <1>3, <2>1
  <2> QED BY <1>1, <1>2, <1>3, <2>1, <2>2
<1>5. MaxBurst >= q + 1
  <2> DEFINE feeding == q + 1
  <2>1. MaxBurst = IF feeding > 3 THEN feeding ELSE 3
    BY DEF MaxBurst
  <2>2. feeding \in Nat
    BY <1>3
  <2> HIDE DEF feeding, q
  <2>3. MaxBurst >= feeding
    BY <2>1, <2>2
  <2> QED BY <2>3 DEF feeding
<1>6. MaxBurst \in Nat
  <2> DEFINE feeding == q + 1
  <2>1. MaxBurst = IF feeding > 3 THEN feeding ELSE 3
    BY DEF MaxBurst
  <2>2. feeding \in Nat
    BY <1>3
  <2> HIDE DEF feeding, q
  <2> QED BY <2>1, <2>2
<1> HIDE DEF q
<1> QED BY <1>3, <1>4, <1>5, <1>6

LEMMA BurstBound == MaxBurst \in Nat /\ MaxBurst >= 3
<1> DEFINE feeding == (PacingCapacity - 1) \div (2 * FrameSamples) + 1
<1>1. MaxBurst = IF feeding > 3 THEN feeding ELSE 3
  BY DEF MaxBurst
<1>2. feeding \in Nat
  <2>1. PacingCapacity - 1 \in Nat /\ 2 * FrameSamples \in Nat \ {0}
    BY PacingAssumption
  <2> QED BY <2>1, DivMod
<1> HIDE DEF feeding
<1> QED BY <1>1, <1>2

LEMMA RaceStep ==
  ASSUME NEW most, RingLarge(most), PacingInv(most), RaceInv(most), [PacingNext]_pacingVars
  PROVE  RaceInv(most)'
<1>1. /\ most \in Nat /\ PacingCapacity \in Nat /\ PacingCapacity > 0
      /\ FrameSamples \in Nat /\ FrameSamples > 0 /\ FramePeriod \in Nat /\ FramePeriod > 0
      /\ 4 * FrameSamples <= PacingCapacity /\ Late = 4 * FramePeriod + 1
  BY PacingAssumption DEF RingLarge, Late
<1>2. /\ fill \in Nat /\ fill <= PacingCapacity /\ due \in Int /\ due >= 0 - Late
      /\ rest \in Nat /\ burst \in Nat
  BY <1>1 DEF PacingInv, PacingNumbers
<1>3. burst <= MaxBurst /\ MaxBurst \in Nat /\ MaxBurst >= 3
  BY BurstBound DEF RaceInv
(* A new start of the count.                                               *)
<1>4. ASSUME burst' = 0 PROVE RaceInv(most)'
  BY <1>3, <1>4 DEF RaceInv, MaxBurst
<1>5. CASE StartsFrame
  <2>1. PICK ticks \in FrameTicks :
          /\ rest' = ticks
          /\ burst' = IF 2 * ticks >= FramePeriod THEN 0
                      ELSE IF dump \/ burst > MaxBurst THEN burst ELSE burst + 1
    BY <1>5 DEF StartsFrame
  <2>2. /\ busy = "no" /\ rest = 0 /\ busy' = IF dump THEN "dump" ELSE "frame"
        /\ fill' = fill /\ due' = due
        /\ (dump \/ AudioLow \/ due <= 0)
    BY <1>5 DEF StartsFrame, ShouldRun
  <2>3. ticks \in Nat
    BY PacingAssumption
  <2>4. CASE 2 * ticks >= FramePeriod
    BY <1>4, <2>1, <2>4
  <2>5. CASE ~(2 * ticks >= FramePeriod)
    <3> DEFINE spent == ticks * most
    <3>1. 2 * ticks <= FramePeriod - 1
      BY <1>1, <2>3, <2>5
    <3>2. spent \in Nat /\ 2 * spent <= FrameSamples
      <4>1. FramePeriod - 1 \in Nat /\ 2 * ticks \in Nat
        BY <1>1, <2>3
      <4>2. (2 * ticks) * most <= (FramePeriod - 1) * most
        BY <1>1, <3>1, <4>1, DrainedLess
      <4>3. (2 * ticks) * most = 2 * spent /\ spent \in Nat
        BY <1>1, <2>3
      <4>4. (FramePeriod - 1) * most <= FrameSamples /\ (FramePeriod - 1) * most \in Nat
        BY <1>1, <4>1 DEF RingLarge
      <4> QED BY <1>1, <4>2, <4>3, <4>4
    <3>3. burst' = (IF dump THEN burst ELSE burst + 1) /\ Done' = burst
      BY <1>2, <1>3, <2>1, <2>2, <2>5 DEF Done
    <3>4. burst > 0 => OnSchedule(due, burst) /\ WellFed(fill, burst)
      BY <2>2 DEF RaceInv
    <3>5. MadeUp(burst) \in Int /\ Gained(burst) \in Nat /\ Gained(0) = 0
          /\ (burst >= 3 => MadeUp(burst) > 2 * FramePeriod)
      BY <1>2, OneMoreFrame
    <3>6. burst' <= MaxBurst
      <4>1. CASE dump
        BY <1>3, <3>3, <4>1
      <4>2. CASE burst = 0
        BY <1>3, <3>3, <4>2
      <4>3. CASE ~dump /\ burst > 0 /\ AudioLow
        <5>1. 4 * fill < PacingCapacity
          BY <1>1, <1>2, <4>3 DEF AudioLow
        <5> QED BY <1>2, <3>3, <3>4, <4>3, <5>1, FewFed
      <4>4. CASE ~dump /\ burst > 0 /\ due <= 0
        <5>1. 2 * due + 2 * FramePeriod >= MadeUp(burst)
          BY <1>2, <3>4, <4>4 DEF OnSchedule
        <5>2. burst < 3
          BY <1>1, <1>2, <3>5, <4>4, <5>1
        <5> QED BY <1>2, <1>3, <3>3, <4>4, <5>2
      <4> QED BY <1>2, <2>2, <4>1, <4>2, <4>3, <4>4
    <3>7. busy' # "no" /\ rest' * most = spent
      BY <2>1, <2>2
    <3> HIDE DEF spent
    <3>8. burst >= 1 => 2 * (due - ticks) + 3 * FramePeriod - 1 >= MadeUp(burst)
      <4> SUFFICES ASSUME burst >= 1
                   PROVE  2 * (due - ticks) + 3 * FramePeriod - 1 >= MadeUp(burst)
        OBVIOUS
      <4>1. 2 * due + 2 * FramePeriod >= MadeUp(burst)
        BY <1>2, <3>4 DEF OnSchedule
      <4> QED BY <1>1, <1>2, <2>3, <3>1, <3>5, <4>1
    <3>9. \/ 2 * (fill - spent) + FrameSamples >= Gained(burst)
          \/ 4 * (fill - spent) + 2 * FrameSamples >= PacingCapacity
      <4>1. 2 * fill >= Gained(burst) \/ 4 * fill >= PacingCapacity
        <5>1. CASE burst = 0
          BY <1>2, <3>5, <5>1
        <5>2. CASE burst > 0
          BY <3>4, <5>2 DEF WellFed
        <5> QED BY <1>2, <5>1, <5>2
      <4> QED BY <1>1, <1>2, <3>2, <3>5, <4>1
    <3>10. /\ Done' >= 1 => 2 * (due' - rest') + 3 * FramePeriod - 1 >= MadeUp(Done')
           /\ \/ 2 * (fill' - rest' * most) + FrameSamples >= Gained(Done')
              \/ 4 * (fill' - rest' * most) + 2 * FrameSamples >= PacingCapacity
      BY <2>1, <2>2, <3>3, <3>7, <3>8, <3>9
    <3> QED BY <3>6, <3>7, <3>10 DEF RaceInv, MaxBurst, MadeUp, Gained
  <2> QED BY <2>4, <2>5
<1>6. CASE ThreadWaits
  BY <1>4, <1>6 DEF ThreadWaits
<1>7. CASE EndsFrame
  <2> DEFINE full == fill + FrameSamples
  <2>1. /\ busy # "no" /\ busy' = "no" /\ rest = 0 /\ rest' = 0 /\ burst' = burst
        /\ fill' = IF full > PacingCapacity THEN PacingCapacity ELSE full
        /\ due' = IF due < 0 - 2 * FramePeriod THEN FramePeriod ELSE due + FramePeriod
    BY <1>7 DEF EndsFrame, NextDue
  <2>2. CASE burst = 0
    BY <1>4, <2>1, <2>2
  <2>3. CASE burst > 0
    <3> DEFINE n == Done
    <3>1. n \in Nat /\ (burst = n \/ burst = n + 1)
      BY <1>2, <2>3 DEF Done
    <3>2. /\ n >= 1 => 2 * (due - rest) + 3 * FramePeriod - 1 >= MadeUp(n)
          /\ \/ 2 * (fill - rest * most) + FrameSamples >= Gained(n)
             \/ 4 * (fill - rest * most) + 2 * FrameSamples >= PacingCapacity
      BY <2>1, <2>3 DEF RaceInv
    <3>3. rest * most = 0 /\ fill - rest * most = fill /\ due - rest = due
      BY <1>1, <1>2, <2>1
    <3> HIDE DEF n
    <3>4. /\ MadeUp(n) \in Int /\ MadeUp(n + 1) = MadeUp(n) + FramePeriod + 1 /\ MadeUp(1) = 0
          /\ Gained(n) \in Nat /\ Gained(n + 1) = Gained(n) + FrameSamples
          /\ (n >= 1 => MadeUp(n) >= 0)
      <4>1. n >= 1 => MadeUp(n) >= 0
        <5>1. n >= 3 => MadeUp(n) > 2 * FramePeriod
          BY <3>1, OneMoreFrame
        <5>2. MadeUp(1) = 0 /\ MadeUp(1 + 1) = MadeUp(1) + FramePeriod + 1
          BY OneMoreFrame
        <5>3. MadeUp(n) \in Int
          BY <3>1, OneMoreFrame
        <5>4. n = 1 => MadeUp(n) >= 0
          BY <5>2
        <5>5. n = 2 => MadeUp(n) >= 0
          <6>1. MadeUp(2) = 0 + FramePeriod + 1
            BY <5>2
          <6> QED BY <1>1, <6>1
        <5>6. n >= 3 => MadeUp(n) >= 0
          BY <1>1, <5>1, <5>3
        <5>7. n < 1 \/ n = 1 \/ n = 2 \/ n >= 3
          BY <3>1
        <5> QED BY <3>1, <5>4, <5>5, <5>6, <5>7
      <4> QED BY <3>1, <4>1, OneMoreFrame
    <3>5. n >= 1 => 2 * due + 3 * FramePeriod - 1 >= MadeUp(n)
      BY <3>2, <3>3
    <3>6. n >= 1 => due' = due + FramePeriod
      BY <1>1, <1>2, <2>1, <3>4, <3>5
    <3>7. due' \in Int /\ due' >= 0 - FramePeriod
      BY <1>1, <1>2, <2>1
    <3>8. OnSchedule(due', n) /\ OnSchedule(due', n + 1)
      <4>1. n >= 1 => 2 * due' + 2 * FramePeriod >= MadeUp(n + 1)
        BY <1>1, <1>2, <3>4, <3>5, <3>6
      <4>2. n = 0 => 2 * due' + 2 * FramePeriod >= MadeUp(n + 1)
        BY <1>1, <3>4, <3>7
      <4>3. 2 * due' + 2 * FramePeriod >= MadeUp(n + 1)
        BY <3>1, <4>1, <4>2
      <4>4. n >= 1 => 2 * due' + 2 * FramePeriod >= MadeUp(n)
        BY <1>1, <3>4, <3>7, <4>3
      <4> QED BY <4>3, <4>4 DEF OnSchedule
    <3>9. WellFed(fill', n + 1) /\ WellFed(fill', n)
      <4>1. \/ 2 * full >= Gained(n + 1)
            \/ 4 * full >= PacingCapacity
        BY <1>1, <1>2, <3>2, <3>3, <3>4
      <4>2. 2 * fill' >= Gained(n + 1) \/ 4 * fill' >= PacingCapacity
        BY <1>1, <1>2, <2>1, <3>4, <4>1
      <4>3. PICK f \in Nat : fill' = f
        BY <1>1, <1>2, <2>1
      <4>4. WellFed(f, n + 1)
        BY <4>2, <4>3 DEF WellFed
      <4>5. WellFed(f, n)
        <5>1. 2 * f >= Gained(n + 1) \/ 4 * f >= PacingCapacity
          BY <4>2, <4>3
        <5>2. 2 * f >= Gained(n) \/ 4 * f >= PacingCapacity
          BY <1>1, <3>4, <5>1
        <5> QED BY <5>2 DEF WellFed
      <4> QED BY <4>3, <4>4, <4>5
    <3>10. OnSchedule(due', burst') /\ WellFed(fill', burst')
      BY <2>1, <3>1, <3>8, <3>9
    <3>11. OnSchedule(due, burst)' /\ WellFed(fill, burst)'
      BY <3>10 DEF OnSchedule, WellFed, MadeUp, Gained
    <3>12. burst' <= MaxBurst'
      BY <1>3, <2>1 DEF MaxBurst
    <3> QED BY <2>1, <3>11, <3>12 DEF RaceInv
  <2> QED BY <1>2, <2>2, <2>3
<1>8. CASE \E stop \in BOOLEAN : RestartPacing(stop)
  BY <1>4, <1>8 DEF RestartPacing
<1>9. CASE RequestDump
  <2>1. /\ busy = "no" /\ busy' = busy /\ rest' = 0 /\ fill' = fill /\ due' = due
        /\ burst' = burst
    BY <1>9 DEF RequestDump
  <2> QED BY <1>3, <2>1 DEF RaceInv, OnSchedule, WellFed, MadeUp, Gained, MaxBurst
<1>10. CASE TimePasses
  <2>1. PICK n \in Drained : fill' = IF n < fill THEN fill - n ELSE 0
    BY <1>10 DEF TimePasses
  <2>2. /\ rest > 0 /\ rest' = rest - 1 /\ busy' = busy /\ burst' = burst
        /\ due' = IF due > 0 - Late THEN due - 1 ELSE due
    BY <1>10 DEF TimePasses
  <2>3. CASE burst = 0
    BY <1>4, <2>2, <2>3
  <2>4. CASE burst > 0
    <3>1. busy # "no"
      BY <1>2, <2>2, <2>4 DEF RaceInv
    <3> DEFINE d == Done
    <3>2. d \in Nat /\ Done' = d
      BY <1>2, <2>2, <2>4 DEF Done
    <3>3. /\ d >= 1 => 2 * (due - rest) + 3 * FramePeriod - 1 >= MadeUp(d)
          /\ \/ 2 * (fill - rest * most) + FrameSamples >= Gained(d)
             \/ 4 * (fill - rest * most) + 2 * FrameSamples >= PacingCapacity
      BY <2>4, <3>1 DEF RaceInv
    <3> HIDE DEF d
    <3>4. MadeUp(d) \in Int /\ Gained(d) \in Nat
      BY <3>2, OneMoreFrame
    <3>5. due' - rest' >= due - rest /\ due' - rest' \in Int
      BY <1>1, <1>2, <2>2
    <3>6. fill' \in Nat /\ fill' >= fill - most
      <4>1. n \in Nat /\ n <= most
        BY PacingAssumption DEF RingLarge
      <4> QED BY <1>1, <1>2, <2>1, <4>1
    <3> DEFINE x == rest * most
               y == rest' * most
    <3>7. x \in Nat /\ y \in Nat /\ x = y + most
      <4> DEFINE k == rest - 1
      <4>1. k \in Nat /\ rest = k + 1 /\ rest' = k
        BY <1>2, <2>2
      <4> HIDE DEF k
      <4> QED BY <1>1, <4>1
    <3>8. \/ 2 * (fill - x) + FrameSamples >= Gained(d)
          \/ 4 * (fill - x) + 2 * FrameSamples >= PacingCapacity
      BY <3>3
    <3> HIDE DEF x, y
    <3>9. \/ 2 * (fill' - y) + FrameSamples >= Gained(d)
          \/ 4 * (fill' - y) + 2 * FrameSamples >= PacingCapacity
      <4>1. PICK f \in Nat : fill' = f /\ f >= fill - most
        BY <3>6
      <4>2. f - y >= fill - x
        BY <1>1, <1>2, <3>7, <4>1
      <4>3. \/ 2 * (f - y) + FrameSamples >= Gained(d)
            \/ 4 * (f - y) + 2 * FrameSamples >= PacingCapacity
        <5> DEFINE u == fill - x
                   w == f - y
        <5>1. u \in Int /\ w \in Int /\ w >= u
          BY <1>2, <3>7, <4>2
        <5>2. 2 * u + FrameSamples >= Gained(d) \/ 4 * u + 2 * FrameSamples >= PacingCapacity
          BY <3>8
        <5> HIDE DEF u, w
        <5>3. 2 * w + FrameSamples >= Gained(d) \/ 4 * w + 2 * FrameSamples >= PacingCapacity
          BY <1>1, <3>4, <5>1, <5>2
        <5> QED BY <5>3 DEF w
      <4> QED BY <4>1, <4>3
    <3>10. d >= 1 => 2 * (due' - rest') + 3 * FramePeriod - 1 >= MadeUp(d)
      <4> DEFINE a == due - rest
                 b == due' - rest'
      <4>1. a \in Int /\ b \in Int /\ b >= a
        BY <1>2, <3>5
      <4>2. d >= 1 => 2 * a + 3 * FramePeriod - 1 >= MadeUp(d)
        BY <3>3
      <4> HIDE DEF a, b
      <4>3. d >= 1 => 2 * b + 3 * FramePeriod - 1 >= MadeUp(d)
        BY <1>1, <3>4, <4>1, <4>2
      <4> QED BY <4>3 DEF b
    <3>11. /\ Done' >= 1 => 2 * (due' - rest') + 3 * FramePeriod - 1 >= MadeUp(Done')
           /\ \/ 2 * (fill' - rest' * most) + FrameSamples >= Gained(Done')
              \/ 4 * (fill' - rest' * most) + 2 * FrameSamples >= PacingCapacity
      BY <3>2, <3>9, <3>10 DEF y
    <3>12. burst' <= MaxBurst' /\ busy' # "no"
      BY <1>3, <2>2, <3>1 DEF MaxBurst
    <3> QED BY <3>11, <3>12 DEF RaceInv, MadeUp, Gained
  <2> QED BY <1>2, <2>3, <2>4
<1>11. CASE UNCHANGED pacingVars
  BY <1>3, <1>11 DEF pacingVars, RaceInv, Done, OnSchedule, WellFed, MadeUp, Gained, MaxBurst
<1> QED
  BY <1>5, <1>6, <1>7, <1>8, <1>9, <1>10, <1>11 DEF PacingNext

(* Two clocks pace one thread.  No frame but a dump overruns the ring;     *)
(* once above its low mark the ring feeds the device as long as frames     *)
(* take less than a period; and after any stall few frames follow one      *)
(* another without a wait, if they take less than half of one (worker_loop *)
(* and run_one_frame), at every device and frame rate the ring is large    *)
(* enough for.                                                             *)
THEOREM PacingHolds ==
  ASSUME NEW most, RingLarge(most)
  PROVE  PacingSpec => []PacingKept
<1>1. ASSUME PacingInit PROVE PacingInv(most) /\ RaceInv(most)
  <2>1. Late \in Nat /\ PacingCapacity \in Nat
    BY PacingAssumption DEF Late
  <2>2. PacingNumbers
    BY <1>1, <2>1 DEF PacingInit, PacingNumbers
  <2>a. PacingFlags
    BY <1>1, Zenon DEF PacingInit, PacingFlags
  <2>3. FrameFits /\ Fed(most)
    BY <1>1 DEF PacingInit, FrameFits, Fed
  <2>4. RaceInv(most)
    BY <1>1, BurstBound DEF PacingInit, RaceInv
  <2> QED
    BY <1>1, <2>2, <2>a, <2>3, <2>4 DEF PacingInit, PacingInv
<1>2. PacingInv(most) /\ [PacingNext]_pacingVars => PacingInv(most)'
  BY PacingStep
<1>3. PacingInv(most) /\ RaceInv(most) /\ [PacingNext]_pacingVars => RaceInv(most)'
  BY RaceStep
<1>4. PacingInv(most) /\ RaceInv(most) => PacingKept
  BY DEF PacingInv, RaceInv, PacingKept, NoOverrun, NoUnderrun, NoRace
<1> QED
  BY <1>1, <1>2, <1>3, <1>4, PTL DEF PacingSpec
-----------------------------------------------------------------------------
(* The APU's clock.                                                        *)

Channels == [counter : 0 .. Periods, idx : 0 .. WaveLength - 1]

LEMMA ClockFacts ==
  ASSUME ApuClockTypeOK
  PROVE  /\ WavePeriod \in Nat \ {0} /\ WavePeriod <= Periods
         /\ Periods \in Nat \ {0} /\ WaveLength \in Nat \ {0} /\ SampleCycles \in Nat \ {0}
BY ApuClockAssumption DEF ApuClockTypeOK, WavePeriod

(* The sample reached next is one of the waveform.                         *)
LEMMA NextSampleTyped ==
  ASSUME ApuClockTypeOK, NEW c \in Channels, NEW n \in Nat
  PROVE  /\ NextSample(c, n) \in Channels
         /\ NextSample(c, n).counter = WavePeriod
         /\ NextSample(c, n).idx = (c.idx + n) % WaveLength
<1>1. c.idx + n \in Nat
  BY DEF Channels
<1>2. (c.idx + n) % WaveLength \in 0 .. WaveLength - 1
  BY <1>1, ClockFacts, DivMod
<1>3. WavePeriod \in 0 .. Periods
  BY ClockFacts
<1> QED BY <1>2, <1>3 DEF NextSample, Channels

LEMMA TickOneTyped ==
  ASSUME ApuClockTypeOK, NEW c \in Channels
  PROVE  TickOne(c) \in Channels
<1>1. CASE c.counter <= 1
  BY <1>1, NextSampleTyped DEF TickOne
<1>2. CASE ~(c.counter <= 1)
  <2>1. c.counter - 1 \in 0 .. Periods
    BY <1>2, ClockFacts DEF Channels
  <2> QED BY <1>2, <2>1 DEF TickOne, Channels
<1> QED BY <1>1, <1>2

(* The cycle in which a channel reaches its next sample.                   *)
First(c) == IF c.counter = 0 THEN 1 ELSE c.counter

(* advance from the first sample on: m cycles past it, q whole periods.    *)
Past(c, m) == [counter |-> WavePeriod - (m % WavePeriod),
               idx |-> (c.idx + (1 + m \div WavePeriod)) % WaveLength]

LEMMA AdvancePieces ==
  ASSUME ApuClockTypeOK, NEW c \in Channels, NEW n \in Nat
  PROVE  /\ First(c) \in Nat \ {0}
         /\ n = 0 => Advance(c, n) = c
         /\ n # 0 /\ n < First(c) => Advance(c, n) = [c EXCEPT !.counter = c.counter - n]
         /\ ~(n < First(c)) => /\ n - First(c) \in Nat
                               /\ Advance(c, n) = Past(c, n - First(c))
<1>1. c.counter \in Nat /\ First(c) \in Nat \ {0}
  BY ClockFacts DEF First, Channels
<1>2. CASE n = 0
  BY <1>1, <1>2 DEF Advance
<1>3. CASE n # 0 /\ n < First(c)
  BY <1>1, <1>3 DEF Advance, First, Channels
<1>4. CASE ~(n < First(c))
  <2> DEFINE m == n - First(c)
             r == WavePeriod - (m % WavePeriod)
             i == (c.idx + (1 + m \div WavePeriod)) % WaveLength
  <2>1. m \in Nat /\ n # 0
    BY <1>1, <1>4
  <2>2. Advance(c, n) = [NextSample(c, 1 + m \div WavePeriod) EXCEPT !.counter = r]
    BY <2>1, <1>4 DEF Advance, First
  <2>3. NextSample(c, 1 + m \div WavePeriod) = [counter |-> WavePeriod, idx |-> i]
    BY DEF NextSample
  <2> HIDE DEF r, i
  <2>4. Advance(c, n) = [counter |-> r, idx |-> i]
    BY <2>2, <2>3
  <2> QED BY <1>1, <1>4, <2>1, <2>4 DEF Past, r, i
<1> QED BY <1>1, <1>2, <1>3, <1>4

LEMMA PastTyped ==
  ASSUME ApuClockTypeOK, NEW c \in Channels, NEW m \in Nat
  PROVE  /\ Past(c, m) \in Channels
         /\ Past(c, m).counter = WavePeriod - (m % WavePeriod)
         /\ Past(c, m).idx = (c.idx + (1 + m \div WavePeriod)) % WaveLength
         /\ Past(c, m).counter \in 1 .. WavePeriod
<1>1. m % WavePeriod \in 0 .. WavePeriod - 1 /\ m \div WavePeriod \in Nat
  BY ClockFacts, DivMod
<1>2. c.idx + (1 + m \div WavePeriod) \in Nat
  BY <1>1 DEF Channels
<1>3. (c.idx + (1 + m \div WavePeriod)) % WaveLength \in 0 .. WaveLength - 1
  BY <1>2, ClockFacts, DivMod
<1>4. /\ WavePeriod - (m % WavePeriod) \in 0 .. Periods
      /\ WavePeriod - (m % WavePeriod) \in 1 .. WavePeriod
  BY <1>1, ClockFacts
<1> QED BY <1>3, <1>4 DEF Past, Channels

(* One more cycle past the first sample.                                   *)
LEMMA PastOne ==
  ASSUME ApuClockTypeOK, NEW c \in Channels, NEW m \in Nat
  PROVE  Past(c, m + 1) = TickOne(Past(c, m))
<1> DEFINE P == WavePeriod
           q == m \div P
           r == m % P
           i == c.idx + (1 + q)
<1>1. P \in Nat \ {0}
  BY ClockFacts
<1>2. q \in Nat /\ r \in 0 .. P - 1 /\ m = P * q + r
  BY <1>1, DivMod
<1>3. i \in Nat /\ c.idx \in Nat
  BY <1>2 DEF Channels
<1>4. WaveLength \in Nat \ {0}
  BY ClockFacts
<1>5. /\ Past(c, m) \in Channels /\ Past(c, m).counter = P - r
      /\ Past(c, m).idx = i % WaveLength
  BY PastTyped
<1>a. Past(c, m) = [counter |-> P - r, idx |-> i % WaveLength]
  BY DEF Past
<1>6. CASE r = P - 1
  <2>1. (m + 1) \div P = q + 1 /\ (m + 1) % P = 0
    <3> HIDE DEF P, q, r
    <3>1. P * (q + 1) = P * q + P
      BY <1>1, <1>2, SMT
    <3>2. m + 1 = P * (q + 1) + 0 /\ q + 1 \in Int /\ 0 \in 0 .. P - 1 /\ m + 1 \in Nat
      BY <1>1, <1>2, <1>6, <3>1
    <3> QED BY <1>1, <3>2, DivUnique
  <2>2. Past(c, m + 1) = [counter |-> P, idx |-> (i + 1) % WaveLength]
    <3>1. Past(c, m + 1) = [counter |-> P - 0, idx |-> (c.idx + (1 + (q + 1))) % WaveLength]
      BY <2>1 DEF Past
    <3> HIDE DEF P, q
    <3>2. P - 0 = P /\ c.idx + (1 + (q + 1)) = i + 1
      BY <1>1, <1>2, <1>3
    <3> QED BY <3>1, <3>2
  <2>3. Past(c, m).counter <= 1
    <3> HIDE DEF P, r
    <3> QED BY <1>1, <1>2, <1>5, <1>6
  <2>4. TickOne(Past(c, m)) = [counter |-> P, idx |-> ((i % WaveLength) + 1) % WaveLength]
    BY <1>5, <2>3 DEF TickOne, NextSample
  <2>5. ((i % WaveLength) + 1) % WaveLength = (i + 1) % WaveLength
    <3> HIDE DEF i
    <3> QED BY <1>3, <1>4, ModPlus
  <2> QED BY <2>2, <2>4, <2>5
<1>7. CASE r # P - 1
  <2>1. (m + 1) \div P = q /\ (m + 1) % P = r + 1
    <3> HIDE DEF P, q, r
    <3>1. m + 1 = P * q + (r + 1) /\ q \in Int /\ r + 1 \in 0 .. P - 1 /\ m + 1 \in Nat
      BY <1>1, <1>2, <1>7
    <3> QED BY <1>1, <3>1, DivUnique
  <2>2. Past(c, m + 1) = [counter |-> P - (r + 1), idx |-> i % WaveLength]
    BY <2>1 DEF Past
  <2>3. ~(Past(c, m).counter <= 1)
    <3> HIDE DEF P, r
    <3> QED BY <1>1, <1>2, <1>5, <1>7
  <2>4. TickOne(Past(c, m)) = [Past(c, m) EXCEPT !.counter = (P - r) - 1]
    BY <1>5, <2>3 DEF TickOne, Channels
  <2>5. P - (r + 1) = (P - r) - 1
    <3> HIDE DEF P, r
    <3> QED BY <1>1, <1>2
  <2>6. TickOne(Past(c, m)) = [counter |-> (P - r) - 1, idx |-> i % WaveLength]
    <3> HIDE DEF P, r, i
    <3> QED BY <1>a, <2>4
  <2> QED BY <2>2, <2>5, <2>6
<1> QED BY <1>6, <1>7

(* advance takes one cycle more as tick does: within a period, at its end, *)
(* and from a counter of zero.                                             *)
LEMMA AdvanceOne ==
  ASSUME ApuClockTypeOK, NEW c \in Channels, NEW n \in Nat
  PROVE  Advance(c, n) \in Channels /\ Advance(c, n + 1) = TickOne(Advance(c, n))
<1>0. /\ c.counter \in Nat /\ c.counter <= Periods /\ c.idx \in 0 .. WaveLength - 1
      /\ c = [counter |-> c.counter, idx |-> c.idx] /\ n + 1 \in Nat
  BY ClockFacts DEF Channels
<1>1. First(c) \in Nat \ {0}
  BY AdvancePieces
<1>p. Past(c, 0) = NextSample(c, 1)
  <2>1. 0 \div WavePeriod = 0 /\ 0 % WavePeriod = 0
    BY ClockFacts
  <2>2. WavePeriod - 0 = WavePeriod /\ 1 + 0 = 1
    BY ClockFacts
  <2> QED BY <2>1, <2>2 DEF Past, NextSample
<1>2. CASE n + 1 < First(c)
  <2>1. First(c) = c.counter
    BY <1>0, <1>2 DEF First
  <2>2. Advance(c, n + 1) = [c EXCEPT !.counter = c.counter - (n + 1)]
    BY <1>0, <1>2, AdvancePieces
  <2>3. Advance(c, n) = [counter |-> c.counter - n, idx |-> c.idx]
    <3>1. CASE n = 0
      BY <1>0, <3>1, AdvancePieces
    <3>2. CASE n # 0
      <4>1. n < First(c)
        BY <1>1, <1>2
      <4>2. Advance(c, n) = [c EXCEPT !.counter = c.counter - n]
        BY <3>2, <4>1, AdvancePieces
      <4> QED BY <1>0, <4>2
    <3> QED BY <3>1, <3>2
  <2>4. c.counter - n \in 0 .. Periods /\ ~(c.counter - n <= 1)
        /\ c.counter - (n + 1) = (c.counter - n) - 1
    BY <1>0, <1>2, <2>1, ClockFacts
  <2>5. TickOne(Advance(c, n)) = [counter |-> (c.counter - n) - 1, idx |-> c.idx]
    BY <2>3, <2>4 DEF TickOne
  <2>6. Advance(c, n + 1) = [counter |-> c.counter - (n + 1), idx |-> c.idx]
    BY <1>0, <2>2
  <2> QED BY <1>0, <2>3, <2>4, <2>5, <2>6 DEF Channels
<1>3. CASE n + 1 = First(c)
  <2>1. Advance(c, n + 1) = NextSample(c, 1)
    <3>1. ~(n + 1 < First(c)) /\ (n + 1) - First(c) = 0
      BY <1>1, <1>3
    <3> QED BY <1>0, <1>p, <3>1, AdvancePieces
  <2>2. CASE n = 0
    <3>1. c.counter <= 1
      BY <1>0, <1>3, <2>2 DEF First
    <3> QED BY <2>1, <2>2, <3>1, AdvancePieces DEF TickOne
  <2>3. CASE n # 0
    <3>1. n < First(c) /\ First(c) = c.counter
      BY <1>0, <1>1, <1>3, <2>3 DEF First
    <3>2. Advance(c, n) = [c EXCEPT !.counter = c.counter - n]
      BY <2>3, <3>1, AdvancePieces
    <3>3. c.counter - n = 1
      BY <1>0, <1>3, <3>1
    <3>4. Advance(c, n) = [counter |-> 1, idx |-> c.idx]
      BY <1>0, <3>2, <3>3
    <3>5. TickOne(Advance(c, n)) = NextSample(c, 1)
      BY <3>4 DEF TickOne, NextSample
    <3> QED BY <1>0, <2>1, <3>4, <3>5, ClockFacts DEF Channels
  <2> QED BY <2>2, <2>3
<1>4. CASE ~(n + 1 < First(c)) /\ n + 1 # First(c)
  <2>1. ~(n < First(c)) /\ ~(n + 1 < First(c)) /\ (n + 1) - First(c) = (n - First(c)) + 1
    BY <1>1, <1>4
  <2>2. n - First(c) \in Nat /\ Advance(c, n) = Past(c, n - First(c))
    BY <2>1, AdvancePieces
  <2>3. Advance(c, n + 1) = Past(c, (n - First(c)) + 1)
    BY <1>0, <2>1, AdvancePieces
  <2> QED BY <2>2, <2>3, PastTyped, PastOne
<1> QED BY <1>1, <1>2, <1>3, <1>4

(* Advancing in two batches is advancing in one.                           *)
LEMMA AdvanceTwice ==
  ASSUME ApuClockTypeOK, NEW c \in Channels, NEW m \in Nat, NEW n \in Nat
  PROVE  Advance(Advance(c, m), n) = Advance(c, m + n)
<1> DEFINE d == Advance(c, m)
           T == {k \in Nat : Advance(d, k) = Advance(c, m + k)}
<1>1. d \in Channels
  BY AdvanceOne
<1> HIDE DEF d
<1>2. 0 \in T
  <2>1. Advance(d, 0) = d /\ m + 0 = m
    BY <1>1, AdvancePieces
  <2> QED BY <2>1 DEF d
<1>3. ASSUME NEW k \in T PROVE k + 1 \in T
  <2>1. k \in Nat /\ m + k \in Nat /\ m + (k + 1) = (m + k) + 1
    OBVIOUS
  <2>2. Advance(d, k + 1) = TickOne(Advance(d, k))
    BY <1>1, <2>1, AdvanceOne
  <2>3. Advance(c, (m + k) + 1) = TickOne(Advance(c, m + k))
    BY <2>1, AdvanceOne
  <2> QED BY <2>1, <2>2, <2>3
<1> HIDE DEF T
<1>4. T = Nat
  BY <1>2, <1>3, InductionSet DEF T
<1> QED BY <1>4 DEF T, d
-----------------------------------------------------------------------------
(* tick, called n times, is advance called once.                           *)
LEMMA TickManyAdvances ==
  ASSUME ApuClockTypeOK, NEW c \in Channels, NEW n \in Nat
  PROVE  TickMany(c, n) = Advance(c, n)
<1> DEFINE Is(f) == f = [k \in 0 .. n |-> IF k = 0 THEN c ELSE TickOne(f[k - 1])]
           after == CHOOSE f : Is(f)
           T == {k \in Nat : k <= n => after[k] = Advance(c, k)}
<1>1. \E f : Is(f)
  <2> DEFINE move == [d \in Channels |-> TickOne(d)]
  <2>1. move \in [Channels -> Channels]
    BY TickOneTyped
  <2>2. \A d \in Channels : move[d] = TickOne(d)
    OBVIOUS
  <2> HIDE DEF move
  <2>3. PICK f \in [0 .. n -> Channels] : Runs(f, n, c, move)
    BY <2>1, Iteration
  <2>4. \A k \in 0 .. n : f[k] = IF k = 0 THEN c ELSE TickOne(f[k - 1])
    <3> TAKE k \in 0 .. n
    <3>1. CASE k = 0
      BY <2>3, <3>1 DEF Runs
    <3>2. CASE k # 0
      <4>1. k \in 1 .. n /\ k - 1 \in 0 .. n
        BY <3>2
      <4>2. f[k - 1] \in Channels
        BY <2>3, <4>1
      <4> QED BY <2>2, <2>3, <3>2, <4>1, <4>2 DEF Runs
    <3> QED BY <3>1, <3>2
  <2>5. Is(f)
    BY <2>3, <2>4
  <2> QED BY <2>5
<1>2. Is(after)
  <2> HIDE DEF Is
  <2> QED BY <1>1
<1>3. TickMany(c, n) = after[n]
  BY DEF TickMany
<1> HIDE DEF after
<1>4. after[0] = c /\ \A k \in 1 .. n : after[k] = TickOne(after[k - 1])
  <2>1. \A k \in 0 .. n : after[k] = IF k = 0 THEN c ELSE TickOne(after[k - 1])
    BY <1>2
  <2> HIDE DEF Is
  <2> QED BY <2>1
<1> HIDE DEF Is
<1>5. 0 \in T
  BY <1>4, AdvancePieces
<1>6. ASSUME NEW k \in T PROVE k + 1 \in T
  <2> SUFFICES ASSUME k + 1 <= n PROVE after[k + 1] = Advance(c, k + 1)
    OBVIOUS
  <2>1. k \in Nat /\ k <= n /\ k + 1 \in 1 .. n /\ (k + 1) - 1 = k
    OBVIOUS
  <2>2. after[k + 1] = TickOne(Advance(c, k))
    BY <1>4, <2>1
  <2> QED BY <2>1, <2>2, AdvanceOne
<1> HIDE DEF T
<1>7. T = Nat
  BY <1>5, <1>6, InductionSet DEF T
<1>8. n <= n
  OBVIOUS
<1> QED BY <1>3, <1>7, <1>8 DEF T

(* A path's state on its way, and the cycles it stands for.                *)
Clocks == [osc : Channels, accum : 0 .. SampleCycles - 1, emitted : Nat]
Sent(s) == s.emitted * SampleCycles + s.accum

(* k cycles of a call have been taken.                                     *)
Taken(s, k) ==
  /\ s \in Clocks
  /\ s.osc = IF enabled THEN Advance(osc, k) ELSE osc
  /\ Sent(s) = Sent(ClockState) + k

(* Up to the next output sample and with it, cycles stay accounted for.    *)
LEMMA Reached ==
  ASSUME ApuClockTypeOK, NEW s \in Clocks, NEW n \in Nat, s.accum + n <= SampleCycles,
         NEW c \in Channels
  PROVE  /\ Reach(s, n, c) \in Clocks /\ Reach(s, n, c).osc = c
         /\ Sent(Reach(s, n, c)) = Sent(s) + n
<1>1. /\ s.accum \in Nat /\ s.emitted \in Nat /\ SampleCycles \in Nat \ {0}
      /\ s.accum \in 0 .. SampleCycles - 1
  BY ClockFacts DEF Clocks
<1>2. CASE s.accum + n >= SampleCycles
  <2>1. Reach(s, n, c) = [osc |-> c, accum |-> 0, emitted |-> s.emitted + 1]
    BY <1>2 DEF Reach
  <2>2. s.emitted + 1 \in Nat /\ 0 \in 0 .. SampleCycles - 1
    BY <1>1
  <2>3. (s.emitted + 1) * SampleCycles = s.emitted * SampleCycles + SampleCycles
    BY <1>1, SMT
  <2>4. s.accum + n = SampleCycles
    BY <1>1, <1>2
  <2>5. s.emitted * SampleCycles \in Nat
    BY <1>1, SMT
  <2>6. (s.emitted + 1) * SampleCycles + 0 = (s.emitted * SampleCycles + s.accum) + n
    BY <1>1, <2>3, <2>4, <2>5
  <2> QED BY <2>1, <2>2, <2>6 DEF Clocks, Sent
<1>3. CASE ~(s.accum + n >= SampleCycles)
  <2>1. Reach(s, n, c) = [osc |-> c, accum |-> s.accum + n, emitted |-> s.emitted]
    BY <1>3 DEF Reach, Clocks
  <2>2. s.accum + n \in 0 .. SampleCycles - 1
    BY <1>1, <1>3
  <2>3. s.emitted * SampleCycles \in Nat
    BY <1>1, SMT
  <2>4. s.emitted * SampleCycles + (s.accum + n) = (s.emitted * SampleCycles + s.accum) + n
    BY <1>1, <2>3
  <2> QED BY <1>1, <2>1, <2>2, <2>4 DEF Clocks, Sent
<1> QED BY <1>2, <1>3

(* Nothing is taken before the call.                                       *)
LEMMA NothingTaken ==
  ASSUME ApuClockTypeOK
  PROVE  ClockState \in Clocks /\ ClockState.osc = osc /\ Taken(ClockState, 0)
         /\ osc \in Channels
<1>1. osc \in Channels /\ accum \in 0 .. SampleCycles - 1 /\ emitted \in Nat
  BY DEF ApuClockTypeOK, Channels
<1>2. ClockState \in Clocks /\ ClockState.osc = osc
  BY <1>1 DEF ClockState, Clocks
<1>3. Advance(osc, 0) = osc
  BY <1>1, AdvancePieces
<1>4. Sent(ClockState) \in Nat
  <2>1. SampleCycles \in Nat /\ accum \in Nat
    BY <1>1, ClockFacts
  <2>2. emitted * SampleCycles \in Nat
    BY <1>1, <2>1, SMT
  <2> QED BY <1>1, <2>1, <2>2 DEF Sent, ClockState
<1>5. Sent(ClockState) = Sent(ClockState) + 0
  BY <1>4
<1> QED BY <1>1, <1>2, <1>3, <1>5 DEF Taken

(* What a path takes keeps both parts of the property.                     *)
LEMMA MoreTaken ==
  ASSUME ApuClockTypeOK, NEW s, NEW k \in Nat, Taken(s, k), NEW n \in Nat,
         s.accum + n <= SampleCycles
  PROVE  Taken(Reach(s, n, IF enabled THEN Advance(s.osc, n) ELSE osc), k + n)
<1> DEFINE c == IF enabled THEN Advance(s.osc, n) ELSE osc
<1>1. s \in Clocks /\ s.osc \in Channels /\ osc \in Channels
  BY NothingTaken DEF Taken, Clocks
<1>2. c \in Channels
  BY <1>1, AdvanceOne
<1>3. c = IF enabled THEN Advance(osc, k + n) ELSE osc
  BY <1>1, NothingTaken, AdvanceTwice DEF Taken
<1> HIDE DEF c
<1>4. /\ Reach(s, n, c) \in Clocks /\ Reach(s, n, c).osc = c
      /\ Sent(Reach(s, n, c)) = Sent(s) + n
  BY <1>1, <1>2, Reached
<1>5. Sent(s) + n = Sent(ClockState) + (k + n)
  <2>1. Sent(ClockState) \in Nat
    <3>1. SampleCycles \in Nat /\ accum \in Nat /\ emitted \in Nat
      BY ClockFacts DEF ApuClockTypeOK
    <3>2. emitted * SampleCycles \in Nat
      BY <3>1, SMT
    <3> QED BY <3>1, <3>2 DEF Sent, ClockState
  <2>2. Sent(s) = Sent(ClockState) + k
    BY DEF Taken
  <2> QED BY <2>1, <2>2
<1>6. Taken(Reach(s, n, c), k + n)
  BY <1>3, <1>4, <1>5 DEF Taken
<1> QED BY <1>6 DEF c

(* step, cycle by cycle, takes the cycles of its call.                     *)
LEMMA StepsTake ==
  ASSUME ApuClockTypeOK, NEW n \in Nat
  PROVE  Taken(TickSteps(n), n)
<1> DEFINE One(s) == Reach(s, 1, IF enabled THEN TickOne(s.osc) ELSE osc)
           Is(f) == f = [k \in 0 .. n |-> IF k = 0 THEN ClockState ELSE One(f[k - 1])]
           after == CHOOSE f : Is(f)
           T == {k \in Nat : k <= n => Taken(after[k], k)}
<1>a. \A s \in Clocks : s.osc \in Channels /\ s.accum + 1 <= SampleCycles
  BY ClockFacts DEF Clocks
<1>b. \A s \in Clocks : One(s) \in Clocks
  <2> TAKE s \in Clocks
  <2>1. (IF enabled THEN TickOne(s.osc) ELSE osc) \in Channels
    BY <1>a, NothingTaken, TickOneTyped
  <2> QED BY <1>a, <2>1, Reached
<1>1. \E f : Is(f)
  <2> DEFINE move == [s \in Clocks |-> One(s)]
  <2>1. move \in [Clocks -> Clocks] /\ ClockState \in Clocks
    BY <1>b, NothingTaken
  <2>2. \A s \in Clocks : move[s] = One(s)
    OBVIOUS
  <2> HIDE DEF move, One
  <2>3. PICK f \in [0 .. n -> Clocks] : Runs(f, n, ClockState, move)
    BY <2>1, Iteration
  <2>4. \A k \in 0 .. n : f[k] = IF k = 0 THEN ClockState ELSE One(f[k - 1])
    <3> TAKE k \in 0 .. n
    <3>1. CASE k = 0
      BY <2>3, <3>1 DEF Runs
    <3>2. CASE k # 0
      <4>1. k \in 1 .. n /\ k - 1 \in 0 .. n
        BY <3>2
      <4>2. f[k - 1] \in Clocks
        BY <2>3, <4>1
      <4> QED BY <2>2, <2>3, <3>2, <4>1, <4>2 DEF Runs
    <3> QED BY <3>1, <3>2
  <2>5. Is(f)
    BY <2>3, <2>4
  <2> QED BY <2>5
<1>2. Is(after)
  <2> HIDE DEF Is
  <2> QED BY <1>1
<1>3. TickSteps(n) = after[n]
  BY DEF TickSteps
<1> HIDE DEF after
<1>4. after[0] = ClockState /\ \A k \in 1 .. n : after[k] = One(after[k - 1])
  <2>1. \A k \in 0 .. n : after[k] = IF k = 0 THEN ClockState ELSE One(after[k - 1])
    BY <1>2
  <2> HIDE DEF Is, One
  <2> QED BY <2>1
<1> HIDE DEF Is
<1>5. 0 \in T
  BY <1>4, NothingTaken
<1>6. ASSUME NEW k \in T PROVE k + 1 \in T
  <2> SUFFICES ASSUME k + 1 <= n PROVE Taken(after[k + 1], k + 1)
    OBVIOUS
  <2>1. k \in Nat /\ k <= n /\ k + 1 \in 1 .. n /\ (k + 1) - 1 = k
    OBVIOUS
  <2>2. Taken(after[k], k) /\ after[k] \in Clocks
    BY <2>1 DEF Taken
  <2> DEFINE s == after[k]
  <2>3. after[k + 1] = One(s)
    BY <1>4, <2>1
  <2>4. TickOne(s.osc) = Advance(s.osc, 1)
    <3>1. s.osc \in Channels
      BY <1>a, <2>2
    <3>2. Advance(s.osc, 0 + 1) = TickOne(Advance(s.osc, 0)) /\ Advance(s.osc, 0) = s.osc
      BY <3>1, AdvanceOne, AdvancePieces
    <3>3. 0 + 1 = 1
      OBVIOUS
    <3> QED BY <3>2, <3>3
  <2>5. s.accum + 1 <= SampleCycles
    BY <1>a, <2>2
  <2>6. One(s) = Reach(s, 1, IF enabled THEN Advance(s.osc, 1) ELSE osc)
    BY <2>4
  <2> HIDE DEF s, One
  <2>7. Taken(s, k)
    BY <2>2 DEF s
  <2>8. Taken(Reach(s, 1, IF enabled THEN Advance(s.osc, 1) ELSE osc), k + 1)
    BY <2>1, <2>5, <2>7, MoreTaken
  <2> QED BY <2>3, <2>6, <2>8
<1> HIDE DEF T
<1>7. T = Nat
  BY <1>5, <1>6, InductionSet DEF T
<1>8. n <= n
  OBVIOUS
<1> QED BY <1>3, <1>7, <1>8 DEF T

(* So does tick_wave_only, in chunks that end at output samples: as long   *)
(* as cycles are left a chunk takes one or more.                           *)
LEMMA WaveOnlyTakes ==
  ASSUME ApuClockTypeOK, enabled, NEW n \in Nat
  PROVE  Taken(TickWaveOnly(n), n)
<1> DEFINE Chunk(p) == LET gap == SampleCycles - p[1].accum
                       IN  IF p[2] < gap THEN p[2] ELSE gap
           AfterChunk(p) == <<Reach(p[1], Chunk(p), Advance(p[1].osc, Chunk(p))), p[2] - Chunk(p)>>
           Is(f) == f = [k \in 0 .. n |-> IF k = 0 THEN <<ClockState, n>> ELSE AfterChunk(f[k - 1])]
           chunks == CHOOSE f : Is(f)
           S == Clocks \X (0 .. n)
           Way(p, k) == /\ p \in S /\ Taken(p[1], n - p[2])
                        /\ p[2] = 0 \/ p[2] + k <= n
           T == {k \in Nat : k <= n => Way(chunks[k], k)}
<1>a. \A p \in S : /\ p[1] \in Clocks /\ p[2] \in 0 .. n /\ p[1].osc \in Channels
                   /\ Chunk(p) \in 0 .. p[2] /\ p[1].accum + Chunk(p) <= SampleCycles
                   /\ p[2] # 0 => Chunk(p) > 0
  <2> TAKE p \in S
  <2>1. p[1] \in Clocks /\ p[2] \in 0 .. n
    OBVIOUS
  <2>2. p[1].osc \in Channels /\ p[1].accum \in 0 .. SampleCycles - 1
    BY <2>1 DEF Clocks
  <2> QED BY <2>1, <2>2, ClockFacts
<1>b. \A p \in S : AfterChunk(p) \in S
  <2> TAKE p \in S
  <2> HIDE DEF Chunk
  <2>1. p[2] - Chunk(p) \in 0 .. n /\ Chunk(p) \in Nat
    BY <1>a
  <2>2. Advance(p[1].osc, Chunk(p)) \in Channels
    BY <1>a, <2>1, AdvanceOne
  <2>3. Reach(p[1], Chunk(p), Advance(p[1].osc, Chunk(p))) \in Clocks
    BY <1>a, <2>1, <2>2, Reached
  <2> QED BY <2>1, <2>3
<1>1. \E f : Is(f)
  <2> DEFINE move == [p \in S |-> AfterChunk(p)]
  <2> HIDE DEF AfterChunk, S
  <2>1. move \in [S -> S]
    BY <1>b
  <2>2. \A p \in S : move[p] = AfterChunk(p)
    OBVIOUS
  <2>3. <<ClockState, n>> \in S
    BY NothingTaken DEF S
  <2> HIDE DEF move
  <2>4. PICK f \in [0 .. n -> S] : Runs(f, n, <<ClockState, n>>, move)
    BY <2>1, <2>3, Iteration
  <2>5. \A k \in 0 .. n : f[k] = IF k = 0 THEN <<ClockState, n>> ELSE AfterChunk(f[k - 1])
    <3> TAKE k \in 0 .. n
    <3>1. CASE k = 0
      BY <2>4, <3>1 DEF Runs
    <3>2. CASE k # 0
      <4>1. k \in 1 .. n /\ k - 1 \in 0 .. n
        BY <3>2
      <4>2. f[k - 1] \in S
        BY <2>4, <4>1
      <4> QED BY <2>2, <2>4, <3>2, <4>1, <4>2 DEF Runs
    <3> QED BY <3>1, <3>2
  <2>6. Is(f)
    BY <2>4, <2>5
  <2> QED BY <2>6
<1>2. Is(chunks)
  <2> HIDE DEF Is
  <2> QED BY <1>1
<1>3. TickWaveOnly(n) = chunks[n][1]
  BY DEF TickWaveOnly
<1> HIDE DEF chunks
<1>4. chunks[0] = <<ClockState, n>> /\ \A k \in 1 .. n : chunks[k] = AfterChunk(chunks[k - 1])
  <2> HIDE DEF AfterChunk
  <2>1. \A k \in 0 .. n : chunks[k] = IF k = 0 THEN <<ClockState, n>> ELSE AfterChunk(chunks[k - 1])
    BY <1>2
  <2> HIDE DEF Is
  <2> QED BY <2>1
<1> HIDE DEF Is
<1>5. 0 \in T
  <2>1. <<ClockState, n>> \in S /\ n - n = 0 /\ n + 0 <= n
    BY NothingTaken
  <2> HIDE DEF S
  <2>2. Way(<<ClockState, n>>, 0)
    BY <2>1, NothingTaken
  <2> QED BY <1>4, <2>2
<1>6. ASSUME NEW k \in T PROVE k + 1 \in T
  <2> SUFFICES ASSUME k + 1 <= n PROVE Way(chunks[k + 1], k + 1)
    OBVIOUS
  <2> DEFINE p == chunks[k]
             c == Chunk(p)
             r == Reach(p[1], c, Advance(p[1].osc, c))
  <2>1. k \in Nat /\ k <= n /\ k + 1 \in 1 .. n /\ (k + 1) - 1 = k
    OBVIOUS
  <2>2. p \in S /\ Taken(p[1], n - p[2]) /\ (p[2] = 0 \/ p[2] + k <= n)
    BY <2>1
  <2>3. chunks[k + 1] = <<r, p[2] - c>>
    BY <1>4, <2>1
  <2>4. /\ p[2] \in 0 .. n /\ c \in 0 .. p[2] /\ p[1].accum + c <= SampleCycles
        /\ p[2] # 0 => c > 0
    BY <1>a, <2>2
  <2>5. AfterChunk(p) \in S /\ AfterChunk(p) = <<r, p[2] - c>>
    BY <1>b, <2>2
  <2> HIDE DEF p, c, S
  <2>6. n - p[2] \in Nat /\ c \in Nat
    BY <2>4
  <2>7. Taken(r, (n - p[2]) + c)
    BY <2>2, <2>4, <2>6, MoreTaken
  <2>8. (n - p[2]) + c = n - (p[2] - c)
    BY <2>4
  <2>9. p[2] - c = 0 \/ (p[2] - c) + (k + 1) <= n
    BY <2>1, <2>2, <2>4
  <2> HIDE DEF r, AfterChunk
  <2>10. Way(<<r, p[2] - c>>, k + 1)
    BY <2>5, <2>7, <2>8, <2>9
  <2> QED BY <2>3, <2>10
<1> HIDE DEF T
<1>7. T = Nat
  BY <1>5, <1>6, InductionSet DEF T
<1>8. Way(chunks[n], n)
  <2>1. n <= n /\ n \in Nat
    OBVIOUS
  <2> QED BY <1>7, <2>1 DEF T
<1>9. chunks[n][2] = 0
  <2>1. chunks[n][2] \in 0 .. n
    BY <1>8
  <2> QED BY <1>8, <2>1
<1>10. n - 0 = n
  OBVIOUS
<1> QED BY <1>3, <1>8, <1>9, <1>10

(* tick_silence lets time pass for a channel that is off.                  *)
LEMMA SilenceTakes ==
  ASSUME ApuClockTypeOK, ~enabled, NEW n \in Nat
  PROVE  Taken(TickSilence(n), n)
<1> DEFINE q == (accum + n) \div SampleCycles
           r == (accum + n) % SampleCycles
<1>1. accum \in Nat /\ emitted \in Nat /\ SampleCycles \in Nat \ {0} /\ accum + n \in Nat
  BY ClockFacts DEF ApuClockTypeOK
<1>2. q \in Nat /\ r \in 0 .. SampleCycles - 1 /\ accum + n = SampleCycles * q + r
  BY <1>1, DivMod
<1> HIDE DEF q, r
<1>3. TickSilence(n) = [osc |-> osc, accum |-> r, emitted |-> emitted + q]
  <2>1. TickSilence(n) = [ClockState EXCEPT !.accum = r, !.emitted = @ + q]
    BY DEF TickSilence, q, r
  <2> QED BY <2>1 DEF ClockState
<1>4. emitted + q \in Nat
  BY <1>1, <1>2
<1>5. (emitted + q) * SampleCycles + r = (emitted * SampleCycles + accum) + n
  <2>1. (emitted + q) * SampleCycles = emitted * SampleCycles + SampleCycles * q
    BY <1>1, <1>2, SMT
  <2>2. emitted * SampleCycles \in Nat /\ SampleCycles * q \in Nat
    BY <1>1, <1>2, SMT
  <2> QED BY <1>1, <1>2, <2>1, <2>2
<1>6. Sent(TickSilence(n)) = Sent(ClockState) + n
  BY <1>3, <1>5 DEF Sent, ClockState
<1>7. TickSilence(n) \in Clocks
  BY <1>2, <1>3, <1>4, NothingTaken DEF Clocks
<1> QED BY <1>3, <1>6, <1>7 DEF Taken

-----------------------------------------------------------------------------
(* A call keeps the channel where ticking cycle by cycle would have it.    *)
LEMMA ClockTick ==
  ASSUME ApuClockTypeOK, BatchingExact, NEW n \in Nat, Tick(n)
  PROVE  ApuClockTypeOK' /\ BatchingExact'
<1> DEFINE s == IF extra THEN TickSteps(n)
                ELSE IF enabled THEN TickWaveOnly(n) ELSE TickSilence(n)
<1>1. Taken(s, n)
  BY StepsTake, WaveOnlyTakes, SilenceTakes
<1>2. /\ osc' = s.osc /\ accum' = s.accum /\ emitted' = s.emitted
      /\ exact' = IF enabled THEN TickMany(exact, n) ELSE exact
      /\ elapsed' = elapsed + n
      /\ pitch' = pitch /\ enabled' = enabled /\ extra' = extra
  BY DEF Tick
<1> HIDE DEF s
<1>3. /\ s.osc \in Channels /\ s.accum \in 0 .. SampleCycles - 1 /\ s.emitted \in Nat
      /\ s.osc = IF enabled THEN Advance(osc, n) ELSE osc
      /\ Sent(s) = Sent(ClockState) + n
  BY <1>1 DEF Taken, Clocks
<1>4. exact = osc /\ osc \in Channels /\ elapsed = Sent(ClockState) /\ elapsed \in Nat
  BY DEF BatchingExact, ApuClockTypeOK, Channels, Sent, ClockState
<1>5. exact' = osc' /\ osc' \in Channels
  BY <1>2, <1>3, <1>4, TickManyAdvances
<1>6. elapsed' = emitted' * SampleCycles + accum'
  BY <1>2, <1>3, <1>4 DEF Sent
<1>7. elapsed + n \in Nat
  BY <1>4
<1> QED BY <1>2, <1>3, <1>5, <1>6, <1>7 DEF BatchingExact, ApuClockTypeOK, Channels

(* The inductive invariant of the batches.                                 *)
ClockInv == ApuClockTypeOK /\ BatchingExact

LEMMA ClockStarts == ApuClockInit => ClockInv
<1> SUFFICES ASSUME ApuClockInit PROVE ClockInv
  OBVIOUS
<1>1. Periods \in Nat \ {0} /\ WaveLength \in Nat \ {0} /\ SampleCycles \in Nat \ {0}
  BY ApuClockAssumption
<1>2. 0 * SampleCycles + 0 = 0
  BY <1>1
<1>3. 0 \in 0 .. Periods /\ 0 \in 0 .. WaveLength - 1 /\ 0 \in 0 .. Periods - 1
      /\ 0 \in 0 .. SampleCycles - 1
  BY <1>1
<1>4. osc \in [counter : 0 .. Periods, idx : 0 .. WaveLength - 1] /\ exact = osc
  BY <1>3 DEF ApuClockInit
<1>5. BatchingExact
  BY <1>2 DEF ApuClockInit, BatchingExact
<1>6. ApuClockTypeOK
  <2>1. {enabled, extra} \subseteq BOOLEAN
    BY Zenon DEF ApuClockInit
  <2>2. /\ pitch \in 0 .. Periods - 1 /\ accum \in 0 .. SampleCycles - 1
        /\ {emitted, elapsed} \subseteq Nat
    BY <1>3 DEF ApuClockInit
  <2> QED BY <1>4, <2>1, <2>2 DEF ApuClockTypeOK
<1> QED BY <1>5, <1>6 DEF ClockInv

LEMMA ClockStep == ClockInv /\ [ApuClockNext]_apuClockVars => ClockInv'
<1> USE DEF ClockInv
<1> SUFFICES ASSUME ClockInv, [ApuClockNext]_apuClockVars PROVE ClockInv'
  OBVIOUS
<1>1. ASSUME NEW n \in CycleBatches, Tick(n) PROVE ClockInv'
  BY <1>1, ApuClockAssumption, ClockTick
<1>2. ASSUME NEW p \in 0 .. Periods - 1, NEW on \in BOOLEAN, NEW more \in BOOLEAN,
             SetVoice(p, on, more)
      PROVE  ClockInv'
  BY <1>2 DEF SetVoice, ApuClockTypeOK, BatchingExact
<1>3. CASE UNCHANGED apuClockVars
  BY <1>3 DEF apuClockVars, ApuClockTypeOK, BatchingExact
<1> QED BY <1>1, <1>2, <1>3 DEF ApuClockNext

(* Whatever the lengths of the calls and the registers between them, the   *)
(* batches of the APU's three paths are not heard: for every range of the  *)
(* pitch, length of a waveform and rate of output samples.                 *)
THEOREM BatchesExact == ApuClockSpec => []BatchingExact
<1>1. ClockInv => BatchingExact
  BY DEF ClockInv
<1> QED BY <1>1, ClockStarts, ClockStep, PTL DEF ApuClockSpec
-----------------------------------------------------------------------------
(* The noise register.                                                     *)

(* The highest place the feedback looks at.                                *)
HighestTap(t) == IF t > 7 THEN t ELSE 7

(* As long as the tap stays, a clear bit at or below it is never lost: it  *)
(* is shifted on until it is the feedback's turn, which then is clear.     *)
NoiseInv ==
  /\ lfsr \in Lfsrs /\ tap \in Taps /\ mixed \in Nat
  /\ mixed = 0 => \E i \in 0 .. HighestTap(tap) : ~lfsr[i]

LEMMA TapFacts ==
  ASSUME NEW t \in Taps
  PROVE  t \in 0 .. 14 /\ t # 7 /\ HighestTap(t) \in 7 .. 14
BY ApuNoiseAssumption DEF HighestTap

LEMMA ShiftedFacts ==
  ASSUME NEW x \in Lfsrs, NEW t \in Taps
  PROVE  /\ Shifted(x, t) \in Lfsrs
         /\ Shifted(x, t)[0] = (x[7] = x[t])
         /\ \A i \in 1 .. 14 : Shifted(x, t)[i] = x[i - 1]
<1>1. \A i \in 0 .. 14 : x[i] \in BOOLEAN
  BY DEF Lfsrs
<1>2. ASSUME NEW i \in 0 .. 14 PROVE (IF i = 0 THEN x[7] = x[t] ELSE x[i - 1]) \in BOOLEAN
  <2>1. CASE i = 0
    BY <2>1, Zenon
  <2>2. CASE i # 0
    <3>1. i - 1 \in 0 .. 14
      BY <2>2
    <3>2. x[i - 1] \in BOOLEAN
      BY <1>1, <3>1
    <3> QED BY <2>2, <3>2, Zenon
  <2> QED BY <2>1, <2>2
<1>3. Shifted(x, t) \in Lfsrs
  BY <1>2, Zenon DEF Shifted, Lfsrs
<1>4. Shifted(x, t)[0] = (x[7] = x[t])
  <2>1. 0 \in 0 .. 14
    OBVIOUS
  <2> QED BY <2>1, Zenon DEF Shifted
<1>5. ASSUME NEW i \in 1 .. 14 PROVE Shifted(x, t)[i] = x[i - 1]
  <2>1. i \in 0 .. 14 /\ i # 0
    OBVIOUS
  <2> QED BY <2>1, Zenon DEF Shifted
<1> QED BY <1>3, <1>4, <1>5

(* A clear bit at or below the top leaves one there.                       *)
LEMMA ClearBitStays ==
  ASSUME NEW x \in Lfsrs, NEW t \in Taps, NEW i \in 0 .. HighestTap(t), ~x[i]
  PROVE  \E k \in 0 .. HighestTap(t) : ~Shifted(x, t)[k]
<1>1. t \in 0 .. 14 /\ t # 7 /\ HighestTap(t) \in 7 .. 14
  BY TapFacts
<1>2. CASE i < HighestTap(t)
  <2>1. i + 1 \in 1 .. 14 /\ i + 1 \in 0 .. HighestTap(t) /\ (i + 1) - 1 = i
    BY <1>1, <1>2
  <2>2. Shifted(x, t)[i + 1] = x[i]
    BY <2>1, ShiftedFacts
  <2> QED BY <2>1, <2>2, Zenon
<1>3. CASE i = HighestTap(t) /\ \A k \in 0 .. HighestTap(t) - 1 : x[k]
  <2> DEFINE other == IF t > 7 THEN 7 ELSE t
  <2>1. other \in 0 .. HighestTap(t) - 1 /\ 0 \in 0 .. HighestTap(t)
    BY <1>1 DEF HighestTap
  <2>2. x[other]
    BY <1>3, <2>1
  <2>3. x[7] # x[t]
    <3>1. CASE t > 7
      <4>1. HighestTap(t) = t /\ other = 7
        BY <3>1 DEF HighestTap
      <4> QED BY <1>3, <2>2, <4>1, Zenon
    <3>2. CASE ~(t > 7)
      <4>1. HighestTap(t) = 7 /\ other = t
        BY <3>2 DEF HighestTap
      <4> QED BY <1>3, <2>2, <4>1, Zenon
    <3> QED BY <3>1, <3>2
  <2>4. ~Shifted(x, t)[0]
    BY <2>3, ShiftedFacts, Zenon
  <2> QED BY <2>1, <2>4
<1>4. CASE i = HighestTap(t) /\ ~(\A k \in 0 .. HighestTap(t) - 1 : x[k])
  <2>1. PICK k \in 0 .. HighestTap(t) - 1 : ~x[k]
    BY <1>4
  <2>2. k + 1 \in 1 .. 14 /\ k + 1 \in 0 .. HighestTap(t) /\ (k + 1) - 1 = k
    BY <1>1
  <2>3. Shifted(x, t)[k + 1] = x[k]
    BY <2>2, ShiftedFacts
  <2> QED BY <2>1, <2>2, <2>3, Zenon
<1>5. i < HighestTap(t) \/ i = HighestTap(t)
  BY <1>1
<1> QED BY <1>2, <1>3, <1>4, <1>5

(* Only the register with all bits set is kept by the feedback.            *)
LEMMA FixedIsFull ==
  ASSUME NEW x \in Lfsrs, NEW t \in Taps, Shifted(x, t) = x
  PROVE  \A k \in 0 .. 14 : x[k]
<1> DEFINE T == {k \in Nat : k <= 14 => x[k] = x[0]}
<1>1. 0 \in T
  OBVIOUS
<1>2. ASSUME NEW k \in T PROVE k + 1 \in T
  <2> SUFFICES ASSUME k + 1 <= 14 PROVE x[k + 1] = x[0]
    OBVIOUS
  <2>1. k + 1 \in 1 .. 14 /\ (k + 1) - 1 = k /\ k <= 14
    OBVIOUS
  <2>2. Shifted(x, t)[k + 1] = x[k]
    BY <2>1, ShiftedFacts
  <2>3. x[k] = x[0]
    BY <2>1
  <2> QED BY <2>2, <2>3
<1> HIDE DEF T
<1>3. T = Nat
  BY <1>1, <1>2, InductionSet DEF T
<1>4. \A k \in 0 .. 14 : x[k] = x[0]
  BY <1>3 DEF T
<1>5. x[7] = x[0] /\ x[t] = x[0]
  <2>1. 7 \in 0 .. 14 /\ t \in 0 .. 14
    BY TapFacts
  <2> QED BY <1>4, <2>1
<1>6. x[0] = (x[7] = x[t])
  BY ShiftedFacts
<1>7. x[0]
  BY <1>5, <1>6, Zenon
<1> QED BY <1>4, <1>7, Zenon

LEMMA NoiseStep == NoiseInv /\ [NoiseNext]_noiseVars => NoiseInv'
<1> SUFFICES ASSUME NoiseInv, [NoiseNext]_noiseVars PROVE NoiseInv'
  OBVIOUS
<1>1. lfsr \in Lfsrs /\ tap \in Taps /\ mixed \in Nat
  BY DEF NoiseInv
<1>2. ASSUME UNCHANGED <<lfsr, tap, mixed>> PROVE NoiseInv'
  BY <1>2 DEF NoiseInv
<1>3. CASE Closed \/ NoiseWaits \/ UNCHANGED noiseVars
  BY <1>2, <1>3 DEF Closed, NoiseWaits, noiseVars, noiseRegs
<1>4. CASE Shifts
  <2>1. /\ lfsr' = Shifted(lfsr, tap) /\ tap' = tap
        /\ mixed' = IF mixed = 0 THEN 0 ELSE mixed + 1
    BY <1>4 DEF Shifts
  <2>2. Shifted(lfsr, tap) \in Lfsrs
    BY <1>1, ShiftedFacts
  <2>3. mixed' \in Nat /\ (mixed' = 0 => mixed = 0)
    BY <1>1, <2>1
  <2>4. ASSUME mixed = 0 PROVE \E k \in 0 .. HighestTap(tap) : ~Shifted(lfsr, tap)[k]
    <3>1. PICK i \in 0 .. HighestTap(tap) : ~lfsr[i]
      BY <2>4 DEF NoiseInv
    <3> QED BY <1>1, <3>1, ClearBitStays
  <2> QED BY <1>1, <2>1, <2>2, <2>3, <2>4, Zenon DEF NoiseInv
<1>5. ASSUME NEW open \in BOOLEAN, NEW t \in Taps, NEW reset \in BOOLEAN,
             WriteNoise(open, t, reset)
      PROVE  NoiseInv'
  <2>1. tap' = t /\ 0 \in 0 .. HighestTap(t)
    BY <1>5, TapFacts DEF WriteNoise
  <2>2. Cleared \in Lfsrs /\ ~Cleared[0]
    BY DEF Cleared, Lfsrs
  <2>3. CASE reset
    <3>1. lfsr' = Cleared /\ mixed' = 0
      BY <1>5, <2>3 DEF WriteNoise
    <3> QED BY <2>1, <2>2, <3>1 DEF NoiseInv
  <2>4. CASE ~reset
    <3>1. /\ lfsr' = lfsr
          /\ mixed' = IF t = tap \/ lfsr = Cleared \/ mixed > 0 THEN mixed ELSE 1
      BY <1>5, <2>4 DEF WriteNoise
    <3>2. CASE t = tap
      BY <1>2, <2>1, <3>1, <3>2
    <3>3. CASE lfsr = Cleared
      <4>1. mixed' = mixed /\ ~lfsr[0]
        BY <2>2, <3>1, <3>3
      <4> QED BY <1>1, <2>1, <3>1, <4>1 DEF NoiseInv
    <3>4. CASE t # tap /\ lfsr # Cleared
      <4>1. mixed' # 0 /\ mixed' \in Nat
        BY <1>1, <3>1, <3>4
      <4> QED BY <1>1, <2>1, <3>1, <4>1 DEF NoiseInv
    <3> QED BY <3>2, <3>3, <3>4
  <2> QED BY <2>3, <2>4
<1>6. ASSUME NEW p \in NoisePeriods, NEW on \in BOOLEAN, SetNoise(p, on) PROVE NoiseInv'
  BY <1>2, <1>6 DEF SetNoise
<1> QED BY <1>3, <1>4, <1>5, <1>6 DEF NoiseNext

(* Noise stays noise: with any of its taps, as long as the tap moves with  *)
(* a reset, the register never reaches the state that repeats itself.      *)
THEOREM NoiseNeverStuck == NoiseSpec => []NoiseAlive
<1>1. NoiseInit => NoiseInv
  <2> SUFFICES ASSUME NoiseInit PROVE NoiseInv
    OBVIOUS
  <2>1. tap \in Taps
    BY ApuNoiseAssumption DEF NoiseInit
  <2>2. lfsr \in Lfsrs /\ ~lfsr[0]
    BY DEF NoiseInit, Cleared, Lfsrs
  <2>3. 0 \in 0 .. HighestTap(tap)
    BY <2>1, TapFacts
  <2> QED BY <2>1, <2>2, <2>3 DEF NoiseInit, NoiseInv
<1>2. NoiseInv => NoiseAlive
  <2> SUFFICES ASSUME NoiseInv, mixed = 0, Shifted(lfsr, tap) = lfsr PROVE FALSE
    BY DEF NoiseAlive
  <2>1. PICK i \in 0 .. HighestTap(tap) : ~lfsr[i]
    BY DEF NoiseInv
  <2>2. i \in 0 .. 14
    BY TapFacts DEF NoiseInv
  <2> QED BY <2>1, <2>2, FixedIsFull DEF NoiseInv
<1> QED BY <1>1, <1>2, NoiseStep, PTL DEF NoiseSpec
-----------------------------------------------------------------------------
(* The ranges of the sound chain's registers: as no register is wider than *)
(* they say, a sum or a difference in the code never leaves its type.      *)

(* What a step of the emulation thread, of the device and of the user      *)
(* leaves of the ranges: the buffer is never fuller than it is long, and a *)
(* frame is never due longer ago than the time that is made up for.        *)
LEMMA PacingTypeStep ==
  ASSUME PacingTypeOK, [PacingNext]_pacingVars
  PROVE  PacingTypeOK'
<1>1. /\ PacingCapacity \in Nat /\ FrameSamples \in Nat
      /\ FramePeriod \in Nat /\ FramePeriod > 0 /\ Poll \in Nat /\ Late = 4 * FramePeriod + 1
  BY PacingAssumption DEF Late
<1>2. /\ fill \in Nat /\ fill <= PacingCapacity /\ due \in Int /\ due >= 0 - Late
      /\ rest \in Nat /\ burst \in Nat
  BY <1>1 DEF PacingTypeOK
<1>3. /\ busy \in {"no", "frame", "dump"} /\ halted \in BOOLEAN /\ dump \in BOOLEAN
      /\ primed \in BOOLEAN /\ missed \in BOOLEAN /\ lost \in BOOLEAN
  BY Zenon DEF PacingTypeOK
<1> DEFINE Numbers == /\ fill \in 0 .. PacingCapacity /\ due \in Int /\ due >= 0 - Late
                      /\ rest \in Nat /\ burst \in Nat
           Flags == /\ busy \in {"no", "frame", "dump"}
                    /\ {halted, dump, primed, missed, lost} \subseteq BOOLEAN
<1>4. (Numbers /\ Flags)' => PacingTypeOK'
  BY DEF PacingTypeOK, Late
<1>5. CASE StartsFrame
  <2>1. PICK ticks \in FrameTicks :
          /\ rest' = ticks
          /\ primed' = (primed /\ ticks < FramePeriod)
          /\ burst' = IF 2 * ticks >= FramePeriod THEN 0
                      ELSE IF dump \/ burst > MaxBurst THEN burst ELSE burst + 1
    BY <1>5 DEF StartsFrame
  <2>2. /\ busy' = IF dump THEN "dump" ELSE "frame"
        /\ dump' = FALSE /\ fill' = fill /\ due' = due /\ halted' = halted
        /\ missed' = missed /\ lost' = lost
    BY <1>5 DEF StartsFrame
  <2>3. burst' \in Nat
    <3>1. burst' = 0 \/ burst' = burst \/ burst' = burst + 1
      BY <2>1, Zenon
    <3> QED BY <1>2, <3>1
  <2>4. Numbers'
    BY <1>1, <1>2, <2>1, <2>2, <2>3, PacingAssumption DEF Late
  <2>5. Flags'
    BY <1>3, <2>1, <2>2, Zenon
  <2> QED BY <1>4, <2>4, <2>5
<1>6. CASE ThreadWaits
  <2>1. UNCHANGED <<fill, due, busy, halted, dump, primed, missed, lost>> /\ burst' = 0
    BY <1>6 DEF ThreadWaits
  <2>2. rest' \in Nat
    <3>1. rest' = IF halted \/ AudioHigh \/ due > Poll THEN Poll ELSE due
      BY <1>6 DEF ThreadWaits
    <3>2. halted \/ AudioHigh \/ ~(due <= 0)
      BY <1>6, Zenon DEF ThreadWaits, ShouldRun
    <3> QED BY <1>1, <1>2, <3>1, <3>2
  <2>3. Numbers'
    BY <1>1, <1>2, <2>1, <2>2 DEF Late
  <2>4. Flags'
    BY <1>3, <2>1, Zenon
  <2> QED BY <1>4, <2>3, <2>4
<1>7. CASE EndsFrame
  <2> DEFINE full == fill + FrameSamples
  <2>1. /\ fill' = IF full > PacingCapacity THEN PacingCapacity ELSE full
        /\ lost' = (lost \/ (full > PacingCapacity /\ busy = "frame"))
        /\ primed' = (primed \/ full * 4 >= PacingCapacity)
        /\ due' = NextDue /\ busy' = "no" /\ UNCHANGED <<rest, halted, dump, missed, burst>>
    BY <1>7 DEF EndsFrame
  <2>2. NextDue \in Int /\ NextDue >= 0 - Late
    BY <1>1, <1>2 DEF NextDue
  <2>3. fill' \in 0 .. PacingCapacity
    BY <1>1, <1>2, <2>1
  <2>4. Numbers'
    BY <1>1, <1>2, <2>1, <2>2, <2>3 DEF Late
  <2>5. Flags'
    BY <1>3, <2>1, Zenon
  <2> QED BY <1>4, <2>4, <2>5
<1>8. ASSUME NEW stop \in BOOLEAN, RestartPacing(stop) PROVE PacingTypeOK'
  <2>1. /\ fill' = 0 /\ due' = 0 /\ rest' = 0 /\ halted' = stop /\ primed' = FALSE
        /\ burst' = 0 /\ UNCHANGED <<busy, dump, missed, lost>>
    BY <1>8 DEF RestartPacing
  <2>2. Numbers'
    BY <1>1, <2>1 DEF Late
  <2>3. Flags'
    BY <1>3, <2>1, Zenon
  <2> QED BY <1>4, <2>2, <2>3
<1>9. CASE RequestDump
  <2>1. dump' = TRUE /\ rest' = 0
        /\ UNCHANGED <<fill, due, busy, halted, primed, missed, lost, burst>>
    BY <1>9 DEF RequestDump
  <2>2. Numbers'
    BY <1>1, <1>2, <2>1 DEF Late
  <2>3. Flags'
    BY <1>3, <2>1, Zenon
  <2> QED BY <1>4, <2>2, <2>3
<1>10. CASE TimePasses
  <2>1. PICK n \in Drained : /\ fill' = IF n < fill THEN fill - n ELSE 0
                             /\ missed' = (missed \/ (primed /\ n > fill /\ ~halted))
    BY <1>10 DEF TimePasses
  <2>2. /\ rest > 0 /\ rest' = rest - 1
        /\ due' = IF due > 0 - Late THEN due - 1 ELSE due
        /\ UNCHANGED <<busy, halted, dump, primed, lost, burst>>
    BY <1>10 DEF TimePasses
  <2>3. n \in Nat
    BY PacingAssumption
  <2>4. Numbers'
    BY <1>1, <1>2, <2>1, <2>2, <2>3 DEF Late
  <2>5. Flags'
    BY <1>3, <2>1, <2>2, Zenon
  <2> QED BY <1>4, <2>4, <2>5
<1>11. CASE UNCHANGED pacingVars
  BY <1>11 DEF pacingVars, PacingTypeOK
<1> QED BY <1>5, <1>6, <1>7, <1>8, <1>9, <1>10, <1>11 DEF PacingNext

(* At the start nothing is buffered and nothing is due.                    *)
LEMMA PacingStarts == PacingInit => PacingTypeOK
<1> SUFFICES ASSUME PacingInit PROVE PacingTypeOK
  OBVIOUS
<1>1. 0 \in 0 .. PacingCapacity /\ 0 >= 0 - Late
  BY PacingAssumption DEF Late
<1>2. {halted, dump, primed, missed, lost} \subseteq BOOLEAN /\ busy \in {"no", "frame", "dump"}
  BY Zenon DEF PacingInit
<1> QED BY <1>1, <1>2 DEF PacingInit, PacingTypeOK

-----------------------------------------------------------------------------
(* A swept pitch is a pitch: it turns over at the end of its register.     *)
LEMMA SweptStays ==
  ASSUME SweepTypeOK
  PROVE  Swept(sweepPitch) \in 0 .. Pitches - 1
<1>1. /\ Pitches \in Nat /\ Pitches > 0 /\ step \in Int /\ sweepPitch \in 0 .. Pitches - 1
  BY ApuSweepAssumption DEF SweepTypeOK
<1> QED BY <1>1 DEF Swept

(* A cycle of the sweep clock and a write of any of its registers.         *)
LEMMA SweepTypeStep ==
  ASSUME SweepTypeOK, [SweepNext]_sweepVars
  PROVE  SweepTypeOK'
<1>1. /\ Pitches \in Nat \ {0} /\ SweepInterval \in Nat \ {0} /\ MaxTime \in Nat \ {0}
      /\ MaxStep \in Nat \ {0} /\ ByteValues \in Nat /\ MaxTime < ByteValues
  BY ApuSweepAssumption
<1>2. sweepOn \in BOOLEAN /\ fastTest \in BOOLEAN /\ sweepPrimed \in BOOLEAN
  BY Zenon DEF SweepTypeOK
<1>3. /\ time \in 0 .. MaxTime /\ step \in -MaxStep .. MaxStep - 1
      /\ sweepPitch \in 0 .. Pitches - 1
      /\ sweepCounter \in 0 .. SweepInterval /\ sweepStep \in 0 .. ByteValues - 1
      /\ quiet \in Nat
  BY DEF SweepTypeOK
<1> DEFINE Flags == {sweepOn, fastTest, sweepPrimed} \subseteq BOOLEAN
           Numbers == /\ time \in 0 .. MaxTime /\ step \in -MaxStep .. MaxStep - 1
                      /\ sweepPitch \in 0 .. Pitches - 1
                      /\ sweepCounter \in 0 .. SweepInterval
                      /\ sweepStep \in 0 .. ByteValues - 1 /\ quiet \in Nat
<1>4. (Flags /\ Numbers)' => SweepTypeOK'
  BY DEF SweepTypeOK
<1>5. CASE Rests \/ Primes
  <2>1. UNCHANGED <<sweepOn, fastTest, time, step, sweepPitch, sweepCounter, sweepStep, quiet>>
        /\ sweepPrimed' \in BOOLEAN
    BY <1>5 DEF Rests, Primes, sweepRegs
  <2>2. Flags'
    BY <1>2, <2>1, Zenon
  <2>3. Numbers'
    BY <1>3, <2>1
  <2> QED BY <1>4, <2>2, <2>3
<1>6. CASE Sweeps
  <2>1. UNCHANGED <<sweepOn, fastTest, time, step>> /\ sweepPrimed' = fastTest
    BY <1>6 DEF Sweeps, sweepRegs
  <2>2. Flags'
    BY <1>2, <2>1, Zenon
  <2>3. Interval <= SweepInterval
    BY <1>1 DEF Interval
  <2>4. Reload(time) \in 0 .. ByteValues - 1
    BY <1>1, <1>3 DEF Reload
  <2>5. CASE sweepCounter + 1 <= Interval
    <3>1. sweepCounter' = sweepCounter + 1 /\ quiet' = quiet + 1
          /\ UNCHANGED <<sweepStep, sweepPitch>>
      BY <1>6, <2>5 DEF Sweeps
    <3>2. sweepCounter + 1 \in 0 .. SweepInterval /\ quiet + 1 \in Nat
      BY <1>1, <1>3, <2>3, <2>5 DEF Interval
    <3> QED BY <1>3, <1>4, <2>1, <2>2, <3>1, <3>2
  <2>6. CASE ~(sweepCounter + 1 <= Interval) /\ sweepStep # 0
    <3>1. sweepCounter' = 0 /\ sweepStep' = sweepStep - 1 /\ quiet' = quiet + 1
          /\ UNCHANGED sweepPitch
      BY <1>6, <2>6 DEF Sweeps
    <3>2. 0 \in 0 .. SweepInterval /\ quiet + 1 \in Nat /\ sweepStep - 1 \in 0 .. ByteValues - 1
      BY <1>1, <1>3, <2>6
    <3> QED BY <1>3, <1>4, <2>1, <2>2, <3>1, <3>2
  <2>7. CASE ~(sweepCounter + 1 <= Interval) /\ sweepStep = 0
    <3>1. sweepCounter' = 0 /\ sweepStep' = Reload(time) /\ quiet' = 0
          /\ sweepPitch' = Swept(sweepPitch)
      BY <1>6, <2>7 DEF Sweeps
    <3>2. 0 \in 0 .. SweepInterval
      BY <1>1
    <3>3. sweepPitch' \in 0 .. Pitches - 1
      BY <3>1, SweptStays
    <3>4. Numbers'
      BY <1>3, <2>1, <2>4, <3>1, <3>2, <3>3
    <3> QED BY <1>4, <2>2, <3>4
  <2> QED BY <2>5, <2>6, <2>7
<1>7. ASSUME NEW on \in BOOLEAN, NEW fast \in BOOLEAN, SetSweep(on, fast) PROVE SweepTypeOK'
  <2>1. sweepOn' = on /\ fastTest' = fast
        /\ UNCHANGED <<time, step, sweepPitch, sweepCounter, sweepStep, sweepPrimed, quiet>>
    BY <1>7 DEF SetSweep
  <2>2. Flags'
    BY <1>2, <2>1, Zenon
  <2>3. Numbers'
    BY <1>3, <2>1
  <2> QED BY <1>4, <2>2, <2>3
<1>8. ASSUME NEW t \in 0 .. MaxTime, NEW d \in -MaxStep .. MaxStep - 1, SetSweepStep(t, d)
      PROVE  SweepTypeOK'
  <2>1. time' = t /\ step' = d
        /\ UNCHANGED <<sweepOn, fastTest, sweepPitch, sweepCounter, sweepStep, sweepPrimed, quiet>>
    BY <1>8 DEF SetSweepStep
  <2>2. Flags'
    BY <1>2, <2>1, Zenon
  <2>3. Numbers'
    BY <1>3, <2>1
  <2> QED BY <1>4, <2>2, <2>3
<1>9. ASSUME NEW p \in 0 .. Pitches - 1, SetSweepPitch(p) PROVE SweepTypeOK'
  <2>1. sweepPitch' = p
        /\ UNCHANGED <<sweepOn, fastTest, time, step, sweepCounter, sweepStep, sweepPrimed, quiet>>
    BY <1>9 DEF SetSweepPitch, sweepRegs
  <2>2. Flags'
    BY <1>2, <2>1, Zenon
  <2>3. Numbers'
    BY <1>3, <2>1
  <2> QED BY <1>4, <2>2, <2>3
<1>10. CASE UNCHANGED sweepVars
  BY <1>10 DEF sweepVars, sweepRegs, SweepTypeOK
<1> QED BY <1>5, <1>6, <1>7, <1>8, <1>9, <1>10 DEF SweepNext

(* The sweep starts with a whole interval to wait.                         *)
LEMMA SweepStarts == SweepInit => SweepTypeOK
<1> SUFFICES ASSUME SweepInit PROVE SweepTypeOK
  OBVIOUS
<1>1. /\ 0 \in 0 .. MaxTime /\ 0 \in -MaxStep .. MaxStep - 1 /\ 0 \in 0 .. Pitches - 1
      /\ 0 \in 0 .. SweepInterval /\ 0 \in 0 .. ByteValues - 1
  BY ApuSweepAssumption
<1>2. {sweepOn, fastTest, sweepPrimed} \subseteq BOOLEAN
  BY Zenon DEF SweepInit
<1> QED BY <1>1, <1>2 DEF SweepInit, SweepTypeOK

(* A cycle of the noise channel and the writes of its registers.           *)
LEMMA NoiseTypeStep ==
  ASSUME NoiseTypeOK, [NoiseNext]_noiseVars
  PROVE  NoiseTypeOK'
<1>1. /\ lfsr \in Lfsrs /\ tap \in Taps /\ noisePeriod \in NoisePeriods
      /\ noiseCounter \in 0 .. 2048 /\ mixed \in 0 .. MixedSteps + 1
  BY DEF NoiseTypeOK
<1>0. MixedSteps \in Nat /\ noisePeriod \in 0 .. 2048
  <2>1. NoisePeriods \subseteq 1 .. 2048
    BY ApuNoiseAssumption
  <2>2. MixedSteps \in Nat
    BY ApuNoiseAssumption
  <2> QED BY <1>1, <2>1, <2>2
<1>2. noiseActive \in BOOLEAN /\ gate \in BOOLEAN /\ heard \in BOOLEAN
  <2>1. {noiseActive, gate, heard} \subseteq BOOLEAN
    BY DEF NoiseTypeOK
  <2> QED BY <2>1, Zenon
<1> DEFINE Flags == {noiseActive, gate, heard} \subseteq BOOLEAN
           Values == /\ lfsr \in Lfsrs /\ tap \in Taps /\ noisePeriod \in NoisePeriods
                     /\ noiseCounter \in 0 .. 2048 /\ mixed \in 0 .. MixedSteps + 1
<1>3. (Flags /\ Values)' => NoiseTypeOK'
  BY DEF NoiseTypeOK
<1>4. CASE Closed
  <2>1. /\ noiseActive' = FALSE
        /\ UNCHANGED <<lfsr, noiseCounter, gate, tap, noisePeriod, heard, mixed>>
    BY <1>4 DEF Closed, noiseRegs
  <2>2. Flags'
    BY <1>2, <2>1, Zenon
  <2> QED BY <1>1, <1>3, <2>1, <2>2
<1>5. CASE NoiseWaits
  <2>1. /\ noiseActive' = heard /\ noiseCounter' = noiseCounter - 1 /\ noiseCounter # 0
        /\ UNCHANGED <<lfsr, gate, tap, noisePeriod, heard, mixed>>
    BY <1>5 DEF NoiseWaits, noiseRegs
  <2>2. Flags'
    BY <1>2, <2>1, Zenon
  <2>3. noiseCounter - 1 \in 0 .. 2048
    BY <1>1, <2>1
  <2> QED BY <1>1, <1>3, <2>1, <2>2, <2>3
<1>6. CASE Shifts
  <2>1. /\ mixed <= MixedSteps /\ noiseActive' = heard /\ noiseCounter' = noisePeriod
        /\ lfsr' = Shifted(lfsr, tap) /\ mixed' = IF mixed = 0 THEN 0 ELSE mixed + 1
        /\ UNCHANGED <<gate, tap, noisePeriod, heard>>
    BY <1>6 DEF Shifts
  <2>2. Flags'
    BY <1>2, <2>1, Zenon
  <2>3. lfsr' \in Lfsrs
    BY <1>1, <2>1, ShiftedFacts
  <2>4. mixed' \in 0 .. MixedSteps + 1 /\ noiseCounter' \in 0 .. 2048
    BY <1>0, <1>1, <2>1
  <2> QED BY <1>1, <1>3, <2>1, <2>2, <2>3, <2>4
<1>7. ASSUME NEW open \in BOOLEAN, NEW t \in Taps, NEW reset \in BOOLEAN,
             WriteNoise(open, t, reset)
      PROVE  NoiseTypeOK'
  <2>1. gate' = open /\ tap' = t /\ UNCHANGED <<noiseActive, noisePeriod, heard>>
    BY <1>7 DEF WriteNoise
  <2>2. Flags'
    BY <1>2, <2>1, Zenon
  <2>3. Cleared \in Lfsrs
    BY DEF Cleared, Lfsrs
  <2>4. CASE reset
    <3>1. lfsr' = Cleared /\ noiseCounter' = noisePeriod /\ mixed' = 0
      BY <1>7, <2>4 DEF WriteNoise
    <3>2. 0 \in 0 .. MixedSteps + 1
      BY <1>0
    <3> QED BY <1>0, <1>1, <1>3, <2>1, <2>2, <2>3, <3>1, <3>2
  <2>5. CASE ~reset
    <3>1. (mixed' = mixed \/ mixed' = 1) /\ UNCHANGED <<lfsr, noiseCounter>>
      BY <1>7, <2>5 DEF WriteNoise
    <3>2. 1 \in 0 .. MixedSteps + 1
      BY <1>0
    <3> QED BY <1>1, <1>3, <2>1, <2>2, <3>1, <3>2
  <2> QED BY <2>4, <2>5
<1>8. ASSUME NEW p \in NoisePeriods, NEW on \in BOOLEAN, SetNoise(p, on) PROVE NoiseTypeOK'
  <2>1. noisePeriod' = p /\ heard' = on
        /\ UNCHANGED <<lfsr, noiseCounter, noiseActive, gate, tap, mixed>>
    BY <1>8 DEF SetNoise
  <2>2. Flags'
    BY <1>2, <2>1, Zenon
  <2> QED BY <1>1, <1>3, <2>1, <2>2
<1>9. CASE UNCHANGED noiseVars
  BY <1>9 DEF noiseVars, noiseRegs, NoiseTypeOK
<1> QED BY <1>4, <1>5, <1>6, <1>7, <1>8, <1>9 DEF NoiseNext

(* The noise channel starts with its register clear.                       *)
LEMMA NoiseStarts == NoiseInit => NoiseTypeOK
<1> SUFFICES ASSUME NoiseInit PROVE NoiseTypeOK
  OBVIOUS
<1>1. 0 \in 0 .. 2048 /\ 0 \in 0 .. MixedSteps + 1 /\ lfsr \in Lfsrs
  BY ApuNoiseAssumption DEF NoiseInit, Cleared, Lfsrs
<1>2. {noiseActive, gate, heard} \subseteq BOOLEAN
  BY Zenon DEF NoiseInit
<1>3. tap \in Taps /\ noisePeriod \in NoisePeriods
  BY ApuNoiseAssumption DEF NoiseInit
<1> QED BY <1>1, <1>2, <1>3 DEF NoiseInit, NoiseTypeOK

-----------------------------------------------------------------------------
(* The mixer of the headphones.                                            *)

(* A byte of voice, added to the one before it and cut to eight bits.      *)
LEMMA MixerTypeStep ==
  ASSUME MixerTypeOK, [MixerNext]_mixerVars
  PROVE  MixerTypeOK'
<1>1. voicePrev \in -128 .. 127 /\ voiceLevel \in -128 .. 127 /\ voiceMode \in BOOLEAN
  BY DEF MixerTypeOK
<1>2. ASSUME NEW b \in LatchBytes, WriteVoice(b) PROVE MixerTypeOK'
  <2>1. b \in 0 .. 255
    BY ApuMixerAssumption
  <2>2. /\ voiceLevel' = Truncated(b - 128 + voicePrev)
        /\ voicePrev' = b - 128 /\ voiceMode' = voiceMode
    BY <1>2 DEF WriteVoice
  <2> DEFINE x == b - 128 + voicePrev
  <2>3. x \in -256 .. 254 /\ b - 128 \in -128 .. 127
    BY <1>1, <2>1
  <2> HIDE DEF x
  <2>4. Truncated(x) \in -128 .. 127
    BY <2>3 DEF Truncated
  <2> QED BY <1>1, <2>2, <2>3, <2>4 DEF MixerTypeOK, x
<1>3. CASE MixSample
  BY <1>1, <1>3 DEF MixSample, MixerTypeOK
<1>4. ASSUME NEW on \in BOOLEAN, SetVoiceMode(on) PROVE MixerTypeOK'
  BY <1>1, <1>4 DEF SetVoiceMode, MixerTypeOK
<1>5. CASE UNCHANGED mixerVars
  BY <1>5 DEF mixerVars, MixerTypeOK
<1> QED BY <1>2, <1>3, <1>4, <1>5 DEF MixerNext

(* The voice is silent at the start.                                       *)
LEMMA MixerStarts == MixerInit => MixerTypeOK
<1>1. 0 \in -128 .. 127 /\ FALSE \in BOOLEAN
  OBVIOUS
<1> QED BY <1>1, Zenon DEF MixerInit, MixerTypeOK

(* What the voice and the four waves can come to.                          *)
LEMMA VoiceBounded ==
  ASSUME MixerTypeOK, NEW i \in Inputs
  PROVE  Voice(i) \in -8192 .. 8128 /\ (~voiceMode => Voice(i) = 0)
<1> DEFINE half == voiceLevel \div 2
<1>1. voiceLevel \in -128 .. 127
  BY DEF MixerTypeOK
<1>2. half \in -64 .. 63
  BY <1>1
<1>3. Voice(i) \in {0, 64 * voiceLevel, 64 * half} /\ (~voiceMode => Voice(i) = 0)
  <2>1. /\ 32 * 2 * voiceLevel = 64 * voiceLevel
        /\ 32 * 2 * half = 64 * half
    BY <1>1, <1>2
  <2> QED BY <2>1 DEF Voice, MixScale, VoiceGain
<1> HIDE DEF half
<1> QED BY <1>1, <1>2, <1>3

LEMMA WavesBounded ==
  ASSUME MixerTypeOK, NEW i \in Inputs
  PROVE  Waves(i) \in 0 .. (IF voiceMode THEN 21600 ELSE 28800)
<1> DEFINE v == i.volume
           a == i.sample[1]
           b == IF voiceMode THEN 0 ELSE i.sample[2]
           c == i.sample[3]
           d == i.sample[4]
           n == a + b + c + d
<1>1. /\ v \in 0 .. 15 /\ a \in 0 .. 15 /\ i.sample[2] \in 0 .. 15
      /\ c \in 0 .. 15 /\ d \in 0 .. 15
  <2>1. i.volume \in Nibbles /\ i.sample \in [1 .. 4 -> Nibbles]
    BY DEF Inputs
  <2>2. \A k \in 1 .. 4 : i.sample[k] \in Nibbles
    BY <2>1
  <2>3. \A k \in Nibbles : k \in 0 .. 15
    BY ApuMixerAssumption
  <2> QED BY <2>1, <2>2, <2>3
<1>2. Waves(i) = 32 * v * n
  BY DEF Waves, MixScale
<1>3. n \in 0 .. 60 /\ (voiceMode => n \in 0 .. 45)
  BY <1>1
<1> HIDE DEF n, v
<1>4. v * n \in Nat /\ v * n <= 15 * n
  BY <1>1, <1>3
<1> DEFINE p == v * n
<1>5. 32 * v * n = 32 * p
  BY <1>1, <1>3
<1> HIDE DEF p
<1> QED BY <1>2, <1>3, <1>4, <1>5 DEF p

(* Hyper Voice is expanded by a shift and cut to sixteen bits and then to  *)
(* eleven: it stays in the range the output adds it in.                    *)
LEMMA HyperBounded ==
  ASSUME NEW i \in Inputs
  PROVE  HyperSample(i) \in -1024 .. 1023
<1> DEFINE x == Expanded(i)
<1>1. x \in Int
  <2>1. i.data \in Int /\ i.shift \in 0 .. 3 /\ i.ext \in Extensions
    <3>1. i.data \in LatchBytes /\ i.shift \in 0 .. 3 /\ i.ext \in Extensions
      BY DEF Inputs
    <3>2. \A b \in LatchBytes : b \in Int
      BY ApuMixerAssumption
    <3> QED BY <3>1, <3>2
  <2>2. 2 ^ (8 - i.shift) \in Int
    BY <2>1, PowerPositive
  <2> DEFINE up == 2 ^ (8 - i.shift)
  <2>3. AsSigned(i.data) \in Int
    BY <2>1 DEF AsSigned
  <2>4. \/ x = i.data * up \/ x = (i.data - 256) * up \/ x = AsSigned(i.data) * up
        \/ x = i.data * 256
    BY <2>1 DEF Expanded, Extensions
  <2> HIDE DEF up, x
  <2> QED BY <2>1, <2>2, <2>3, <2>4 DEF up
<1> HIDE DEF x
<1> DEFINE w == x + 32768
           turn == 65536
           y == w % turn
           z == y - 32768
           q == z \div 32
           r == z % 32
<1>2. w \in Int /\ turn \in Nat \ {0} /\ turn = 65536 /\ 32 \in Nat \ {0}
  BY <1>1
<1>3. HyperSample(i) = q
  BY DEF HyperSample, AsI16, x
<1> HIDE DEF w, turn
<1>4. y \in Int /\ 0 <= y /\ y < 65536
  <2>1. w \in Int /\ turn \in Nat \ {0}
    BY <1>2
  <2>2. y \in 0 .. turn - 1
    BY <2>1, WholeDivMod
  <2> HIDE DEF y
  <2> QED BY <1>2, <2>2
<1> HIDE DEF y
<1>5. z \in Int /\ -32768 <= z /\ z < 32768
  BY <1>4
<1> HIDE DEF z
<1>6. q \in Int /\ r \in 0 .. 32 - 1 /\ z = 32 * q + r
  BY <1>2, <1>5, WholeDivMod
<1> HIDE DEF q, r
<1>7. q \in Int /\ -1024 <= q /\ q <= 1023
  BY <1>5, <1>6
<1> QED BY <1>3, <1>7

(* So the sum of waves and voice needs no clamp.                           *)
LEMMA MixKnown == MixerTypeOK => MixFits
<1> SUFFICES ASSUME MixerTypeOK, NEW i \in Inputs
             PROVE  /\ ~i.hyper => Headphones(i) = Waves(i) + Voice(i)
                    /\ HyperSample(i) \in -1024 .. 1023
  BY DEF MixFits
<1>1. ASSUME ~i.hyper PROVE Headphones(i) = Waves(i) + Voice(i)
  <2> DEFINE w == Waves(i)
             v == Voice(i)
  <2>1. Headphones(i) = ClampI16(w + v + 0)
    BY <1>1 DEF Headphones, Hyper
  <2>2. w \in 0 .. (IF voiceMode THEN 21600 ELSE 28800) /\ v \in -8192 .. 8128
        /\ (~voiceMode => v = 0)
    BY WavesBounded, VoiceBounded
  <2> HIDE DEF w, v
  <2>3. ClampI16(w + v + 0) = w + v
    BY <2>2 DEF ClampI16
  <2> QED BY <2>1, <2>3 DEF w, v
<1> QED BY <1>1, HyperBounded

(* The mix of the four channels and the voice never reaches the clamp      *)
(* behind it, and Hyper Voice keeps to eleven bits (mix_waves, mix_voice,  *)
(* hypervoice_sample): for any bytes of the latches.                       *)
THEOREM MixNeverClips == MixerSpec => [](MixerTypeOK /\ MixFits)
<1>1. MixerTypeOK /\ [MixerNext]_mixerVars => MixerTypeOK'
  BY MixerTypeStep
<1> QED BY <1>1, MixerStarts, MixKnown, PTL DEF MixerSpec

-----------------------------------------------------------------------------
(* The lines the resampler draws between samples.                          *)

(* Half the range of the integers it computes in.                          *)
Half == 2 ^ (IntBits - 1)

(* Powers of two are twice the one before.                                 *)
LEMMA HalfFacts ==
  /\ Half \in Nat \ {0} /\ 2 ^ IntBits = 2 * Half
  /\ 2 ^ (LevelBits - 1) \in Nat \ {0} /\ 2 ^ LevelBits = 2 * 2 ^ (LevelBits - 1)
<1>1. IntBits - 1 \in Nat /\ LevelBits - 1 \in Nat
      /\ (IntBits - 1) + 1 = IntBits /\ (LevelBits - 1) + 1 = LevelBits
  BY ResamplerAssumption
<1>2. 2 ^ ((IntBits - 1) + 1) = 2 * 2 ^ (IntBits - 1)
  BY <1>1, PowerDoubles
<1>3. 2 ^ ((LevelBits - 1) + 1) = 2 * 2 ^ (LevelBits - 1)
  BY <1>1, PowerDoubles
<1> QED BY <1>1, <1>2, <1>3, PowerPositive DEF Half

(* A number in range does not wrap.                                        *)
LEMMA WrapFits ==
  ASSUME NEW x \in Int, -Half <= x, x < Half
  PROVE  Wrap(x) = x
<1>1. Half \in Nat \ {0} /\ 2 ^ IntBits = 2 * Half
  BY HalfFacts
<1>2. Wrap(x) = ((x + Half) % (2 * Half)) - Half
  BY <1>1 DEF Wrap, Half
<1> HIDE DEF Half
<1> DEFINE d == 2 * Half
           y == x + Half
<1>3. d \in Nat \ {0} /\ y \in 0 .. d - 1
  BY <1>1
<1>4. y % d = y
  <2> HIDE DEF d, y
  <2> QED BY <1>3, ModSmall
<1> QED BY <1>1, <1>2, <1>4

(* A part of a distance lies within it, on either side of zero.            *)
LEMMA PartOf ==
  ASSUME NEW x \in Int, NEW d \in Nat \ {0}, NEW n \in 0 .. d
  PROVE  /\ x * n \in Int
         /\ x >= 0 => Divided(x * n, d) \in 0 .. x /\ x * n \in 0 .. x * d
         /\ x <= 0 => Divided(x * n, d) \in x .. 0 /\ x * n \in x * d .. 0
<1>1. x * n \in Int /\ x * d \in Int
  OBVIOUS
<1>2. ASSUME NEW y \in Nat PROVE (y * n) \div d \in 0 .. y /\ y * n \in 0 .. y * d
  <2>1. y * n \in Nat /\ y * d \in Nat /\ y * n <= y * d
    BY SMT
  <2> DEFINE p == y * n
             q == p \div d
  <2>2. q \in Nat /\ p = d * q + (p % d) /\ p % d \in 0 .. d - 1
    BY <2>1, DivMod
  <2>3. q <= y
    <3> SUFFICES ASSUME q >= y + 1 PROVE FALSE
      BY <2>2
    <3>1. d * q >= d * (y + 1)
      <4> HIDE DEF q
      <4> QED BY <2>2, SMT
    <3>2. d * (y + 1) = y * d + d
      BY SMT
    <3> QED BY <2>1, <2>2, <3>1, <3>2
  <2> QED BY <2>1, <2>2, <2>3
<1>3. CASE x >= 0
  <2>1. x * n \in 0 .. x * d /\ (x * n) \div d \in 0 .. x
    BY <1>2, <1>3
  <2>2. Divided(x * n, d) = (x * n) \div d
    BY <2>1 DEF Divided
  <2>3. x <= 0 => x = 0
    BY <1>3
  <2>4. x = 0 => x * n = 0 /\ x * d = 0
    OBVIOUS
  <2> HIDE DEF Divided
  <2> QED BY <1>1, <2>1, <2>2, <2>3, <2>4
<1>4. CASE x < 0
  <2> DEFINE y == 0 - x
  <2>1. y \in Nat /\ x = 0 - y
    BY <1>4
  <2>2. y * n \in 0 .. y * d /\ (y * n) \div d \in 0 .. y
    BY <1>2, <2>1
  <2>3. x * n = 0 - y * n /\ x * d = 0 - y * d
    BY <2>1
  <2> HIDE DEF y
  <2> DEFINE p == y * n
  <2>4. Divided(0 - p, d) = IF p > 0 THEN 0 - (p \div d) ELSE (0 - p) \div d
    <3>1. p \in Nat
      BY <2>2
    <3>2. 0 - (0 - p) = p
      BY <3>1
    <3> QED BY <3>1, <3>2 DEF Divided
  <2>5. p = 0 => (0 - p) \div d = 0
    <3>1. 0 = d * 0 + 0 /\ 0 \in 0 .. d - 1
      OBVIOUS
    <3>2. 0 \div d = 0
      BY <3>1, WholeUnique
    <3> QED BY <3>2
  <2>6. Divided(x * n, d) \in x .. 0
    <3>1. x * n = 0 - p /\ p \in Nat /\ p \div d \in 0 .. y
      BY <2>2, <2>3
    <3> DEFINE q == p \div d
    <3>2. Divided(0 - p, d) = 0 - q \/ Divided(0 - p, d) = 0
      BY <2>4, <2>5, <3>1
    <3> HIDE DEF q, p
    <3>3. q \in 0 .. y
      BY <3>1 DEF q
    <3> QED BY <2>1, <3>1, <3>2, <3>3
  <2> QED BY <1>1, <1>4, <2>2, <2>3, <2>6
<1> QED BY <1>3, <1>4

(* A sample between two lies between them if the last product fits: then   *)
(* nothing overflows on the way.                                           *)
LEMMA Lerped ==
  ASSUME NEW a \in Levels, NEW b \in Levels, NEW n \in 0 .. outRate,
         outRate \in Nat \ {0}, StepFits(a, b)
  PROVE  Lerp(a, b, n, outRate) \in (a .. b) \cup (b .. a)
<1> DEFINE top == 2 ^ (LevelBits - 1)
           x == b - a
<1>1. /\ Half \in Nat \ {0} /\ top \in Nat \ {0}
      /\ 2 ^ LevelBits = 2 * top
  BY HalfFacts
<1>2. top <= Half
  BY ResamplerAssumption DEF Half
<1>3. /\ a \in Int /\ -top <= a /\ a <= top - 1
      /\ b \in Int /\ -top <= b /\ b <= top - 1
  BY <1>1 DEF Levels
<1> HIDE DEF top
<1>4. x \in Int
  BY <1>3
<1>5. x * outRate \in Int /\ -Half <= x * outRate /\ x * outRate < Half
  BY <1>1 DEF StepFits, Half
<1> HIDE DEF x
<1>6. /\ x * n \in Int
      /\ x >= 0 => Divided(x * n, outRate) \in 0 .. x /\ x * n \in 0 .. x * outRate
      /\ x <= 0 => Divided(x * n, outRate) \in x .. 0 /\ x * n \in x * outRate .. 0
  BY <1>4, PartOf
<1> DEFINE p == x * n
           q == Divided(p, outRate)
           full == x * outRate
<1>7. p \in Int /\ -Half <= p /\ p < Half
  <2>1. full \in Int /\ -Half <= full /\ full < Half /\ p \in Int
        /\ (x >= 0 => p \in 0 .. full) /\ (x <= 0 => p \in full .. 0)
    BY <1>5, <1>6
  <2> HIDE DEF p, full
  <2> QED BY <1>1, <1>4, <2>1
<1>8. Wrap(p) = p
  BY <1>7, WrapFits
<1>9. (x >= 0 => q \in 0 .. x) /\ (x <= 0 => q \in x .. 0)
  BY <1>6
<1>10. Lerp(a, b, n, outRate) = Wrap(a + q)
  BY <1>8 DEF Lerp, x
<1> HIDE DEF q
<1>11. q \in Int /\ a + q \in (a .. b) \cup (b .. a)
  BY <1>3, <1>4, <1>9 DEF x
<1>12. a + q \in Int /\ -Half <= a + q /\ a + q < Half
  BY <1>1, <1>2, <1>3, <1>11
<1>13. Wrap(a + q) = a + q
  <2> DEFINE y == a + q
  <2> HIDE DEF y
  <2>1. y \in Int /\ -Half <= y /\ y < Half => Wrap(y) = y
    BY WrapFits
  <2> QED BY <1>12, <2>1 DEF y
<1> QED BY <1>10, <1>11, <1>13

(* The inductive invariant: the phase is in range, and a sample is kept    *)
(* from one pair to the next only while the rates differ.                  *)
LinesInv ==
  /\ PhaseInv
  /\ from \in Levels /\ prev \in Levels
  /\ hasPrev => outRate # InRate
  /\ Interpolates

(* Nothing is kept at the start, and every step keeps the invariant.       *)
LEMMA LinesStart == ResamplerInit => LinesInv
<1> SUFFICES ASSUME ResamplerInit PROVE LinesInv
  OBVIOUS
<1>1. 0 \in Levels
  <2> DEFINE top == 2 ^ (LevelBits - 1)
  <2>1. top \in Nat \ {0}
    BY HalfFacts
  <2> HIDE DEF top
  <2> QED BY <2>1 DEF Levels, top
<1>2. hasPrev = FALSE /\ from = 0 /\ prev = 0
  BY DEF ResamplerInit
<1> QED BY <1>1, <1>2, PhaseInit DEF LinesInv, Interpolates

LEMMA LinesStep == LinesInv /\ [ResamplerNext]_resamplerVars => LinesInv'
<1> SUFFICES ASSUME LinesInv, [ResamplerNext]_resamplerVars PROVE LinesInv'
  OBVIOUS
<1>1. /\ PhaseInv /\ from \in Levels /\ prev \in Levels
      /\ (hasPrev => outRate # InRate) /\ Interpolates
  BY DEF LinesInv
<1>2. PhaseInv'
  BY <1>1, PhaseStep
<1>3. ASSUME NEW s \in Levels, PassThrough(s) PROVE LinesInv'
  <2>1. outRate = InRate /\ from' = s /\ UNCHANGED <<outRate, hasPrev, prev>>
    BY <1>3 DEF PassThrough
  <2> QED BY <1>1, <1>2, <2>1 DEF LinesInv, Interpolates
<1>4. ASSUME NEW s \in Levels, FirstPair(s) PROVE LinesInv'
  <2>1. outRate # InRate /\ hasPrev' = TRUE /\ prev' = s /\ from' = s /\ outs' = <<s>>
        /\ outRate' = outRate
    BY <1>4 DEF FirstPair
  <2>2. DOMAIN outs' = 1 .. 1 /\ outs'[1] = s
    BY <2>1
  <2>3. s \in s .. s
    BY <1>1 DEF Levels
  <2>4. Interpolates'
    BY <2>1, <2>2, <2>3 DEF Interpolates
  <2> QED BY <1>2, <2>1, <2>4 DEF LinesInv
<1>5. ASSUME NEW s \in Levels, NextPair(s) PROVE LinesInv'
  <2>1. /\ outRate # InRate /\ hasPrev /\ prev' = s /\ from' = prev
        /\ outs' = [k \in 1 .. Emits |-> Lerp(prev, s, phase + (k - 1) * InRate, outRate)]
        /\ outRate' = outRate /\ hasPrev' = hasPrev
    BY <1>5 DEF NextPair
  <2>2. outRate \in Nat \ {0} /\ phase \in 1 .. InRate
    BY <1>1, <2>1 DEF PhaseInv
  <2>3. ASSUME NEW k \in 1 .. Emits, StepFits(prev, s)
        PROVE  Lerp(prev, s, phase + (k - 1) * InRate, outRate) \in (prev .. s) \cup (s .. prev)
    <3>1. phase + (k - 1) * InRate \in 0 .. outRate
      <4>1. Emits \in Nat /\ Emits >= 1 /\ ~(phase > outRate)
        BY <2>2, <2>3, PhaseLeftInRange DEF Emits
      <4> DEFINE e == outRate - phase
                 q == e \div InRate
                 r == e % InRate
      <4>2. e \in Nat /\ InRate \in Nat \ {0}
        BY <2>2, <4>1, ResamplerAssumption
      <4>3. q \in Nat /\ r \in 0 .. InRate - 1 /\ e = InRate * q + r
        BY <4>2, DivMod
      <4>4. k - 1 \in 0 .. q
        BY <4>1, <4>3 DEF Emits
      <4>5. outRate = phase + e
        BY <2>2, ResamplerAssumption
      <4> HIDE DEF e, q, r
      <4> DEFINE j == k - 1
      <4> HIDE DEF j
      <4>6. j \in 0 .. q
        BY <4>4 DEF j
      <4>7. j * InRate \in Nat /\ j * InRate <= InRate * q
        BY <4>2, <4>3, <4>6, SMT
      <4>8. phase + j * InRate \in 0 .. outRate
        <5> DEFINE a == j * InRate
                   b == InRate * q
        <5>1. a \in Nat /\ b \in Int /\ a <= b /\ e = b + r
          BY <4>2, <4>3, <4>7
        <5> HIDE DEF a, b
        <5>2. phase + a \in 0 .. outRate
          BY <2>2, <4>2, <4>3, <4>5, <5>1
        <5> QED BY <5>2 DEF a
      <4> QED BY <4>8 DEF j
    <3> DEFINE n == phase + (k - 1) * InRate
    <3> HIDE DEF n
    <3>2. Lerp(prev, s, n, outRate) \in (prev .. s) \cup (s .. prev)
      BY <1>1, <2>2, <2>3, <3>1, Lerped DEF n
    <3> QED BY <3>2 DEF n
  <2>4. Interpolates'
    <3> SUFFICES ASSUME StepFits(from, prev)', NEW k \in DOMAIN outs'
                 PROVE  outs'[k] \in (from' .. prev') \cup (prev' .. from')
      BY DEF Interpolates
    <3>1. StepFits(prev, s)
      BY <2>1 DEF StepFits
    <3>2. k \in 1 .. Emits /\ outs'[k] = Lerp(prev, s, phase + (k - 1) * InRate, outRate)
      BY <2>1
    <3> QED BY <2>1, <2>3, <3>1, <3>2
  <2> QED BY <1>1, <1>2, <2>1, <2>4 DEF LinesInv
<1>6. ASSUME NEW rate \in OutRates, OpenStream(rate) PROVE LinesInv'
  <2>1. hasPrev' = FALSE /\ from' = 0 /\ prev' = 0
    BY <1>6 DEF OpenStream, Fresh
  <2>2. 0 \in Levels
    <3> DEFINE top == 2 ^ (LevelBits - 1)
    <3>1. top \in Nat \ {0}
      BY HalfFacts
    <3> HIDE DEF top
    <3> QED BY <3>1 DEF Levels, top
  <2> QED BY <1>2, <2>1, <2>2 DEF LinesInv, Interpolates
<1>7. CASE UNCHANGED resamplerVars
  <2>1. UNCHANGED <<outRate, hasPrev, prev, from, outs>>
    BY <1>7 DEF resamplerVars
  <2>2. Interpolates'
    BY <1>1, <2>1, Zenon DEF Interpolates, StepFits
  <2> QED BY <1>1, <1>2, <2>1, <2>2 DEF LinesInv
<1> QED BY <1>3, <1>4, <1>5, <1>6, <1>7 DEF ResamplerNext

(* Every sample the resampler emits lies between the two it is drawn       *)
(* between (Resampler::process, lerp_i16): at any pair of rates, for every *)
(* two samples whose distance times the device's rate fits the integers.   *)
THEOREM ResamplerInterpolates == ResamplerSpec => []Interpolates
<1>1. LinesInv => Interpolates
  BY DEF LinesInv
<1> QED BY <1>1, LinesStart, LinesStep, PTL DEF ResamplerSpec
=============================================================================
