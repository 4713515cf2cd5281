--------------------------- MODULE Desktop_proofs ---------------------------
(***************************************************************************)
(* Proofs about the desktop program's own state: the keys that gamepads    *)
(* hold, directions under a turned screen, the full-screen state, and the  *)
(* settings and their file.                                                *)
(***************************************************************************)
EXTENDS InputPath, Settings, Arithmetic, TLAPS

-----------------------------------------------------------------------------
(* Held keys.                                                              *)

(* The events of the gamepad library's queue.                             *)
Event ==
  [kind : {"pressed", "released", "disconnected"}, pad : Pads, button : PadButtons \cup {NoKey}]

(* The keys poll can put in a pad's set under the bindings of the moment.  *)
Named == {Mapped(padConfig, b) : b \in PadButtons \cup {NoKey}} \ {NoKey}
HeldSets == [Pads -> SUBSET Named]

(* An event that has pad p hold key k, or hold it no longer.               *)
Names(e, p, k) == e.kind = "pressed" /\ e.pad = p /\ Mapped(padConfig, e.button) = k
Clears(e, p, k) ==
  /\ e.pad = p
  /\ e.kind = "disconnected" \/ (e.kind = "released" /\ Mapped(padConfig, e.button) = k)
(* An event behind which button b of pad p is up.                          *)
Lifts(e, p, b) ==
  e.pad = p /\ (e.kind = "disconnected" \/ (e.kind = "released" /\ e.button = b))

(* Types.                                                                  *)
PadsTyped ==
  /\ events \in Seq(Event)
  /\ down \in [Pads -> SUBSET PadButtons]
  /\ held \in HeldSets

(* A queued press is of a button still down, or is lifted later on.        *)
PressesAccounted ==
  \A i \in 1 .. Len(events) : events[i].kind = "pressed" =>
    \/ events[i].button \in down[events[i].pad]
    \/ \E j \in i + 1 .. Len(events) : Lifts(events[j], events[i].pad, events[i].button)

(* Unless a rebind is armed, which may drop events, a held key is that of  *)
(* a button still down, or the queue clears it.                            *)
HeldAccounted ==
  armed = NoKey =>
    \A p \in Pads : \A k \in held[p] :
      \/ \E b \in down[p] : k = Mapped(padConfig, b)
      \/ \E j \in 1 .. Len(events) : Clears(events[j], p, k)

(* The inductive invariant.                                                *)
PadsInv == PadsTyped /\ PressesAccounted /\ HeldAccounted

(* An event leaves sets of keys that buttons are bound to.                 *)
LEMMA AppliedStays ==
  ASSUME NEW h \in HeldSets, NEW e \in Event
  PROVE  Applied(h, e) \in HeldSets
<1> DEFINE m == Mapped(padConfig, e.button)
<1>1. e.pad \in Pads /\ (m # NoKey => m \in Named) /\ h[e.pad] \subseteq Named
  BY DEF Event, Named, HeldSets
<1>2. \/ Applied(h, e) = [h EXCEPT ![e.pad] = {}]
      \/ m # NoKey /\ Applied(h, e) = [h EXCEPT ![e.pad] = @ \cup {m}]
      \/ Applied(h, e) = [h EXCEPT ![e.pad] = @ \ {m}]
      \/ Applied(h, e) = h
  BY DEF Applied, AppliedDeaf, Event
<1> HIDE DEF m
<1> QED BY <1>1, <1>2 DEF HeldSets

(* A key an event leaves held was held and is not cleared, or is pressed.  *)
LEMMA AppliedKeys ==
  ASSUME NEW h \in HeldSets, NEW e \in Event, NEW p \in Pads, NEW k \in Applied(h, e)[p]
  PROVE  Names(e, p, k) \/ (k \in h[p] /\ ~Clears(e, p, k))
<1> DEFINE m == Mapped(padConfig, e.button)
<1>1. e.pad \in Pads /\ e.kind \in {"pressed", "released", "disconnected"}
  BY DEF Event
<1>2. CASE e.kind = "disconnected"
  <2>1. Applied(h, e) = [h EXCEPT ![e.pad] = {}]
    BY <1>2 DEF Applied
  <2> QED BY <1>1, <1>2, <2>1 DEF HeldSets, Clears
<1>3. CASE e.kind = "released"
  <2>1. Applied(h, e) = [h EXCEPT ![e.pad] = @ \ {m}]
    BY <1>3 DEF Applied, AppliedDeaf
  <2> QED BY <1>1, <1>3, <2>1 DEF HeldSets, Clears
<1>4. CASE e.kind = "pressed"
  <2>1. Applied(h, e) = [h EXCEPT ![e.pad] = @ \cup {m}] \/ Applied(h, e) = h
    BY <1>4 DEF Applied, AppliedDeaf
  <2> QED BY <1>1, <1>4, <2>1 DEF HeldSets, Clears, Names
<1> QED BY <1>1, <1>2, <1>3, <1>4

(* What is held after the first n events.                                  *)
HeldAfter(f) ==
  f[0] = held /\ \A n \in 1 .. Len(events) : f[n] = Applied(f[n - 1], events[n])

(* Gamepad::poll runs through the queue.                                   *)
LEMMA PolledRuns ==
  ASSUME PadsTyped
  PROVE  \E f \in [0 .. Len(events) -> HeldSets] : HeldAfter(f) /\ Polled = f[Len(events)]
<1> DEFINE N == Len(events)
           steps == [n \in 1 .. N |-> [h \in HeldSets |-> Applied(h, events[n])]]
           Is(f) == f = [n \in 0 .. N |-> IF n = 0 THEN held ELSE Applied(f[n - 1], events[n])]
           after == CHOOSE f : Is(f)
<1>1. N \in Nat /\ held \in HeldSets /\ \A n \in 1 .. N : events[n] \in Event
  BY DEF PadsTyped
<1>2. steps \in [1 .. N -> [HeldSets -> HeldSets]]
  BY <1>1, AppliedStays
<1>3. PICK f \in [0 .. N -> HeldSets] : RunsThrough(f, N, held, steps)
  <2> HIDE DEF N, steps
  <2> QED BY <1>1, <1>2, Traversal
<1>4. Is(f)
  <2>1. ASSUME NEW n \in 0 .. N
        PROVE  f[n] = IF n = 0 THEN held ELSE Applied(f[n - 1], events[n])
    <3>1. CASE n = 0
      BY <1>3, <3>1 DEF RunsThrough
    <3>2. CASE n # 0
      <4>1. n \in 1 .. N /\ n - 1 \in 0 .. N
        BY <1>1, <3>2
      <4>2. f[n] = steps[n][f[n - 1]] /\ f[n - 1] \in HeldSets
        BY <1>3, <4>1 DEF RunsThrough
      <4> QED BY <3>2, <4>1, <4>2
    <3> QED BY <3>1, <3>2
  <2> HIDE DEF N
  <2> QED BY <2>1
<1>5. Is(after)
  <2> HIDE DEF Is
  <2> QED BY <1>4
<1>6. Polled = after[N]
  BY DEF Polled
<1> HIDE DEF after
<1>7. HeldAfter(after)
  <2>1. 0 \in 0 .. N /\ \A n \in 1 .. N : n \in 0 .. N /\ n # 0
    BY <1>1
  <2>2. \A n \in 0 .. N : after[n] = IF n = 0 THEN held ELSE Applied(after[n - 1], events[n])
    <3> HIDE DEF N
    <3> QED BY <1>5
  <2> QED BY <2>1, <2>2 DEF HeldAfter
<1>8. after \in [0 .. N -> HeldSets]
  <2> DEFINE T == {n \in Nat : n <= N => after[n] \in HeldSets}
  <2>1. 0 \in T
    BY <1>1, <1>7 DEF HeldAfter
  <2>2. ASSUME NEW n \in T PROVE n + 1 \in T
    <3> SUFFICES ASSUME n + 1 <= N PROVE after[n + 1] \in HeldSets
      BY <2>2
    <3> DEFINE m == n + 1
    <3>1. m \in 1 .. N /\ after[m - 1] \in HeldSets
      BY <1>1, <2>2
    <3> HIDE DEF m
    <3>2. after[m] = Applied(after[m - 1], events[m]) /\ events[m] \in Event
      BY <1>1, <1>7, <3>1 DEF HeldAfter
    <3>3. after[m] \in HeldSets
      BY <3>1, <3>2, AppliedStays
    <3> QED BY <3>3 DEF m
  <2> HIDE DEF T
  <2>3. T = Nat
    BY <2>1, <2>2, InductionSet DEF T
  <2>4. \A n \in 0 .. N : after[n] \in HeldSets
    BY <1>1, <2>3 DEF T
  <2>5. after = [n \in 0 .. N |-> after[n]]
    <3> HIDE DEF N
    <3> QED BY <1>5
  <2> HIDE DEF N
  <2> QED BY <2>4, <2>5
<1> QED BY <1>6, <1>7, <1>8

(* A key held once the queue is read was held and is not cleared in it, or *)
(* is pressed in it and not cleared after that.                            *)
LEMMA PolledKeys ==
  ASSUME PadsTyped, NEW p \in Pads, NEW k \in Polled[p]
  PROVE  \/ k \in held[p] /\ \A j \in 1 .. Len(events) : ~Clears(events[j], p, k)
         \/ \E i \in 1 .. Len(events) :
              /\ Names(events[i], p, k)
              /\ \A j \in i + 1 .. Len(events) : ~Clears(events[j], p, k)
<1> DEFINE N == Len(events)
           Kept(n) == k \in held[p] /\ \A j \in 1 .. n : ~Clears(events[j], p, k)
           Put(n) == \E i \in 1 .. n : /\ Names(events[i], p, k)
                                       /\ \A j \in i + 1 .. n : ~Clears(events[j], p, k)
<1>1. N \in Nat /\ \A n \in 1 .. N : events[n] \in Event
  BY DEF PadsTyped
<1>2. PICK f \in [0 .. N -> HeldSets] : HeldAfter(f) /\ Polled = f[N]
  BY PolledRuns
<1> DEFINE T == {n \in Nat : n <= N /\ k \in f[n][p] => Kept(n) \/ Put(n)}
<1>3. 0 \in T
  BY <1>2 DEF HeldAfter
<1>4. ASSUME NEW n \in T PROVE n + 1 \in T
  <2> DEFINE m == n + 1
  <2> SUFFICES ASSUME m <= N, k \in f[m][p] PROVE Kept(m) \/ Put(m)
    BY <1>4
  <2>1. n \in Nat /\ m \in 1 .. N /\ m - 1 = n /\ n \in 0 .. N
    BY <1>1, <1>4
  <2>2. k \in f[n][p] => Kept(n) \/ Put(n)
    BY <1>4, <2>1
  <2> HIDE DEF m
  <2>3. f[m] = Applied(f[n], events[m]) /\ f[n] \in HeldSets /\ events[m] \in Event
    BY <1>1, <1>2, <2>1 DEF HeldAfter
  <2>4. Names(events[m], p, k) \/ (k \in f[n][p] /\ ~Clears(events[m], p, k))
    BY <2>3, AppliedKeys
  <2>5. \A j \in 1 .. m : j \in 1 .. n \/ j = m
    BY <2>1
  <2>6. CASE Names(events[m], p, k)
    <3>1. m \in 1 .. m /\ m + 1 .. m = {}
      BY <2>1
    <3> QED BY <2>6, <3>1
  <2>7. CASE Kept(n) /\ ~Clears(events[m], p, k)
    BY <2>5, <2>7
  <2>8. CASE Put(n) /\ ~Clears(events[m], p, k)
    <3>1. PICK i \in 1 .. n : /\ Names(events[i], p, k)
                              /\ \A j \in i + 1 .. n : ~Clears(events[j], p, k)
      BY <2>8
    <3>2. i \in 1 .. m /\ \A j \in i + 1 .. m : j \in i + 1 .. n \/ j = m
      BY <2>1
    <3>3. \A j \in i + 1 .. m : ~Clears(events[j], p, k)
      BY <2>8, <3>1, <3>2
    <3> QED BY <3>1, <3>2, <3>3
  <2> QED BY <2>2, <2>4, <2>6, <2>7, <2>8
<1> HIDE DEF T
<1>5. T = Nat
  BY <1>3, <1>4, InductionSet DEF T
<1> QED BY <1>1, <1>2, <1>5 DEF T

(* What one more event in the queue leaves of the invariant.               *)
LEMMA EventQueued ==
  ASSUME PadsInv, NEW kind \in {"pressed", "released", "disconnected"}, NEW p \in Pads,
         NEW b \in PadButtons \cup {NoKey}, Enqueued(kind, p, b),
         down' \in [Pads -> SUBSET PadButtons],
         kind = "pressed" => b \in down'[p],
         \A q \in Pads : \A c \in down[q] :
           c \in down'[q] \/ Lifts([kind |-> kind, pad |-> p, button |-> b], q, c)
  PROVE  PadsInv'
<1> DEFINE e == [kind |-> kind, pad |-> p, button |-> b]
           N == Len(events)
<1>1. events' = Append(events, e) /\ held' = held /\ padConfig' = padConfig /\ armed' = armed
  BY DEF Enqueued
<1>2. e \in Event
  BY DEF Event
<1>3. events \in Seq(Event) /\ N \in Nat
  BY DEF PadsInv, PadsTyped
<1>4. e.kind = "pressed" => e.button \in down'[e.pad]
  OBVIOUS
<1>5. \A q \in Pads : \A c \in down[q] : c \in down'[q] \/ Lifts(e, q, c)
  OBVIOUS
<1> HIDE DEF e
<1>6. Len(events') = N + 1 /\ events'[N + 1] = e /\ \A i \in 1 .. N : events'[i] = events[i]
  BY <1>1, <1>2, <1>3
<1>7. PadsTyped'
  BY <1>1, <1>2 DEF PadsInv, PadsTyped, HeldSets, Named
<1>8. N + 1 \in 1 .. N + 1 /\ \A i \in 1 .. N + 1 : i \in 1 .. N \/ i = N + 1
  BY <1>3
<1>9. \A i \in 1 .. N : events[i] \in Event /\ i \in 1 .. N + 1 /\ N + 1 \in i + 1 .. N + 1
                        /\ \A j \in i + 1 .. N : j \in 1 .. N /\ j \in i + 1 .. N + 1
  BY <1>3
<1>10. PressesAccounted'
  <2> SUFFICES ASSUME NEW i \in 1 .. N + 1, events'[i].kind = "pressed"
               PROVE  \/ events'[i].button \in down'[events'[i].pad]
                      \/ \E j \in i + 1 .. N + 1 :
                           Lifts(events'[j], events'[i].pad, events'[i].button)
    BY <1>6 DEF PressesAccounted, Lifts
  <2>1. CASE i = N + 1
    BY <1>4, <1>6, <2>1
  <2>2. CASE i \in 1 .. N
    <3> DEFINE x == events[i]
    <3>1. events'[i] = x /\ x.kind = "pressed" /\ x.pad \in Pads
      BY <1>6, <1>9, <2>2 DEF Event
    <3>2. \/ x.button \in down[x.pad]
          \/ \E j \in i + 1 .. N : Lifts(events[j], x.pad, x.button)
      BY <2>2, <3>1 DEF PadsInv, PressesAccounted
    <3> HIDE DEF x
    <3>3. CASE x.button \in down[x.pad]
      BY <1>5, <1>6, <1>9, <2>2, <3>1, <3>3
    <3>4. CASE \E j \in i + 1 .. N : Lifts(events[j], x.pad, x.button)
      BY <1>6, <1>9, <2>2, <3>1, <3>4
    <3> QED BY <3>2, <3>3, <3>4
  <2> QED BY <1>8, <2>1, <2>2
<1>11. HeldAccounted'
  <2> SUFFICES ASSUME armed = NoKey, NEW q \in Pads, NEW k \in held[q]
               PROVE  \/ \E c \in down'[q] : k = Mapped(padConfig, c)
                      \/ \E j \in 1 .. N + 1 : Clears(events'[j], q, k)
    BY <1>1, <1>6 DEF HeldAccounted, Clears
  <2>1. \/ \E c \in down[q] : k = Mapped(padConfig, c)
        \/ \E j \in 1 .. N : Clears(events[j], q, k)
    BY DEF PadsInv, HeldAccounted
  <2>2. CASE \E j \in 1 .. N : Clears(events[j], q, k)
    BY <1>6, <1>9, <2>2
  <2>3. ASSUME NEW c \in down[q], k = Mapped(padConfig, c)
        PROVE  c \in down'[q] \/ Clears(e, q, k)
    BY <1>5, <2>3 DEF Lifts, Clears
  <2> QED BY <1>6, <1>8, <2>1, <2>2, <2>3
<1> QED BY <1>7, <1>10, <1>11 DEF PadsInv

(* With an empty queue and nothing held there is nothing to account for.   *)
LEMMA BoundAnew ==
  ASSUME down' \in [Pads -> SUBSET PadButtons], held' = NothingHeld
  PROVE  held' \in HeldSets' /\ HeldAccounted'
<1>1. \A p \in Pads : held'[p] = {}
  BY DEF NothingHeld
<1>2. held' \in HeldSets'
  BY DEF NothingHeld, HeldSets
<1> QED BY <1>1, <1>2 DEF HeldAccounted

(* A tick of the timer that reads the queue for the game.                  *)
LEMMA QueueRead ==
  ASSUME PadsInv, TickPlay
  PROVE  PadsInv'
<1>1. events' = <<>> /\ Len(events') = 0 /\ down' = down /\ held' = Polled /\ armed = NoKey
  BY DEF TickPlay, gilrs
<1>2. padConfig' = padConfig
  BY DEF TickPlay
<1>3. Polled \in HeldSets
  <2>1. Len(events) \in 0 .. Len(events)
    BY DEF PadsInv, PadsTyped
  <2> QED BY <2>1, PolledRuns DEF PadsInv
<1>4. PadsTyped'
  BY <1>1, <1>2, <1>3 DEF PadsInv, PadsTyped, HeldSets, Named
<1>5. PressesAccounted'
  BY <1>1 DEF PressesAccounted
<1>6. ASSUME NEW p \in Pads, NEW k \in Polled[p]
      PROVE  \E b \in down[p] : k = Mapped(padConfig, b)
  <2>1. CASE k \in held[p] /\ \A j \in 1 .. Len(events) : ~Clears(events[j], p, k)
    BY <1>1, <2>1 DEF PadsInv, HeldAccounted
  <2>2. ASSUME NEW i \in 1 .. Len(events), Names(events[i], p, k),
               \A j \in i + 1 .. Len(events) : ~Clears(events[j], p, k)
        PROVE  \E b \in down[p] : k = Mapped(padConfig, b)
    <3>1. \A j \in i + 1 .. Len(events) : ~Lifts(events[j], p, events[i].button)
      BY <2>2 DEF Names, Clears, Lifts
    <3>2. events[i].button \in down[p]
      BY <2>2, <3>1 DEF PadsInv, PressesAccounted, Names
    <3> QED BY <2>2, <3>2 DEF Names
  <2> QED BY <2>1, <2>2, PolledKeys DEF PadsInv
<1>7. HeldAccounted'
  BY <1>1, <1>2, <1>6 DEF HeldAccounted
<1> QED BY <1>4, <1>5, <1>7 DEF PadsInv

(* No pad, no event and no key at the start.                               *)
LEMMA PadsInitially ==
  ASSUME InputInit
  PROVE  PadsInv
<1>1. events = <<>> /\ Len(events) = 0 /\ \A p \in Pads : held[p] = {}
  BY DEF InputInit, NothingHeld
<1>2. PadsTyped
  BY <1>1 DEF InputInit, NothingHeld, PadsTyped, HeldSets
<1> QED BY <1>1, <1>2 DEF PadsInv, PressesAccounted, HeldAccounted

(* Every step preserves the invariant, if no armed rebind is given up.     *)
LEMMA PadsKept ==
  ASSUME PadsInv, ~MayCancel, [InputNext]_inputVars
  PROVE  PadsInv'
<1> USE DEF PadsInv
<1>1. ASSUME NEW p \in Pads, PadPress(p) PROVE PadsInv'
  <2>1. PICK b \in PadButtons \ down[p] :
          Enqueued("pressed", p, b) /\ down' = [down EXCEPT ![p] = @ \cup {b}]
    BY <1>1 DEF PadPress
  <2>2. down' \in [Pads -> SUBSET PadButtons] /\ b \in down'[p]
        /\ \A q \in Pads : down[q] \subseteq down'[q]
    BY <2>1 DEF PadsTyped
  <2> QED BY <2>1, <2>2, EventQueued
<1>2. ASSUME NEW p \in Pads, PadRelease(p) PROVE PadsInv'
  <2>1. PICK b \in down[p] :
          Enqueued("released", p, b) /\ down' = [down EXCEPT ![p] = @ \ {b}]
    BY <1>2 DEF PadRelease
  <2>2. b \in PadButtons /\ down' \in [Pads -> SUBSET PadButtons]
    BY <2>1 DEF PadsTyped
  <2>3. \A q \in Pads : \A c \in down[q] :
          c \in down'[q] \/ Lifts([kind |-> "released", pad |-> p, button |-> b], q, c)
    BY <2>1 DEF PadsTyped, Lifts
  <2> QED BY <2>1, <2>2, <2>3, EventQueued
<1>3. ASSUME NEW p \in Pads, PadLost(p) PROVE PadsInv'
  <2>1. Enqueued("disconnected", p, NoKey) /\ down' = [down EXCEPT ![p] = {}]
    BY <1>3 DEF PadLost
  <2>2. down' \in [Pads -> SUBSET PadButtons]
    BY <2>1 DEF PadsTyped
  <2>3. \A q \in Pads : \A c \in down[q] :
          c \in down'[q] \/ Lifts([kind |-> "disconnected", pad |-> p, button |-> NoKey], q, c)
    BY <2>1 DEF PadsTyped, Lifts
  <2> QED BY <2>1, <2>2, <2>3, EventQueued
<1>4. CASE TickPlay
  BY <1>4, QueueRead
<1>5. CASE TickCapture
  <2>1. events' = <<>> /\ Len(events') = 0 /\ down' = down /\ armed # NoKey
    BY <1>5 DEF TickCapture, gilrs
  <2>2. PressesAccounted'
    BY <2>1 DEF PressesAccounted
  <2>3. CASE held' = NothingHeld
    BY <2>1, <2>2, <2>3, BoundAnew DEF PadsTyped
  <2>4. CASE UNCHANGED <<held, padConfig, armed>>
    <3>1. PadsTyped'
      BY <2>1, <2>4 DEF PadsTyped, HeldSets, Named
    <3> QED BY <2>1, <2>2, <2>4, <3>1 DEF HeldAccounted
  <2> QED BY <1>5, <2>3, <2>4 DEF TickCapture, Bind
<1>6. ASSUME NEW key \in Rebound, Arm(key) PROVE PadsInv'
  <2>1. armed' # NoKey /\ UNCHANGED <<events, down, held, padConfig>>
    BY <1>6, InputPathAssumption DEF Arm, gilrs
  <2> QED BY <2>1 DEF PadsTyped, PressesAccounted, HeldAccounted, HeldSets, Named, Lifts
<1>7. CASE ResetBindings
  <2>1. held' = NothingHeld /\ UNCHANGED <<events, down>>
    BY <1>7 DEF ResetBindings, Bind, gilrs
  <2>2. PressesAccounted'
    BY <2>1 DEF PressesAccounted, Lifts
  <2> QED BY <2>1, <2>2, BoundAnew DEF PadsTyped
<1>8. CASE TurnScreen \/ (\E p \in Pads : PadFound(p)) \/ UNCHANGED inputVars
  <2>1. UNCHANGED <<events, down, held, padConfig, armed>>
    BY <1>8 DEF TurnScreen, PadFound, inputVars, gilrs
  <2> QED BY <2>1 DEF PadsTyped, PressesAccounted, HeldAccounted, HeldSets, Named,
                      Lifts, Clears
<1>9. ~Cancel
  BY DEF Cancel
<1> HIDE DEF PadsInv
<1> QED BY <1>1, <1>2, <1>3, <1>4, <1>5, <1>6, <1>7, <1>8, <1>9 DEF InputNext

(* No rebind, release or disconnection leaves a key stuck, and no pad      *)
(* clears another's, so long as an armed rebind is always carried through  *)
(* (Gamepad::poll, set_bindings, assign_gamepad): for any pads, buttons    *)
(* and bindings and a queue of any length.                                 *)
THEOREM NothingStuck ==
  ASSUME ~MayCancel
  PROVE  InputSpec => []NoStuckKeys
<1>1. PadsInv => NoStuckKeys
  BY DEF PadsInv, HeldAccounted, NoStuckKeys
<1> QED BY <1>1, PadsInitially, PadsKept, PTL DEF InputSpec

-----------------------------------------------------------------------------
(* The screen's rotation.                                                  *)

(* The values of config.rotation.                                          *)
Turns == {"none", "right", "left"}

(* The steps of the picture, and where a turn of the keys takes them.      *)
LEMMA Steps ==
  /\ StepOf[1] = <<0, -1>> /\ StepOf[2] = <<1, 0>>
  /\ StepOf[3] = <<0, 1>> /\ StepOf[4] = <<-1, 0>>
BY DEF StepOf

(* Button::rotated on the keys that rotate.                                *)
LEMMA KeyTurns ==
  ASSUME NEW d \in Directions
  PROVE  /\ Rotated(d, "none") = d
         /\ Rotated(d, "right") = (d % 4) + 1
         /\ Rotated(d, "left") = ((d + 2) % 4) + 1
<1>1. d \notin Actions
  BY InputPathAssumption DEF Directions
<1> QED BY <1>1 DEF Rotated

(* The pixels beside a pixel.                                              *)
LEMMA Neighbours ==
  ASSUME NEW x \in Int, NEW y \in Int
  PROVE  /\ Beside(<<x, y>>, 1) = <<x, y - 1>> /\ Beside(<<x, y>>, 2) = <<x + 1, y>>
         /\ Beside(<<x, y>>, 3) = <<x, y + 1>> /\ Beside(<<x, y>>, 4) = <<x - 1, y>>
<1>1. \A k \in 1 .. 4 : Beside(<<x, y>>, k) = <<x + StepOf[k][1], y + StepOf[k][2]>>
  BY DEF Beside
<1>2. /\ Beside(<<x, y>>, 1) = <<x + 0, y + (-1)>> /\ Beside(<<x, y>>, 2) = <<x + 1, y + 0>>
      /\ Beside(<<x, y>>, 3) = <<x + 0, y + 1>> /\ Beside(<<x, y>>, 4) = <<x + (-1), y + 0>>
  BY <1>1, Steps
<1>3. x + 0 = x /\ y + 0 = y /\ x + (-1) = x - 1 /\ y + (-1) = y - 1
  OBVIOUS
<1> QED BY <1>2, <1>3

(* The turn of the keys undoes that of the picture, one turn at a time.    *)
LEMMA TurnUndone ==
  ASSUME rotation \in Turns, follow, NEW d \in Directions, NEW x \in Int, NEW y \in Int
  PROVE  ShownAt(Beside(<<x, y>>, Rotated(d, InputTurn))) = Beside(ShownAt(<<x, y>>), d)
<1>1. d = 1 \/ d = 2 \/ d = 3 \/ d = 4
  BY DEF Directions
<1>2. CASE rotation = "none"
  <2>1. Rotated(d, InputTurn) = d
    BY <1>2, KeyTurns DEF InputTurn
  <2>2. \A q : ShownAt(q) = q
    BY <1>2 DEF ShownAt
  <2> QED BY <2>1, <2>2
<1>3. CASE rotation = "right"
  <2> DEFINE h == PictureHeight - 1
             s == h - y
             up == h - (y - 1)
             low == h - (y + 1)
  <2>1. h \in Int /\ s \in Int /\ up = s + 1 /\ low = s - 1
    BY InputPathAssumption
  <2>2. \A a \in Int, b \in Int : ShownAt(<<a, b>>) = <<h - b, a>>
    BY <1>3 DEF ShownAt
  <2>3. /\ Rotated(1, InputTurn) = 4 /\ Rotated(2, InputTurn) = 1
        /\ Rotated(3, InputTurn) = 2 /\ Rotated(4, InputTurn) = 3
    <3>1. \A k \in Directions : Rotated(k, InputTurn) = ((k + 2) % 4) + 1
      BY <1>3, KeyTurns DEF InputTurn
    <3>2. 1 \in Directions /\ 2 \in Directions /\ 3 \in Directions /\ 4 \in Directions
      BY DEF Directions
    <3> QED BY <3>1, <3>2
  <2>4. ShownAt(<<x, y>>) = <<s, x>>
    BY <2>2
  <2>5. /\ ShownAt(<<x - 1, y>>) = <<s, x - 1>> /\ ShownAt(<<x + 1, y>>) = <<s, x + 1>>
        /\ ShownAt(<<x, y - 1>>) = <<s + 1, x>> /\ ShownAt(<<x, y + 1>>) = <<s - 1, x>>
    <3>1. /\ ShownAt(<<x - 1, y>>) = <<s, x - 1>> /\ ShownAt(<<x + 1, y>>) = <<s, x + 1>>
          /\ ShownAt(<<x, y - 1>>) = <<up, x>> /\ ShownAt(<<x, y + 1>>) = <<low, x>>
      BY <2>2
    <3> QED BY <2>1, <3>1
  <2> HIDE DEF s
  <2>6. /\ Beside(<<s, x>>, 1) = <<s, x - 1>> /\ Beside(<<s, x>>, 2) = <<s + 1, x>>
        /\ Beside(<<s, x>>, 3) = <<s, x + 1>> /\ Beside(<<s, x>>, 4) = <<s - 1, x>>
    BY <2>1, Neighbours
  <2>7. /\ Beside(<<x, y>>, 1) = <<x, y - 1>> /\ Beside(<<x, y>>, 2) = <<x + 1, y>>
        /\ Beside(<<x, y>>, 3) = <<x, y + 1>> /\ Beside(<<x, y>>, 4) = <<x - 1, y>>
    BY Neighbours
  <2> QED BY <1>1, <2>3, <2>4, <2>5, <2>6, <2>7
<1>4. CASE rotation = "left"
  <2> DEFINE w == PictureWidth - 1
             s == w - x
             near == w - (x - 1)
             far == w - (x + 1)
  <2>1. w \in Int /\ s \in Int /\ near = s + 1 /\ far = s - 1
    BY InputPathAssumption
  <2>2. \A a \in Int, b \in Int : ShownAt(<<a, b>>) = <<b, w - a>>
    BY <1>4 DEF ShownAt
  <2>3. /\ Rotated(1, InputTurn) = 2 /\ Rotated(2, InputTurn) = 3
        /\ Rotated(3, InputTurn) = 4 /\ Rotated(4, InputTurn) = 1
    <3>1. \A k \in Directions : Rotated(k, InputTurn) = (k % 4) + 1
      BY <1>4, KeyTurns DEF InputTurn
    <3>2. 1 \in Directions /\ 2 \in Directions /\ 3 \in Directions /\ 4 \in Directions
      BY DEF Directions
    <3> QED BY <3>1, <3>2
  <2>4. ShownAt(<<x, y>>) = <<y, s>>
    BY <2>2
  <2>5. /\ ShownAt(<<x - 1, y>>) = <<y, s + 1>> /\ ShownAt(<<x + 1, y>>) = <<y, s - 1>>
        /\ ShownAt(<<x, y - 1>>) = <<y - 1, s>> /\ ShownAt(<<x, y + 1>>) = <<y + 1, s>>
    <3>1. /\ ShownAt(<<x - 1, y>>) = <<y, near>> /\ ShownAt(<<x + 1, y>>) = <<y, far>>
          /\ ShownAt(<<x, y - 1>>) = <<y - 1, s>> /\ ShownAt(<<x, y + 1>>) = <<y + 1, s>>
      BY <2>2
    <3> QED BY <2>1, <3>1
  <2> HIDE DEF s
  <2>6. /\ Beside(<<y, s>>, 1) = <<y, s - 1>> /\ Beside(<<y, s>>, 2) = <<y + 1, s>>
        /\ Beside(<<y, s>>, 3) = <<y, s + 1>> /\ Beside(<<y, s>>, 4) = <<y - 1, s>>
    BY <2>1, Neighbours
  <2>7. /\ Beside(<<x, y>>, 1) = <<x, y - 1>> /\ Beside(<<x, y>>, 2) = <<x + 1, y>>
        /\ Beside(<<x, y>>, 3) = <<x, y + 1>> /\ Beside(<<x, y>>, 4) = <<x - 1, y>>
    BY Neighbours
  <2> QED BY <1>1, <2>3, <2>4, <2>5, <2>6, <2>7
<1> QED BY <1>2, <1>3, <1>4 DEF Turns

(* With "rotate input with screen" on, a direction moves the game in that  *)
(* direction on the screen, in every rotation and for a picture of any     *)
(* size (input_rotation_from_config, write_rgba_rotated_cw and _ccw).      *)
THEOREM InputUpright == InputSpec => []InputFollowsScreen
<1> DEFINE Turning == rotation \in Turns
<1>1. InputInit => Turning
  BY DEF InputInit, Turns
<1>2. Turning /\ [InputNext]_inputVars => Turning'
  BY DEF InputNext, PadPress, PadRelease, PadLost, PadFound, Enqueued, TickPlay, TickCapture,
         Arm, Cancel, ResetBindings, TurnScreen, inputVars, screenVars, Turns
<1>3. Turning => InputFollowsScreen
  <2> SUFFICES ASSUME rotation \in Turns, follow, NEW d \in Directions, NEW p \in Picture
               PROVE  ShownAt(Beside(p, Rotated(d, InputTurn))) = Beside(ShownAt(p), d)
    BY DEF InputFollowsScreen
  <2>1. PICK x \in Int, y \in Int : p = <<x, y>>
    BY InputPathAssumption DEF Picture
  <2> QED BY <2>1, TurnUndone
<1> HIDE DEF Turning
<1> QED BY <1>1, <1>2, <1>3, PTL DEF InputSpec

-----------------------------------------------------------------------------
(* Full screen.                                                            *)

(* A record of settings.                                                   *)
IsConfig(c) ==
  /\ c = [scale |-> c.scale, volume |-> c.volume, full |-> c.full, recent |-> c.recent]
  /\ c.full \in BOOLEAN

(* A changed field leaves a record of settings and its full-screen state.  *)
LEMMA FieldSet ==
  ASSUME NEW c, IsConfig(c), NEW v
  PROVE  /\ IsConfig([c EXCEPT !.scale = v]) /\ [c EXCEPT !.scale = v].full = c.full
         /\ IsConfig([c EXCEPT !.volume = v]) /\ [c EXCEPT !.volume = v].full = c.full
         /\ IsConfig([c EXCEPT !.recent = v]) /\ [c EXCEPT !.recent = v].full = c.full
         /\ v \in BOOLEAN => IsConfig([c EXCEPT !.full = v]) /\ [c EXCEPT !.full = v].full = v
<1> DEFINE s == c.scale
           n == c.volume
           f == c.full
           r == c.recent
<1>1. c = [scale |-> s, volume |-> n, full |-> f, recent |-> r] /\ f \in BOOLEAN
  BY DEF IsConfig
<1> HIDE DEF s, n, f, r
<1>2. [c EXCEPT !.scale = v] = [scale |-> v, volume |-> n, full |-> f, recent |-> r]
  BY <1>1
<1>3. [c EXCEPT !.volume = v] = [scale |-> s, volume |-> v, full |-> f, recent |-> r]
  BY <1>1
<1>4. [c EXCEPT !.recent = v] = [scale |-> s, volume |-> n, full |-> f, recent |-> v]
  BY <1>1
<1>5. [c EXCEPT !.full = v] = [scale |-> s, volume |-> n, full |-> v, recent |-> r]
  BY <1>1
<1>6. \A a, b, e : \A g \in BOOLEAN :
        LET d == [scale |-> a, volume |-> b, full |-> g, recent |-> e]
        IN  IsConfig(d) /\ d.full = g
  BY DEF IsConfig
<1>7. c.full = f
  BY <1>1
<1> QED BY <1>1, <1>2, <1>3, <1>4, <1>5, <1>6, <1>7

(* sanitised leaves the full-screen state alone.                           *)
LEMMA SanitisedKeepsFull ==
  ASSUME NEW c, IsConfig(c)
  PROVE  IsConfig(Sanitised(c)) /\ Sanitised(c).full = c.full
<1> DEFINE a == [c EXCEPT !.scale = AtLeast(1, @)]
           b == [a EXCEPT !.volume = AtMost(MaxVolume, @)]
<1>1. IsConfig(a) /\ a.full = c.full
  BY FieldSet
<1> HIDE DEF a
<1>2. IsConfig(b) /\ b.full = c.full
  BY <1>1, FieldSet
<1> DEFINE v == KeptRecent(b.recent)
<1>3. Sanitised(c) = [b EXCEPT !.recent = v]
  BY DEF Sanitised, a, b
<1> HIDE DEF b, v
<1> DEFINE d == [b EXCEPT !.recent = v]
<1>4. IsConfig(d) /\ d.full = b.full
  BY <1>2, FieldSet
<1> HIDE DEF d
<1>5. Sanitised(c) = d
  BY <1>3 DEF d
<1> QED BY <1>2, <1>4, <1>5

(* While the window changes state, the settings hold the state it is to    *)
(* take; otherwise they hold the one it has, or will at the next tick.     *)
ScreenInv ==
  /\ IsConfig(config) /\ (file.is = "whole" => IsConfig(file.says))
  /\ actual \in BOOLEAN /\ target \in BOOLEAN /\ wish \in BOOLEAN
  /\ running =>
       /\ target = wish
       /\ pending # NotPending =>
            pending = ScreenState(wish) /\ config.full = wish /\ (ticked => actual # wish)
       /\ pending = NotPending => config.full = actual \/ (~ticked /\ actual = target)

(* The settings of a first start.                                          *)
LEMMA DefaultConfig == IsConfig(Default) /\ Default.full = FALSE
BY DEF IsConfig, Default

(* What a save leaves in the file can be loaded.                           *)
LEMMA SaveShape ==
  ASSUME NEW c, IsConfig(c), Save(c), file.is = "whole" => IsConfig(file.says)
  PROVE  file'.is = "whole" => IsConfig(file'.says)
BY DefaultConfig DEF Save

(* At first nothing is asked for.                                          *)
LEMMA ScreenInitially == SettingsInit => ScreenInv
<1> SUFFICES ASSUME SettingsInit PROVE ScreenInv
  OBVIOUS
<1>1. IsConfig(config)
  BY DefaultConfig DEF SettingsInit
<1>2. file.is # "whole" /\ running = FALSE
  BY DEF SettingsInit
<1>3. actual = FALSE /\ target = FALSE /\ wish = FALSE
  BY DEF SettingsInit
<1> QED BY <1>1, <1>2, <1>3 DEF ScreenInv

(* Every step preserves the invariant.                                     *)
LEMMA ScreenKept ==
  ASSUME ScreenInv, [SettingsNext]_settingsVars
  PROVE  ScreenInv'
<1> USE DEF ScreenInv
<1>a. "full" # NotPending /\ "window" # NotPending /\ \A f : ScreenState(f) # NotPending
  BY DEF NotPending, ScreenState
(* Launch opens the window in the state the settings hold.                 *)
<1>1. CASE Launch
  <2>1. IsConfig(LoadedConfig)
    BY SanitisedKeepsFull, DefaultConfig DEF LoadedConfig
  <2>2. IsConfig(config') /\ config'.full \in BOOLEAN
    BY <1>1, <2>1 DEF Launch, IsConfig
  <2>3. file'.is = "whole" => IsConfig(file'.says)
    BY <1>1, <2>2, SaveShape DEF Launch
  <2> QED BY <1>1, <2>2, <2>3 DEF Launch
<1>2. CASE Kill
  BY <1>2, DefaultConfig DEF Kill
<1>3. CASE EditFile
  <2>1. running' = FALSE /\ UNCHANGED <<config, windowVars>>
    BY <1>3 DEF EditFile
  <2>2. file'.is = "whole" => IsConfig(file'.says)
    BY <1>3 DEF EditFile, IsConfig
  <2> QED BY <2>1, <2>2 DEF windowVars
(* Other settings, while the window rests or a change is under way.        *)
<1>4. ASSUME UserActs, IsConfig(config'), config'.full = config.full, Save(config'),
             UNCHANGED windowVars
      PROVE  ScreenInv'
  <2>1. file'.is = "whole" => IsConfig(file'.says)
    BY <1>4, SaveShape
  <2> QED BY <1>4, <2>1 DEF UserActs, windowVars
<1>5. CASE \E path \in RomPaths : OpenRom(path)
  <2>1. PICK path \in RomPaths : OpenRom(path)
    BY <1>5
  <2>2. IsConfig(config') /\ config'.full = config.full
    BY <2>1, FieldSet DEF OpenRom, PushRecent
  <2> QED BY <1>4, <2>1, <2>2 DEF OpenRom
<1>6. CASE ClearRecent
  <2>1. IsConfig(config') /\ config'.full = config.full
    BY <1>6, FieldSet DEF ClearRecent
  <2> QED BY <1>4, <1>6, <2>1 DEF ClearRecent
<1>7. CASE \E volume \in Volumes : SetVolume(volume)
  <2>1. PICK volume \in Volumes : SetVolume(volume)
    BY <1>7
  <2>2. IsConfig(config') /\ config'.full = config.full
    BY <2>1, FieldSet DEF SetVolume
  <2> QED BY <1>4, <2>1, <2>2 DEF SetVolume
(* A new scale asks for the state the settings hold.                       *)
<1>8. CASE \E scale \in Scales : SetScale(scale)
  <2>1. PICK scale \in Scales : SetScale(scale)
    BY <1>8
  <2>2. IsConfig(config') /\ config'.full = config.full
    BY <2>1, FieldSet DEF SetScale
  <2>3. file'.is = "whole" => IsConfig(file'.says)
    BY <2>1, <2>2, SaveShape DEF SetScale
  <2>4. config.full = wish /\ config.full \in BOOLEAN
    BY <2>1 DEF SetScale, UserActs, IsConfig
  <2> QED BY <2>1, <2>2, <2>3, <2>4 DEF SetScale, UserActs
<1>9. CASE ToggleFullscreen
  <2> DEFINE v == ~actual
  <2>1. v \in BOOLEAN /\ v # actual
    BY <1>9
  <2>2. config' = [config EXCEPT !.full = v] /\ Save(config') /\ UserActs
        /\ target' = v /\ wish' = v /\ pending' = ScreenState(v) /\ actual' = actual
    BY <1>9 DEF ToggleFullscreen, Await
  <2> HIDE DEF v
  <2>3. IsConfig(config') /\ config'.full = v
    BY <2>1, <2>2, FieldSet
  <2>4. file'.is = "whole" => IsConfig(file'.says)
    BY <2>2, <2>3, SaveShape
  <2> QED BY <1>a, <2>1, <2>2, <2>3, <2>4 DEF UserActs
<1>10. CASE TitleBar
  BY <1>10 DEF TitleBar, UserActs, fileVars
<1>11. CASE Settle
  BY <1>11 DEF Settle, fileVars
<1>12. CASE SyncFullscreen
  <2>1. CASE pending # NotPending
    <3>1. /\ pending' = IF pending = ScreenState(actual) THEN NotPending ELSE pending
          /\ UNCHANGED <<config, file, target, running, actual, wish>>
      BY <1>12, <2>1 DEF SyncFullscreen, fileVars
    <3>2. CASE pending = ScreenState(actual)
      <4>1. running => actual = wish
        BY <2>1, <3>2 DEF ScreenState
      <4> QED BY <2>1, <3>1, <3>2, <4>1
    <3>3. CASE pending # ScreenState(actual)
      <4>1. running => actual # wish
        BY <2>1, <3>3
      <4> QED BY <2>1, <3>1, <3>3, <4>1
    <3> QED BY <3>2, <3>3
  <2>2. CASE pending = NotPending /\ config.full # actual
    <3>1. config' = [config EXCEPT !.full = actual] /\ Save(config')
      BY <1>12, <2>2 DEF SyncFullscreen
    <3>2. IsConfig(config') /\ config'.full = actual
      BY <3>1, FieldSet
    <3>3. file'.is = "whole" => IsConfig(file'.says)
      BY <3>1, <3>2, SaveShape
    <3>4. running /\ target' = (target /\ actual) /\ actual = target /\ UNCHANGED <<running, actual, wish, pending>>
      BY <1>12, <2>2 DEF SyncFullscreen
    <3> QED BY <2>2, <3>2, <3>3, <3>4
  <2>3. CASE pending = NotPending /\ config.full = actual
    BY <1>12, <2>3 DEF SyncFullscreen, fileVars
  <2> QED BY <2>1, <2>2, <2>3
<1>13. CASE UNCHANGED settingsVars
  BY <1>13 DEF settingsVars, fileVars, windowVars
<1> QED BY <1>1, <1>2, <1>3, <1>5, <1>6, <1>7, <1>8, <1>9, <1>10, <1>11, <1>12, <1>13
        DEF SettingsNext

(* Once a transition is over and the timer has run, the window and the     *)
(* settings are in the state the user last asked for (sync_fullscreen).    *)
THEOREM ScreenSettles == SettingsSpec => []FullscreenSettles
<1>1. ScreenInv => FullscreenSettles
  BY DEF ScreenInv, FullscreenSettles
<1>2. ScreenInv /\ [SettingsNext]_settingsVars => ScreenInv'
  BY ScreenKept
<1> QED BY <1>1, <1>2, ScreenInitially, PTL DEF SettingsSpec

-----------------------------------------------------------------------------
(* The history of ROMs.                                                    *)

(* A list without repetitions; what stands in it before what.              *)
Distinct(s) == \A m, n \in 1 .. Len(s) : m < n => s[m] # s[n]
InOrder(s, n, x, y) == \E a, b \in 1 .. n : a < b /\ x = s[a] /\ y = s[b]

(* What is kept of the first n paths when a path is taken out: the others, *)
(* in their order.                                                         *)
Keeps(w, s, n, path) ==
  /\ Len(w) <= n
  /\ (\A k \in 1 .. n : s[k] # path) => Len(w) = n
  /\ (\A k, m \in 1 .. n : s[k] = path /\ s[m] = path => k = m) => Len(w) >= n - 1
  /\ \A x \in 1 .. Len(w) : \E a \in 1 .. n : w[x] = s[a] /\ s[a] # path
  /\ \A x, y \in 1 .. Len(w) : x < y => InOrder(s, n, w[x], w[y])
  /\ \A k \in 1 .. n : s[k] # path => Contains(w, s[k])

(* One more path is looked at.                                             *)
LEMMA KeepsOne ==
  ASSUME NEW S, NEW s \in Seq(S), NEW path, NEW n \in 1 .. Len(s), NEW w \in Seq(S),
         Keeps(w, s, n - 1, path)
  PROVE  Keeps(IF s[n] = path THEN w ELSE Append(w, s[n]), s, n, path)
<1>1. n \in Nat /\ n >= 1 /\ Len(w) \in Nat /\ s[n] \in S
  OBVIOUS
<1>2. \A k \in 1 .. n : k \in 1 .. n - 1 \/ k = n
  BY <1>1
<1>3. \A k \in 1 .. n - 1 : k \in 1 .. n /\ k < n
  BY <1>1
<1>4. CASE s[n] = path
  <2>1. Len(w) <= n /\ ~(\A k \in 1 .. n : s[k] # path)
    BY <1>1, <1>4 DEF Keeps
  <2>2. ASSUME \A k, m \in 1 .. n : s[k] = path /\ s[m] = path => k = m
        PROVE  Len(w) >= n - 1
    <3>1. \A k \in 1 .. n - 1 : s[k] # path
      BY <1>1, <1>3, <1>4, <2>2
    <3>2. Len(w) = n - 1
      BY <3>1 DEF Keeps
    <3> QED BY <1>1, <3>2
  <2>3. \A x \in 1 .. Len(w) : \E a \in 1 .. n : w[x] = s[a] /\ s[a] # path
    BY <1>3 DEF Keeps
  <2>4. ASSUME NEW x \in 1 .. Len(w), NEW y \in 1 .. Len(w), x < y
        PROVE  InOrder(s, n, w[x], w[y])
    <3>1. InOrder(s, n - 1, w[x], w[y])
      BY <2>4 DEF Keeps
    <3> QED BY <1>3, <3>1 DEF InOrder
  <2>5. \A k \in 1 .. n : s[k] # path => Contains(w, s[k])
    BY <1>2, <1>4 DEF Keeps
  <2>6. Keeps(w, s, n, path)
    BY <2>1, <2>2, <2>3, <2>4, <2>5 DEF Keeps
  <2> QED BY <1>4, <2>6
<1>5. CASE s[n] # path
  <2> DEFINE v == Append(w, s[n])
             L == Len(w)
  <2>1. Len(v) = L + 1 /\ v[L + 1] = s[n] /\ \A x \in 1 .. L : v[x] = w[x]
    BY <1>1
  <2>2. \A x \in 1 .. L + 1 : x \in 1 .. L \/ x = L + 1
    BY <1>1
  <2>a. n \in 1 .. n /\ L + 1 \in 1 .. L + 1 /\ \A x \in 1 .. L : x \in 1 .. L + 1
    BY <1>1
  <2> HIDE DEF v
  <2>3. Len(v) <= n
    BY <1>1, <2>1 DEF Keeps
  <2>4. ASSUME \A k \in 1 .. n : s[k] # path PROVE Len(v) = n
    BY <1>1, <1>3, <2>1, <2>4 DEF Keeps
  <2>5. ASSUME \A k, m \in 1 .. n : s[k] = path /\ s[m] = path => k = m
        PROVE  Len(v) >= n - 1
    <3>1. L >= (n - 1) - 1
      BY <1>3, <2>5 DEF Keeps
    <3> QED BY <1>1, <2>1, <3>1
  <2>6. ASSUME NEW x \in 1 .. L + 1
        PROVE  \E a \in 1 .. n : v[x] = s[a] /\ s[a] # path
    <3>1. CASE x \in 1 .. L
      BY <1>3, <2>1, <3>1 DEF Keeps
    <3>2. CASE x = L + 1
      BY <1>5, <2>1, <2>a, <3>2
    <3> QED BY <2>2, <3>1, <3>2
  <2>7. ASSUME NEW x \in 1 .. L + 1, NEW y \in 1 .. L + 1, x < y
        PROVE  InOrder(s, n, v[x], v[y])
    <3>1. x \in 1 .. L
      BY <1>1, <2>7
    <3>2. CASE y \in 1 .. L
      <4>1. PICK a \in 1 .. n - 1, b \in 1 .. n - 1 : a < b /\ w[x] = s[a] /\ w[y] = s[b]
        BY <2>7, <3>1, <3>2 DEF Keeps, InOrder
      <4> QED BY <1>3, <2>1, <3>1, <3>2, <4>1 DEF InOrder
    <3>3. CASE y = L + 1
      <4>1. PICK a \in 1 .. n - 1 : w[x] = s[a]
        BY <3>1 DEF Keeps
      <4> QED BY <1>3, <2>1, <2>a, <3>1, <3>3, <4>1 DEF InOrder
    <3> QED BY <2>2, <3>2, <3>3
  <2>8. ASSUME NEW k \in 1 .. n, s[k] # path PROVE Contains(v, s[k])
    <3>1. CASE k = n
      BY <2>1, <2>a, <3>1 DEF Contains
    <3>2. CASE k \in 1 .. n - 1
      <4>1. PICK x \in 1 .. L : w[x] = s[k]
        BY <2>8, <3>2 DEF Keeps, Contains
      <4> QED BY <2>1, <2>a, <4>1 DEF Contains
    <3> QED BY <1>2, <3>1, <3>2
  <2>9. Keeps(v, s, n, path)
    <3> HIDE DEF L
    <3>1. \A x \in 1 .. Len(v) : \E a \in 1 .. n : v[x] = s[a] /\ s[a] # path
      BY <2>1, <2>6
    <3>2. \A x, y \in 1 .. Len(v) : x < y => InOrder(s, n, v[x], v[y])
      BY <2>1, <2>7
    <3> QED BY <2>3, <2>4, <2>5, <2>8, <3>1, <3>2 DEF Keeps
  <2> QED BY <1>5, <2>9 DEF v
<1> QED BY <1>4, <1>5

(* Without takes a path out of a list.                                     *)
LEMMA WithoutKeeps ==
  ASSUME NEW S, NEW s \in Seq(S), NEW path
  PROVE  Without(s, path) \in Seq(S) /\ Keeps(Without(s, path), s, Len(s), path)
<1> DEFINE N == Len(s)
           One(w, n) == IF s[n] = path THEN w ELSE Append(w, s[n])
           steps == [n \in 1 .. N |-> [w \in Seq(S) |-> One(w, n)]]
           Is(f) == f = [n \in 0 .. N |->
                           IF n = 0 THEN <<>>
                           ELSE IF s[n] = path THEN f[n - 1] ELSE Append(f[n - 1], s[n])]
           kept == CHOOSE f : Is(f)
<1>1. N \in Nat /\ <<>> \in Seq(S) /\ \A n \in 1 .. N : s[n] \in S
  OBVIOUS
<1>2. \A n \in 1 .. N : \A w \in Seq(S) : One(w, n) \in Seq(S)
  BY <1>1
<1>3. PICK f \in [0 .. N -> Seq(S)] : RunsThrough(f, N, <<>>, steps)
  <2>1. steps \in [1 .. N -> [Seq(S) -> Seq(S)]]
    BY <1>2
  <2> HIDE DEF N, steps
  <2> QED BY <1>1, <2>1, Traversal
<1>4. Is(f)
  <2>1. ASSUME NEW n \in 0 .. N
        PROVE  f[n] = IF n = 0 THEN <<>>
                      ELSE IF s[n] = path THEN f[n - 1] ELSE Append(f[n - 1], s[n])
    <3>1. CASE n = 0
      BY <1>3, <3>1 DEF RunsThrough
    <3>2. CASE n # 0
      <4>1. n \in 1 .. N /\ n - 1 \in 0 .. N
        BY <1>1, <3>2
      <4>2. f[n] = steps[n][f[n - 1]] /\ f[n - 1] \in Seq(S)
        BY <1>3, <4>1 DEF RunsThrough
      <4> QED BY <3>2, <4>1, <4>2
    <3> QED BY <3>1, <3>2
  <2> HIDE DEF N
  <2> QED BY <2>1
<1>5. Is(kept)
  <2> HIDE DEF Is
  <2> QED BY <1>4
<1>6. Without(s, path) = kept[N]
  BY DEF Without
<1> HIDE DEF kept
<1>7. kept[0] = <<>> /\ \A n \in 1 .. N : kept[n] = One(kept[n - 1], n)
  <2>1. 0 \in 0 .. N /\ \A n \in 1 .. N : n \in 0 .. N /\ n # 0
    BY <1>1
  <2>2. \A n \in 0 .. N : kept[n] = IF n = 0 THEN <<>>
                      ELSE IF s[n] = path THEN kept[n - 1] ELSE Append(kept[n - 1], s[n])
    <3> HIDE DEF N
    <3> QED BY <1>5
  <2> QED BY <2>1, <2>2
<1> HIDE DEF One, steps
<1> DEFINE T == {n \in Nat : n <= N => kept[n] \in Seq(S) /\ Keeps(kept[n], s, n, path)}
<1>8. 0 \in T
  <2>1. kept[0] \in Seq(S) /\ Len(kept[0]) = 0
    BY <1>1, <1>7
  <2> QED BY <2>1 DEF Keeps
<1>9. ASSUME NEW n \in T PROVE n + 1 \in T
  <2> DEFINE m == n + 1
  <2> SUFFICES ASSUME m <= N PROVE kept[m] \in Seq(S) /\ Keeps(kept[m], s, m, path)
    BY <1>9
  <2>1. m \in 1 .. N /\ m - 1 = n /\ n \in Nat /\ n <= N
    BY <1>1, <1>9
  <2>2. kept[n] \in Seq(S) /\ Keeps(kept[n], s, n, path)
    BY <1>9, <2>1
  <2> HIDE DEF m
  <2>3. kept[m] = One(kept[n], m)
    BY <1>7, <2>1
  <2>4. Keeps(One(kept[n], m), s, m, path)
    <3> DEFINE w == kept[n]
    <3>1. w \in Seq(S) /\ Keeps(w, s, m - 1, path) /\ m \in 1 .. Len(s)
      BY <2>1, <2>2
    <3> HIDE DEF w
    <3>2. Keeps(IF s[m] = path THEN w ELSE Append(w, s[m]), s, m, path)
      BY <3>1, KeepsOne
    <3> QED BY <3>2 DEF One, w
  <2> QED BY <1>2, <2>1, <2>2, <2>3, <2>4
<1> HIDE DEF T
<1>10. T = Nat
  BY <1>8, <1>9, InductionSet DEF T
<1> QED BY <1>1, <1>6, <1>10 DEF T

(* The first of a list, as many as are kept.                               *)
FirstOf(k, s) ==
  /\ Len(k) <= RecentLimit /\ Len(k) <= Len(s)
  /\ (Len(k) = RecentLimit \/ Len(k) = Len(s))
  /\ \A n \in 1 .. Len(k) : k[n] = s[n]

(* truncate keeps the first of a list, all of it if it is short enough.    *)
LEMMA KeptFirst ==
  ASSUME NEW S, NEW s \in Seq(S)
  PROVE  /\ KeptRecent(s) \in Seq(S) /\ FirstOf(KeptRecent(s), s)
         /\ Len(s) <= RecentLimit => KeptRecent(s) = s
<1>1. RecentLimit \in Nat /\ Len(s) \in Nat
  BY SettingsAssumption
<1>2. CASE Len(s) < RecentLimit
  <2>1. KeptRecent(s) = SubSeq(s, 1, Len(s))
    BY <1>2 DEF KeptRecent
  <2>2. KeptRecent(s) = s
    BY <2>1
  <2> QED BY <1>1, <1>2, <2>2 DEF FirstOf
<1>3. CASE ~(Len(s) < RecentLimit)
  <2> DEFINE k == SubSeq(s, 1, RecentLimit)
  <2>1. KeptRecent(s) = k
    BY <1>3 DEF KeptRecent
  <2>2. k \in Seq(S) /\ Len(k) = RecentLimit /\ \A n \in 1 .. RecentLimit : k[n] = s[n]
    BY <1>1, <1>3
  <2>3. Len(s) <= RecentLimit => k = s
    <3>1. Len(s) = RecentLimit => SubSeq(s, 1, Len(s)) = s
      OBVIOUS
    <3> QED BY <1>1, <1>3, <3>1
  <2> HIDE DEF k
  <2> QED BY <1>1, <1>3, <2>1, <2>2, <2>3 DEF FirstOf
<1> QED BY <1>2, <1>3

(* No ROM is opened after itself, so a list of the latest repeats none of  *)
(* those that were opened.                                                 *)
LEMMA LatestDistinct ==
  ASSUME NEW r, NEW h \in Seq(RomPaths), ListsLatest(r, h),
         \A n \in 1 .. Len(r) : Contains(h, r[n])
  PROVE  Distinct(r)
<1>1. \A p : ~OpenedAfter(h, p, p)
  BY DEF OpenedAfter
<1> QED BY <1>1 DEF Distinct, ListsLatest

(* Whatever was opened after another was opened.                           *)
LEMMA OpenedListed ==
  ASSUME NEW h, NEW p, NEW q, OpenedAfter(h, p, q)
  PROVE  Contains(h, p)
BY DEF OpenedAfter, Contains

(* A history read from a list names what the list names, in its order.     *)
LEMMA ReversedLatest ==
  ASSUME NEW r \in Seq(RomPaths), Distinct(r), Len(r) <= RecentLimit
  PROVE  Reverse(r) \in Seq(RomPaths) /\ ListsLatest(r, Reverse(r))
<1> DEFINE h == Reverse(r)
           L == Len(r)
<1>1. L \in Nat /\ \A i \in 1 .. L : L - i + 1 \in 1 .. L /\ r[L - i + 1] \in RomPaths
  OBVIOUS
<1>2. h = [i \in 1 .. L |-> r[L - i + 1]]
  BY DEF Reverse
<1>3. h \in Seq(RomPaths) /\ Len(h) = L
  BY <1>1, <1>2
<1>4. \A i \in 1 .. L : h[i] = r[L - i + 1]
  BY <1>2
<1> HIDE DEF h
<1>5. ASSUME NEW n \in 1 .. L PROVE L - n + 1 \in 1 .. L /\ h[L - n + 1] = r[n]
  <2>1. L - n + 1 \in 1 .. L /\ L - (L - n + 1) + 1 = n
    BY <1>1
  <2>2. h[L - n + 1] = r[L - (L - n + 1) + 1]
    BY <1>4, <2>1
  <2> QED BY <2>1, <2>2
<1>6. ASSUME NEW m \in 1 .. L, NEW n \in 1 .. L, m < n PROVE OpenedAfter(h, r[m], r[n])
  <2> DEFINE i == L - m + 1
  <2>1. i \in 1 .. L /\ h[i] = r[m]
    BY <1>5
  <2>2. ASSUME NEW j \in i .. L PROVE h[j] # r[n]
    <3>1. j \in 1 .. L /\ L - j + 1 \in 1 .. L /\ L - j + 1 < n
      BY <1>1, <1>6, <2>1
    <3> QED BY <1>4, <3>1 DEF Distinct
  <2> HIDE DEF i
  <2> QED BY <1>3, <2>1, <2>2 DEF OpenedAfter
<1>7. \A i \in 1 .. L : Contains(r, h[i])
  BY <1>1, <1>4 DEF Contains
<1>8. ListsLatest(r, h)
  BY <1>3, <1>6, <1>7 DEF ListsLatest
<1> QED BY <1>3, <1>8 DEF h

(* Opening a ROM makes it the latest and leaves the order of the others.   *)
LEMMA OpenedOneMore ==
  ASSUME NEW h \in Seq(RomPaths), NEW path \in RomPaths
  PROVE  /\ \A q : q # path => OpenedAfter(Append(h, path), path, q)
         /\ \A p, q : q # path /\ OpenedAfter(h, p, q) => OpenedAfter(Append(h, path), p, q)
<1> DEFINE L == Len(h)
           g == Append(h, path)
<1>1. L \in Nat /\ Len(g) = L + 1 /\ g[L + 1] = path /\ \A i \in 1 .. L : g[i] = h[i]
  OBVIOUS
<1> HIDE DEF g
<1>2. ASSUME NEW q, q # path PROVE OpenedAfter(g, path, q)
  <2>1. L + 1 \in 1 .. L + 1 /\ \A j \in L + 1 .. L + 1 : j = L + 1
    BY <1>1
  <2> QED BY <1>1, <1>2, <2>1 DEF OpenedAfter
<1>3. ASSUME NEW p, NEW q, q # path, OpenedAfter(h, p, q) PROVE OpenedAfter(g, p, q)
  <2>1. PICK i \in 1 .. L : h[i] = p /\ \A j \in i .. L : h[j] # q
    BY <1>3 DEF OpenedAfter
  <2>2. i \in 1 .. L + 1 /\ \A j \in i .. L + 1 : (j \in i .. L /\ j \in 1 .. L) \/ j = L + 1
    BY <1>1
  <2>3. \A j \in i .. L + 1 : g[j] # q
    BY <1>1, <1>3, <2>1, <2>2
  <2> QED BY <1>1, <2>1, <2>2, <2>3 DEF OpenedAfter
<1> QED BY <1>2, <1>3 DEF g

(* push_recent keeps the list that of the last ROMs opened.                *)
LEMMA PushedLatest ==
  ASSUME NEW r \in Seq(RomPaths), NEW h \in Seq(RomPaths), ListsLatest(r, h),
         NEW path \in RomPaths
  PROVE  LET k == KeptRecent(<<path>> \o Without(r, path))
         IN  /\ k \in Seq(RomPaths) /\ ListsLatest(k, Append(h, path))
             /\ \A n \in 1 .. Len(k) : k[n] = path \/ Contains(r, k[n])
<1> DEFINE w == Without(r, path)
           v == <<path>> \o w
           k == KeptRecent(v)
           g == Append(h, path)
           H == Len(h)
<1>1. w \in Seq(RomPaths) /\ Keeps(w, r, Len(r), path)
  BY WithoutKeeps
<1> HIDE DEF w
<1>3. v \in Seq(RomPaths) /\ Len(v) = Len(w) + 1 /\ v[1] = path
      /\ \A n \in 1 .. Len(w) : v[n + 1] = w[n]
  BY <1>1
<1> HIDE DEF v
<1>4. k \in Seq(RomPaths) /\ FirstOf(k, v)
  BY <1>3, KeptFirst
<1> HIDE DEF k
<1>2. \A q : q # path /\ Contains(g, q) => Contains(h, q)
  BY DEF Contains
<1>5. /\ H \in Nat /\ Len(g) = H + 1 /\ g[H + 1] = path /\ \A i \in 1 .. H : g[i] = h[i]
      /\ Len(w) \in Nat /\ Len(k) \in Nat /\ Len(r) \in Nat /\ RecentLimit \in Nat
      /\ RecentLimit >= 1
  BY <1>1, <1>4, SettingsAssumption
<1>6. /\ \A q : q # path => OpenedAfter(g, path, q)
      /\ \A p, q : q # path /\ OpenedAfter(h, p, q) => OpenedAfter(g, p, q)
  BY OpenedOneMore
<1> HIDE DEF g
<1>7. Len(k) >= 1 /\ k[1] = path
  BY <1>3, <1>4, <1>5 DEF FirstOf
<1>8. \A n \in 1 .. Len(k) : n = 1 \/ (n - 1 \in 1 .. Len(w) /\ k[n] = w[n - 1])
  <2> SUFFICES ASSUME NEW n \in 1 .. Len(k), n # 1
               PROVE  n - 1 \in 1 .. Len(w) /\ k[n] = w[n - 1]
    OBVIOUS
  <2> DEFINE m == n - 1
  <2>1. m \in 1 .. Len(w) /\ n = m + 1
    BY <1>3, <1>4, <1>5 DEF FirstOf
  <2> HIDE DEF m
  <2>2. k[n] = v[n] /\ v[m + 1] = w[m]
    BY <1>3, <1>4, <2>1 DEF FirstOf
  <2> QED BY <2>1, <2>2 DEF m
<1>9. \A x \in 1 .. Len(w) : w[x] # path
  BY <1>1 DEF Keeps
<1>10. ASSUME NEW x \in 1 .. Len(w), NEW y \in 1 .. Len(w), x < y, Contains(h, w[y])
       PROVE  OpenedAfter(g, w[x], w[y])
  <2>1. PICK a \in 1 .. Len(r), b \in 1 .. Len(r) : a < b /\ w[x] = r[a] /\ w[y] = r[b]
    BY <1>1, <1>10 DEF Keeps, InOrder
  <2>2. OpenedAfter(h, w[x], w[y])
    BY <1>10, <2>1 DEF ListsLatest
  <2> QED BY <1>6, <1>9, <2>2
<1>11. ASSUME NEW n \in 1 .. Len(k) PROVE k[n] = path \/ Contains(r, k[n])
  <2>1. CASE n = 1
    BY <1>7, <2>1
  <2>2. CASE n # 1
    <3>1. n - 1 \in 1 .. Len(w) /\ k[n] = w[n - 1]
      BY <1>8, <2>2
    <3>2. \E a \in 1 .. Len(r) : w[n - 1] = r[a]
      BY <1>1, <3>1 DEF Keeps
    <3> QED BY <3>1, <3>2 DEF Contains
  <2> QED BY <2>1, <2>2
<1>12. ASSUME NEW m \in 1 .. Len(k), NEW n \in 1 .. Len(k), m < n, Contains(g, k[n])
       PROVE  OpenedAfter(g, k[m], k[n])
  <2>1. n # 1 /\ n - 1 \in 1 .. Len(w) /\ k[n] = w[n - 1]
    BY <1>5, <1>8, <1>12
  <2>2. CASE m = 1
    BY <1>6, <1>7, <1>9, <2>1, <2>2
  <2>3. CASE m # 1
    <3>1. m - 1 \in 1 .. Len(w) /\ k[m] = w[m - 1] /\ m - 1 < n - 1
      BY <1>5, <1>8, <1>12, <2>3
    <3>2. Contains(h, w[n - 1])
      BY <1>2, <1>9, <1>12, <2>1
    <3> QED BY <1>10, <2>1, <3>1, <3>2
  <2> QED BY <2>2, <2>3
(* What is left out was dropped now, or earlier and is older still.        *)
<1>13. ASSUME NEW i \in 1 .. H + 1, ~Contains(k, g[i])
       PROVE  Len(k) = RecentLimit /\ \A n \in 1 .. Len(k) : OpenedAfter(g, k[n], g[i])
  <2> DEFINE q == g[i]
  <2>a. \A n \in 1 .. Len(k) : k[n] # q
    BY <1>13 DEF Contains
  <2>1. q # path /\ i # H + 1
    BY <1>5, <1>7, <2>a
  <2>2. i \in 1 .. H /\ q = h[i]
    BY <1>5, <2>1
  <2> HIDE DEF q
  <2>3. OpenedAfter(g, k[1], q)
    BY <1>6, <1>7, <2>1
  <2>b. Contains(h, q)
    BY <2>2 DEF Contains
  <2>4. CASE Contains(r, q)
    <3>1. PICK y \in 1 .. Len(w) : w[y] = q
      BY <1>1, <2>1, <2>4 DEF Keeps, Contains
    <3>2. ~(y + 1 \in 1 .. Len(k))
      <4> SUFFICES ASSUME y + 1 \in 1 .. Len(k) PROVE FALSE
        OBVIOUS
      <4>1. k[y + 1] = w[y]
        BY <1>3, <1>4 DEF FirstOf
      <4> QED BY <2>a, <3>1, <4>1
    <3>3. Len(k) = RecentLimit /\ Len(k) <= y
      BY <1>3, <1>4, <1>5, <3>2 DEF FirstOf
    <3>4. ASSUME NEW n \in 1 .. Len(k), n # 1 PROVE OpenedAfter(g, k[n], q)
      <4>1. n - 1 \in 1 .. Len(w) /\ k[n] = w[n - 1] /\ n - 1 < y
        BY <1>5, <1>8, <3>3, <3>4
      <4> QED BY <1>10, <2>b, <3>1, <4>1
    <3> QED BY <2>3, <3>3, <3>4 DEF q
  <2>5. CASE ~Contains(r, q)
    <3>1. Len(r) = RecentLimit /\ \A a \in 1 .. Len(r) : OpenedAfter(h, r[a], q)
      BY <2>2, <2>5 DEF ListsLatest
    <3>2. Len(w) >= Len(r) - 1
      <4>1. Distinct(r)
        BY <3>1, LatestDistinct, OpenedListed
      <4>2. \A a, b \in 1 .. Len(r) : r[a] = path /\ r[b] = path => a = b
        BY <1>5, <4>1 DEF Distinct
      <4> QED BY <1>1, <4>2 DEF Keeps
    <3>3. Len(k) = RecentLimit
      BY <1>3, <1>4, <1>5, <3>1, <3>2 DEF FirstOf
    <3>4. ASSUME NEW n \in 1 .. Len(k), n # 1 PROVE OpenedAfter(g, k[n], q)
      <4>1. n - 1 \in 1 .. Len(w) /\ k[n] = w[n - 1]
        BY <1>8, <3>4
      <4>2. PICK a \in 1 .. Len(r) : w[n - 1] = r[a]
        BY <1>1, <4>1 DEF Keeps
      <4> QED BY <1>6, <2>1, <3>1, <4>1, <4>2
    <3> QED BY <2>3, <3>3, <3>4 DEF q
  <2> QED BY <2>4, <2>5
<1>14. ListsLatest(k, g)
  <2>1. Len(k) <= RecentLimit
    BY <1>4 DEF FirstOf
  <2> QED BY <1>5, <1>12, <1>13, <2>1 DEF ListsLatest
<1> QED BY <1>4, <1>11, <1>14 DEF k, v, w, g

-----------------------------------------------------------------------------
(* The settings and their file.                                            *)

(* The fields of a record of settings that are not the full-screen state.  *)
Others(c, scale, volume, recent) ==
  c.scale = scale /\ c.volume = volume /\ c.recent = recent

(* A changed field leaves the others.                                      *)
LEMMA OtherFields ==
  ASSUME NEW c, IsConfig(c), NEW v
  PROVE  /\ Others([c EXCEPT !.scale = v], v, c.volume, c.recent)
         /\ Others([c EXCEPT !.volume = v], c.scale, v, c.recent)
         /\ Others([c EXCEPT !.full = v], c.scale, c.volume, c.recent)
         /\ Others([c EXCEPT !.recent = v], c.scale, c.volume, v)
<1> DEFINE s == c.scale
           n == c.volume
           f == c.full
           r == c.recent
<1>1. c = [scale |-> s, volume |-> n, full |-> f, recent |-> r]
  BY DEF IsConfig
<1>2. [c EXCEPT !.scale = c.scale] = c
  BY <1>1
<1> HIDE DEF s, n, f, r
<1>3. [c EXCEPT !.scale = v] = [scale |-> v, volume |-> n, full |-> f, recent |-> r]
  BY <1>1
<1>4. [c EXCEPT !.volume = v] = [scale |-> s, volume |-> v, full |-> f, recent |-> r]
  BY <1>1
<1>5. [c EXCEPT !.recent = v] = [scale |-> s, volume |-> n, full |-> f, recent |-> v]
  BY <1>1
<1>6. [c EXCEPT !.full = v] = [scale |-> s, volume |-> n, full |-> v, recent |-> r]
  BY <1>1
<1> QED BY <1>3, <1>4, <1>5, <1>6 DEF Others, s, n, f, r

(* What a program or a user's editor writes.                               *)
Plausible(c) ==
  /\ IsConfig(c) /\ c.scale \in Int /\ c.volume \in Int
  /\ c.recent \in Seq(RomPaths)
(* What the program runs with.                                             *)
InInterval(c) == c.scale >= 1 /\ c.volume <= MaxVolume /\ Len(c.recent) <= RecentLimit

(* sanitised brings settings into range, and leaves those that are.        *)
LEMMA SanitisedFits ==
  ASSUME NEW c, Plausible(c)
  PROVE  /\ Plausible(Sanitised(c)) /\ InInterval(Sanitised(c))
         /\ InInterval(c) => Sanitised(c) = c
<1> DEFINE x == AtLeast(1, c.scale)
           y == AtMost(MaxVolume, c.volume)
           z == KeptRecent(c.recent)
           a == [c EXCEPT !.scale = x]
           b == [a EXCEPT !.volume = y]
           d == [b EXCEPT !.recent = z]
<1>1. /\ IsConfig(c) /\ c.scale \in Int /\ c.volume \in Int /\ MaxVolume \in Int
      /\ c.recent \in Seq(RomPaths)
  BY SettingsAssumption DEF Plausible
<1>2. x \in Int /\ x >= 1 /\ y \in Int /\ y <= MaxVolume
      /\ (c.scale >= 1 => x = c.scale) /\ (c.volume <= MaxVolume => y = c.volume)
  BY <1>1 DEF AtLeast, AtMost
<1>3. z \in Seq(RomPaths) /\ FirstOf(z, c.recent) /\ (Len(c.recent) <= RecentLimit => z = c.recent)
  BY <1>1, KeptFirst
<1>4. IsConfig(a) /\ a.scale = x /\ a.volume = c.volume /\ a.recent = c.recent
  <2> HIDE DEF x
  <2>1. IsConfig(a)
    BY <1>1, FieldSet
  <2>2. Others(a, x, c.volume, c.recent)
    BY <1>1, OtherFields
  <2> HIDE DEF a
  <2> QED BY <2>1, <2>2 DEF Others
<1>5. Sanitised(c) = [[a EXCEPT !.volume = AtMost(MaxVolume, @)] EXCEPT !.recent = KeptRecent(@)]
  BY DEF Sanitised
<1>6. IsConfig(b) /\ b.scale = x /\ b.volume = y /\ b.recent = c.recent
  <2> HIDE DEF a, y
  <2>1. IsConfig(b)
    BY <1>4, FieldSet
  <2>2. Others(b, a.scale, y, a.recent)
    BY <1>4, OtherFields
  <2> HIDE DEF b
  <2> QED BY <1>4, <2>1, <2>2 DEF Others
<1>7. Sanitised(c) = d
  <2> HIDE DEF a
  <2> QED BY <1>4, <1>5, <1>6
<1>8. IsConfig(d) /\ d.scale = x /\ d.volume = y /\ d.recent = z
  <2> HIDE DEF b, z
  <2>1. IsConfig(d)
    BY <1>6, FieldSet
  <2>2. Others(d, b.scale, b.volume, z)
    BY <1>6, OtherFields
  <2> HIDE DEF d
  <2> QED BY <1>6, <2>1, <2>2 DEF Others
<1>9. InInterval(c) => d = c
  <2> SUFFICES ASSUME InInterval(c) PROVE d = c
    OBVIOUS
  <2>1. x = c.scale /\ y = c.volume /\ z = c.recent
    BY <1>2, <1>3 DEF InInterval
  <2> HIDE DEF x, y, z
  <2>2. c = [scale |-> c.scale, volume |-> c.volume, full |-> c.full, recent |-> c.recent]
    BY <1>1 DEF IsConfig
  <2>3. a = c
    BY <2>1, <2>2
  <2>4. b = c
    BY <2>1, <2>2, <2>3
  <2> QED BY <2>1, <2>2, <2>4
<1> HIDE DEF d, x, y, z
<1>10. Len(z) <= RecentLimit
  BY <1>3 DEF FirstOf
<1> QED BY <1>2, <1>3, <1>7, <1>8, <1>9, <1>10 DEF Plausible, InInterval

(* A first start runs with settings in range.                              *)
LEMMA DefaultFits == Plausible(Default) /\ InInterval(Default)
<1>1. Default.scale = 1 /\ Default.volume = MaxVolume /\ Default.recent = <<>>
  BY DEF Default
<1>2. IsConfig(Default)
  BY DEF Default, IsConfig
<1>3. <<>> \in Seq(RomPaths) /\ Len(<<>>) = 0
  OBVIOUS
<1> QED BY <1>1, <1>2, <1>3, SettingsAssumption DEF Plausible, InInterval

(* The inductive invariant: the program runs with settings a load would    *)
(* not change, which the file holds unless a write failed, and lists the   *)
(* ROMs as it should.                                                      *)
FilePlausible == file.is = "whole" => Plausible(file.says)
FileKept == ~unsaved => file.is = "whole" /\ file.says = config
HistoryKept == found \in Seq(RomPaths) /\ opened \in Seq(RomPaths) /\ RecentKept
KeptInv ==
  /\ Plausible(config) /\ InInterval(config)
  /\ FilePlausible
  /\ running => FileKept /\ HistoryKept

(* A save puts the settings into the file, or is remembered as failed.     *)
LEMMA SaveKeeps ==
  ASSUME KeptInv, Plausible(config'), Save(config')
  PROVE  FilePlausible' /\ FileKept'
<1>1. Plausible(Default)
  BY DefaultFits
<1>2. CASE file' = [is |-> "whole", says |-> config'] /\ unsaved' = FALSE
  BY <1>2 DEF FilePlausible, FileKept
<1>3. CASE file' \in {file, [is |-> "torn", says |-> Default]} /\ unsaved' = TRUE
  BY <1>3 DEF KeptInv, FilePlausible, FileKept
<1> QED BY <1>2, <1>3 DEF Save

(* A setting changes, the history does not.                                *)
LEMMA SettingChanged ==
  ASSUME KeptInv, running, running' = running, IsConfig(config'),
         config'.scale \in Int, config'.scale >= 1,
         config'.volume \in Int, config'.volume <= MaxVolume,
         config'.recent = config.recent, UNCHANGED historyVars, Save(config')
  PROVE  KeptInv'
<1>1. Plausible(config') /\ InInterval(config')
  BY DEF KeptInv, Plausible, InInterval
<1>2. FilePlausible' /\ FileKept'
  BY <1>1, SaveKeeps
<1>3. HistoryKept'
  BY DEF KeptInv, HistoryKept, RecentKept, historyVars
<1> QED BY <1>1, <1>2, <1>3 DEF KeptInv

(* What an editor leaves can be loaded.                                    *)
LEMMA EditsPlausible ==
  ASSUME NEW s \in Scales, NEW v \in Volumes, NEW f \in BOOLEAN,
         NEW r \in SeqOf(RomPaths, MaxListed)
  PROVE  Plausible([scale |-> s, volume |-> v, full |-> f, recent |-> r])
<1> DEFINE c == [scale |-> s, volume |-> v, full |-> f, recent |-> r]
<1>1. IsConfig(c) /\ c.scale = s /\ c.volume = v /\ c.recent = r
  BY DEF IsConfig
<1> HIDE DEF c
<1>2. PICK n \in 0 .. MaxListed : r \in [1 .. n -> RomPaths]
  BY DEF SeqOf
<1>3. r \in Seq(RomPaths)
  BY <1>2, SettingsAssumption
<1>4. s \in Int /\ v \in Int
  BY SettingsAssumption
<1> QED BY <1>1, <1>3, <1>4 DEF Plausible, c

(* At the start, the list found counts as history.                         *)
LEMMA FoundKept ==
  ASSUME NEW r \in Seq(RomPaths), Len(r) <= RecentLimit
  PROVE  /\ ListsLatest(r, <<>>)
         /\ IsInjective(r) => ListsLatest(r, Reverse(r) \o <<>>)
<1>1. Len(<<>>) = 0 /\ \A x : ~Contains(<<>>, x)
  BY DEF Contains
<1>2. ListsLatest(r, <<>>)
  BY <1>1 DEF ListsLatest
<1>3. ASSUME IsInjective(r) PROVE ListsLatest(r, Reverse(r) \o <<>>)
  <2>1. Distinct(r)
    BY <1>3 DEF IsInjective, Distinct
  <2>2. Reverse(r) \in Seq(RomPaths) /\ ListsLatest(r, Reverse(r))
    BY <2>1, ReversedLatest
  <2> DEFINE h == Reverse(r)
  <2> HIDE DEF h
  <2>3. h \in Seq(RomPaths) => h \o <<>> = h
    OBVIOUS
  <2> QED BY <2>2, <2>3 DEF h
<1> QED BY <1>2, <1>3

(* A list with a ROM opened after a history is that history with the ROM.  *)
LEMMA ReversedThenOpened ==
  ASSUME NEW f \in Seq(RomPaths), NEW h \in Seq(RomPaths), NEW path \in RomPaths
  PROVE  /\ Reverse(f) \in Seq(RomPaths) /\ Reverse(f) \o h \in Seq(RomPaths)
         /\ Reverse(f) \o Append(h, path) = Append(Reverse(f) \o h, path)
<1> DEFINE g == Reverse(f)
<1>1. \A i \in 1 .. Len(f) : Len(f) - i + 1 \in 1 .. Len(f) /\ f[Len(f) - i + 1] \in RomPaths
  OBVIOUS
<1>2. g \in Seq(RomPaths)
  BY <1>1 DEF Reverse
<1> HIDE DEF g
<1>3. g \o Append(h, path) = Append(g \o h, path)
  BY <1>2
<1> QED BY <1>2, <1>3 DEF g

(* Nothing is saved before the first start.                                *)
LEMMA KeptInitially == SettingsInit => KeptInv
BY DefaultFits DEF SettingsInit, KeptInv, FilePlausible

(* Every step preserves the invariant.                                     *)
LEMMA SettingsStep ==
  ASSUME KeptInv, ScreenInv, [SettingsNext]_settingsVars
  PROVE  KeptInv'
<1>1. CASE Launch
  <2>1. Plausible(config') /\ InInterval(config')
    <3>1. file.is = "whole" => Plausible(file.says)
      BY DEF KeptInv, FilePlausible
    <3>2. config' = LoadedConfig
      BY <1>1 DEF Launch
    <3> QED BY <3>1, <3>2, SanitisedFits, DefaultFits DEF LoadedConfig
  <2>2. FilePlausible' /\ FileKept'
    BY <1>1, <2>1, SaveKeeps DEF Launch
  <2>3. HistoryKept'
    <3> DEFINE r == config'.recent
    <3>1. r \in Seq(RomPaths) /\ Len(r) <= RecentLimit
      BY <2>1 DEF Plausible, InInterval
    <3>2. found' = r /\ opened' = <<>>
      BY <1>1 DEF Launch
    <3> HIDE DEF r
    <3>3. ListsLatest(r, opened') /\ (IsInjective(found') => ListsLatest(r, Reverse(found') \o opened'))
      BY <3>1, <3>2, FoundKept
    <3>4. \A n \in 1 .. Len(r) : Contains(found', r[n])
      BY <3>2 DEF Contains
    <3>5. found' \in Seq(RomPaths) /\ opened' \in Seq(RomPaths)
      BY <3>1, <3>2
    <3> QED BY <3>3, <3>4, <3>5 DEF HistoryKept, RecentKept, r
  <2> QED BY <2>1, <2>2, <2>3 DEF KeptInv
<1>2. CASE Kill
  BY <1>2, DefaultFits DEF Kill, KeptInv, FilePlausible
<1>3. CASE EditFile
  <2>1. running' = FALSE /\ config' = config
    BY <1>3 DEF EditFile
  <2>2. FilePlausible'
    BY <1>3, EditsPlausible DEF EditFile, FilePlausible
  <2> QED BY <2>1, <2>2 DEF KeptInv
<1>4. CASE \E path \in RomPaths : OpenRom(path)
  <2>1. PICK path \in RomPaths : OpenRom(path)
    BY <1>4
  <2> DEFINE k == KeptRecent(<<path>> \o Without(config.recent, path))
  <2>2. config' = [config EXCEPT !.recent = k] /\ opened' = Append(opened, path)
        /\ found' = found /\ running /\ Save(config')
    BY <2>1 DEF OpenRom, PushRecent, UserActs
  <2>3. /\ config.recent \in Seq(RomPaths) /\ found \in Seq(RomPaths) /\ opened \in Seq(RomPaths)
        /\ RecentKept
    BY <2>2 DEF KeptInv, Plausible, HistoryKept
  <2>4. /\ k \in Seq(RomPaths) /\ ListsLatest(k, opened')
        /\ \A n \in 1 .. Len(k) : k[n] = path \/ Contains(config.recent, k[n])
    BY <2>2, <2>3, PushedLatest DEF RecentKept
  <2>5. IsInjective(found) => ListsLatest(k, Reverse(found) \o opened')
    <3> SUFFICES ASSUME IsInjective(found) PROVE ListsLatest(k, Reverse(found) \o opened')
      OBVIOUS
    <3> DEFINE h == Reverse(found) \o opened
    <3>1. h \in Seq(RomPaths) /\ Reverse(found) \o opened' = Append(h, path)
      BY <2>2, <2>3, ReversedThenOpened
    <3>2. ListsLatest(config.recent, h)
      BY <2>3 DEF RecentKept
    <3> HIDE DEF h
    <3>3. ListsLatest(k, Append(h, path))
      BY <2>3, <3>1, <3>2, PushedLatest
    <3> QED BY <3>1, <3>3
  <2> HIDE DEF k
  <2>6. opened' \in Seq(RomPaths)
    BY <2>2, <2>3
  <2>7. \A n \in 1 .. Len(k) : Contains(opened', k[n]) \/ Contains(found, k[n])
    <3>1. \A x : x = path \/ Contains(opened, x) => Contains(opened', x)
      BY <2>2, <2>3 DEF Contains
    <3>2. \A x : Contains(config.recent, x) => Contains(opened, x) \/ Contains(found, x)
      BY <2>3 DEF RecentKept, Contains
    <3> QED BY <2>4, <3>1, <3>2
  <2>8. IsConfig(config') /\ Others(config', config.scale, config.volume, k)
    BY <2>2, FieldSet, OtherFields DEF KeptInv, Plausible
  <2>9. HistoryKept'
    BY <2>2, <2>3, <2>4, <2>5, <2>6, <2>7, <2>8 DEF HistoryKept, RecentKept, Others
  <2>10. Plausible(config') /\ InInterval(config')
    BY <2>4, <2>8 DEF KeptInv, Plausible, InInterval, Others, ListsLatest
  <2>11. FilePlausible' /\ FileKept'
    BY <2>2, <2>10, SaveKeeps
  <2> QED BY <2>9, <2>10, <2>11 DEF KeptInv
<1>5. CASE ClearRecent
  <2>1. /\ config' = [config EXCEPT !.recent = <<>>] /\ Save(config')
        /\ found' = <<>> /\ opened' = <<>>
    BY <1>5 DEF ClearRecent
  <2>2. IsConfig(config') /\ Others(config', config.scale, config.volume, <<>>)
    BY <2>1, FieldSet, OtherFields DEF KeptInv, Plausible
  <2>3. <<>> \in Seq(RomPaths) /\ Len(<<>>) = 0 /\ Len(<<>>) <= RecentLimit
    BY SettingsAssumption
  <2>4. Plausible(config') /\ InInterval(config')
    BY <2>2, <2>3 DEF KeptInv, Plausible, InInterval, Others
  <2>5. FilePlausible' /\ FileKept'
    BY <2>1, <2>4, SaveKeeps
  <2>6. Reverse(<<>>) = <<>> /\ <<>> \o <<>> = <<>>
    BY DEF Reverse
  <2>7. ListsLatest(<<>>, <<>>)
    BY <2>3, FoundKept
  <2>8. HistoryKept'
    BY <2>1, <2>2, <2>3, <2>6, <2>7 DEF HistoryKept, RecentKept, Others
  <2> QED BY <2>4, <2>5, <2>8 DEF KeptInv
<1>6. CASE \E scale \in Scales : SetScale(scale)
  <2>1. PICK scale \in Scales : SetScale(scale)
    BY <1>6
  <2> DEFINE v == AtLeast(1, scale)
  <2>2. v \in Int /\ v >= 1
    BY SettingsAssumption DEF AtLeast
  <2>3. config' = [config EXCEPT !.scale = v] /\ UNCHANGED historyVars /\ Save(config')
        /\ running /\ running' = running
    BY <2>1 DEF SetScale, UserActs
  <2> HIDE DEF v
  <2>4. IsConfig(config') /\ Others(config', v, config.volume, config.recent)
    BY <2>3, FieldSet, OtherFields DEF KeptInv, Plausible
  <2> QED BY <2>2, <2>3, <2>4, SettingChanged DEF KeptInv, Plausible, InInterval, Others
<1>7. CASE \E volume \in Volumes : SetVolume(volume)
  <2>1. PICK volume \in Volumes : SetVolume(volume)
    BY <1>7
  <2> DEFINE v == AtMost(MaxVolume, AtLeast(0, volume))
  <2>2. v \in Int /\ v <= MaxVolume
    BY SettingsAssumption DEF AtLeast, AtMost
  <2>3. config' = [config EXCEPT !.volume = v] /\ UNCHANGED historyVars /\ Save(config')
        /\ running /\ running' = running
    BY <2>1 DEF SetVolume, UserActs
  <2> HIDE DEF v
  <2>4. IsConfig(config') /\ Others(config', config.scale, v, config.recent)
    BY <2>3, FieldSet, OtherFields DEF KeptInv, Plausible
  <2> QED BY <2>2, <2>3, <2>4, SettingChanged DEF KeptInv, Plausible, InInterval, Others
(* The full-screen state, chosen or taken from the window.                 *)
<1>8. ASSUME NEW v \in BOOLEAN, config' = [config EXCEPT !.full = v], Save(config'),
             UNCHANGED historyVars, running, running' = running
      PROVE  KeptInv'
  <2>1. IsConfig(config') /\ Others(config', config.scale, config.volume, config.recent)
    BY <1>8, FieldSet, OtherFields DEF KeptInv, Plausible
  <2> QED BY <1>8, <2>1, SettingChanged DEF KeptInv, Plausible, InInterval, Others
<1>9. CASE ToggleFullscreen
  <2> DEFINE v == ~actual
  <2>1. v \in BOOLEAN /\ config' = [config EXCEPT !.full = v] /\ Save(config')
        /\ UNCHANGED historyVars /\ running /\ running' = running
    BY <1>9 DEF ToggleFullscreen, UserActs
  <2> HIDE DEF v
  <2> QED BY <1>8, <2>1
(* Steps that leave the settings and their file alone.                     *)
<1>10. ASSUME UNCHANGED <<config, file, unsaved, historyVars, running>> PROVE KeptInv'
  BY <1>10 DEF KeptInv, FilePlausible, FileKept, HistoryKept, RecentKept, historyVars
<1>11. CASE TitleBar \/ Settle \/ UNCHANGED settingsVars
  <2>1. UNCHANGED <<config, file, unsaved, historyVars, running>>
    BY <1>11 DEF TitleBar, Settle, UserActs, settingsVars, fileVars
  <2> QED BY <1>10, <2>1
<1>12. CASE SyncFullscreen
  <2>1. CASE pending = NotPending /\ config.full # actual
    <3>1. config' = [config EXCEPT !.full = actual] /\ Save(config') /\ UNCHANGED historyVars
          /\ running /\ running' = running
      BY <1>12, <2>1 DEF SyncFullscreen
    <3>2. actual \in BOOLEAN
      BY DEF ScreenInv
    <3> QED BY <1>8, <3>1, <3>2
  <2>2. CASE UNCHANGED <<config, fileVars>>
    BY <1>10, <1>12, <2>2 DEF SyncFullscreen, fileVars
  <2> QED BY <1>12, <2>1, <2>2 DEF SyncFullscreen
<1> QED BY <1>1, <1>2, <1>3, <1>4, <1>5, <1>6, <1>7, <1>9, <1>11, <1>12 DEF SettingsNext

(* While the program runs, it shows what it would show after a restart,    *)
(* unless its last write failed.  The ROMs opened since its start head the *)
(* recent files, the last first and each once; behind them stands what the *)
(* file listed, which counts as history too if it repeated no ROM, and     *)
(* keeps its repetitions if an edited one had any (Config::sanitised,      *)
(* push_recent, load_from, save_to): for any number of ROMs, length of the *)
(* history and limits, and any list in the file.                           *)
THEOREM SettingsHold == SettingsSpec => []SettingsKept
<1>1. KeptInv => SettingsKept
  BY SanitisedFits DEF KeptInv, FileKept, HistoryKept, SettingsKept
<1>2. KeptInv /\ ScreenInv /\ [SettingsNext]_settingsVars => KeptInv'
  BY SettingsStep
<1>3. ScreenInv /\ [SettingsNext]_settingsVars => ScreenInv'
  BY ScreenKept
<1> QED BY <1>1, <1>2, <1>3, KeptInitially, ScreenInitially, PTL DEF SettingsSpec
-----------------------------------------------------------------------------
(* The settings' ranges. The file is edited by others, but it is read      *)
(* through sanitised; and what the worker plays at is what the settings    *)
(* say.                                                                    *)
SafeInv ==
  /\ config.volume >= 0
  /\ (file.is = "whole" => file.says.volume >= 0)
  /\ file.is \in {"whole", "torn", "missing"}
  /\ pending \in {NotPending, "full", "window"}
  /\ running => workerVolume = config.volume

(* A save, which may fail or be torn, writes no volume but the one in use. *)
LEMMA SavedVolume ==
  ASSUME SafeInv, config'.volume >= 0, Save(config')
  PROVE  /\ file'.is = "whole" => file'.says.volume >= 0
         /\ file'.is \in {"whole", "torn", "missing"}
<1>1. CASE file' = [is |-> "whole", says |-> config']
  BY <1>1
<1>2. CASE file' = file
  BY <1>2 DEF SafeInv
<1>3. CASE file' = [is |-> "torn", says |-> Default]
  BY <1>3
<1> QED BY <1>1, <1>2, <1>3 DEF Save

(* Config::sanitised cuts a volume that is too loud.                       *)
LEMMA SanitisedVolume ==
  ASSUME NEW c, IsConfig(c)
  PROVE  Sanitised(c).volume = AtMost(MaxVolume, c.volume)
<1> DEFINE x == AtLeast(1, c.scale)
           a == [c EXCEPT !.scale = x]
           y == AtMost(MaxVolume, c.volume)
           b == [a EXCEPT !.volume = y]
           z == KeptRecent(c.recent)
           d == [b EXCEPT !.recent = z]
<1>1. IsConfig(a) /\ Others(a, x, c.volume, c.recent)
  <2> HIDE DEF x
  <2> QED BY FieldSet, OtherFields
<1>2. IsConfig(b) /\ Others(b, a.scale, y, a.recent)
  <2> HIDE DEF a, y
  <2> QED BY <1>1, FieldSet, OtherFields
<1>3. Others(d, b.scale, b.volume, z)
  <2> HIDE DEF b, z
  <2> QED BY <1>2, OtherFields
<1>4. Sanitised(c) = [[a EXCEPT !.volume = AtMost(MaxVolume, @)] EXCEPT !.recent = KeptRecent(@)]
  BY DEF Sanitised
<1>5. a.volume = c.volume /\ a.recent = c.recent
  <2> HIDE DEF a, x
  <2> QED BY <1>1 DEF Others
<1>6. b.recent = c.recent /\ b.volume = y
  <2> HIDE DEF a, b, y
  <2> QED BY <1>2, <1>5 DEF Others
<1>7. Sanitised(c) = d
  <2> HIDE DEF a
  <2> QED BY <1>4, <1>5, <1>6
<1> HIDE DEF d, b, y
<1> QED BY <1>3, <1>6, <1>7 DEF Others, y

(* What is loaded from any file has a volume that can be played.           *)
LEMMA LoadedVolume ==
  ASSUME KeptInv, SafeInv
  PROVE  /\ LoadedConfig.volume \in Int /\ LoadedConfig.volume >= 0
         /\ LoadedConfig.volume <= MaxVolume
<1>1. CASE file.is = "whole"
  <2> DEFINE c == file.says
  <2>1. Plausible(c) /\ c.volume >= 0
    BY <1>1 DEF KeptInv, FilePlausible, SafeInv
  <2>2. Plausible(Sanitised(c)) /\ InInterval(Sanitised(c))
    BY <2>1, SanitisedFits
  <2>3. Sanitised(c).volume = AtMost(MaxVolume, c.volume)
    <3>1. IsConfig(c)
      BY <2>1 DEF Plausible
    <3> HIDE DEF c
    <3> QED BY <3>1, SanitisedVolume
  <2>4. LoadedConfig = Sanitised(c)
    BY <1>1 DEF LoadedConfig
  <2> HIDE DEF c
  <2> QED BY <2>1, <2>2, <2>3, <2>4, SettingsAssumption DEF Plausible, InInterval, AtMost
<1>2. CASE file.is # "whole"
  BY <1>2, SettingsAssumption DEF LoadedConfig, Default
<1> QED BY <1>1, <1>2

(* Every step of the user, the window system and the disk.                 *)
LEMMA SafeStep ==
  ASSUME KeptInv, ScreenInv, SafeInv, [SettingsNext]_settingsVars
  PROVE  SafeInv'
<1>0. /\ config.volume >= 0 /\ (file.is = "whole" => file.says.volume >= 0)
      /\ file.is \in {"whole", "torn", "missing"}
      /\ pending \in {NotPending, "full", "window"}
      /\ (running => workerVolume = config.volume)
  BY DEF SafeInv
<1>a. IsConfig(config) /\ MaxVolume \in Nat /\ config.volume \in Int
  BY SettingsAssumption DEF KeptInv, Plausible
<1>1. CASE Launch
  <2>1. /\ config' = LoadedConfig /\ Save(config') /\ pending' = NotPending
        /\ workerVolume' = AtMost(MaxVolume, config'.volume)
    BY <1>1 DEF Launch
  <2>2. config'.volume \in Int /\ config'.volume >= 0 /\ config'.volume <= MaxVolume
    BY <2>1, LoadedVolume
  <2>3. workerVolume' = config'.volume
    BY <1>a, <2>1, <2>2 DEF AtMost
  <2> QED BY <2>1, <2>2, <2>3, SavedVolume DEF SafeInv
<1>2. CASE Kill
  <2>1. Default.volume = MaxVolume
    BY DEF Default
  <2> QED BY <1>0, <1>a, <1>2, <2>1 DEF Kill, SafeInv
<1>3. CASE EditFile
  <2>1. running' = FALSE /\ UNCHANGED <<config, workerVolume, pending>>
    BY <1>3 DEF EditFile, windowVars
  <2>2. /\ file'.is = "whole" => file'.says.volume >= 0
        /\ file'.is \in {"whole", "torn", "missing"}
    BY <1>3 DEF EditFile
  <2> QED BY <1>0, <2>1, <2>2 DEF SafeInv
<1>4. ASSUME Save(config'), IsConfig(config'), config'.volume = config.volume,
             UNCHANGED <<running, workerVolume>>, pending' \in {NotPending, "full", "window"}
      PROVE  SafeInv'
  BY <1>0, <1>4, SavedVolume DEF SafeInv
<1>5. CASE \E path \in RomPaths : OpenRom(path)
  <2>1. PICK path \in RomPaths : OpenRom(path)
    BY <1>5
  <2>2. IsConfig(config') /\ config'.volume = config.volume
    BY <1>a, <2>1, FieldSet, OtherFields DEF OpenRom, PushRecent, Others
  <2> QED BY <1>0, <1>4, <2>1, <2>2 DEF OpenRom, UserActs, windowVars
<1>6. CASE ClearRecent
  <2>2. IsConfig(config') /\ config'.volume = config.volume
    BY <1>a, <1>6, FieldSet, OtherFields DEF ClearRecent, Others
  <2> QED BY <1>0, <1>4, <1>6, <2>2 DEF ClearRecent, UserActs, windowVars
<1>7. CASE \E scale \in Scales : SetScale(scale)
  <2>1. PICK scale \in Scales : SetScale(scale)
    BY <1>7
  <2>2. IsConfig(config') /\ config'.volume = config.volume
    BY <1>a, <2>1, FieldSet, OtherFields DEF SetScale, Others
  <2> QED BY <1>0, <1>4, <2>1, <2>2 DEF SetScale, UserActs
<1>8. CASE \E volume \in Volumes : SetVolume(volume)
  <2>1. PICK volume \in Volumes : SetVolume(volume)
    BY <1>8
  <2> DEFINE v == AtMost(MaxVolume, AtLeast(0, volume))
  <2>2. v >= 0
    BY SettingsAssumption DEF AtLeast, AtMost
  <2>3. config' = [config EXCEPT !.volume = v] /\ Save(config') /\ workerVolume' = config'.volume
        /\ pending' = pending
    BY <2>1 DEF SetVolume, windowVars
  <2> HIDE DEF v
  <2>4. config'.volume = v
    BY <1>a, <2>3, OtherFields DEF Others
  <2> QED BY <1>0, <2>2, <2>3, <2>4, SavedVolume DEF SafeInv
<1>9. CASE ToggleFullscreen
  <2> DEFINE f == ~actual
  <2>1. /\ config' = [config EXCEPT !.full = f] /\ Save(config')
        /\ UNCHANGED <<running, workerVolume>> /\ pending' = ScreenState(f)
    BY <1>9 DEF ToggleFullscreen, UserActs, Await
  <2>2. f \in BOOLEAN
    OBVIOUS
  <2> HIDE DEF f
  <2>3. IsConfig(config') /\ config'.volume = config.volume
    BY <1>a, <2>1, <2>2, FieldSet, OtherFields DEF Others
  <2>4. pending' \in {NotPending, "full", "window"}
    BY <2>1 DEF ScreenState
  <2> QED BY <1>4, <2>1, <2>3, <2>4
<1>10. CASE TitleBar \/ Settle \/ UNCHANGED settingsVars
  <2>1. UNCHANGED <<config, file, running, workerVolume, pending>>
    BY <1>10 DEF TitleBar, Settle, UserActs, settingsVars, fileVars, windowVars
  <2> QED BY <1>0, <2>1 DEF SafeInv
<1>11. CASE SyncFullscreen
  <2>1. UNCHANGED <<running, workerVolume>> /\ pending' \in {pending, NotPending}
    BY <1>11 DEF SyncFullscreen
  <2>2. CASE config' = [config EXCEPT !.full = actual] /\ Save(config')
    <3>1. actual \in BOOLEAN
      BY DEF ScreenInv
    <3>2. IsConfig(config') /\ config'.volume = config.volume
      BY <1>a, <2>2, <3>1, FieldSet, OtherFields DEF Others
    <3> QED BY <1>0, <1>4, <2>1, <2>2, <3>2
  <2>3. CASE UNCHANGED <<config, fileVars>>
    BY <1>0, <2>1, <2>3 DEF SafeInv, fileVars
  <2> QED BY <1>11, <2>2, <2>3 DEF SyncFullscreen
<1> QED BY <1>1, <1>2, <1>3, <1>5, <1>6, <1>7, <1>8, <1>9, <1>10, <1>11 DEF SettingsNext

(* No file is there at the start.                                          *)
LEMMA SafeInitially == SettingsInit => SafeInv
BY SettingsAssumption DEF SettingsInit, SafeInv, Default

(* The ranges follow.                                                      *)
LEMMA SettingsKnown == KeptInv /\ SafeInv => SettingsTypeOK
<1> SUFFICES ASSUME KeptInv, SafeInv PROVE SettingsTypeOK
  OBVIOUS
<1>1. /\ config.scale \in Int /\ config.scale >= 1 /\ config.volume \in Int
      /\ config.volume <= MaxVolume /\ config.volume >= 0 /\ config.full \in BOOLEAN
      /\ Len(config.recent) <= RecentLimit /\ MaxVolume \in Nat
  BY SettingsAssumption DEF KeptInv, Plausible, InInterval, IsConfig, SafeInv
<1> QED BY <1>1 DEF SettingsTypeOK, SafeInv

(* The settings in use are within their ranges, and a running worker plays *)
(* at the volume they say, whatever the file holds and whichever save      *)
(* fails or is torn (Config::load, sanitised, set_volume).                 *)
THEOREM SettingsTyped == SettingsSpec => []SettingsTypeOK
<1>1. KeptInv /\ ScreenInv /\ [SettingsNext]_settingsVars => KeptInv'
  BY SettingsStep
<1>2. ScreenInv /\ [SettingsNext]_settingsVars => ScreenInv'
  BY ScreenKept
<1>3. KeptInv /\ ScreenInv /\ SafeInv /\ [SettingsNext]_settingsVars => SafeInv'
  BY SafeStep
<1> QED BY <1>1, <1>2, <1>3, SettingsKnown, KeptInitially, ScreenInitially, SafeInitially,
           PTL DEF SettingsSpec

-----------------------------------------------------------------------------
(* The keys a pad can hold are keys. Of any keys there is a last, as they  *)
(* are numbers no greater than 4.                                          *)

LEMMA LastKey ==
  ASSUME NEW T \in SUBSET Keys, T # {}
  PROVE  Max(T) \in T
<1> DEFINE Left == {4 - k : k \in T}
<1>1. \A k \in Keys : k \in Int /\ k <= 4
  BY InputPathAssumption DEF Keys, Directions
<1>2. \A k \in T : k \in Int /\ 4 - k \in Nat
  BY <1>1
<1>3. Left \in SUBSET Nat /\ Left # {}
  BY <1>2
<1>4. PICK m \in Left : \A n \in Left : m <= n
  <2> HIDE DEF Left
  <2> QED BY <1>3, LeastMember
<1>5. PICK k \in T : m = 4 - k
  BY <1>4
<1>6. ASSUME NEW i \in T PROVE k >= i
  <2>1. 4 - k <= 4 - i
    BY <1>4, <1>5
  <2> QED BY <1>2, <2>1
<1>7. \E x \in T : \A y \in T : x >= y
  BY <1>6
<1> HIDE DEF Left
<1> QED BY <1>7 DEF Max

(* What a button is mapped to is a key or nothing.                         *)
LEMMA MappedKey ==
  ASSUME NEW c, NEW b
  PROVE  Mapped(c, b) \in Keys \cup {NoKey}
<1> DEFINE bound == {k \in Keys : c[k] = b}
<1>1. bound # {} => Max(bound) \in Keys
  <2>1. bound \in SUBSET Keys
    OBVIOUS
  <2> HIDE DEF bound
  <2> QED BY <2>1, LastKey
<1> QED BY <1>1 DEF Mapped

(* So what poll puts into a pad's set are keys.                            *)
LEMMA NamedKeys == Named \subseteq Keys
BY MappedKey DEF Named

(* Keys turn to keys.                                                      *)
LEMMA TurnedKeys ==
  ASSUME NEW h \in [Pads -> SUBSET Keys], rotation \in Turns
  PROVE  Turned(h) \subseteq Keys
<1>1. InputTurn \in Turns
  BY DEF InputTurn, Turns
<1>2. ASSUME NEW k \in Keys PROVE Rotated(k, InputTurn) \in Keys
  <2>1. CASE k \in Actions
    BY <2>1 DEF Rotated
  <2>2. CASE k \in Directions
    <3>1. /\ Rotated(k, "none") = k
          /\ Rotated(k, "right") = (k % 4) + 1 /\ Rotated(k, "left") = ((k + 2) % 4) + 1
      BY <2>2, KeyTurns
    <3>2. (k % 4) + 1 \in Directions /\ ((k + 2) % 4) + 1 \in Directions
      BY <2>2 DEF Directions
    <3> QED BY <1>1, <2>2, <3>1, <3>2 DEF Turns, Keys
  <2> QED BY <2>1, <2>2 DEF Keys
<1> QED BY <1>2 DEF Turned

(* The keys poll leaves held.                                              *)
LEMMA PolledStays ==
  ASSUME PadsTyped
  PROVE  Polled \in HeldSets
<1>1. Len(events) \in 0 .. Len(events)
  BY DEF PadsTyped
<1> QED BY <1>1, PolledRuns

(* The first press of a queue that has one is of a button.                 *)
LEMMA FirstPress ==
  ASSUME PadsTyped,
         \A n \in 1 .. Len(events) :
           events[n].kind = "pressed" => events[n].button \in PadButtons,
         {n \in DOMAIN events : events[n].kind = "pressed"} # {}
  PROVE  events[Min({n \in DOMAIN events : events[n].kind = "pressed"})].button \in PadButtons
<1> DEFINE presses == {n \in DOMAIN events : events[n].kind = "pressed"}
<1>1. DOMAIN events = 1 .. Len(events) /\ Len(events) \in Nat
  BY DEF PadsTyped
<1>2. presses \in SUBSET Nat
  BY <1>1
<1>3. \E m \in presses : \A n \in presses : m <= n
  <2>1. presses # {}
    OBVIOUS
  <2> HIDE DEF presses
  <2> QED BY <1>2, <2>1, LeastMember
<1>4. Min(presses) \in presses
  <2> HIDE DEF presses
  <2> QED BY <1>3 DEF Min
<1> QED BY <1>1, <1>4

(* The inductive invariant of the types: only presses of buttons wait in   *)
(* the queue as presses.                                                   *)
InputInv ==
  /\ InputTypeOK /\ PadsTyped
  /\ \A n \in 1 .. Len(events) :
       events[n].kind = "pressed" => events[n].button \in PadButtons

LEMMA HeldKeys == PadsTyped => held \in [Pads -> SUBSET Keys]
BY NamedKeys DEF PadsTyped, HeldSets

(* Nothing is queued at the start.                                         *)
LEMMA InputStarts == InputInit => InputInv
<1> SUFFICES ASSUME InputInit PROVE InputInv
  OBVIOUS
<1>1. events = <<>> /\ Len(events) = 0 /\ MaxEvents \in Nat
  BY InputPathAssumption DEF InputInit
<1>2. PadsTyped
  BY <1>1 DEF InputInit, NothingHeld, PadsTyped, HeldSets
<1>3. padConfig \in [Keys -> PadButtons \cup {NoKey}]
  BY DEF InputInit, DefaultPadConfig
<1>4. held \in [Pads -> SUBSET Keys]
  BY <1>2, HeldKeys
<1>5. follow \in BOOLEAN
  BY DEF InputInit
<1> QED BY <1>1, <1>2, <1>3, <1>4, <1>5 DEF InputInit, InputInv, InputTypeOK

(* One more event in the queue.                                            *)
LEMMA QueuedTyped ==
  ASSUME InputInv, NEW kind \in {"pressed", "released", "disconnected"}, NEW p \in Pads,
         NEW b \in PadButtons \cup {NoKey}, Enqueued(kind, p, b),
         kind = "pressed" => b \in PadButtons,
         down' \in [Pads -> SUBSET PadButtons], connected' \subseteq Pads
  PROVE  InputInv'
<1> DEFINE e == [kind |-> kind, pad |-> p, button |-> b]
           N == Len(events)
<1>1. /\ events' = Append(events, e) /\ Len(events) < MaxEvents
      /\ UNCHANGED <<held, padConfig, armed, padKeys, rotation, follow>>
  BY DEF Enqueued, screenVars
<1>2. e \in Event /\ (e.kind = "pressed" => e.button \in PadButtons)
  BY DEF Event
<1>3. events \in Seq(Event) /\ N \in Nat /\ MaxEvents \in Nat
  BY InputPathAssumption DEF InputInv, PadsTyped
<1> HIDE DEF e
<1>4. Len(events') = N + 1 /\ events'[N + 1] = e /\ \A i \in 1 .. N : events'[i] = events[i]
  BY <1>1, <1>2, <1>3
<1>5. PadsTyped'
  BY <1>1, <1>2 DEF InputInv, PadsTyped, HeldSets, Named
<1>6. \A n \in 1 .. N + 1 : n \in 1 .. N \/ n = N + 1
  BY <1>3
<1>7. \A n \in 1 .. Len(events') :
        events'[n].kind = "pressed" => events'[n].button \in PadButtons
  BY <1>2, <1>4, <1>6 DEF InputInv
<1>8. Len(events') <= MaxEvents
  BY <1>1, <1>3, <1>4
<1>9. InputTypeOK'
  BY <1>1, <1>8 DEF InputInv, InputTypeOK
<1> QED BY <1>5, <1>7, <1>9 DEF InputInv

(* An empty queue and nothing held.                                        *)
LEMMA EmptyTyped ==
  ASSUME InputInv, events' = <<>>, UNCHANGED down, held' \in HeldSets'
  PROVE  /\ PadsTyped' /\ Len(events') <= MaxEvents /\ held' \in [Pads -> SUBSET Keys]
         /\ \A n \in 1 .. Len(events') :
              events'[n].kind = "pressed" => events'[n].button \in PadButtons
<1>1. Len(events') = 0 /\ MaxEvents \in Nat
  BY InputPathAssumption
<1>2. PadsTyped'
  BY DEF InputInv, PadsTyped
<1>3. Named' \subseteq Keys
  BY MappedKey DEF Named
<1>4. held' \in [Pads -> SUBSET Keys]
  BY <1>3 DEF HeldSets
<1> QED BY <1>1, <1>2, <1>4

(* Every step of the pads, the timer and the settings window.              *)
LEMMA InputStep == InputInv /\ [InputNext]_inputVars => InputInv'
<1> SUFFICES ASSUME InputInv, [InputNext]_inputVars PROVE InputInv'
  OBVIOUS
<1>1. ASSUME NEW p \in Pads, PadPress(p) PROVE InputInv'
  <2>1. PICK b \in PadButtons \ down[p] :
          Enqueued("pressed", p, b) /\ down' = [down EXCEPT ![p] = @ \cup {b}]
    BY <1>1 DEF PadPress
  <2>2. down' \in [Pads -> SUBSET PadButtons] /\ connected' \subseteq Pads
    BY <1>1, <2>1 DEF PadPress, InputInv, InputTypeOK
  <2> QED BY <2>1, <2>2, QueuedTyped
<1>2. ASSUME NEW p \in Pads, PadRelease(p) PROVE InputInv'
  <2>1. PICK b \in down[p] :
          Enqueued("released", p, b) /\ down' = [down EXCEPT ![p] = @ \ {b}]
    BY <1>2 DEF PadRelease
  <2>2. /\ b \in PadButtons /\ down' \in [Pads -> SUBSET PadButtons]
        /\ connected' \subseteq Pads
    BY <1>2, <2>1 DEF PadRelease, InputInv, InputTypeOK
  <2> QED BY <2>1, <2>2, QueuedTyped
<1>3. ASSUME NEW p \in Pads, PadLost(p) PROVE InputInv'
  <2>1. /\ Enqueued("disconnected", p, NoKey) /\ down' = [down EXCEPT ![p] = {}]
        /\ connected' \subseteq Pads
    BY <1>3 DEF PadLost, InputInv, InputTypeOK
  <2>2. down' \in [Pads -> SUBSET PadButtons]
    BY <2>1 DEF InputInv, InputTypeOK
  <2> QED BY <2>1, <2>2, QueuedTyped
<1>4. ASSUME NEW p \in Pads, PadFound(p) PROVE InputInv'
  <2>1. UNCHANGED <<down, events, held, padConfig, armed, padKeys, rotation, follow>>
        /\ connected' \subseteq Pads
    BY <1>4 DEF PadFound, screenVars, InputInv, InputTypeOK
  <2> QED BY <2>1 DEF InputInv, InputTypeOK, PadsTyped, HeldSets, Named
<1>5. CASE TickPlay
  <2>1. /\ events' = <<>> /\ held' = Polled /\ padKeys' = Turned(held')
        /\ UNCHANGED <<connected, down, padConfig, armed, rotation, follow>>
    BY <1>5 DEF TickPlay, gilrs, screenVars
  <2>2. held' \in HeldSets'
    BY <2>1, PolledStays DEF InputInv, HeldSets, Named
  <2>3. /\ PadsTyped' /\ Len(events') <= MaxEvents /\ held' \in [Pads -> SUBSET Keys]
        /\ \A n \in 1 .. Len(events') :
             events'[n].kind = "pressed" => events'[n].button \in PadButtons
    BY <2>1, <2>2, EmptyTyped
  <2>4. padKeys' \subseteq Keys
    BY <2>1, <2>3, TurnedKeys DEF InputInv, InputTypeOK, Turns
  <2> QED BY <2>1, <2>3, <2>4 DEF InputInv, InputTypeOK
<1>6. CASE TickCapture
  <2> DEFINE presses == {n \in DOMAIN events : events[n].kind = "pressed"}
             b == events[Min(presses)].button
  <2>1. /\ events' = <<>> /\ padKeys' = {} /\ armed # NoKey
        /\ UNCHANGED <<connected, down, rotation, follow>>
    BY <1>6 DEF TickCapture, gilrs, screenVars
  <2>2. CASE UNCHANGED <<held, padConfig, armed>>
    <3>1. held' \in HeldSets'
      BY <2>2 DEF InputInv, PadsTyped, HeldSets, Named
    <3> QED BY <2>1, <2>2, <3>1, EmptyTyped DEF InputInv, InputTypeOK
  <2>3. CASE /\ presses # {} /\ padConfig' = [padConfig EXCEPT ![armed] = b]
             /\ held' = NothingHeld /\ armed' = NoKey
    <3>1. b \in PadButtons
      BY <2>3, FirstPress DEF InputInv
    <3> HIDE DEF b
    <3>2. padConfig' \in [Keys -> PadButtons \cup {NoKey}]
      BY <2>3, <3>1 DEF InputInv, InputTypeOK
    <3>3. held' \in HeldSets'
      BY <2>3 DEF NothingHeld, HeldSets
    <3> QED BY <2>1, <2>3, <3>2, <3>3, EmptyTyped DEF InputInv, InputTypeOK
  <2> QED BY <1>6, <2>2, <2>3 DEF TickCapture, Bind
<1>7. ASSUME NEW key \in Rebound, Arm(key) PROVE InputInv'
  <2>1. /\ armed' \in Keys
        /\ UNCHANGED <<connected, down, events, held, padConfig, padKeys, rotation, follow>>
    BY <1>7, InputPathAssumption DEF Arm, gilrs, screenVars
  <2> QED BY <2>1 DEF InputInv, InputTypeOK, PadsTyped, HeldSets, Named
<1>8. CASE Cancel
  <2>1. /\ armed' = NoKey
        /\ UNCHANGED <<connected, down, events, held, padConfig, padKeys, rotation, follow>>
    BY <1>8 DEF Cancel, gilrs, screenVars
  <2> QED BY <2>1 DEF InputInv, InputTypeOK, PadsTyped, HeldSets, Named
<1>9. CASE ResetBindings
  <2>1. /\ held' = NothingHeld /\ padConfig' = DefaultPadConfig /\ armed' = NoKey
        /\ UNCHANGED <<connected, down, events, padKeys, rotation, follow>>
    BY <1>9 DEF ResetBindings, Bind, gilrs, screenVars
  <2>2. padConfig' \in [Keys -> PadButtons \cup {NoKey}]
    BY <2>1 DEF DefaultPadConfig
  <2>3. held' \in HeldSets' /\ held' \in [Pads -> SUBSET Keys]
    BY <2>1 DEF NothingHeld, HeldSets
  <2> QED BY <2>1, <2>2, <2>3 DEF InputInv, InputTypeOK, PadsTyped
<1>10. CASE TurnScreen
  <2>1. rotation' \in {"none", "right", "left"} /\ follow' \in BOOLEAN
        /\ UNCHANGED <<connected, down, events, held, padConfig, armed, padKeys>>
    BY <1>10 DEF TurnScreen, gilrs
  <2> QED BY <2>1 DEF InputInv, InputTypeOK, PadsTyped, HeldSets, Named
<1>11. CASE UNCHANGED inputVars
  BY <1>11 DEF inputVars, gilrs, screenVars, InputInv, InputTypeOK, PadsTyped, HeldSets, Named
<1> QED BY <1>1, <1>2, <1>3, <1>4, <1>5, <1>6, <1>7, <1>8, <1>9, <1>10, <1>11 DEF InputNext
=============================================================================
