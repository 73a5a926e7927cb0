---------------------------- MODULE RuntimeProofs ----------------------------
(***************************************************************************)
(* Theorems of Runtime, for any clients, times, feed, window length, grace, *)
(* sweep interval and room, and any number of stops and kills: no event is  *)
(* skipped unaccounted for, none is handled twice without a kill, delivery  *)
(* sees windows in order but for late events, and what repeats fold into    *)
(* is on disk.                                                              *)
(***************************************************************************)
EXTENDS Runtime, TLAPS, FiniteSetTheorems

-----------------------------------------------------------------------------
(* The invariants.                                                         *)

\* What each phase and each step of the loop can rely on.
Phases ==
    /\ phase = "down" =>
          /\ pc = "next" /\ taken = 0 /\ batch = {} /\ memory = NoMemory
          /\ buffered = {} /\ ~stopping /\ open = NoWindows /\ watermark = 0
    /\ phase = "poll" => batch = {}
    /\ phase = "closing" => open = NoWindows
    /\ pc = "close" => phase = "closing" /\ batch = {} /\ ckpt.offset = taken
    /\ pc \in {"tick", "flush"} => phase # "down"
    /\ phase # "down" => Len(lives) # 0

\* The feed numbers its events, and the checkpoint is never ahead of the loop.
Offsets ==
    /\ \A d \in DOMAIN feed : feed[d].id = d
    /\ taken <= Len(feed)
    /\ ckpt.offset <= Len(feed)
    /\ phase # "down" => ckpt.offset <= taken

\* What the memories refer to, in the steps of a tick as well.
Targets ==
    /\ FoldTargetsExist
    /\ ~torn /\ pc \in {"flush", "close"} => Referred(ckpt.memory) \subseteq onDisk \cup buffered

\* A stop has an event to lose only until the loop has seen it.
Accounts ==
    /\ EventsAccounted
    /\ crashes = 0 /\ stopping /\ phase \in {"pass", "poll"} => Cardinality(lost) < stops

\* An event that was taken and belongs to the slot.
Home(id, slot) == id \in 1 .. taken /\ SlotOf(feed[id]) = slot

\* Windows hold the events of their slot, and are open or wait, not both.
Homes ==
    /\ \A slot \in Slot : \A id \in open[slot] : Home(id, slot)
    /\ \A w \in batch : \A id \in w.events : Home(id, w.slot)
    /\ \A v, w \in batch : v.slot = w.slot => v = w
    /\ \A w \in batch : open[w.slot] = {}

\* Nothing was handled that is still to be read.
Once ==
    /\ ReprocessesNothing
    /\ crashes = 0 => HandledEvents \subseteq 1 .. Position

\* Windows handled in the life of the process.
OfThisLife == {i \in DOMAIN handled : handled[i].life = Len(lives)}

LateHere(id) == Late(id, Len(lives))

\* What was handled, in this life or before it.
Behind ==
    /\ InWindowOrder
    /\ \A i \in DOMAIN handled : /\ handled[i].life \in 1 .. Len(lives)
                                 /\ handled[i].events \subseteq DOMAIN feed

\* In the life of the process: the watermark is the time of an event it took; what
\* has been closed was over (until the process drains); and whatever is behind a
\* closed window, waiting or still open, is there for late events alone.
Ahead ==
    /\ watermark # 0 => \E d \in lives[Len(lives)] + 1 .. taken : feed[d].ts = watermark
    /\ phase # "down" =>
          /\ lives[Len(lives)] <= taken
          /\ phase \in {"pass", "poll"} =>
                /\ \A i \in OfThisLife : Over(handled[i].slot, watermark)
                /\ \A w \in batch : Over(w.slot, watermark)
          /\ \A i \in OfThisLife : \A w \in batch :
                handled[i].slot[2] > w.slot[2] \/ handled[i].slot = w.slot =>
                    \A id \in w.events : LateHere(id)
          /\ \A i \in OfThisLife : \A slot \in Slot :
                handled[i].slot[2] >= slot[2] => \A id \in open[slot] : LateHere(id)
          /\ \A w \in batch : \A slot \in Slot :
                w.slot[2] >= slot[2] => open[slot] = {}

RuntimeInv == Phases /\ Offsets /\ Targets /\ Accounts /\ Homes /\ Once /\ Behind /\ Ahead

-----------------------------------------------------------------------------
(* What the operators are made of.                                         *)

LEMMA Constants ==
    /\ MaxEvents \in Nat /\ EventId = 1 .. MaxEvents /\ Timestamp \subseteq Nat
    /\ WindowLength \in Nat \ {0} /\ Grace \in Nat /\ SweepEvery \in Nat \ {0}
    /\ MaxStops \in Nat /\ MaxCrashes \in Nat /\ None \notin Nat
BY WindowsAssumption, RuntimeAssumption

LEMMA SlotType ==
    ASSUME NEW event \in Event
    PROVE  /\ SlotOf(event) \in Slot /\ event.ts \in Nat /\ event.id \in EventId
           /\ Bucket(event.ts) \in Int
<1>1. event.client \in Client /\ event.ts \in Timestamp /\ event.id \in EventId
  BY DEF Event
<1>2. SlotOf(event) \in Slot
  BY <1>1 DEF SlotOf, Slot
<1>3. event.ts \in Nat
  BY <1>1, Constants
<1>4. Bucket(event.ts) \in Int
  BY <1>3, Constants DEF Bucket
<1>. QED
  BY <1>1, <1>2, <1>3, <1>4

LEMMA SlotsAreBuckets == \A slot \in Slot : slot[2] \in Int /\ slot[1] \in Client
BY Constants DEF Slot, Bucket

\* An event is before the end of its window, and windows end in the order of their
\* buckets.
LEMMA BucketEnds ==
    ASSUME NEW ts \in Nat
    PROVE  ts < (Bucket(ts) + 1) * WindowLength
BY Constants DEF Bucket

LEMMA EndsInOrder ==
    ASSUME NEW a \in Int, NEW b \in Int, a <= b
    PROVE  (a + 1) * WindowLength <= (b + 1) * WindowLength
BY Constants

\* A window before one that is over is over, and is not over again.
LEMMA OverBefore ==
    ASSUME NEW s \in Slot, NEW t \in Slot, s[2] <= t[2], NEW mark \in Nat, Over(t, mark)
    PROVE  Over(s, mark)
<1>1. s[2] \in Int /\ t[2] \in Int /\ WindowLength \in Int /\ Grace \in Int
  BY SlotsAreBuckets, Constants
<1>2. (s[2] + 1) * WindowLength <= (t[2] + 1) * WindowLength
  BY <1>1, EndsInOrder
<1>3. (s[2] + 1) * WindowLength \in Int /\ (t[2] + 1) * WindowLength \in Int
  BY <1>1
<1>. QED
  BY <1>1, <1>2, <1>3 DEF Over

LEMMA OverLater ==
    ASSUME NEW s \in Slot, NEW mark \in Nat, NEW later \in Nat, mark <= later, Over(s, mark)
    PROVE  Over(s, later)
<1>1. (s[2] + 1) * WindowLength \in Int /\ Grace \in Int
  BY SlotsAreBuckets, Constants
<1>. QED
  BY <1>1 DEF Over

LEMMA EventsOf == \A W, id : id \in Events(W) <=> \E w \in W : id \in w.events
BY DEF Events

LEMMA FlushedEvents == \A id : id \in Events(Flushed) <=> \E slot \in Slot : id \in open[slot]
<1>1. \A id : id \in Events(Flushed) <=> \E w \in Flushed : id \in w.events
  BY EventsOf
<1>2. ASSUME NEW id, NEW w \in Flushed, id \in w.events PROVE \E slot \in Slot : id \in open[slot]
  BY <1>2 DEF Flushed, Opened
<1>3. ASSUME NEW id, NEW slot \in Slot, id \in open[slot]
      PROVE  \E w \in Flushed : id \in w.events
  <2>. DEFINE w == [slot |-> slot, events |-> open[slot]]
  <2>1. w \in Flushed /\ w.events = open[slot]
    BY <1>3 DEF Flushed, Opened
  <2>. QED
    BY <1>3, <2>1
<1>. QED
  BY <1>1, <1>2, <1>3

\* What is handled, pointwise.
LEMMA HandledOf == \A id : id \in HandledEvents <=> \E i \in DOMAIN handled : id \in handled[i].events
BY DEF HandledEvents

\* Events are folded into their slot.
LEMMA FoldedType ==
    ASSUME TypeOK, NEW event \in Event
    PROVE  /\ Folded(event) \in [Slot -> SUBSET EventId]
           /\ \A slot \in Slot : Folded(event)[slot] =
                 IF slot = SlotOf(event) THEN open[slot] \cup {event.id} ELSE open[slot]
<1>1. open \in [Slot -> SUBSET EventId]
  BY DEF TypeOK, WindowsTypeOK
<1>. QED
  BY <1>1, SlotType DEF Folded

\* Whatever add does: the event finds no room, or it is in its window; and the sweep,
\* if it is time for one, moves every window that is over to the batch.
TakenIn(event, D) ==
    /\ open' \in [Slot -> SUBSET EventId]
    /\ D \subseteq Slot
    /\ \A slot \in Slot : open'[slot] = IF slot \in D THEN {} ELSE Folded(event)[slot]
    /\ \A w \in batch' : w \in Closed /\ w.slot \in D /\ w.events = Folded(event)[w.slot]
    /\ \A slot \in D : \E w \in batch' : w.slot = slot
    /\ \A v, w \in batch' : v.slot = w.slot => v = w
    /\ D # {} => D = Due(event)

LEMMA TakeKeeps ==
    ASSUME TypeOK, NEW event \in Event, Take(event)
    PROVE  /\ watermark' = Watermark(event)
           /\ taken' = taken + 1 /\ taken < Len(feed) /\ event = feed[taken + 1]
           /\ phase = "pass" /\ pc = "next" /\ batch = {} /\ ~stopping
           /\ pc' \in {"next", "tick"} /\ batch' \subseteq Closed
           /\ \/ open' = open /\ batch' = {} /\ dropped' = dropped \cup {event.id}
              \/ dropped' = dropped /\ \E D \in SUBSET Slot : TakenIn(event, D)
<1>1. /\ Folded(event) \in [Slot -> SUBSET EventId] /\ open \in [Slot -> SUBSET EventId]
  BY FoldedType DEF TypeOK, WindowsTypeOK
<1>2. /\ taken' = taken + 1 /\ taken < Len(feed) /\ event = feed[taken + 1]
      /\ phase = "pass" /\ pc = "next" /\ batch = {} /\ ~stopping
  BY DEF Take, Yields, AtLoop
<1>3. CASE Drop(event) /\ dropped' = dropped \cup {event.id} /\ batch' = {} /\ pc' = "tick"
  BY <1>2, <1>3 DEF Drop
<1>4. CASE Fold(event) /\ dropped' = dropped /\ batch' = {} /\ pc' = "tick"
  <2>1. open' = Folded(event) /\ watermark' = Watermark(event)
    BY <1>4 DEF Fold
  <2>2. TakenIn(event, {})
    BY <1>1, <1>4, <2>1 DEF TakenIn
  <2>. QED
    BY <1>2, <1>4, <2>1, <2>2
<1>5. CASE /\ FoldAndSweep(event) /\ dropped' = dropped /\ batch' = SweptBy(event)
           /\ pc' = IF SweptBy(event) = {} THEN "tick" ELSE "next"
  <2>. DEFINE D == Due(event)
              W(slot) == [slot |-> slot, events |-> Folded(event)[slot]]
  <2>1. /\ open' = [slot \in Slot |-> IF slot \in D THEN {} ELSE Folded(event)[slot]]
        /\ watermark' = Watermark(event) /\ batch' = {W(slot) : slot \in D}
    BY <1>5 DEF FoldAndSweep, SweptBy
  <2>2. D \subseteq Slot
    BY DEF Due
  <2>3. \A slot \in Slot : W(slot) \in Closed /\ W(slot).slot = slot
                           /\ W(slot).events = Folded(event)[slot]
    BY <1>1 DEF Closed
  <2>4. open' \in [Slot -> SUBSET EventId]
    BY <1>1, <2>1
  <2>. HIDE DEF D, W
  <2>5. TakenIn(event, D) /\ batch' \subseteq Closed
    BY <2>1, <2>2, <2>3, <2>4 DEF TakenIn, D
  <2>. QED
    BY <1>2, <1>5, <2>1, <2>2, <2>5
<1>. QED
  BY <1>3, <1>4, <1>5 DEF Take

LEMMA FlushedType ==
    ASSUME TypeOK
    PROVE  Flushed \subseteq Closed
BY DEF TypeOK, WindowsTypeOK, Flushed, Opened, Closed

-----------------------------------------------------------------------------
(* Types.                                                                  *)

LEMMA InitType == Init => TypeOK
<1>. SUFFICES ASSUME Init PROVE TypeOK
  OBVIOUS
<1>1. WindowsTypeOK
  BY Constants DEF Init, WindowsInit, NoWindows, WindowsTypeOK
<1>2. ckpt \in Checkpoint /\ memory \in Memory
  BY Constants DEF Init, NoMemory, Checkpoint, Memory
<1>3. 0 \in 0 .. MaxEvents /\ 0 \in 0 .. MaxStops /\ 0 \in 0 .. MaxCrashes
  BY Constants
<1>4. Len(feed) <= MaxEvents /\ feed \in Seq(Event)
  BY Constants DEF Init
<1>5. /\ handled \in Seq([life: Nat, slot: Slot, events: SUBSET EventId])
      /\ lives \in Seq(0 .. MaxEvents)
  BY DEF Init
<1>. QED
  BY <1>1, <1>2, <1>3, <1>4, <1>5 DEF Init, TypeOK

LEMMA EmptyType == NoWindows \in [Slot -> SUBSET EventId] /\ NoMemory \in Memory
BY DEF NoWindows, NoMemory, Memory

\* A window is handled: one row more, and the life that handled it is the last.
LEMMA HandleKeeps ==
    ASSUME TypeOK, NEW w \in batch, Handle(w)
    PROVE  LET n == Len(handled) + 1 IN
           /\ w \in Closed /\ n \in Nat /\ n \notin DOMAIN handled
           /\ handled' \in Seq([life: Nat, slot: Slot, events: SUBSET EventId])
           /\ DOMAIN handled' = DOMAIN handled \cup {n}
           /\ \A i \in DOMAIN handled : handled'[i] = handled[i] /\ i < n /\ i \in Nat
           /\ handled'[n].life = Len(lives) /\ handled'[n].slot = w.slot
           /\ handled'[n].events = w.events
           /\ batch' = batch \ {w}
           /\ \A v \in batch : w.slot[2] <= v.slot[2]
<1>. DEFINE n == Len(handled) + 1
            row == [life |-> Len(lives), slot |-> w.slot, events |-> w.events]
            Rows == [life: Nat, slot: Slot, events: SUBSET EventId]
<1>1. handled \in Seq(Rows) /\ w \in Closed /\ lives \in Seq(0 .. MaxEvents)
  BY DEF TypeOK
<1>2. row \in Rows
  BY <1>1 DEF Closed
<1>3. handled' = Append(handled, row) /\ batch' = batch \ {w} /\ Earliest(w)
  BY DEF Handle
<1>4. row.life = Len(lives) /\ row.slot = w.slot /\ row.events = w.events
  OBVIOUS
<1>. HIDE DEF row, Rows
<1>5. handled' \in Seq(Rows) /\ DOMAIN handled = 1 .. Len(handled) /\ Len(handled) \in Nat
      /\ DOMAIN handled' = 1 .. n
  BY <1>1, <1>2, <1>3
<1>6. handled'[n] = row /\ \A i \in 1 .. Len(handled) : handled'[i] = handled[i]
  BY <1>1, <1>2, <1>3
<1>. QED
  BY <1>1, <1>3, <1>4, <1>5, <1>6 DEF Earliest, Rows

LEMMA StepType == TypeOK /\ [Next]_vars => TypeOK'
<1>. SUFFICES ASSUME TypeOK, [Next]_vars PROVE TypeOK'
  OBVIOUS
<1>. USE DEF TypeOK
<1>1. CASE UNCHANGED vars
  BY <1>1 DEF vars, windowVars, worldVars, loopVars, historyVars, WindowsTypeOK
<1>2. ASSUME NEW event \in Event, Take(event) PROVE TypeOK'
  <2>1. /\ watermark' = Watermark(event)
        /\ taken' = taken + 1 /\ taken < Len(feed)
        /\ pc' \in {"next", "tick"} /\ batch' \subseteq Closed
        /\ \/ open' = open /\ batch' = {} /\ dropped' = dropped \cup {event.id}
           \/ dropped' = dropped /\ \E D \in SUBSET Slot : TakenIn(event, D)
    BY <1>2, TakeKeeps
  <2>2. open' \in [Slot -> SUBSET EventId]
    BY <2>1 DEF TakenIn, WindowsTypeOK
  <2>3. watermark' \in Nat
    BY <2>1, SlotType DEF Watermark, WindowsTypeOK
  <2>4. sinceSweep' \in 0 .. SweepEvery - 1
    BY <1>2, Constants DEF Take, Drop, Fold, FoldAndSweep, WindowsTypeOK
  <2>5. dropped' \in SUBSET EventId
    <3>1. event.id \in EventId /\ dropped \in SUBSET EventId
      BY SlotType
    <3>. QED
      BY <2>1, <3>1
  <2>6. taken' \in 0 .. MaxEvents
    BY <2>1, Constants
  <2>. QED
    BY <1>2, <2>1, <2>2, <2>3, <2>4, <2>5, <2>6 DEF Take, worldVars, WindowsTypeOK
<1>3. ASSUME Drain, taken' \in 0 .. MaxEvents, lost' \in SUBSET EventId PROVE TypeOK'
  <2>1. WindowsTypeOK'
    BY <1>3, EmptyType DEF Drain, Flush, WindowsTypeOK
  <2>. QED
    BY <1>3, <2>1, FlushedType DEF Drain, worldVars
<1>4. ASSUME NEW event \in Event, BreakWithEvent(event) PROVE TypeOK'
  <2>1. taken' \in 0 .. MaxEvents
    BY <1>4, Constants DEF BreakWithEvent, Yields
  <2>2. lost' \in SUBSET EventId
    BY <1>4, SlotType DEF BreakWithEvent
  <2>. QED
    BY <1>3, <1>4, <2>1, <2>2 DEF BreakWithEvent
<1>5. CASE BreakWhenIdle
  BY <1>3, <1>5 DEF BreakWhenIdle
<1>6. CASE EndPass \/ NextPass \/ NotDue
  BY <1>6 DEF EndPass, NextPass, NotDue, windowVars, worldVars, loopVars, historyVars,
              WindowsTypeOK
<1>7. ASSUME NEW w \in batch, HandleQuietly(w) \/ DeliverAlert(w) PROVE TypeOK'
  <2>1. Handle(w) /\ w \in Closed
    BY <1>7 DEF HandleQuietly, DeliverAlert
  <2>2. handled' \in Seq([life: Nat, slot: Slot, events: SUBSET EventId]) /\ batch' \subseteq Closed
    BY <2>1, HandleKeeps
  <2>3. onDisk' \in SUBSET AlertId /\ buffered' \in SUBSET AlertId /\ memory' \in Memory
    <3>1. CASE HandleQuietly(w)
      BY <3>1 DEF HandleQuietly
    <3>2. CASE DeliverAlert(w)
      <4>1. Len(handled) + 1 \in AlertId
        BY DEF AlertId
      <4>2. memory' \in Memory
        BY <3>2, <4>1 DEF DeliverAlert, Memory
      <4>. QED
        BY <3>2, <4>1, <4>2 DEF DeliverAlert
    <3>. QED
      BY <1>7, <3>1, <3>2
  <2>. QED
    BY <2>1, <2>2, <2>3 DEF Handle, windowVars, WindowsTypeOK
<1>8. CASE SaveCheckpoint \/ SaveLastCheckpoint
  <2>1. ckpt' \in Checkpoint
    BY <1>8 DEF SaveCheckpoint, SaveLastCheckpoint, Snapshot, Checkpoint
  <2>. QED
    BY <1>8, <2>1 DEF SaveCheckpoint, SaveLastCheckpoint, windowVars, loopVars, historyVars,
                      WindowsTypeOK
<1>9. CASE FlushOutputs
  BY <1>9 DEF FlushOutputs, Emptied, windowVars, historyVars, WindowsTypeOK
<1>10. ASSUME Gone, open' = NoWindows, watermark' = 0, sinceSweep' = 0
       PROVE  /\ WindowsTypeOK' /\ phase' = "down" /\ pc' = "next" /\ taken' \in 0 .. MaxEvents
              /\ batch' \in SUBSET Closed /\ memory' \in Memory
              /\ buffered' \in SUBSET AlertId /\ stopping' \in BOOLEAN
  <2>1. 0 \in 0 .. MaxEvents /\ 0 \in 0 .. SweepEvery - 1 /\ 0 \in Nat
    BY Constants
  <2>2. WindowsTypeOK'
    BY <1>10, <2>1, EmptyType DEF WindowsTypeOK
  <2>. HIDE DEF TypeOK
  <2>. QED
    BY <1>10, <2>1, <2>2, EmptyType DEF Gone
<1>11. CASE CloseOutputs
  BY <1>10, <1>11 DEF CloseOutputs, historyVars
<1>12. CASE Crash
  <2>1. lost' \in SUBSET EventId
    <3>1. Events(batch) \subseteq EventId
      BY DEF Events, Closed
    <3>2. Events(Flushed) \subseteq EventId
      BY FlushedEvents DEF WindowsTypeOK
    <3>. QED
      BY <1>12, <3>1, <3>2 DEF Crash
  <2>2. crashes' \in 0 .. MaxCrashes /\ torn' \in BOOLEAN
    BY <1>12, Constants DEF Crash
  <2>. QED
    BY <1>10, <1>12, <2>1, <2>2 DEF Crash, worldVars
<1>13. ASSUME NEW client \in Client, NEW ts \in Timestamp, Write(client, ts) PROVE TypeOK'
  <2>. DEFINE event == [id |-> Len(feed) + 1, client |-> client, ts |-> ts]
  <2>1. event \in Event /\ Len(feed) + 1 <= MaxEvents
    BY <1>13, Constants DEF Write, Event
  <2>2. feed' = Append(feed, event)
    BY <1>13 DEF Write
  <2>. HIDE DEF event
  <2>3. feed' \in Seq(Event) /\ Len(feed') <= MaxEvents
    BY <2>1, <2>2
  <2>. QED
    BY <1>13, <2>3 DEF Write, windowVars, loopVars, historyVars, WindowsTypeOK
<1>14. CASE Start
  <2>1. ckpt.offset \in 0 .. MaxEvents /\ ckpt.memory \in Memory
    BY DEF Checkpoint
  <2>2. lives' \in Seq(0 .. MaxEvents)
    BY <1>14, <2>1 DEF Start
  <2>. QED
    BY <1>14, <2>1, <2>2 DEF Start, windowVars, worldVars, WindowsTypeOK
<1>15. CASE Stop
  BY <1>15, Constants DEF Stop, windowVars, worldVars, loopVars, WindowsTypeOK
<1>. QED
  BY <1>1, <1>2, <1>4, <1>5, <1>6, <1>7, <1>8, <1>9, <1>11, <1>12, <1>13, <1>14, <1>15
  DEF Next, Step

\* Every state of the loop is well typed: what it takes, holds, writes and restores is
\* what the next step can read.
THEOREM RuntimeTypes == Spec => []TypeOK
BY InitType, StepType, PTL DEF Spec

-----------------------------------------------------------------------------
(* The loop's course, and how far it is.                                   *)

LEMMA WriteKeeps ==
    ASSUME TypeOK, NEW client \in Client, NEW ts \in Timestamp, Write(client, ts)
    PROVE  LET n == Len(feed) + 1 IN
           /\ n \in Nat /\ n \notin DOMAIN feed /\ DOMAIN feed = 1 .. Len(feed)
           /\ DOMAIN feed' = DOMAIN feed \cup {n} /\ Len(feed') = n
           /\ \A d \in DOMAIN feed : feed'[d] = feed[d]
           /\ feed'[n].id = n
<1>. DEFINE n == Len(feed) + 1
            event == [id |-> n, client |-> client, ts |-> ts]
<1>1. event \in Event /\ event.id = n
  BY Constants DEF Write, Event, TypeOK
<1>2. feed' = Append(feed, event) /\ feed \in Seq(Event)
  BY DEF Write, TypeOK
<1>. HIDE DEF event
<1>3. feed' \in Seq(Event) /\ Len(feed') = Len(feed) + 1 /\ Len(feed) \in Nat
      /\ \A d \in 1 .. Len(feed) : feed'[d] = feed[d]
      /\ feed'[Len(feed) + 1] = event
  BY <1>1, <1>2
<1>. QED
  BY <1>1, <1>2, <1>3

LEMMA StartKeeps ==
    ASSUME TypeOK, Start
    PROVE  /\ Len(lives') = Len(lives) + 1 /\ Len(lives) \in Nat
           /\ lives'[Len(lives) + 1] = ckpt.offset
           /\ \A i \in 1 .. Len(lives) : lives'[i] = lives[i]
<1>1. lives \in Seq(0 .. MaxEvents) /\ ckpt.offset \in 0 .. MaxEvents
  BY DEF TypeOK, Checkpoint
<1>2. lives' = Append(lives, ckpt.offset)
  BY DEF Start
<1>. QED
  BY <1>1, <1>2

LEMMA StepPhases == TypeOK /\ Phases /\ Offsets /\ [Next]_vars => Phases' /\ Offsets'
<1>. SUFFICES ASSUME TypeOK, Phases, Offsets, [Next]_vars PROVE Phases' /\ Offsets'
  OBVIOUS
<1>0. /\ taken \in Nat /\ Len(feed) \in Nat /\ DOMAIN feed = 1 .. Len(feed)
      /\ ckpt.offset \in Nat /\ Len(lives) \in Nat
  BY Constants DEF TypeOK, Checkpoint
<1>. USE DEF Phases, Offsets
<1>1. CASE UNCHANGED vars
  BY <1>1 DEF vars, windowVars, worldVars, loopVars, historyVars
<1>2. ASSUME NEW event \in Event, Take(event) PROVE Phases' /\ Offsets'
  <2>1. /\ taken' = taken + 1 /\ taken < Len(feed)
        /\ phase = "pass" /\ pc' \in {"next", "tick"}
    BY <1>2, TakeKeeps
  <2>2. phase' = phase /\ feed' = feed /\ ckpt' = ckpt /\ lives' = lives
    BY <1>2 DEF Take, worldVars
  <2>. QED
    BY <1>0, <2>1, <2>2
<1>3. ASSUME Drain, phase # "down", taken' \in {taken, taken + 1}, taken' <= Len(feed)
      PROVE  Phases' /\ Offsets'
  BY <1>0, <1>3 DEF Drain, Flush, worldVars
<1>4. ASSUME NEW event \in Event, BreakWithEvent(event) PROVE Phases' /\ Offsets'
  BY <1>0, <1>3, <1>4 DEF BreakWithEvent, Yields, AtLoop
<1>5. CASE BreakWhenIdle
  BY <1>0, <1>3, <1>5 DEF BreakWhenIdle, LeavesLoop
<1>6. CASE EndPass \/ NextPass \/ NotDue
  BY <1>6 DEF EndPass, NextPass, NotDue, AtLoop, windowVars, worldVars, loopVars, historyVars
<1>7. ASSUME NEW w \in batch, Handle(w) PROVE Phases' /\ Offsets'
  <2>1. ckpt' = ckpt /\ phase' = phase /\ taken' = taken /\ feed' = feed /\ lives' = lives
        /\ open' = open /\ phase \in {"pass", "closing"} /\ pc' = "tick"
    BY <1>7 DEF Handle, windowVars
  <2>. QED
    BY <2>1
<1>8. CASE SaveCheckpoint \/ SaveLastCheckpoint
  <2>1. ckpt'.offset = taken
    BY <1>8 DEF SaveCheckpoint, SaveLastCheckpoint, Snapshot
  <2>. QED
    BY <1>0, <1>8, <2>1 DEF SaveCheckpoint, SaveLastCheckpoint, windowVars, loopVars, historyVars
<1>9. CASE FlushOutputs
  BY <1>9 DEF FlushOutputs, Emptied, windowVars, historyVars
<1>10. CASE CloseOutputs
  BY <1>0, <1>10 DEF CloseOutputs, Gone, historyVars
<1>11. CASE Crash
  BY <1>0, <1>11 DEF Crash, Gone, worldVars
<1>12. ASSUME NEW client \in Client, NEW ts \in Timestamp, Write(client, ts)
       PROVE  Phases' /\ Offsets'
  <2>1. /\ DOMAIN feed' = DOMAIN feed \cup {Len(feed) + 1} /\ Len(feed') = Len(feed) + 1
        /\ \A d \in DOMAIN feed : feed'[d] = feed[d]
        /\ feed'[Len(feed) + 1].id = Len(feed) + 1
    BY <1>12, WriteKeeps
  <2>. QED
    BY <1>0, <1>12, <2>1 DEF Write, windowVars, loopVars, historyVars
<1>13. CASE Start
  <2>1. Len(lives') = Len(lives) + 1
    BY <1>13, StartKeeps
  <2>. QED
    BY <1>0, <1>13, <2>1 DEF Start, windowVars, worldVars
<1>14. CASE Stop
  BY <1>14 DEF Stop, windowVars, worldVars, loopVars
<1>. QED
  BY <1>1, <1>2, <1>4, <1>5, <1>6, <1>7, <1>8, <1>9, <1>10, <1>11, <1>12, <1>13, <1>14
  DEF Next, Step, HandleQuietly, DeliverAlert

-----------------------------------------------------------------------------
(* What repeats fold into.                                                 *)

LEMMA StepTargets == TypeOK /\ Phases /\ Targets /\ [Next]_vars => Targets'
<1>. SUFFICES ASSUME TypeOK, Phases, Targets, [Next]_vars PROVE Targets'
  OBVIOUS
<1>0. /\ \A mem : Referred(mem)' = Referred(mem)
      /\ Referred(NoMemory) = {}
  BY DEF Referred, NoMemory
<1>. USE DEF Targets, FoldTargetsExist
<1>1. CASE UNCHANGED vars
  BY <1>1 DEF vars, worldVars, loopVars, historyVars, Referred
<1>2. ASSUME UNCHANGED <<ckpt, onDisk, memory, buffered, torn>>,
             pc \in {"next", "tick"}, pc' \in {"next", "tick"}
      PROVE  Targets'
  BY <1>2 DEF Referred
<1>3. ASSUME NEW event \in Event, Take(event) PROVE Targets'
  <2>1. pc = "next" /\ pc' \in {"next", "tick"}
    BY <1>3, TakeKeeps
  <2>. QED
    BY <1>2, <1>3, <2>1 DEF Take, worldVars
<1>4. ASSUME NEW event \in Event, BreakWithEvent(event) PROVE Targets'
  BY <1>2, <1>4 DEF BreakWithEvent, Yields, AtLoop, Drain, worldVars
<1>5. CASE BreakWhenIdle
  BY <1>2, <1>5 DEF BreakWhenIdle, LeavesLoop, Drain, worldVars
<1>6. CASE EndPass \/ NextPass \/ NotDue
  BY <1>2, <1>6 DEF EndPass, NextPass, NotDue, AtLoop, worldVars, loopVars, historyVars
<1>7. ASSUME NEW w \in batch, HandleQuietly(w) PROVE Targets'
  BY <1>2, <1>7 DEF HandleQuietly, Handle
<1>8. ASSUME NEW w \in batch, DeliverAlert(w) PROVE Targets'
  <2>. DEFINE n == Len(handled) + 1
  <2>1. /\ onDisk \subseteq onDisk' /\ onDisk \cup buffered \subseteq onDisk' \cup buffered'
        /\ n \in buffered' /\ ckpt' = ckpt /\ pc = "next" /\ pc' = "tick" /\ torn' = torn
        /\ memory' = [memory EXCEPT ![w.slot[1]] = n]
    BY <1>8 DEF DeliverAlert, Handle
  <2>2. memory \in [Client -> AlertId \cup {None}]
    BY DEF TypeOK, Memory
  <2>. HIDE DEF n
  <2>3. \A c \in Client : memory'[c] \in {memory[c], n}
    BY <2>1, <2>2
  <2>4. Referred(memory)' \subseteq Referred(memory) \cup {n}
    BY <2>3 DEF Referred
  <2>5. Referred(ckpt.memory)' = Referred(ckpt.memory)
    BY <2>1 DEF Referred
  <2>. QED
    BY <2>1, <2>4, <2>5
<1>9. CASE SaveCheckpoint \/ SaveLastCheckpoint
  <2>1. ckpt'.memory = memory
    BY <1>9 DEF SaveCheckpoint, SaveLastCheckpoint, Snapshot
  <2>2. Referred(ckpt.memory)' = Referred(memory) /\ Referred(memory)' = Referred(memory)
    BY <1>9, <2>1 DEF SaveCheckpoint, SaveLastCheckpoint, loopVars, Referred
  <2>3. pc' \in {"flush", "close"} /\ torn' = torn /\ onDisk' = onDisk /\ buffered' = buffered
    BY <1>9 DEF SaveCheckpoint, SaveLastCheckpoint, loopVars, historyVars
  <2>. QED
    BY <2>2, <2>3
<1>10. CASE FlushOutputs
  <2>1. /\ onDisk' = onDisk \cup buffered /\ pc = "flush" /\ pc' = "next"
        /\ ckpt' = ckpt /\ memory' = memory /\ torn' = torn
    BY <1>10 DEF FlushOutputs, Emptied, historyVars
  <2>2. Referred(ckpt.memory)' = Referred(ckpt.memory) /\ Referred(memory)' = Referred(memory)
    BY <2>1 DEF Referred
  <2>. QED
    BY <2>1, <2>2
<1>11. CASE CloseOutputs
  <2>1. /\ onDisk' = onDisk \cup buffered /\ pc = "close" /\ pc' = "next"
        /\ ckpt' = ckpt /\ memory' = NoMemory /\ torn' = torn
    BY <1>11 DEF CloseOutputs, Gone, historyVars
  <2>2. Referred(ckpt.memory)' = Referred(ckpt.memory) /\ Referred(memory)' = {}
    BY <1>0, <2>1 DEF Referred
  <2>. QED
    BY <2>1, <2>2
<1>12. CASE Crash
  <2>1. /\ onDisk' = onDisk /\ pc' = "next" /\ ckpt' = ckpt /\ memory' = NoMemory
        /\ torn' = (torn \/ pc \in {"flush", "close"})
    BY <1>12 DEF Crash, Gone, worldVars
  <2>2. Referred(ckpt.memory)' = Referred(ckpt.memory) /\ Referred(memory)' = {}
    BY <1>0, <2>1 DEF Referred
  <2>. QED
    BY <2>1, <2>2
<1>13. ASSUME UNCHANGED <<ckpt, onDisk, memory, buffered, torn, pc>>
       PROVE  Targets'
  BY <1>13 DEF Referred
<1>14. ASSUME NEW client \in Client, NEW ts \in Timestamp, Write(client, ts) PROVE Targets'
  BY <1>13, <1>14 DEF Write, loopVars, historyVars
<1>15. CASE Start
  <2>1. /\ ckpt' = ckpt /\ memory' = ckpt.memory /\ onDisk' = onDisk /\ torn' = torn
        /\ pc = "next" /\ pc' = "next"
    BY <1>15 DEF Start, worldVars, Phases
  <2>2. Referred(ckpt.memory)' = Referred(ckpt.memory) /\ Referred(memory)' = Referred(ckpt.memory)
    BY <2>1 DEF Referred
  <2>. QED
    BY <2>1, <2>2
<1>16. CASE Stop
  BY <1>13, <1>16 DEF Stop, worldVars, loopVars
<1>. QED
  BY <1>1, <1>3, <1>4, <1>5, <1>6, <1>7, <1>8, <1>9, <1>10, <1>11, <1>12, <1>14, <1>15, <1>16
  DEF Next, Step

-----------------------------------------------------------------------------
(* Where the events are.                                                   *)

\* In a window that is open or waits.
Held(id) == (\E w \in batch : id \in w.events) \/ (\E slot \in Slot : id \in open[slot])

LEMMA HeldEvents == \A id : Held(id) <=> id \in Events(batch) \cup Events(Flushed)
BY EventsOf, FlushedEvents DEF Held

\* Taking an event adds it to what is held, or drops it.
LEMMA TakeHolds ==
    ASSUME TypeOK, NEW event \in Event, Take(event)
    PROVE  \/ (\A id : Held(id)' <=> Held(id)) /\ dropped' = dropped \cup {event.id}
           \/ (\A id : Held(id)' <=> Held(id) \/ id = event.id) /\ dropped' = dropped
<1>1. /\ batch = {}
      /\ \/ open' = open /\ batch' = {} /\ dropped' = dropped \cup {event.id}
         \/ dropped' = dropped /\ \E D \in SUBSET Slot : TakenIn(event, D)
  BY TakeKeeps
<1>2. CASE open' = open /\ batch' = {} /\ dropped' = dropped \cup {event.id}
  <2>1. \A id : Held(id)' <=> Held(id)
    BY <1>1, <1>2 DEF Held
  <2>. QED
    BY <1>2, <2>1
<1>3. CASE dropped' = dropped /\ \E D \in SUBSET Slot : TakenIn(event, D)
  <2>1. PICK D \in SUBSET Slot : TakenIn(event, D)
    BY <1>3
  <2>2. SlotOf(event) \in Slot
    BY SlotType
  <2>3. ASSUME NEW id PROVE Held(id) \/ id = event.id <=> \E slot \in Slot : id \in Folded(event)[slot]
    BY <1>1, <2>2, FoldedType DEF Held
  <2>4. ASSUME NEW id PROVE Held(id)' <=> \E slot \in Slot : id \in Folded(event)[slot]
    <3>1. ASSUME NEW slot \in Slot, id \in Folded(event)[slot] PROVE Held(id)'
      <4>1. CASE slot \in D
        <5>1. PICK w \in batch' : w.slot = slot
          BY <2>1, <4>1 DEF TakenIn
        <5>2. id \in w.events
          BY <2>1, <3>1, <5>1 DEF TakenIn
        <5>. QED
          BY <5>2 DEF Held
      <4>2. CASE slot \notin D
        BY <2>1, <3>1, <4>2 DEF TakenIn, Held
      <4>. QED
        BY <4>1, <4>2
    <3>2. ASSUME Held(id)' PROVE \E slot \in Slot : id \in Folded(event)[slot]
      <4>1. CASE \E w \in batch' : id \in w.events
        <5>1. PICK w \in batch' : id \in w.events
          BY <4>1
        <5>2. w.slot \in Slot /\ w.events = Folded(event)[w.slot]
          BY <2>1, <5>1 DEF TakenIn
        <5>. QED
          BY <5>1, <5>2
      <4>2. CASE \E slot \in Slot : id \in open'[slot]
        BY <2>1, <4>2 DEF TakenIn
      <4>. QED
        BY <3>2, <4>1, <4>2 DEF Held
    <3>. QED
      BY <3>1, <3>2
  <2>. QED
    BY <1>3, <2>3, <2>4
<1>. QED
  BY <1>1, <1>2, <1>3

\* Draining moves the open windows to the batch, which was empty.
LEMMA DrainHolds ==
    ASSUME TypeOK, Drain, batch = {}
    PROVE  /\ \A id : Held(id)' <=> Held(id)
           /\ open' = NoWindows
           /\ \A w \in batch' : w.slot \in Slot /\ w.events = open[w.slot] /\ w \in Closed
           /\ \A v, w \in batch' : v.slot = w.slot => v = w
<1>1. open' = NoWindows /\ batch' = Flushed
  BY DEF Drain, Flush
<1>2. \A id : Held(id) <=> id \in Events(Flushed)
  BY HeldEvents DEF Events
<1>3. \A id : Held(id)' <=> \E w \in Flushed : id \in w.events
  BY <1>1 DEF Held, NoWindows
<1>4. \A w \in Flushed : w.slot \in Slot /\ w.events = open[w.slot] /\ w \in Closed
  BY FlushedType DEF Flushed, Opened
<1>5. \A v, w \in Flushed : v.slot = w.slot => v = w
  BY DEF Flushed
<1>. QED
  BY <1>1, <1>2, <1>3, <1>4, <1>5, EventsOf

LEMMA HandleHolds ==
    ASSUME TypeOK, NEW w \in batch, Handle(w)
    PROVE  /\ \A id : Held(id) <=> Held(id)' \/ id \in w.events
           /\ HandledEvents' = HandledEvents \cup w.events
<1>. DEFINE n == Len(handled) + 1
<1>1. /\ n \notin DOMAIN handled /\ DOMAIN handled' = DOMAIN handled \cup {n}
      /\ \A i \in DOMAIN handled : handled'[i] = handled[i]
      /\ handled'[n].events = w.events /\ batch' = batch \ {w}
  BY HandleKeeps
<1>2. open' = open
  BY DEF Handle, windowVars
<1>. HIDE DEF n
<1>3. \A id : Held(id) <=> Held(id)' \/ id \in w.events
  BY <1>1, <1>2 DEF Held
<1>4. \A id : id \in HandledEvents' <=> id \in HandledEvents \/ id \in w.events
  BY <1>1, HandledOf DEF HandledEvents
<1>. QED
  BY <1>3, <1>4

LEMMA StepHomes == TypeOK /\ Phases /\ Offsets /\ Homes /\ [Next]_vars => Homes'
<1>. SUFFICES ASSUME TypeOK, Phases, Offsets, Homes, [Next]_vars PROVE Homes'
  OBVIOUS
<1>0. /\ taken \in Nat /\ Len(feed) \in Nat /\ DOMAIN feed = 1 .. Len(feed) /\ taken <= Len(feed)
      /\ \A d \in DOMAIN feed : feed[d].id = d
  BY Constants DEF TypeOK, Offsets
<1>1. CASE UNCHANGED vars
  BY <1>1 DEF vars, windowVars, worldVars, loopVars, Homes, Home
<1>2. ASSUME NEW event \in Event, Take(event) PROVE Homes'
  <2>1. /\ taken' = taken + 1 /\ taken < Len(feed) /\ event = feed[taken + 1] /\ batch = {}
        /\ \/ open' = open /\ batch' = {} /\ dropped' = dropped \cup {event.id}
           \/ dropped' = dropped /\ \E D \in SUBSET Slot : TakenIn(event, D)
    BY <1>2, TakeKeeps
  <2>2. feed' = feed
    BY <1>2 DEF Take, worldVars
  <2>3. \A id, slot : Home(id, slot) => Home(id, slot)'
    BY <1>0, <2>1, <2>2 DEF Home
  <2>4. Home(event.id, SlotOf(event))'
    BY <1>0, <2>1, <2>2 DEF Home
  <2>5. CASE open' = open /\ batch' = {}
    BY <2>3, <2>5 DEF Homes
  <2>6. CASE \E D \in SUBSET Slot : TakenIn(event, D)
    <3>1. PICK D \in SUBSET Slot : TakenIn(event, D)
      BY <2>6
    <3>2. \A slot \in Slot : \A id \in Folded(event)[slot] : Home(id, slot)'
      <4>. SUFFICES ASSUME NEW slot \in Slot, NEW id \in Folded(event)[slot] PROVE Home(id, slot)'
        OBVIOUS
      <4>1. id \in open[slot] \/ (slot = SlotOf(event) /\ id = event.id)
        BY FoldedType
      <4>2. id \in open[slot] => Home(id, slot)
        BY DEF Homes
      <4>. QED
        BY <2>3, <2>4, <4>1, <4>2
    <3>. QED
      BY <3>1, <3>2 DEF TakenIn, Homes
  <2>. QED
    BY <2>1, <2>5, <2>6
<1>3. ASSUME Drain, batch = {}, taken' \in {taken, taken + 1} PROVE Homes'
  <2>1. feed' = feed
    BY <1>3 DEF Drain, worldVars
  <2>2. \A id, slot : Home(id, slot) => Home(id, slot)'
    BY <1>0, <1>3, <2>1 DEF Home
  <2>. QED
    BY <1>3, <2>2, DrainHolds DEF Homes, NoWindows
<1>4. ASSUME NEW event \in Event, BreakWithEvent(event) PROVE Homes'
  BY <1>3, <1>4 DEF BreakWithEvent, Yields, AtLoop
<1>5. CASE BreakWhenIdle
  BY <1>3, <1>5 DEF BreakWhenIdle, LeavesLoop, Phases
<1>6. ASSUME UNCHANGED <<open, batch, feed, taken>> PROVE Homes'
  BY <1>6 DEF Homes, Home
<1>7. CASE EndPass \/ NextPass \/ NotDue \/ SaveCheckpoint \/ SaveLastCheckpoint \/ FlushOutputs \/ Stop
  BY <1>6, <1>7 DEF EndPass, NextPass, NotDue, SaveCheckpoint, SaveLastCheckpoint, FlushOutputs,
                    Stop, windowVars, worldVars, loopVars
<1>8. ASSUME NEW w \in batch, Handle(w) PROVE Homes'
  <2>1. batch' = batch \ {w} /\ open' = open /\ feed' = feed /\ taken' = taken
    BY <1>8 DEF Handle, windowVars
  <2>. QED
    BY <2>1 DEF Homes, Home
<1>9. CASE CloseOutputs \/ Crash
  BY <1>9 DEF CloseOutputs, Crash, Gone, Homes, NoWindows
<1>10. ASSUME NEW client \in Client, NEW ts \in Timestamp, Write(client, ts) PROVE Homes'
  <2>1. \A d \in DOMAIN feed : feed'[d] = feed[d]
    BY <1>10, WriteKeeps
  <2>2. \A id, slot : Home(id, slot) => Home(id, slot)'
    BY <1>0, <1>10, <2>1 DEF Home, Write, loopVars
  <2>. QED
    BY <1>10, <2>2 DEF Write, windowVars, loopVars, Homes
<1>11. CASE Start
  <2>1. open' = NoWindows /\ batch' = {}
    BY <1>11 DEF Start, windowVars, Phases
  <2>. QED
    BY <2>1 DEF Homes, NoWindows
<1>. QED
  BY <1>1, <1>2, <1>4, <1>5, <1>7, <1>8, <1>9, <1>10, <1>11
  DEF Next, Step, HandleQuietly, DeliverAlert

-----------------------------------------------------------------------------
(* Where the events went.                                                  *)

Accounted(id) == id \in HandledEvents \/ Held(id) \/ id \in dropped \/ id \in lost

LEMMA AccountedIs == \A id : Accounted(id) <=> id \in Kept \cup lost
BY HeldEvents DEF Accounted, Kept

LEMMA LostIsFinite ==
    ASSUME TypeOK
    PROVE  IsFiniteSet(lost) /\ Cardinality(lost) \in Nat
<1>1. lost \subseteq 1 .. MaxEvents
  BY Constants DEF TypeOK
<1>2. IsFiniteSet(1 .. MaxEvents)
  BY Constants, FS_Interval
<1>3. IsFiniteSet(lost)
  BY <1>1, <1>2, FS_Subset
<1>. QED
  BY <1>3, FS_CardinalityType

LEMMA StepAccounts == TypeOK /\ Phases /\ Offsets /\ Accounts /\ [Next]_vars => Accounts'
<1>. SUFFICES ASSUME TypeOK, Phases, Offsets, Accounts, [Next]_vars PROVE Accounts'
  OBVIOUS
<1>0. /\ taken \in Nat /\ Len(feed) \in Nat /\ ckpt.offset \in Nat
      /\ DOMAIN feed = 1 .. Len(feed) /\ taken <= Len(feed)
      /\ \A d \in DOMAIN feed : feed[d].id = d
      /\ IsFiniteSet(lost) /\ Cardinality(lost) \in Nat /\ stops \in Nat /\ crashes \in Nat
  BY Constants, LostIsFinite DEF TypeOK, Checkpoint, Offsets
<1>a. /\ \A id \in 1 .. Position : Accounted(id)
      /\ crashes = 0 => Cardinality(lost) <= stops
      /\ crashes = 0 /\ stopping /\ phase \in {"pass", "poll"} => Cardinality(lost) < stops
  BY AccountedIs DEF Accounts, EventsAccounted
<1>b. ASSUME \A id \in 1 .. Position' : Accounted(id)',
             crashes' = 0 => Cardinality(lost') <= stops',
             crashes' = 0 /\ stopping' /\ phase' \in {"pass", "poll"} => Cardinality(lost') < stops'
      PROVE  Accounts'
  <2>1. (\A id : Accounted(id) <=> id \in Kept \cup lost)'
    BY AccountedIs, PTL
  <2>. QED
    BY <1>b, <2>1 DEF Accounts, EventsAccounted
<1>c. ASSUME UNCHANGED <<handled, open, batch, dropped, lost>>
      PROVE  \A id : Accounted(id)' <=> Accounted(id)
  BY <1>c DEF Accounted, HandledEvents, Held
<1>d. ASSUME UNCHANGED <<handled, open, batch, dropped, lost, stops, crashes, stopping>>,
             Position' = Position,
             stopping /\ phase' \in {"pass", "poll"} => phase \in {"pass", "poll"}
      PROVE  Accounts'
  BY <1>a, <1>b, <1>c, <1>d
<1>1. CASE UNCHANGED vars
  BY <1>1, <1>d DEF vars, windowVars, worldVars, loopVars, historyVars, Position
<1>2. ASSUME NEW event \in Event, Take(event) PROVE Accounts'
  <2>1. /\ taken' = taken + 1 /\ taken < Len(feed) /\ event = feed[taken + 1]
        /\ phase = "pass" /\ ~stopping
    BY <1>2, TakeKeeps
  <2>2. event.id = taken + 1
    BY <1>0, <2>1
  <2>3. UNCHANGED <<phase, stopping, handled, lost, stops, crashes>>
    BY <1>2 DEF Take
  <2>4. HandledEvents' = HandledEvents
    BY <2>3 DEF HandledEvents
  <2>5. \A id : Accounted(id)' <=> Accounted(id) \/ id = event.id
    BY <1>2, <2>3, <2>4, TakeHolds DEF Accounted
  <2>6. Position = taken /\ Position' = taken + 1
    BY <2>1, <2>3 DEF Position
  <2>7. \A id \in 1 .. Position' : Accounted(id)'
    BY <1>0, <1>a, <2>2, <2>5, <2>6
  <2>. QED
    BY <1>a, <1>b, <2>1, <2>3, <2>7
<1>3. ASSUME Drain, batch = {}
      PROVE  /\ \A id : Accounted(id) => Accounted(id)' \/ id \in lost
             /\ UNCHANGED <<stopping, handled, dropped, stops, crashes>>
             /\ phase' = "closing"
  <2>1. UNCHANGED <<stopping, handled, dropped, stops, crashes>> /\ phase' = "closing"
    BY <1>3 DEF Drain
  <2>2. \A id : Held(id)' <=> Held(id)
    BY <1>3, DrainHolds
  <2>3. HandledEvents' = HandledEvents
    BY <2>1 DEF HandledEvents
  <2>. QED
    BY <2>1, <2>2, <2>3 DEF Accounted
<1>4. ASSUME NEW event \in Event, BreakWithEvent(event) PROVE Accounts'
  <2>1. /\ taken' = taken + 1 /\ taken < Len(feed) /\ event = feed[taken + 1]
        /\ phase = "pass" /\ stopping /\ lost' = lost \cup {event.id} /\ Drain /\ batch = {}
    BY <1>4 DEF BreakWithEvent, Yields, AtLoop
  <2>2. event.id = taken + 1
    BY <1>0, <2>1
  <2>3. /\ \A id : Accounted(id) => Accounted(id)' \/ id \in lost
        /\ UNCHANGED <<stopping, handled, dropped, stops, crashes>>
        /\ phase' = "closing"
    BY <1>3, <2>1
  <2>4. \A id : Accounted(id) \/ id = taken + 1 => Accounted(id)'
    BY <2>1, <2>2, <2>3 DEF Accounted
  <2>5. Position = taken /\ Position' = taken + 1
    BY <2>1, <2>3 DEF Position
  <2>6. \A id \in 1 .. Position' : Accounted(id)'
    BY <1>0, <1>a, <2>4, <2>5
  <2>7. Cardinality(lost \cup {event.id}) =
           IF event.id \in lost THEN Cardinality(lost) ELSE Cardinality(lost) + 1
    BY <1>0, FS_AddElement
  <2>8. Cardinality(lost') \in Nat /\ Cardinality(lost') <= Cardinality(lost) + 1
    BY <1>0, <2>1, <2>7
  <2>9. crashes' = 0 => Cardinality(lost') <= stops'
    BY <1>0, <1>a, <2>1, <2>3, <2>8
  <2>. QED
    BY <1>b, <2>3, <2>6, <2>9
<1>5. CASE BreakWhenIdle
  <2>1. phase = "poll" /\ batch = {} /\ taken' = taken /\ lost' = lost /\ Drain
    BY <1>5 DEF BreakWhenIdle, LeavesLoop, Phases
  <2>2. /\ \A id : Accounted(id) => Accounted(id)' \/ id \in lost
        /\ UNCHANGED <<stopping, handled, dropped, stops, crashes>>
        /\ phase' = "closing"
    BY <1>3, <2>1
  <2>3. \A id : Accounted(id) => Accounted(id)'
    BY <2>1, <2>2 DEF Accounted
  <2>4. Position' = Position
    BY <2>1, <2>2 DEF Position
  <2>. QED
    BY <1>a, <1>b, <2>1, <2>2, <2>3, <2>4
<1>6. CASE EndPass \/ NextPass \/ NotDue \/ FlushOutputs
  BY <1>6, <1>d DEF EndPass, NextPass, NotDue, FlushOutputs, AtLoop, Phases,
                    windowVars, worldVars, loopVars, historyVars, Position
<1>7. CASE SaveCheckpoint \/ SaveLastCheckpoint
  BY <1>7, <1>d DEF SaveCheckpoint, SaveLastCheckpoint, Phases,
                    windowVars, loopVars, historyVars, Position
<1>8. ASSUME NEW w \in batch, Handle(w) PROVE Accounts'
  <2>1. UNCHANGED <<phase, taken, ckpt, stopping, dropped, lost, stops, crashes>>
    BY <1>8 DEF Handle
  <2>2. \A id : Accounted(id) => Accounted(id)'
    BY <1>8, <2>1, HandleHolds DEF Accounted
  <2>3. Position' = Position
    BY <2>1 DEF Position
  <2>. QED
    BY <1>a, <1>b, <2>1, <2>2, <2>3
<1>9. CASE CloseOutputs
  <2>1. /\ ckpt.offset = taken /\ phase = "closing" /\ phase' = "down" /\ ckpt' = ckpt
        /\ batch = {} /\ open = NoWindows
        /\ UNCHANGED <<handled, dropped, lost, stops, crashes>>
    BY <1>9 DEF CloseOutputs, Gone, Phases, historyVars
  <2>2. \A id : ~ Held(id)
    BY <2>1 DEF Held, NoWindows
  <2>3. HandledEvents' = HandledEvents
    BY <2>1 DEF HandledEvents
  <2>4. \A id : Accounted(id) => Accounted(id)'
    BY <2>1, <2>2, <2>3 DEF Accounted
  <2>5. Position' = Position
    BY <2>1 DEF Position
  <2>. QED
    BY <1>a, <1>b, <2>1, <2>4, <2>5
<1>10. CASE Crash
  <2>1. /\ crashes' = crashes + 1 /\ phase # "down" /\ phase' = "down" /\ ckpt' = ckpt
        /\ lost' = lost \cup Events(batch) \cup Events(Flushed)
        /\ UNCHANGED <<handled, dropped>>
    BY <1>10 DEF Crash, Gone, worldVars
  <2>2. HandledEvents' = HandledEvents
    BY <2>1 DEF HandledEvents
  <2>3. \A id : Accounted(id) => Accounted(id)'
    BY <2>1, <2>2, HeldEvents DEF Accounted
  <2>4. Position = taken /\ Position' = ckpt.offset /\ ckpt.offset <= taken
    BY <2>1 DEF Position, Offsets
  <2>5. \A id \in 1 .. Position' : Accounted(id)'
    BY <1>0, <1>a, <2>3, <2>4
  <2>. QED
    BY <1>0, <1>b, <2>1, <2>5
<1>11. ASSUME NEW client \in Client, NEW ts \in Timestamp, Write(client, ts) PROVE Accounts'
  BY <1>11, <1>d DEF Write, windowVars, loopVars, historyVars, Position
<1>12. CASE Start
  BY <1>12, <1>d DEF Start, Phases, windowVars, worldVars, Position
<1>13. CASE Stop
  <2>1. /\ UNCHANGED <<handled, open, batch, dropped, lost, crashes>> /\ stops' = stops + 1
        /\ Position' = Position
    BY <1>13 DEF Stop, windowVars, worldVars, loopVars, Position
  <2>. QED
    BY <1>0, <1>a, <1>b, <1>c, <2>1
<1>. QED
  BY <1>1, <1>2, <1>4, <1>5, <1>6, <1>7, <1>8, <1>9, <1>10, <1>11, <1>12, <1>13
  DEF Next, Step, HandleQuietly, DeliverAlert

-----------------------------------------------------------------------------
(* Nothing is handled twice.                                               *)

\* An event has one window, and is in one place.
LEMMA HomesApart ==
    ASSUME TypeOK, Homes, NEW w \in batch, NEW id \in w.events
    PROVE  /\ id \in 1 .. taken
           /\ \A v \in batch : id \in v.events => v = w
           /\ \A slot \in Slot : id \notin open[slot]
<1>1. Home(id, w.slot) /\ \A v \in batch : id \in v.events => Home(id, v.slot)
  BY DEF Homes
<1>2. \A slot \in Slot : id \in open[slot] => Home(id, slot)
  BY DEF Homes
<1>3. open[w.slot] = {}
  BY DEF Homes
<1>. QED
  BY <1>1, <1>2, <1>3 DEF Home, Homes

LEMMA HeldIsTaken ==
    ASSUME TypeOK, Homes
    PROVE  \A id : Held(id) => id \in 1 .. taken
BY DEF Held, Homes, Home

OnceEach ==
    crashes = 0 =>
        /\ \A i, j \in DOMAIN handled : i # j => handled[i].events \cap handled[j].events = {}
        /\ \A id \in HandledEvents : ~ Held(id) /\ id \in 1 .. Position

LEMMA OnceIs == TypeOK /\ Homes => (Once <=> OnceEach)
<1>. SUFFICES ASSUME TypeOK, Homes PROVE Once <=> OnceEach
  OBVIOUS
<1>1. Events(batch) \cap Events(Flushed) = {}
  BY EventsOf, FlushedEvents, HomesApart
<1>2. \A id : Held(id) <=> id \in Events(batch) \cup Events(Flushed)
  BY HeldEvents
<1>. QED
  BY <1>1, <1>2 DEF Once, OnceEach, ReprocessesNothing

LEMMA StepOnce == TypeOK /\ Phases /\ Offsets /\ Homes /\ OnceEach /\ [Next]_vars => OnceEach'
<1>. SUFFICES ASSUME TypeOK, Phases, Offsets, Homes, OnceEach, [Next]_vars PROVE OnceEach'
  OBVIOUS
<1>0. /\ taken \in Nat /\ Len(feed) \in Nat /\ ckpt.offset \in Nat /\ crashes \in Nat
      /\ DOMAIN feed = 1 .. Len(feed) /\ taken <= Len(feed)
      /\ \A d \in DOMAIN feed : feed[d].id = d
  BY Constants DEF TypeOK, Checkpoint, Offsets
<1>a. Position \in Nat
  BY <1>0 DEF Position
<1>b. ASSUME UNCHANGED <<handled, crashes>>, Position' \in Nat, Position <= Position',
             \A id : Held(id)' => Held(id) \/ id \notin 1 .. Position
      PROVE  OnceEach'
  <2>1. HandledEvents' = HandledEvents
    BY <1>b DEF HandledEvents
  <2>2. \A id \in 1 .. Position : id \in 1 .. Position'
    BY <1>a, <1>b
  <2>. QED
    BY <1>b, <2>1, <2>2 DEF OnceEach
<1>c. ASSUME UNCHANGED <<handled, crashes, open, batch>>, Position' = Position
      PROVE  OnceEach'
  <2>1. \A id : Held(id)' => Held(id)
    BY <1>c DEF Held
  <2>. QED
    BY <1>a, <1>b, <1>c, <2>1
<1>1. CASE UNCHANGED vars
  BY <1>1, <1>c DEF vars, windowVars, worldVars, loopVars, historyVars, Position
<1>2. ASSUME NEW event \in Event, Take(event) PROVE OnceEach'
  <2>1. /\ taken' = taken + 1 /\ taken < Len(feed) /\ event = feed[taken + 1] /\ phase = "pass"
    BY <1>2, TakeKeeps
  <2>2. UNCHANGED <<phase, handled, crashes>>
    BY <1>2 DEF Take
  <2>3. Position = taken /\ Position' = taken + 1 /\ event.id = taken + 1
    BY <1>0, <2>1, <2>2 DEF Position
  <2>4. \A id : Held(id)' => Held(id) \/ id = event.id
    BY <1>2, TakeHolds
  <2>5. event.id \notin 1 .. Position
    BY <1>0, <2>3
  <2>. QED
    BY <1>0, <1>b, <2>2, <2>3, <2>4, <2>5
<1>3. ASSUME Drain, batch = {}, phase # "down", taken' \in {taken, taken + 1} PROVE OnceEach'
  <2>1. UNCHANGED <<handled, crashes>> /\ phase' = "closing"
    BY <1>3 DEF Drain
  <2>2. Position = taken /\ Position' = taken'
    BY <1>3, <2>1 DEF Position
  <2>3. \A id : Held(id)' <=> Held(id)
    BY <1>3, DrainHolds
  <2>. QED
    BY <1>0, <1>3, <1>b, <2>1, <2>2, <2>3
<1>4. ASSUME NEW event \in Event, BreakWithEvent(event) PROVE OnceEach'
  BY <1>3, <1>4 DEF BreakWithEvent, Yields, AtLoop
<1>5. CASE BreakWhenIdle
  BY <1>3, <1>5 DEF BreakWhenIdle, LeavesLoop, Phases
<1>6. CASE EndPass \/ NextPass \/ NotDue \/ FlushOutputs
  BY <1>6, <1>c DEF EndPass, NextPass, NotDue, FlushOutputs, AtLoop, Phases,
                    windowVars, worldVars, loopVars, historyVars, Position
<1>7. CASE SaveCheckpoint \/ SaveLastCheckpoint \/ Stop
  BY <1>7, <1>c DEF SaveCheckpoint, SaveLastCheckpoint, Stop, Phases,
                    windowVars, worldVars, loopVars, historyVars, Position
<1>8. ASSUME NEW w \in batch, Handle(w) PROVE OnceEach'
  <2>1. UNCHANGED <<open, phase, taken, ckpt, crashes>> /\ phase # "down"
    BY <1>8 DEF Handle, windowVars
  <2>2. Position = taken /\ Position' = Position
    BY <2>1 DEF Position
  <2>3. HandledEvents' = HandledEvents \cup w.events
    BY <1>8, HandleHolds
  <2>. DEFINE n == Len(handled) + 1
  <2>4. /\ n \notin DOMAIN handled /\ DOMAIN handled' = DOMAIN handled \cup {n}
        /\ \A i \in DOMAIN handled : handled'[i] = handled[i]
        /\ handled'[n].events = w.events /\ batch' = batch \ {w}
    BY <1>8, HandleKeeps
  <2>. HIDE DEF n
  <2>5. \A id \in w.events : Held(id) /\ id \in 1 .. taken
    BY HomesApart DEF Held
  <2>6. \A id : Held(id)' => Held(id) /\ id \notin w.events
    BY <2>1, <2>4, HomesApart DEF Held
  <2>7. ASSUME crashes' = 0
        PROVE  \A i, j \in DOMAIN handled' : i # j => handled'[i].events \cap handled'[j].events = {}
    <3>1. \A i \in DOMAIN handled : handled[i].events \cap w.events = {}
      BY <2>1, <2>5, <2>7, HandledOf DEF OnceEach
    <3>2. \A i, j \in DOMAIN handled : i # j => handled[i].events \cap handled[j].events = {}
      BY <2>1, <2>7 DEF OnceEach
    <3>. QED
      BY <2>4, <3>1, <3>2
  <2>8. ASSUME crashes' = 0 PROVE \A id \in HandledEvents' : ~ Held(id)' /\ id \in 1 .. Position'
    BY <2>1, <2>2, <2>3, <2>5, <2>6, <2>8 DEF OnceEach
  <2>. QED
    BY <2>7, <2>8 DEF OnceEach
<1>9. CASE CloseOutputs
  <2>1. /\ ckpt.offset = taken /\ phase = "closing" /\ phase' = "down" /\ ckpt' = ckpt
        /\ batch' = {} /\ open' = NoWindows /\ UNCHANGED <<handled, crashes>>
    BY <1>9 DEF CloseOutputs, Gone, Phases, historyVars
  <2>2. \A id : ~ Held(id)'
    BY <2>1 DEF Held, NoWindows
  <2>3. Position' = Position
    BY <2>1 DEF Position
  <2>. QED
    BY <1>a, <1>b, <2>1, <2>2, <2>3
<1>10. CASE Crash
  BY <1>0, <1>10 DEF Crash, OnceEach
<1>11. ASSUME NEW client \in Client, NEW ts \in Timestamp, Write(client, ts) PROVE OnceEach'
  BY <1>11, <1>c DEF Write, windowVars, loopVars, historyVars, Position
<1>12. CASE Start
  BY <1>12, <1>c DEF Start, windowVars, worldVars, Position
<1>. QED
  BY <1>1, <1>2, <1>4, <1>5, <1>6, <1>7, <1>8, <1>9, <1>10, <1>11, <1>12
  DEF Next, Step, HandleQuietly, DeliverAlert

-----------------------------------------------------------------------------
(* The order of windows.                                                   *)

LEMMA ElementOf ==
    ASSUME NEW S, NEW q \in Seq(S), NEW i \in DOMAIN q
    PROVE  q[i] \in S /\ i \in Nat /\ i \in 1 .. Len(q) /\ Len(q) \in Nat
OBVIOUS

\* An event that came late stays late.
LEMMA LateStays ==
    ASSUME TypeOK, NEW life \in 1 .. Len(lives), NEW id \in DOMAIN feed, Late(id, life),
           lives'[life] = lives[life], \A d \in DOMAIN feed : feed'[d] = feed[d]
    PROVE  Late(id, life)'
<1>1. PICK d \in lives[life] + 1 .. id : feed[d].ts - Grace > feed[id].ts
  BY DEF Late
<1>2. lives \in Seq(0 .. MaxEvents) /\ feed \in Seq(Event)
  BY DEF TypeOK
<1>3. lives[life] \in 0 .. MaxEvents
  <2>1. life \in DOMAIN lives
    BY <1>2
  <2>. QED
    BY <1>2, <2>1, ElementOf
<1>4. lives[life] \in Nat /\ DOMAIN feed = 1 .. Len(feed) /\ Len(feed) \in Nat
  BY <1>2, <1>3, Constants
<1>5. d \in DOMAIN feed
  BY <1>4
<1>6. feed'[d] = feed[d] /\ feed'[id] = feed[id]
  BY <1>5
<1>. QED
  BY <1>1, <1>6 DEF Late

\* The life of a running process started from a place in the feed.
LEMMA ThisLife ==
    ASSUME TypeOK, Phases, phase # "down"
    PROVE  /\ Len(lives) \in 1 .. Len(lives) /\ Len(lives) \in Nat /\ lives[Len(lives)] \in Nat
           /\ OfThisLife \subseteq DOMAIN handled
<1>1. lives \in Seq(0 .. MaxEvents) /\ Len(lives) # 0
  BY DEF TypeOK, Phases
<1>2. Len(lives) \in 1 .. Len(lives) /\ Len(lives) \in Nat
  BY <1>1
<1>3. lives[Len(lives)] \in 0 .. MaxEvents
  <2>1. Len(lives) \in DOMAIN lives
    BY <1>1, <1>2
  <2>. QED
    BY <1>1, <2>1, ElementOf
<1>. QED
  BY <1>2, <1>3, Constants DEF OfThisLife

LEMMA HandledSlot ==
    ASSUME TypeOK, NEW i \in DOMAIN handled
    PROVE  handled[i].slot \in Slot /\ handled[i].slot[2] \in Int /\ i \in Nat
<1>1. handled \in Seq([life: Nat, slot: Slot, events: SUBSET EventId])
  BY DEF TypeOK
<1>2. handled[i] \in [life: Nat, slot: Slot, events: SUBSET EventId] /\ i \in Nat
  BY <1>1, ElementOf
<1>. QED
  BY <1>2, SlotsAreBuckets

\* An event that comes for a window that is over came late.
LEMMA ForOneThatIsOver ==
    ASSUME TypeOK, Phases, Offsets, Ahead, NEW event \in Event, Take(event),
           NEW t \in Slot, SlotOf(event)[2] <= t[2], Over(t, watermark)
    PROVE  LateHere(event.id)
<1>. DEFINE s == SlotOf(event)
            end == (s[2] + 1) * WindowLength
<1>1. /\ taken < Len(feed) /\ event = feed[taken + 1] /\ phase = "pass"
      /\ taken \in Nat /\ Len(feed) \in Nat /\ event.id = taken + 1
  <2>1. taken < Len(feed) /\ event = feed[taken + 1] /\ phase = "pass"
    BY TakeKeeps
  <2>2. taken \in Nat /\ feed \in Seq(Event) /\ \A d \in DOMAIN feed : feed[d].id = d
    BY Constants DEF TypeOK, Offsets
  <2>. QED
    BY <2>1, <2>2
<1>2. s \in Slot /\ event.ts \in Nat /\ s[2] = Bucket(event.ts) /\ Bucket(event.ts) \in Int
  BY SlotType DEF SlotOf
<1>3. watermark \in Nat /\ Grace \in Nat /\ WindowLength \in Nat
  BY Constants DEF TypeOK, WindowsTypeOK
<1>4. Over(s, watermark)
  BY <1>2, <1>3, OverBefore
<1>5. end < watermark - Grace
  BY <1>4 DEF Over
<1>6. event.ts < end /\ end \in Int
  BY <1>2, <1>3, BucketEnds
<1>7. watermark # 0 /\ event.ts < watermark - Grace
  BY <1>2, <1>3, <1>5, <1>6
<1>8. PICK d \in lives[Len(lives)] + 1 .. taken : feed[d].ts = watermark
  BY <1>7 DEF Ahead
<1>9. lives[Len(lives)] \in Nat
  BY <1>1, ThisLife
<1>10. d \in lives[Len(lives)] + 1 .. event.id /\ feed[event.id] = event
  BY <1>1, <1>9
<1>11. feed[d].ts - Grace > feed[event.id].ts
  BY <1>2, <1>3, <1>7, <1>8, <1>10
<1>. QED
  BY <1>10, <1>11 DEF LateHere, Late

\* What was handled keeps its order and its late events.
LEMMA StepBehind == TypeOK /\ Phases /\ Offsets /\ Homes /\ Behind /\ Ahead /\ [Next]_vars => Behind'
<1>. SUFFICES ASSUME TypeOK, Phases, Offsets, Homes, Behind, Ahead, [Next]_vars PROVE Behind'
  OBVIOUS
<1>0. /\ taken \in Nat /\ Len(feed) \in Nat /\ DOMAIN feed = 1 .. Len(feed) /\ taken <= Len(feed)
      /\ Len(lives) \in Nat
  BY Constants DEF TypeOK, Offsets
<1>a. ASSUME UNCHANGED handled, \A d \in DOMAIN feed : d \in DOMAIN feed' /\ feed'[d] = feed[d],
             Len(lives') \in Nat, Len(lives) <= Len(lives'),
             \A k \in 1 .. Len(lives) : lives'[k] = lives[k]
      PROVE  Behind'
  <2>1. \A i \in DOMAIN handled : /\ handled[i].life \in 1 .. Len(lives)
                                  /\ handled[i].events \subseteq DOMAIN feed
    BY DEF Behind
  <2>2. \A i \in DOMAIN handled : /\ handled[i].life \in 1 .. Len(lives')
                                  /\ handled[i].events \subseteq DOMAIN feed'
    BY <1>0, <1>a, <2>1
  <2>3. \A i \in DOMAIN handled : \A id \in handled[i].events :
           Late(id, handled[i].life) => Late(id, handled[i].life)'
    <3>. SUFFICES ASSUME NEW i \in DOMAIN handled, NEW id \in handled[i].events,
                         NEW life \in 1 .. Len(lives), life = handled[i].life, Late(id, life)
                  PROVE  Late(id, life)'
      BY <1>a, <2>1
    <3>. QED
      BY <1>a, <2>1, LateStays
  <2>. QED
    BY <1>a, <2>2, <2>3 DEF Behind, InWindowOrder
<1>b. ASSUME UNCHANGED <<handled, feed, lives>> PROVE Behind'
  BY <1>0, <1>a, <1>b
<1>1. CASE UNCHANGED vars
  BY <1>1, <1>b DEF vars, worldVars, historyVars
<1>2. ASSUME NEW event \in Event, Take(event) \/ BreakWithEvent(event) PROVE Behind'
  BY <1>2, <1>b DEF Take, BreakWithEvent, Drain, worldVars
<1>3. CASE BreakWhenIdle \/ EndPass \/ NextPass \/ NotDue \/ SaveCheckpoint \/ FlushOutputs
           \/ SaveLastCheckpoint \/ CloseOutputs \/ Stop \/ Crash
  BY <1>3, <1>b DEF BreakWhenIdle, Drain, EndPass, NextPass, NotDue, SaveCheckpoint, FlushOutputs,
                    SaveLastCheckpoint, CloseOutputs, Stop, Crash, worldVars, historyVars
<1>4. ASSUME NEW w \in batch, Handle(w) PROVE Behind'
  <2>1. UNCHANGED <<feed, lives>> /\ phase # "down"
    BY <1>4 DEF Handle
  <2>. DEFINE n == Len(handled) + 1
  <2>2. /\ n \notin DOMAIN handled /\ DOMAIN handled' = DOMAIN handled \cup {n} /\ n \in Nat
        /\ \A i \in DOMAIN handled : handled'[i] = handled[i] /\ i < n /\ i \in Nat
        /\ handled'[n].life = Len(lives) /\ handled'[n].slot = w.slot
        /\ handled'[n].events = w.events
    BY <1>4, HandleKeeps
  <2>. HIDE DEF n
  <2>3. Len(lives) \in 1 .. Len(lives)
    BY <2>1, ThisLife
  <2>4. w.events \subseteq DOMAIN feed
    BY <1>0, HomesApart
  <2>5. \A i \in DOMAIN handled' : /\ handled'[i].life \in 1 .. Len(lives')
                                   /\ handled'[i].events \subseteq DOMAIN feed'
    BY <2>1, <2>2, <2>3, <2>4 DEF Behind
  <2>6. \A id, life : Late(id, life)' <=> Late(id, life)
    BY <2>1 DEF Late
  <2>7. ASSUME NEW i \in DOMAIN handled', NEW j \in DOMAIN handled', i < j,
               handled'[i].life = handled'[j].life,
               handled'[i].slot[2] > handled'[j].slot[2] \/ handled'[i].slot = handled'[j].slot,
               NEW id \in handled'[j].events
        PROVE  Late(id, handled'[j].life)
    <3>1. i \in DOMAIN handled
      BY <2>2, <2>7
    <3>2. CASE j \in DOMAIN handled
      BY <2>2, <2>7, <3>1, <3>2 DEF Behind, InWindowOrder
    <3>3. CASE j = n
      <4>1. i \in OfThisLife /\ handled'[i] = handled[i]
        BY <2>2, <2>7, <3>1, <3>3 DEF OfThisLife
      <4>2. LateHere(id)
        BY <2>1, <2>2, <2>7, <3>3, <4>1 DEF Ahead
      <4>. QED
        BY <2>2, <3>3, <4>2 DEF LateHere
    <3>. QED
      BY <2>2, <3>2, <3>3
  <2>8. InWindowOrder'
    BY <2>6, <2>7 DEF InWindowOrder
  <2>. QED
    BY <2>5, <2>8 DEF Behind
<1>5. ASSUME NEW client \in Client, NEW ts \in Timestamp, Write(client, ts) PROVE Behind'
  <2>1. \A d \in DOMAIN feed : d \in DOMAIN feed' /\ feed'[d] = feed[d]
    BY <1>5, WriteKeeps
  <2>2. UNCHANGED <<handled, lives>>
    BY <1>5 DEF Write, historyVars
  <2>. QED
    BY <1>0, <1>a, <2>1, <2>2
<1>6. CASE Start
  BY <1>0, <1>6, <1>a, StartKeeps DEF Start, worldVars
<1>. QED
  BY <1>1, <1>2, <1>3, <1>4, <1>5, <1>6 DEF Next, Step, HandleQuietly, DeliverAlert

\* Nothing happens that closes a window or takes an event.
LEMMA AheadSame ==
    ASSUME TypeOK, Phases, Ahead,
           UNCHANGED <<handled, feed, lives, watermark, taken, batch, open>>,
           phase' # "down" => phase # "down",
           phase' \in {"pass", "poll"} => phase \in {"pass", "poll"}
    PROVE  Ahead'
<1>1. \A id : LateHere(id)' <=> LateHere(id)
  BY DEF LateHere, Late
<1>2. OfThisLife' = OfThisLife
  BY DEF OfThisLife
<1>. QED
  BY <1>1, <1>2 DEF Ahead

\* An event is taken.
LEMMA TakeAhead ==
    ASSUME TypeOK, Phases, Offsets, Ahead, NEW event \in Event, Take(event)
    PROVE  Ahead'
<1>1. /\ watermark' = Watermark(event)
      /\ taken' = taken + 1 /\ taken < Len(feed) /\ event = feed[taken + 1]
      /\ phase = "pass" /\ batch = {}
      /\ \/ open' = open /\ batch' = {}
         \/ \E D \in SUBSET Slot : TakenIn(event, D)
  BY TakeKeeps
<1>2. UNCHANGED <<feed, handled, lives, phase>>
  BY DEF Take, worldVars
<1>3. /\ watermark \in Nat /\ event.ts \in Nat /\ taken \in Nat /\ SlotOf(event) \in Slot
      /\ lives[Len(lives)] \in Nat /\ OfThisLife \subseteq DOMAIN handled
  BY <1>1, SlotType, ThisLife DEF TypeOK, WindowsTypeOK
<1>4. watermark' \in Nat /\ watermark <= watermark' /\ watermark' \in {watermark, event.ts}
  BY <1>1, <1>3 DEF Watermark
<1>5. (\A id : LateHere(id)' <=> LateHere(id)) /\ OfThisLife' = OfThisLife
  BY <1>2 DEF LateHere, Late, OfThisLife
<1>6. watermark' # 0 => \E d \in lives'[Len(lives')] + 1 .. taken' : feed'[d].ts = watermark'
  <2>1. CASE watermark' = watermark
    <3>1. \A d : d \in lives[Len(lives)] + 1 .. taken => d \in lives[Len(lives)] + 1 .. taken + 1
      BY <1>3
    <3>. QED
      BY <1>1, <1>2, <2>1, <3>1 DEF Ahead
  <2>2. CASE watermark' = event.ts
    <3>1. lives[Len(lives)] <= taken
      BY <1>1, <1>3 DEF Ahead
    <3>2. taken + 1 \in lives[Len(lives)] + 1 .. taken + 1
      BY <1>3, <3>1
    <3>. QED
      BY <1>1, <1>2, <2>2, <3>2
  <2>. QED
    BY <1>4, <2>1, <2>2
<1>7. \A i \in OfThisLife : handled[i].slot \in Slot /\ Over(handled[i].slot, watermark)
  BY <1>1, <1>3, HandledSlot DEF Ahead
<1>8. \A i \in OfThisLife : Over(handled[i].slot, watermark')
  BY <1>3, <1>4, <1>7, OverLater
<1>9. lives'[Len(lives')] <= taken'
  BY <1>1, <1>2, <1>3 DEF Ahead
<1>10. CASE open' = open /\ batch' = {}
  BY <1>1, <1>2, <1>5, <1>6, <1>8, <1>10, <1>9 DEF Ahead
<1>11. ASSUME NEW D \in SUBSET Slot, TakenIn(event, D) PROVE Ahead'
  <2>1. \A i \in OfThisLife : \A slot \in Slot : handled[i].slot[2] >= slot[2] =>
           \A id \in Folded(event)[slot] : LateHere(id)
    <3>. SUFFICES ASSUME NEW i \in OfThisLife, NEW slot \in Slot, handled[i].slot[2] >= slot[2],
                         NEW id \in Folded(event)[slot]
                  PROVE  LateHere(id)
      OBVIOUS
    <3>1. CASE id \in open[slot]
      BY <1>1, <3>1 DEF Ahead
    <3>2. CASE slot = SlotOf(event) /\ id = event.id
      <4>1. handled[i].slot[2] \in Int /\ slot[2] \in Int
        BY <1>7, SlotsAreBuckets
      <4>2. SlotOf(event)[2] <= handled[i].slot[2]
        BY <3>2, <4>1
      <4>3. LateHere(event.id)
        BY <1>7, <4>2, ForOneThatIsOver
      <4>. QED
        BY <3>2, <4>3
    <3>3. id \in open[slot] \/ (slot = SlotOf(event) /\ id = event.id)
      BY FoldedType
    <3>. QED
      BY <3>1, <3>2, <3>3
  <2>2. \A w \in batch' : w.slot \in D /\ w.events = Folded(event)[w.slot] /\ D = Due(event)
    BY <1>11 DEF TakenIn
  <2>3. \A slot \in Due(event) : slot \in Slot /\ Over(slot, watermark')
    BY <1>1 DEF Due
  <2>4. \A w \in batch' : w.slot \in Slot /\ Over(w.slot, watermark')
    BY <2>2, <2>3
  <2>5. \A i \in OfThisLife : \A w \in batch' :
           handled[i].slot[2] > w.slot[2] \/ handled[i].slot = w.slot =>
              \A id \in w.events : LateHere(id)
    <3>. SUFFICES ASSUME NEW i \in OfThisLife, NEW w \in batch',
                         handled[i].slot[2] > w.slot[2] \/ handled[i].slot = w.slot
                  PROVE  \A id \in w.events : LateHere(id)
      OBVIOUS
    <3>1. handled[i].slot[2] \in Int /\ w.slot[2] \in Int /\ w.slot \in Slot
      BY <1>7, <2>4, SlotsAreBuckets
    <3>2. handled[i].slot[2] >= w.slot[2]
      BY <3>1
    <3>. QED
      BY <2>1, <2>2, <3>1, <3>2
  <2>6. \A i \in OfThisLife : \A slot \in Slot : handled[i].slot[2] >= slot[2] =>
           \A id \in open'[slot] : LateHere(id)
    BY <1>11, <2>1 DEF TakenIn
  <2>7. \A w \in batch' : \A slot \in Slot : w.slot[2] >= slot[2] => open'[slot] = {}
    <3>. SUFFICES ASSUME NEW w \in batch', NEW slot \in Slot, w.slot[2] >= slot[2],
                         slot \notin D
                  PROVE  open'[slot] = {}
      BY <1>11 DEF TakenIn
    <3>1. slot[2] \in Int /\ w.slot[2] \in Int
      BY <2>4, SlotsAreBuckets
    <3>2. slot[2] <= w.slot[2]
      BY <3>1
    <3>3. Over(slot, watermark')
      BY <1>4, <2>4, <3>2, OverBefore
    <3>4. slot \notin Due(event)
      BY <2>2
    <3>5. Folded(event)[slot] = {}
      BY <1>1, <3>3, <3>4 DEF Due
    <3>. QED
      BY <1>11, <3>5 DEF TakenIn
  <2>. QED
    BY <1>2, <1>5, <1>6, <1>8, <1>9, <2>4, <2>5, <2>6, <2>7 DEF Ahead
<1>. QED
  BY <1>1, <1>10, <1>11

\* The process drains: what was open is to be handled next.
LEMMA DrainAhead ==
    ASSUME TypeOK, Phases, Ahead, Drain, batch = {}, phase # "down",
           taken' \in {taken, taken + 1}
    PROVE  Ahead'
<1>1. /\ UNCHANGED <<feed, handled, lives, watermark>> /\ phase' = "closing"
  BY DEF Drain, Flush, worldVars
<1>2. /\ open' = NoWindows
      /\ \A w \in batch' : w.slot \in Slot /\ w.events = open[w.slot]
  BY DrainHolds
<1>3. taken \in Nat /\ lives[Len(lives)] \in Nat /\ OfThisLife \subseteq DOMAIN handled
  BY ThisLife DEF TypeOK
<1>4. (\A id : LateHere(id)' <=> LateHere(id)) /\ OfThisLife' = OfThisLife
  BY <1>1 DEF LateHere, Late, OfThisLife
<1>5. \A d : d \in lives[Len(lives)] + 1 .. taken => d \in lives[Len(lives)] + 1 .. taken'
  BY <1>3
<1>6. watermark' # 0 => \E d \in lives'[Len(lives')] + 1 .. taken' : feed'[d].ts = watermark'
  BY <1>1, <1>5 DEF Ahead
<1>7. lives'[Len(lives')] <= taken'
  BY <1>1, <1>3 DEF Ahead
<1>8. ASSUME NEW i \in OfThisLife, NEW w \in batch',
             handled[i].slot[2] > w.slot[2] \/ handled[i].slot = w.slot
      PROVE  \A id \in w.events : LateHere(id)
  <2>1. handled[i].slot[2] \in Int /\ w.slot[2] \in Int /\ w.slot \in Slot
    BY <1>2, <1>3, HandledSlot, SlotsAreBuckets
  <2>2. handled[i].slot[2] >= w.slot[2]
    BY <1>8, <2>1
  <2>. QED
    BY <1>2, <2>1, <2>2 DEF Ahead
<1>9. \A slot \in Slot : open'[slot] = {}
  BY <1>2 DEF NoWindows
<1>. QED
  BY <1>1, <1>4, <1>6, <1>7, <1>8, <1>9 DEF Ahead

\* The earliest of the waiting windows is handled.
LEMMA HandleAhead ==
    ASSUME TypeOK, Phases, Homes, Ahead, NEW w \in batch, Handle(w)
    PROVE  Ahead'
<1>1. /\ UNCHANGED <<feed, lives, open, watermark, taken, phase>> /\ phase # "down"
  BY DEF Handle, windowVars
<1>. DEFINE n == Len(handled) + 1
<1>2. /\ w \in Closed /\ n \notin DOMAIN handled /\ DOMAIN handled' = DOMAIN handled \cup {n}
      /\ \A i \in DOMAIN handled : handled'[i] = handled[i]
      /\ handled'[n].slot = w.slot /\ batch' = batch \ {w}
      /\ \A v \in batch : w.slot[2] <= v.slot[2]
  BY HandleKeeps
<1>. HIDE DEF n
<1>3. \A id : LateHere(id)' <=> LateHere(id)
  BY <1>1 DEF LateHere, Late
<1>4. \A i \in OfThisLife' : i = n \/ (i \in OfThisLife /\ handled'[i] = handled[i])
  BY <1>1, <1>2 DEF OfThisLife
<1>5. \A v \in batch : v.slot \in Slot /\ v.slot[2] \in Int
  BY SlotsAreBuckets DEF TypeOK, Closed
<1>6. phase \in {"pass", "poll"} => \A i \in OfThisLife' : Over(handled'[i].slot, watermark)
  BY <1>1, <1>2, <1>4 DEF Ahead
<1>7. \A i \in OfThisLife' : \A v \in batch' :
         handled'[i].slot[2] > v.slot[2] \/ handled'[i].slot = v.slot =>
            \A id \in v.events : LateHere(id)
  <2>. SUFFICES ASSUME NEW i \in OfThisLife', NEW v \in batch',
                       handled'[i].slot[2] > v.slot[2] \/ handled'[i].slot = v.slot
                PROVE  \A id \in v.events : LateHere(id)
    OBVIOUS
  <2>1. i # n
    BY <1>2, <1>5 DEF Homes
  <2>. QED
    BY <1>1, <1>2, <1>4, <2>1 DEF Ahead
<1>8. \A i \in OfThisLife' : \A slot \in Slot : handled'[i].slot[2] >= slot[2] =>
         \A id \in open[slot] : LateHere(id)
  <2>. SUFFICES ASSUME NEW i \in OfThisLife', NEW slot \in Slot, handled'[i].slot[2] >= slot[2]
                PROVE  \A id \in open[slot] : LateHere(id)
    OBVIOUS
  <2>1. CASE i = n
    <3>1. w.slot[2] >= slot[2]
      BY <1>2, <2>1
    <3>2. open[slot] = {}
      BY <1>1, <3>1 DEF Ahead
    <3>. QED
      BY <3>2
  <2>2. CASE i # n
    BY <1>1, <1>4, <2>2 DEF Ahead
  <2>. QED
    BY <2>1, <2>2
<1>9. \A v \in batch' : v \in batch
  BY <1>2
<1>. QED
  BY <1>1, <1>3, <1>6, <1>7, <1>8, <1>9 DEF Ahead

\* The parser writes.
LEMMA WriteAhead ==
    ASSUME TypeOK, Phases, Offsets, Homes, Ahead,
           NEW client \in Client, NEW ts \in Timestamp, Write(client, ts)
    PROVE  Ahead'
<1>1. UNCHANGED <<phase, handled, lives, open, watermark, taken, batch>>
  BY DEF Write, windowVars, loopVars, historyVars
<1>2. \A d \in DOMAIN feed : feed'[d] = feed[d]
  BY WriteKeeps
<1>3. DOMAIN feed = 1 .. Len(feed) /\ Len(feed) \in Nat /\ taken \in Nat /\ taken <= Len(feed)
  BY DEF TypeOK, Offsets
<1>4. \A d \in 1 .. taken : d \in DOMAIN feed
  BY <1>3
<1>5. OfThisLife' = OfThisLife
  BY <1>1 DEF OfThisLife
<1>6. CASE phase = "down"
  BY <1>1, <1>6 DEF Phases, Ahead
<1>7. CASE phase # "down"
  <2>1. Len(lives) \in 1 .. Len(lives) /\ lives[Len(lives)] \in Nat
    BY <1>7, ThisLife
  <2>2. ASSUME watermark # 0
        PROVE  \E d \in lives[Len(lives)] + 1 .. taken : feed'[d].ts = watermark
    <3>1. PICK d \in lives[Len(lives)] + 1 .. taken : feed[d].ts = watermark
      BY <2>2 DEF Ahead
    <3>2. d \in DOMAIN feed
      BY <1>3, <2>1
    <3>. QED
      BY <1>2, <3>1, <3>2
  <2>3. \A id \in 1 .. taken : LateHere(id) => LateHere(id)'
    BY <1>1, <1>2, <1>4, <2>1, LateStays DEF LateHere
  <2>4. \A w \in batch : \A id \in w.events : id \in 1 .. taken
    BY HomesApart
  <2>5. \A slot \in Slot : \A id \in open[slot] : id \in 1 .. taken
    BY DEF Homes, Home
  <2>. QED
    BY <1>1, <1>5, <1>7, <2>2, <2>3, <2>4, <2>5 DEF Ahead
<1>. QED
  BY <1>6, <1>7

\* The process starts: nothing was handled in its life.
LEMMA StartAhead ==
    ASSUME TypeOK, Phases, Behind, Start
    PROVE  Ahead'
<1>1. /\ watermark' = 0 /\ batch' = {} /\ handled' = handled /\ taken' = ckpt.offset
      /\ open' = NoWindows
  BY DEF Start, Phases, windowVars
<1>2. Len(lives') = Len(lives) + 1 /\ Len(lives) \in Nat /\ lives'[Len(lives')] = ckpt.offset
  BY StartKeeps
<1>3. \A i \in DOMAIN handled : handled[i].life \in 1 .. Len(lives)
  BY DEF Behind
<1>4. OfThisLife' = {}
  BY <1>1, <1>2, <1>3 DEF OfThisLife
<1>5. ckpt.offset \in Nat
  BY Constants DEF TypeOK, Checkpoint
<1>6. lives'[Len(lives')] <= taken'
  BY <1>1, <1>2, <1>5
<1>. QED
  BY <1>1, <1>4, <1>6 DEF Ahead

LEMMA StepAhead == TypeOK /\ Phases /\ Offsets /\ Homes /\ Behind /\ Ahead /\ [Next]_vars => Ahead'
<1>. SUFFICES ASSUME TypeOK, Phases, Offsets, Homes, Behind, Ahead, [Next]_vars PROVE Ahead'
  OBVIOUS
<1>1. CASE UNCHANGED vars
  BY <1>1, AheadSame DEF vars, windowVars, worldVars, loopVars, historyVars
<1>2. ASSUME NEW event \in Event, Take(event) PROVE Ahead'
  BY <1>2, TakeAhead
<1>3. ASSUME NEW event \in Event, BreakWithEvent(event) PROVE Ahead'
  BY <1>3, DrainAhead DEF BreakWithEvent, Yields, AtLoop
<1>4. CASE BreakWhenIdle
  BY <1>4, DrainAhead DEF BreakWhenIdle, LeavesLoop, Phases
<1>5. CASE EndPass \/ NextPass \/ NotDue \/ SaveCheckpoint \/ FlushOutputs \/ SaveLastCheckpoint \/ Stop
  <2>1. /\ UNCHANGED <<handled, feed, lives, watermark, taken, batch, open>>
        /\ phase' # "down" => phase # "down"
        /\ phase' \in {"pass", "poll"} => phase \in {"pass", "poll"}
    BY <1>5 DEF EndPass, NextPass, NotDue, SaveCheckpoint, FlushOutputs, SaveLastCheckpoint, Stop,
                AtLoop, windowVars, worldVars, loopVars, historyVars
  <2>. QED
    BY <2>1, AheadSame
<1>6. ASSUME NEW w \in batch, Handle(w) PROVE Ahead'
  BY <1>6, HandleAhead
<1>7. CASE CloseOutputs \/ Crash
  BY <1>7 DEF CloseOutputs, Crash, Gone, Ahead
<1>8. ASSUME NEW client \in Client, NEW ts \in Timestamp, Write(client, ts) PROVE Ahead'
  BY <1>8, WriteAhead
<1>9. CASE Start
  BY <1>9, StartAhead
<1>. QED
  BY <1>1, <1>2, <1>3, <1>4, <1>5, <1>6, <1>7, <1>8, <1>9
  DEF Next, Step, HandleQuietly, DeliverAlert

-----------------------------------------------------------------------------
(* The theorems.                                                           *)

LEMMA InitInv == Init => RuntimeInv
<1>. SUFFICES ASSUME Init PROVE RuntimeInv
  OBVIOUS
<1>. USE DEF Init
<1>1. Phases /\ Offsets
  BY Constants DEF Phases, Offsets, WindowsInit
<1>2. Targets
  BY DEF Targets, FoldTargetsExist, Referred, NoMemory
<1>3. Accounts
  <2>1. Position = 0
    BY DEF Position
  <2>2. Cardinality(lost) = 0
    BY FS_EmptySet
  <2>. QED
    BY <2>1, <2>2 DEF Accounts, EventsAccounted
<1>4. Homes
  BY DEF Homes, WindowsInit, NoWindows
<1>5. TypeOK
  BY InitType
<1>6. Once
  <2>1. HandledEvents = {}
    BY DEF HandledEvents
  <2>2. OnceEach
    BY <2>1 DEF OnceEach
  <2>. QED
    BY <1>4, <1>5, <2>2, OnceIs
<1>7. Behind /\ Ahead
  BY DEF Behind, InWindowOrder, Ahead, WindowsInit
<1>. QED
  BY <1>1, <1>2, <1>3, <1>4, <1>6, <1>7 DEF RuntimeInv

LEMMA StepInv == TypeOK /\ RuntimeInv /\ [Next]_vars => RuntimeInv'
<1>. SUFFICES ASSUME TypeOK, RuntimeInv, [Next]_vars PROVE RuntimeInv'
  OBVIOUS
<1>1. TypeOK' /\ Homes'
  BY StepType, StepHomes DEF RuntimeInv
<1>2. OnceEach'
  BY OnceIs, StepOnce DEF RuntimeInv
<1>3. (TypeOK /\ Homes => (Once <=> OnceEach))'
  BY OnceIs, PTL
<1>4. Once'
  BY <1>1, <1>2, <1>3
<1>. QED
  BY <1>1, <1>4, StepPhases, StepTargets, StepAccounts, StepBehind, StepAhead DEF RuntimeInv

LEMMA Inductive == Spec => [](TypeOK /\ RuntimeInv)
<1>1. Init => TypeOK /\ RuntimeInv
  BY InitType, InitInv
<1>2. TypeOK /\ RuntimeInv /\ [Next]_vars => (TypeOK /\ RuntimeInv)'
  BY StepType, StepInv
<1>. QED
  BY <1>1, <1>2, PTL DEF Spec

\* Nothing is skipped: the source's offset, in the loop and in the checkpoint
\* (_save_checkpoint, _shutdown of detection/runtime.py), is past no event that was not
\* handled in a window, is not waiting in one, was not refused by a full builder, and
\* did not go with a stop or a kill; and a stop takes one event with it at most.
THEOREM AllEventsAccounted == Spec => []EventsAccounted
<1>1. RuntimeInv => EventsAccounted
  BY DEF RuntimeInv, Accounts
<1>. QED
  BY <1>1, Inductive, PTL

\* "Reprocessing nothing": as long as nobody kills the process, no event is in two
\* windows that were handled, however often the loop of detection/runtime.py is stopped
\* and started again from its checkpoint.
THEOREM NothingTwice == Spec => []ReprocessesNothing
<1>1. RuntimeInv => ReprocessesNothing
  BY DEF RuntimeInv, Once
<1>. QED
  BY <1>1, Inductive, PTL

\* Delivery is given the windows of one life in the order of their ends, each once, as
\* _handle_many's sorting means to: a window that comes out of order, or again, was
\* opened again after a sweep by events that were late when they came.
THEOREM DeliveredInWindowOrder == Spec => []InWindowOrder
<1>1. RuntimeInv => InWindowOrder
  BY DEF RuntimeInv, Behind
<1>. QED
  BY <1>1, Inductive, PTL

\* What repeats will be folded into exists: the alerts the delivery memory refers to are
\* on disk or buffered, and those the checkpoint refers to are on disk whenever the
\* process is not between the checkpoint and the flush of one tick, as long as no kill
\* fell there (_tick, _save_checkpoint and _flush_outputs of detection/runtime.py).
THEOREM RepeatsHaveATarget == Spec => []FoldTargetsExist
<1>1. RuntimeInv => FoldTargetsExist
  BY DEF RuntimeInv, Targets
<1>. QED
  BY <1>1, Inductive, PTL
=============================================================================
