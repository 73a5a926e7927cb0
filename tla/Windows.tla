------------------------------- MODULE Windows -------------------------------
(***************************************************************************)
(* The window builder of one use case (WindowFeatureBuilder of             *)
(* features/window_features.py): events are folded into one open window    *)
(* per entity and five-minute bucket, and every SweepEvery events a sweep  *)
(* closes the windows the watermark has left behind.  add is the           *)
(* disjunction of Drop, Fold and FoldAndSweep.                             *)
(*                                                                         *)
(* Left out: the features of a window, the memory per address and entity,  *)
(* and the counters of late and dropped events.                            *)
(***************************************************************************)
EXTENDS Integers, FiniteSets

CONSTANTS
    Client,       \* entities: server, address and user-agent
    Timestamp,    \* event times
    EventId,      \* places in the feed
    WindowLength, \* _WINDOW_S
    Grace,        \* _GRACE_S: how far the watermark trails before a window closes
    SweepEvery,   \* _SWEEP_EVERY: events between two sweeps
    MaxOpen       \* _MAX_OPEN_WINDOWS

ASSUME WindowsAssumption ==
    /\ Timestamp \subseteq Nat
    /\ EventId \subseteq Nat
    /\ WindowLength \in Nat \ {0}
    /\ Grace \in Nat
    /\ SweepEvery \in Nat \ {0}
    /\ MaxOpen \in Nat

VARIABLES
    open,        \* (client, bucket) |-> events of its open window; {} if there is none
    watermark,   \* latest event time seen (0: none yet)
    sinceSweep   \* events folded since the last sweep

windowVars == <<open, watermark, sinceSweep>>

Event == [id: EventId, client: Client, ts: Timestamp]

Bucket(ts) == ts \div WindowLength

Slot == Client \X {Bucket(ts) : ts \in Timestamp}

SlotOf(event) == <<event.client, Bucket(event.ts)>>

\* A closed window, as the scorer receives it.
Closed == [slot: Slot, events: SUBSET EventId]

WindowsTypeOK ==
    /\ open \in [Slot -> SUBSET EventId]
    /\ watermark \in Nat
    /\ sinceSweep \in 0 .. SweepEvery - 1

NoWindows == [slot \in Slot |-> {}]

WindowsInit ==
    /\ open = NoWindows
    /\ watermark = 0
    /\ sinceSweep = 0

Opened == {slot \in Slot : open[slot] # {}}

Watermark(event) == IF event.ts > watermark THEN event.ts ELSE watermark

\* The hard guard: no room for the window this event would open.
Full(event) == open[SlotOf(event)] = {} /\ Cardinality(Opened) >= MaxOpen

\* Mutant of Over: a window closes as soon as the watermark leaves it.
OverAtOnce(slot, mark) == (slot[2] + 1) * WindowLength <= mark

\* _sweep: the window ended before the watermark, less the grace.
Over(slot, mark) == (slot[2] + 1) * WindowLength < mark - Grace

Folded(event) == [open EXCEPT ![SlotOf(event)] = @ \cup {event.id}]

Due(event) ==
    {slot \in Slot : Folded(event)[slot] # {} /\ Over(slot, Watermark(event))}

\* An event that finds no room returns before it is counted towards a sweep.
Drop(event) ==
    /\ Full(event)
    /\ watermark' = Watermark(event)
    /\ UNCHANGED <<open, sinceSweep>>

Fold(event) ==
    /\ ~Full(event)
    /\ sinceSweep + 1 < SweepEvery
    /\ open' = Folded(event)
    /\ watermark' = Watermark(event)
    /\ sinceSweep' = sinceSweep + 1

FoldAndSweep(event) ==
    /\ ~Full(event)
    /\ sinceSweep + 1 >= SweepEvery
    /\ open' = [slot \in Slot |-> IF slot \in Due(event) THEN {} ELSE Folded(event)[slot]]
    /\ watermark' = Watermark(event)
    /\ sinceSweep' = 0

\* What FoldAndSweep closes.
SweptBy(event) ==
    {[slot |-> slot, events |-> Folded(event)[slot]] : slot \in Due(event)}

\* flush: every open window, cut short.
Flush == open' = NoWindows /\ UNCHANGED <<watermark, sinceSweep>>

Flushed == {[slot |-> slot, events |-> open[slot]] : slot \in Opened}
=============================================================================
