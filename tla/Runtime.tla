------------------------------- MODULE Runtime -------------------------------
(***************************************************************************)
(* The production loop of one use case (DetectionRuntime.run, _tick,       *)
(* _handle_many, _save_checkpoint, _flush_outputs and _shutdown of         *)
(* detection/runtime.py) over its window builder: what is kept when the    *)
(* process is stopped, killed and started again.                           *)
(*                                                                         *)
(* The process is a single thread that signals, kills and the parser's     *)
(* writes interleave with.  Delivery is abstracted to what recovery can    *)
(* tell apart: a handled window either puts a new alert in the sink, which *)
(* the delivery memory then refers to, or does not (it did not fire, or    *)
(* folds into the alert the memory refers to).  Module Delivery has the    *)
(* rules.  The feed is one file, which module FileSource opens up.         *)
(***************************************************************************)
EXTENDS Windows, Sequences

CONSTANTS
    None,
    MaxEvents,   \* bound on the feed
    MaxBacklog,  \* bound on the events that are written and not yet read
    MaxStops,    \* bound on stop requests (SIGTERM)
    MaxCrashes   \* bound on kills

ASSUME RuntimeAssumption ==
    /\ MaxEvents \in Nat
    /\ EventId = 1 .. MaxEvents
    /\ MaxBacklog \in Nat
    /\ MaxStops \in Nat
    /\ MaxCrashes \in Nat
    /\ None \notin Nat

VARIABLES
    \* The world: what survives the process.
    feed,      \* events the parser has written, in order
    ckpt,      \* the checkpoint file
    onDisk,    \* alerts in the sink's file
    \* The process.
    phase,     \* down, reading a pass over the feed, between two passes, closing
    pc,        \* the step of that phase it is at
    taken,     \* events read() has yielded: the source's offset
    batch,     \* closed windows not handled yet
    memory,    \* client |-> the alert its next repeats would fold into
    buffered,  \* alerts written to the sink that are not on disk
    stopping,  \* a stop was requested
    \* History.
    handled,   \* windows handled, in order, with the life that handled them
    dropped,   \* events that found no room in the builder
    lost,      \* events taken that went with a stop or a kill
    lives,     \* the offset each life of the process started from
    stops, crashes,
    torn       \* a kill fell between a checkpoint and the flush after it

worldVars == <<feed, ckpt, onDisk>>
loopVars == <<taken, batch, memory, buffered>>
historyVars == <<handled, dropped, lost, lives, stops, crashes, torn>>
vars == <<windowVars, worldVars, phase, pc, loopVars, stopping, historyVars>>

\* Ids are given in the order in which windows are handled.
AlertId == Nat \ {0}

Memory == [Client -> AlertId \cup {None}]

Checkpoint == [offset: 0 .. MaxEvents, memory: Memory]

TypeOK ==
    /\ WindowsTypeOK
    /\ feed \in Seq(Event) /\ Len(feed) <= MaxEvents
    /\ ckpt \in Checkpoint
    /\ onDisk \in SUBSET AlertId
    /\ phase \in {"down", "pass", "poll", "closing"}
    /\ pc \in {"next", "tick", "flush", "close"}
    /\ taken \in 0 .. MaxEvents
    /\ batch \in SUBSET Closed
    /\ memory \in Memory
    /\ buffered \in SUBSET AlertId
    /\ stopping \in BOOLEAN
    /\ handled \in Seq([life: Nat, slot: Slot, events: SUBSET EventId])
    /\ dropped \in SUBSET EventId /\ lost \in SUBSET EventId
    /\ lives \in Seq(0 .. MaxEvents)
    /\ stops \in 0 .. MaxStops /\ crashes \in 0 .. MaxCrashes
    /\ torn \in BOOLEAN

NoMemory == [c \in Client |-> None]

Init ==
    /\ WindowsInit
    /\ feed = <<>>
    /\ ckpt = [offset |-> 0, memory |-> NoMemory]
    /\ onDisk = {}
    /\ phase = "down" /\ pc = "next"
    /\ taken = 0 /\ batch = {} /\ memory = NoMemory /\ buffered = {}
    /\ stopping = FALSE
    /\ handled = <<>> /\ dropped = {} /\ lost = {} /\ torn = FALSE
    /\ lives = <<>> /\ stops = 0 /\ crashes = 0

\* The events the process, or the next one to start, will not read again.
Position == IF phase = "down" THEN ckpt.offset ELSE taken

Events(windows) == UNION {w.events : w \in windows}

-----------------------------------------------------------------------------
(* The parser, the operator and the machine.                               *)

Write(client, ts) ==
    /\ Len(feed) < MaxEvents
    /\ Len(feed) < Position + MaxBacklog
    /\ feed' = Append(feed, [id |-> Len(feed) + 1, client |-> client, ts |-> ts])
    /\ UNCHANGED <<windowVars, ckpt, onDisk, phase, pc, loopVars, stopping, historyVars>>

\* SIGTERM or SIGINT: request_stop, at any point of the loop.
Stop ==
    /\ phase # "down" /\ ~stopping
    /\ stops < MaxStops
    /\ stopping' = TRUE
    /\ stops' = stops + 1
    /\ UNCHANGED <<windowVars, worldVars, phase, pc, loopVars, handled, dropped, lost,
                   lives, crashes, torn>>

\* The process is gone, and with it everything it held.
Gone ==
    /\ phase' = "down" /\ pc' = "next"
    /\ taken' = 0 /\ batch' = {} /\ memory' = NoMemory /\ buffered' = {}
    /\ stopping' = FALSE

\* A kill or a power cut.
Crash ==
    /\ phase # "down"
    /\ crashes < MaxCrashes
    /\ crashes' = crashes + 1
    /\ Gone
    /\ open' = NoWindows /\ watermark' = 0 /\ sinceSweep' = 0
    /\ lost' = lost \cup Events(batch) \cup Events(Flushed)
    /\ torn' = (torn \/ pc \in {"flush", "close"})
    /\ UNCHANGED <<worldVars, handled, dropped, lives, stops>>

-----------------------------------------------------------------------------
(* run: the loop over read().                                              *)

\* The source is put at the checkpoint's offset and the delivery memory is
\* restored; windows start empty.
Start ==
    /\ phase = "down"
    /\ phase' = "pass" /\ pc' = "next"
    /\ lives' = Append(lives, ckpt.offset)
    /\ taken' = ckpt.offset
    /\ memory' = ckpt.memory
    /\ UNCHANGED <<windowVars, worldVars, batch, buffered, stopping, handled, dropped,
                   lost, stops, crashes, torn>>

AtLoop == phase = "pass" /\ pc = "next" /\ batch = {}

\* read() has moved the offset when the loop gets the event.
Yields(event) ==
    /\ AtLoop
    /\ taken < Len(feed)
    /\ event = feed[taken + 1]
    /\ taken' = taken + 1

\* builder.add, with the windows it closes to be handled before the next tick.
Take(event) ==
    /\ Yields(event)
    /\ ~stopping
    /\ \/ /\ Drop(event)
          /\ dropped' = dropped \cup {event.id} /\ batch' = {} /\ pc' = "tick"
       \/ /\ Fold(event)
          /\ dropped' = dropped /\ batch' = {} /\ pc' = "tick"
       \/ /\ FoldAndSweep(event)
          /\ dropped' = dropped
          /\ batch' = SweptBy(event)
          /\ pc' = IF SweptBy(event) = {} THEN "tick" ELSE "next"
    /\ UNCHANGED <<worldVars, phase, memory, buffered, stopping, handled, lost, lives,
                   stops, crashes, torn>>

\* _shutdown drains the builder.
Drain ==
    /\ phase' = "closing" /\ pc' = "next"
    /\ Flush
    /\ batch' = Flushed
    /\ UNCHANGED <<worldVars, memory, buffered, stopping, handled, dropped, lives, stops,
                   crashes, torn>>

\* The loop looks at the stop flag when it has the next event in hand.
BreakWithEvent(event) ==
    /\ Yields(event)
    /\ stopping
    /\ lost' = lost \cup {event.id}
    /\ Drain

\* The pass is over: on_idle is a tick, then the source sleeps.
EndPass ==
    /\ AtLoop
    /\ taken = Len(feed)
    /\ phase' = "poll" /\ pc' = "tick"
    /\ UNCHANGED <<windowVars, worldVars, loopVars, stopping, historyVars>>

\* Mutant of LeavesLoop: the source is not told of the stop.
LeavesLoopNever == FALSE

\* request_stop stopped the source too, and read() returns between two passes.
LeavesLoop == phase = "poll" /\ pc = "next" /\ stopping

NextPass ==
    /\ phase = "poll" /\ pc = "next"
    /\ ~LeavesLoop
    /\ phase' = "pass"
    /\ UNCHANGED <<windowVars, worldVars, pc, loopVars, stopping, historyVars>>

BreakWhenIdle ==
    /\ LeavesLoop
    /\ UNCHANGED <<taken, lost>>
    /\ Drain

-----------------------------------------------------------------------------
(* _handle_many: one window after another, in window order.                *)

Earliest(w) == \A v \in batch : w.slot[2] <= v.slot[2]

Handle(w) ==
    /\ phase \in {"pass", "closing"} /\ pc = "next"
    /\ w \in batch /\ Earliest(w)
    /\ batch' = batch \ {w}
    /\ handled' = Append(handled, [life |-> Len(lives), slot |-> w.slot, events |-> w.events])
    /\ pc' = "tick"
    /\ UNCHANGED <<windowVars, feed, ckpt, phase, taken, stopping, dropped, lost, lives,
                   stops, crashes, torn>>

\* The window did not fire, or it folds: no new alert.
HandleQuietly(w) == Handle(w) /\ UNCHANGED <<onDisk, memory, buffered>>

\* The window is delivered, under a fresh id.  The write may push what the
\* sink's buffer holds to disk.
DeliverAlert(w) ==
    /\ Handle(w)
    /\ \/ onDisk' = onDisk /\ buffered' = buffered \cup {Len(handled) + 1}
       \/ onDisk' = onDisk \cup buffered /\ buffered' = {Len(handled) + 1}
    /\ memory' = [memory EXCEPT ![w.slot[1]] = Len(handled) + 1]

-----------------------------------------------------------------------------
(* _tick, and the end of _shutdown.                                        *)

\* Mutants of Snapshot: the offset is that of the line read ahead; the offset
\* is moved only after the event was handled.
SnapshotAhead == [offset |-> IF taken < Len(feed) THEN taken + 1 ELSE taken,
                  memory |-> memory]
SnapshotBehind == [offset |-> IF taken > 0 THEN taken - 1 ELSE 0, memory |-> memory]

Snapshot == [offset |-> taken, memory |-> memory]

NotDue ==
    /\ pc = "tick"
    /\ pc' = "next"
    /\ UNCHANGED <<windowVars, worldVars, phase, loopVars, stopping, historyVars>>

\* The checkpoint is replaced atomically and is durable at once.
SaveCheckpoint ==
    /\ pc = "tick"
    /\ ckpt' = Snapshot
    /\ pc' = "flush"
    /\ UNCHANGED <<windowVars, feed, onDisk, phase, loopVars, stopping, historyVars>>

\* Mutant of Emptied: the sink is not among the outputs that are flushed.
EmptiedNot == onDisk' = onDisk /\ buffered' = buffered

Emptied == onDisk' = onDisk \cup buffered /\ buffered' = {}

FlushOutputs ==
    /\ pc = "flush"
    /\ Emptied
    /\ pc' = "next"
    /\ UNCHANGED <<windowVars, feed, ckpt, phase, taken, batch, memory, stopping,
                   historyVars>>

SaveLastCheckpoint ==
    /\ phase = "closing" /\ pc = "next" /\ batch = {}
    /\ ckpt' = Snapshot
    /\ pc' = "close"
    /\ UNCHANGED <<windowVars, feed, onDisk, phase, loopVars, stopping, historyVars>>

CloseOutputs ==
    /\ pc = "close"
    /\ onDisk' = onDisk \cup buffered
    /\ Gone
    /\ open' = NoWindows /\ watermark' = 0 /\ sinceSweep' = 0
    /\ UNCHANGED <<feed, ckpt, historyVars>>

\* The steps of the process itself.
Step ==
    \/ \E event \in Event : Take(event) \/ BreakWithEvent(event)
    \/ EndPass
    \/ NextPass
    \/ BreakWhenIdle
    \/ \E w \in batch : HandleQuietly(w) \/ DeliverAlert(w)
    \/ NotDue
    \/ SaveCheckpoint
    \/ FlushOutputs
    \/ SaveLastCheckpoint
    \/ CloseOutputs

Next ==
    \/ Step
    \/ \E client \in Client, ts \in Timestamp : Write(client, ts)
    \/ Start
    \/ Stop
    \/ Crash

\* A running process keeps running: nothing in the loop waits for the world.
Spec == Init /\ [][Next]_vars /\ WF_vars(Step)

-----------------------------------------------------------------------------
(* Properties.                                                             *)

HandledEvents == UNION {handled[i].events : i \in DOMAIN handled}

\* Where the windows and the events in them may be.
Kept == HandledEvents \cup Events(batch) \cup Events(Flushed) \cup dropped

\* Nothing is skipped unaccounted for: an event the source is past was handled
\* in some window, waits in one, found no room, or was lost to a stop or a kill;
\* and without kills each stop loses at most the one event it had in hand.
EventsAccounted ==
    /\ 1 .. Position \subseteq Kept \cup lost
    /\ crashes = 0 => Cardinality(lost) <= stops

\* "Reprocessing nothing": as long as nobody kills the process, no event is
\* handled twice, in one life or over several.
ReprocessesNothing ==
    crashes = 0 =>
        /\ \A i, j \in DOMAIN handled :
              i # j => handled[i].events \cap handled[j].events = {}
        /\ HandledEvents \cap (Events(batch) \cup Events(Flushed)) = {}
        /\ Events(batch) \cap Events(Flushed) = {}

\* An event that came when the watermark of its life, less the grace, had passed it.
Late(id, life) ==
    \E d \in lives[life] + 1 .. id : feed[d].ts - Grace > feed[id].ts

\* Delivery sees the windows of a life in the order of their ends, each once:
\* what comes out of order, or comes again, was opened by late events alone.
InWindowOrder ==
    \A i, j \in DOMAIN handled :
        /\ i < j
        /\ handled[i].life = handled[j].life
        /\ \/ handled[i].slot[2] > handled[j].slot[2]
           \/ handled[i].slot = handled[j].slot
        => \A id \in handled[j].events : Late(id, handled[j].life)

Referred(mem) == {mem[c] : c \in Client} \ {None}

\* The alerts that repeats will be folded into exist: those in memory are on
\* disk or on their way, those in the checkpoint are on disk once the tick that
\* wrote it is over; except after a kill between the two steps of that tick.
FoldTargetsExist ==
    ~torn => /\ Referred(memory) \subseteq onDisk \cup buffered
             /\ pc \notin {"flush", "close"} => Referred(ckpt.memory) \subseteq onDisk

\* A stop is honoured, whether or not the feed goes on: the process drains,
\* saves and exits (or is killed while it does).
StopsWhenAsked == stopping ~> phase = "down"

\* "A restart resumes exactly where it stopped, reprocessing nothing and losing
\* nothing": behind the checkpoint of a process that was only ever stopped, every
\* event was handled.
LosesNothing ==
    crashes = 0 /\ phase = "down" => 1 .. ckpt.offset \subseteq Kept

\* A checkpoint that outruns its records would claim events were processed whose
\* alerts never reached disk; the flush is to prevent that after any kill.
NoCheckpointOutrunsItsAlerts ==
    phase = "down" => Referred(ckpt.memory) \subseteq onDisk
=============================================================================
