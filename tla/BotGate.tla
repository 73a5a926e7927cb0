------------------------------ MODULE BotGate ------------------------------
(***************************************************************************)
(* The gate of bot_detection (BotDetection.gate and _prune in              *)
(* usecases/bot_detection.py): an entity fires when enough windows in a    *)
(* row were over the gate.  Only the entities of a running streak are      *)
(* remembered, and when they are many the broken streaks are dropped.      *)
(* Time counts windows; "over" is what percentile, declaration and number  *)
(* of events together say of one window.                                   *)
(***************************************************************************)
EXTENDS Integers, FiniteSets

CONSTANTS
    Entity,
    Time,         \* ends of windows
    None,
    Sustained,    \* SUSTAINED_WINDOWS
    StaleAfter,   \* windows after which _prune takes a streak for broken
    MaxTracked,   \* _MAX_TRACKED_STREAKS
    MaxStreak     \* bound on the length of a streak

VARIABLE streaks   \* entity |-> _streaks

Streak == [n: 1 .. MaxStreak, last: Time]

BotGateTypeOK == streaks \in [Entity -> Streak \cup {None}]

BotGateInit == streaks = [e \in Entity |-> None]

\* Windows that follow each other; one that ends earlier counts as well.
Adjacent(last, end) == end - last <= 1

\* The windows in a row, with this one.
Row(e, end) ==
    IF streaks[e] # None /\ Adjacent(streaks[e].last, end) THEN streaks[e].n + 1 ELSE 1

Tracked == {e \in Entity : streaks[e] # None}

\* Mutant of Pruned: a streak is dropped with the first window it misses.
PrunedEarly(e, end) ==
    IF Cardinality(Tracked) >= MaxTracked /\ streaks[e] = None
    THEN [f \in Entity |-> IF streaks[f] # None /\ streaks[f].last < end - 1
                           THEN None ELSE streaks[f]]
    ELSE streaks

\* _prune, for an entity that is new to a full table.
Pruned(e, end) ==
    IF Cardinality(Tracked) >= MaxTracked /\ streaks[e] = None
    THEN [f \in Entity |-> IF streaks[f] # None /\ streaks[f].last < end - StaleAfter
                           THEN None ELSE streaks[f]]
    ELSE streaks

\* The gate's answer for a window, before the step it takes.
Fires(e, end, over) == over /\ Row(e, end) >= Sustained

Gate(e, end, over) ==
    streaks' = IF over THEN [Pruned(e, end) EXCEPT ![e] = [n |-> Row(e, end), last |-> end]]
                       ELSE [streaks EXCEPT ![e] = None]
=============================================================================
