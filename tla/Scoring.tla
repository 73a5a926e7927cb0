------------------------------ MODULE Scoring ------------------------------
(***************************************************************************)
(* How the closed windows of one sweep are scored by the use cases         *)
(* (DetectionRuntime.run and _handle_many with Scorer.score_many): the use *)
(* cases take turns in dependency order, each goes through the whole       *)
(* batch, and each window is gated, told to the other use cases and, if it *)
(* fired, suppressed.  Both use cases of the repository: bot_detection,    *)
(* whose gate has a memory and which exports what it knows of an entity,   *)
(* and web_recon, whose gate looks at one window and which reads it.       *)
(*                                                                         *)
(* The models' scores are left out: a window carries what they come to.    *)
(* What becomes of an alert after suppression is module Delivery.          *)
(***************************************************************************)
EXTENDS Integers, Sequences, FiniteSets, FiniteSetsExt, SequencesExt

CONSTANTS
    Entity,
    Time,         \* ends of windows
    None,
    Words,        \* what bot_detection can come to say of a window
    MaxEntities,  \* of Annotations
    Sustained, StaleAfter, MaxTracked,  \* of BotGate
    Lateness,     \* windows by which one may close after a later one
    MaxWindows,   \* bound on the windows that close
    MaxBatch,     \* bound on the windows of one sweep
    MaxKills      \* bound on restarts

ASSUME ScoringAssumption ==
    /\ Words \subseteq {"verified", "impolite", "known", "plain"}
    /\ Time \subseteq Nat
    /\ MaxEntities \in Nat \ {0}
    /\ Sustained \in Nat \ {0} /\ StaleAfter \in Nat \ {0} /\ MaxTracked \in Nat
    /\ Lateness \in Nat /\ MaxWindows \in Nat /\ MaxBatch \in Nat \ {0} /\ MaxKills \in Nat

ASSUME NoneIsNoStreak == None \notin [n: Nat, last: Time]

UseCase == {"bot_detection", "web_recon"}

\* UseCase.depends_on.
DependsOn == [bot_detection |-> {}, web_recon |-> {"bot_detection"}]

\* `word` is what annotate makes of a window: a search engine's crawler by its
\* address that asked for robots.txt ("verified") or did not ("impolite"), a declared
\* or clustered crawler ("known"), or neither.
Window == [entity: Entity, end: Time, over: BOOLEAN, word: Words]

\* The word with the window and the sweep it is from; the code keeps the end of
\* the window only.
Note == [word: Words, end: Time, sweep: 1 .. MaxWindows]

VARIABLES
    table,     \* of Annotations
    streaks,   \* of BotGate
    turns,     \* the use cases that run, in scoring order
    exports,   \* the bundle of bot_detection has a model that tells bots from humans
    batch,     \* the windows of the last sweep
    turn, at,  \* the use case and the window of the batch that come next
    \* History.
    past,      \* entity |-> ends of the windows since the last one not over the gate
    tardy,     \* entities of which a window came StaleAfter windows late or more
    outcome,   \* what was made of the last window
    sweeps, closed, clock, kills

configVars == <<turns, exports>>
feedVars == <<sweeps, closed, clock, kills>>
vars == <<table, streaks, configVars, batch, turn, at, past, tardy, outcome, feedVars>>

ASSUME NoneIsNoNote == None \notin [word: Words, end: Time, sweep: Nat]

INSTANCE Annotations
INSTANCE BotGate WITH MaxStreak <- MaxWindows

Outcome == [use: UseCase, window: Window, fired: BOOLEAN, read: Note \cup {None},
            advice: {"none", "suppress", "downweight"}]

TypeOK ==
    /\ AnnotationsTypeOK /\ BotGateTypeOK
    /\ turns \in Seq(UseCase) /\ exports \in BOOLEAN /\ batch \in Seq(Window)
    /\ turn \in 1 .. Len(turns) + 1 /\ at \in 1 .. MaxBatch
    /\ past \in [Entity -> Seq(Time)]
    /\ tardy \subseteq Entity /\ outcome \in Outcome \cup {None}
    /\ sweeps \in 0 .. MaxWindows /\ closed \in 0 .. MaxWindows
    /\ clock \in Nat /\ kills \in 0 .. MaxKills

-----------------------------------------------------------------------------
(* dependency_order.                                                       *)

\* The use cases that are not ordered yet after n rounds of the loop.
Remaining(given) ==
    LET left[n \in 0 .. Cardinality(UseCase)] ==
            IF n = 0 THEN given
            ELSE {u \in left[n - 1] : DependsOn[u] \cap left[n - 1] # {}}
    IN  left

\* The round in which a use case is ordered; ties resolve by name, which is the
\* order the use cases are numbered in.
Round(given, u) ==
    Min({n \in 1 .. Cardinality(UseCase) : u \notin Remaining(given)[n]})

Slugs == <<"bot_detection", "web_recon">>
Number(u) == CHOOSE i \in DOMAIN Slugs : Slugs[i] = u

\* Mutant: in the order of their names from the end.
OrderBackwards(given) == SetToSortSeq(given, LAMBDA u, v : Number(u) > Number(v))

Before(given, u, v) ==
    \/ Round(given, u) < Round(given, v)
    \/ Round(given, u) = Round(given, v) /\ Number(u) < Number(v)

DependencyOrder(given) ==
    [i \in 1 .. Cardinality(given) |->
        CHOOSE u \in given : Cardinality({v \in given : Before(given, v, u)}) = i - 1]

Init ==
    /\ AnnotationsInit /\ BotGateInit
    /\ \E given \in SUBSET UseCase \ {{}} : turns = DependencyOrder(given)
    /\ exports \in BOOLEAN
    /\ batch = <<>> /\ turn = Len(turns) + 1 /\ at = 1
    /\ past = [e \in Entity |-> <<>>] /\ tardy = {} /\ outcome = None
    /\ sweeps = 0 /\ closed = 0 /\ clock = 0 /\ kills = 0

-----------------------------------------------------------------------------
(* The loop over events, use cases and windows.                            *)

\* The windows one sweep may close, in the order of their ends.
Batches ==
    {windows \in SeqOf(Window, MaxBatch) :
        /\ windows # <<>>
        /\ \A i, j \in DOMAIN windows : i < j =>
            /\ windows[i].end <= windows[j].end
            /\ <<windows[i].entity, windows[i].end>> # <<windows[j].entity, windows[j].end>>}

Sweep(windows) ==
    /\ turn > Len(turns)
    /\ closed + Len(windows) <= MaxWindows
    /\ windows[1].end + Lateness >= clock
    /\ batch' = windows /\ turn' = 1 /\ at' = 1
    /\ sweeps' = sweeps + 1 /\ closed' = closed + Len(windows)
    /\ clock' = Max({clock, windows[Len(windows)].end})
    /\ tardy' = tardy \cup {windows[i].entity :
                   i \in {j \in DOMAIN windows : windows[j].end + StaleAfter <= clock'}}
    /\ outcome' = None
    /\ UNCHANGED <<table, streaks, configVars, past, kills>>

\* One window further, or to the first one of the batch of the next use case.
Advance ==
    /\ UNCHANGED batch
    /\ IF at < Len(batch) THEN at' = at + 1 /\ turn' = turn
                          ELSE at' = 1 /\ turn' = turn + 1

Scores(use) == turn <= Len(turns) /\ turns[turn] = use

Reading(e) == IF Known(e) THEN Current(e) ELSE None

\* bot_detection: the streak moves on, and what it knows of the entity is exported.
ScoreBot ==
    LET w == batch[at] IN
    /\ Scores("bot_detection")
    /\ Gate(w.entity, w.end, w.over)
    /\ IF exports
       THEN ReadAndAnnotate(w.entity, [word |-> w.word, end |-> w.end, sweep |-> sweeps])
       ELSE Read(w.entity)
    /\ outcome' = [use |-> "bot_detection", window |-> w, fired |-> Fires(w.entity, w.end, w.over),
                   read |-> Reading(w.entity), advice |-> "none"]
    /\ past' = [past EXCEPT ![w.entity] = IF w.over THEN Append(@, w.end) ELSE <<>>]
    /\ Advance
    /\ UNCHANGED <<configVars, tardy, feedVars>>

\* WebRecon.suppression.
Advice(note) ==
    IF note = None THEN "none"
    ELSE CASE note.word = "verified" -> "suppress"
           [] note.word \in {"impolite", "known"} -> "downweight"
           [] OTHER -> "none"

\* web_recon: reads what is known of the entity; here every window fires.
ScoreRecon ==
    LET w == batch[at] IN
    /\ Scores("web_recon")
    /\ Read(w.entity)
    /\ outcome' = [use |-> "web_recon", window |-> w, fired |-> TRUE,
                   read |-> Reading(w.entity), advice |-> Advice(Reading(w.entity))]
    /\ Advance
    /\ UNCHANGED <<streaks, configVars, past, tardy, feedVars>>

\* The process is killed and started again: none of this is in the checkpoint.
Restart ==
    /\ kills < MaxKills
    /\ kills' = kills + 1
    /\ table' = <<>> /\ streaks' = [e \in Entity |-> None]
    /\ exports' \in BOOLEAN
    /\ batch' = <<>> /\ turn' = Len(turns) + 1 /\ at' = 1
    /\ past' = [e \in Entity |-> <<>>] /\ tardy' = {} /\ outcome' = None
    /\ UNCHANGED <<turns, sweeps, closed, clock>>

Next ==
    \/ \E windows \in Batches : Sweep(windows)
    \/ ScoreBot
    \/ ScoreRecon
    \/ Restart

Spec == Init /\ [][Next]_vars

-----------------------------------------------------------------------------
(* Properties.                                                             *)

\* Of windows that were over the gate, the last ones followed each other.
InARow(ends) ==
    LET n == Len(ends) IN
    /\ n >= Sustained
    /\ \A i \in n - Sustained + 2 .. n : ends[i] - ends[i - 1] <= 1

\* The table of streaks is as good as the whole history: a window fires exactly
\* when the last ones of its entity were over the gate and followed each other,
\* whatever was pruned in between (bot_detection.py:198, "they are broken anyway").
\* Only a window that comes so late that its streak was given up may fail to fire.
GateExact ==
    outcome # None /\ outcome.use = "bot_detection" =>
        LET e == outcome.window.entity IN
        /\ outcome.fired => InARow(past[e])
        /\ outcome.window.over /\ InARow(past[e]) => outcome.fired \/ e \in tardy

\* The windows of an entity in this sweep, and how many entities it has.
WindowsOf(e) == {i \in DOMAIN batch : batch[i].entity = e}
EntitiesSwept == {batch[i].entity : i \in DOMAIN batch}

\* With both use cases running, web_recon is told what bot_detection made of the
\* entity in this very sweep and of its last window there (runtime.py:320): never
\* something older, and never nothing if there was something to tell and room for
\* the entities of the sweep.
ToldInThisSweep ==
    (outcome # None /\ outcome.use = "web_recon" /\ Len(turns) = 2 /\ exports) =>
        LET e == outcome.window.entity
            last == batch[Max(WindowsOf(e))]
        IN  IF outcome.read = None THEN Cardinality(EntitiesSwept) > MaxEntities
            ELSE outcome.read = [word |-> last.word, end |-> last.end, sweep |-> sweeps]

\* "Six consecutive 5-minute windows" (bot_detection.py:17): so many windows with
\* different ends lie behind an alert.
ConsecutiveWindows ==
    outcome # None /\ outcome.use = "bot_detection" /\ outcome.fired =>
        Cardinality(ToSet(past[outcome.window.entity])) >= Sustained

\* "Consumers read it in the same window" (runtime.py:264).
ReadInTheSameWindow ==
    outcome # None /\ outcome.use = "web_recon" /\ outcome.read # None =>
        outcome.read.end = outcome.window.end
=============================================================================
