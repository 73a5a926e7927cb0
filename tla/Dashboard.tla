----------------------------- MODULE Dashboard -----------------------------
(***************************************************************************)
(* The console's pictures of a deployment (DashboardState of web/state.py  *)
(* behind the request threads of web/server.py): views that are read from  *)
(* the runtime's and the registry's files, kept for _TTL_S in a cache that *)
(* all threads share, the promote and rollback buttons that clear it, and  *)
(* the sampler that charts how much fires.  The runtime and operators on   *)
(* the command line write the files at any time.                           *)
(*                                                                         *)
(* What happens to the registry is module Lifecycle.  The pointers and the *)
(* bundles of one view are read apart.  One use case is deployed.  Left    *)
(* out: what a view copies from the files and decides nothing by, the      *)
(* catalog, and the reads that no cache is in front of.                    *)
(***************************************************************************)
EXTENDS Lifecycle, FiniteSetsExt

CONSTANTS
    Thread,       \* request threads
    TTL,          \* _TTL_S
    LiveWindow,   \* _LIVE_WINDOW_S
    MaxHappens,   \* bound on alerts and kills
    MaxTime

ASSUME DashboardAssumption ==
    /\ {TTL, LiveWindow} \subseteq Nat \ {0}
    /\ {MaxHappens, MaxTime} \subseteq Nat

View == {"overview", "models"}

VARIABLES
    runtime,     \* the runtime: whether it runs, and its count of what fired
    health,      \* its health file
    cache,       \* view |-> _cache
    call,        \* thread |-> the request it works on
    page,        \* the answer that the last step gave a browser
    sampler,     \* the sampler's last sample, and the sum of what it charted
    \* History.
    clock,
    happened     \* number of alerts and kills

\* A picture of a view, with the time and the registry's state it was read in.
Picture ==
    [view: {"overview"}, read: Nat, live: BOOLEAN]
        \cup [view: {"models"}, read: Nat, mark: Nat, current: Version \cup {None},
              promotable: SUBSET Version, targets: SUBSET Version]

Call ==
    [at: {"idle", "changed"}]
        \cup [at: {"miss"}, view: View, asked: Nat, picture: {None}]
        \cup [at: {"read", "produced"}, view: View, asked: Nat, picture: Picture]

Health == [at: Nat, fired: Nat]

ASSUME NoneIsNoHealth == None \notin Health

consoleVars == <<cache, call>>
vars == <<lifeVars, runtime, health, consoleVars, page, sampler, clock, happened>>

TypeOK ==
    /\ LifeTypeOK
    /\ runtime \in [alive: BOOLEAN, fired: Nat, died: Nat, ever: Nat]
    /\ health \in Health \cup {None}
    /\ cache \in [View -> [stamp: Nat, picture: Picture] \cup {None}]
    /\ call \in [Thread -> Call]
    /\ page \in [picture: Picture, asked: Nat, dead: Nat] \cup {None}
    /\ sampler \in [last: Nat \cup {None}, charted: Nat]
    /\ clock \in Nat /\ happened \in Nat

-----------------------------------------------------------------------------
\* A step of the registry, with nothing else but perhaps a request's progress.
Registers == page' = None /\ UNCHANGED <<runtime, health, cache, sampler, clock, happened>>

\* Operators on the command line, and a runtime without a model.
CommandLine ==
    /\ \/ \E quality \in Quality : Train(quality) \/ ColdStart(quality)
       \/ \E replay \in Replay : Check(replay)
       \/ \E v \in Version : Promote(v) \/ Override(v)
    /\ Registers
    /\ UNCHANGED call

-----------------------------------------------------------------------------
(* The runtime.                                                            *)

\* When it was killed, and all that ever fired, are history.
Runs(after) ==
    /\ runtime' = after
    /\ page' = None
    /\ UNCHANGED <<lifeVars, consoleVars, sampler, clock>>

Happens == happened < MaxHappens /\ happened' = happened + 1

\* _deliver counts an alert, in whatever way it ends.
Fire ==
    /\ runtime.alive /\ Happens
    /\ Runs([runtime EXCEPT !.fired = @ + 1, !.ever = @ + 1])
    /\ UNCHANGED health

WriteHealth ==
    /\ runtime.alive
    /\ health' = [at |-> clock, fired |-> runtime.fired]
    /\ health' # health
    /\ Runs(runtime)
    /\ UNCHANGED happened

Kill ==
    /\ runtime.alive /\ Happens
    /\ Runs([runtime EXCEPT !.alive = FALSE, !.died = clock])
    /\ UNCHANGED health

\* Started again, the runtime counts from nothing.
Restart ==
    /\ ~runtime.alive
    /\ Runs([runtime EXCEPT !.alive = TRUE, !.fired = 0])
    /\ UNCHANGED <<health, happened>>

-----------------------------------------------------------------------------
(* Views.                                                                  *)

\* Mutant of Live: a health file is a runtime.
LiveFile(now) == health # None

\* _overview: the health file is not older than the live window.
Live(now) == health # None /\ now - health.at < LiveWindow

Idle == [at |-> "idle"]

Request(stage, view, asked, picture) ==
    [at |-> stage, view |-> view, asked |-> asked, picture |-> picture]

\* A browser's answer, with the time the runtime was dead when it asked.
Answer(picture, asked) ==
    page' = [picture |-> picture, asked |-> asked,
             dead |-> IF runtime.alive THEN 0 ELSE Max({0, asked - runtime.died})]

Fresh(entry) == entry # None /\ clock - entry.stamp < TTL

\* Work of a request thread on the console alone.
Console == UNCHANGED <<lifeVars, runtime, health, sampler, clock, happened>>

\* _cached: a picture that is fresh enough, or one must be produced.
Poll(w, view) ==
    /\ call[w].at = "idle"
    /\ IF Fresh(cache[view])
       THEN Answer(cache[view].picture, clock) /\ UNCHANGED call
       ELSE /\ call' = [call EXCEPT ![w] = Request("miss", view, clock, None)]
            /\ page' = None
    /\ UNCHANGED cache
    /\ Console

\* The health file, or the pointers.
First(view) ==
    IF view = "overview"
    THEN [view |-> view, read |-> clock, live |-> Live(clock)]
    ELSE [view |-> view, read |-> clock, mark |-> changes, current |-> registry.current,
          promotable |-> {}, targets |-> {}]

Read(w) ==
    /\ call[w].at = "miss"
    /\ call' = [call EXCEPT ![w] = Request("read", @.view, @.asked, First(@.view))]
    /\ page' = None
    /\ UNCHANGED cache
    /\ Console

\* Mutant of Promotable: the console looks at the verdict alone.
PromotableByVerdict(v, current) ==
    /\ v # current
    /\ current = None \/ ApprovesEver(registry.report[v])

\* _models: whether a version gets a promote button.
Promotable(v, current) ==
    /\ v # current
    /\ \/ current = None
       \/ /\ registry.report[v] # None
          /\ registry.report[v].verdict \in {"PASS", "WARN"}
          /\ registry.report[v].serving = current

\* The bundles with their reports, judged by the pointers that were read before.
WithBundles(picture) ==
    IF picture.view = "overview" THEN picture
    ELSE [picture EXCEPT !.promotable = {v \in 1 .. registry.made : Promotable(v, picture.current)},
                         !.targets = Targets]

Produce(w) ==
    /\ call[w].at = "read"
    /\ call' = [call EXCEPT ![w] = Request("produced", @.view, @.asked, WithBundles(@.picture))]
    /\ page' = None
    /\ UNCHANGED cache
    /\ Console

\* Its files cannot be read: the request ends with an error.
ProduceBreaks(w) ==
    /\ call[w].at \in {"miss", "read"}
    /\ call' = [call EXCEPT ![w] = Idle]
    /\ page' = None
    /\ UNCHANGED cache
    /\ Console

\* Mutant of Stamp: a picture counts from the end of its production.
StampAtEnd(w) == clock

\* A picture counts from the request that produced it.
Stamp(w) == call[w].asked

Store(w) ==
    /\ call[w].at = "produced"
    /\ cache' = [cache EXCEPT ![call[w].view] = [stamp |-> Stamp(w), picture |-> call[w].picture]]
    /\ Answer(call[w].picture, call[w].asked)
    /\ call' = [call EXCEPT ![w] = Idle]
    /\ Console

-----------------------------------------------------------------------------
(* Requests to promote and to roll back: the registry may refuse, which    *)
(* changes nothing; when it has not, the cache is cleared next.            *)

Post(w) ==
    /\ call[w].at = "idle"
    /\ (\E v \in Version : Promote(v)) \/ Rollback
    /\ call' = [call EXCEPT ![w] = [at |-> "changed"]]
    /\ Registers

\* The promotion raises when the pointer has moved already, as it prunes: the request
\* ends with an error, and the cache stays.
PostBreaks(w) ==
    /\ call[w].at = "idle"
    /\ \E v \in Version : Promote(v)
    /\ UNCHANGED call
    /\ Registers

Invalidate(w) ==
    /\ call[w].at = "changed"
    /\ cache' = [view \in View |-> None]
    /\ call' = [call EXCEPT ![w] = Idle]
    /\ page' = None
    /\ Console

-----------------------------------------------------------------------------
(* The sampler, which reads the overview past the cache.                   *)

\* fire_delta.
Delta(now, before) == Max({0, now - before})

Reading == IF health = None THEN 0 ELSE health.fired

Sample ==
    /\ sampler.last # Reading
    /\ sampler' = [last |-> Reading,
                   charted |-> sampler.charted + (IF sampler.last = None THEN 0
                                                  ELSE Delta(Reading, sampler.last))]
    /\ page' = None
    /\ UNCHANGED <<lifeVars, runtime, health, consoleVars, clock, happened>>

Tick ==
    /\ clock < MaxTime
    /\ clock' = clock + 1
    /\ page' = None
    /\ UNCHANGED <<lifeVars, runtime, health, consoleVars, sampler, happened>>

Init ==
    /\ LifeInit
    /\ runtime = [alive |-> TRUE, fired |-> 0, died |-> 0, ever |-> 0]
    /\ health = None
    /\ cache = [view \in View |-> None] /\ call = [w \in Thread |-> Idle] /\ page = None
    /\ sampler = [last |-> None, charted |-> 0]
    /\ clock = 0 /\ happened = 0

Next ==
    \/ CommandLine
    \/ Fire \/ WriteHealth \/ Kill \/ Restart
    \/ \E w \in Thread, view \in View : Poll(w, view)
    \/ \E w \in Thread : Read(w) \/ Produce(w) \/ ProduceBreaks(w) \/ Store(w)
    \/ \E w \in Thread : Post(w) \/ PostBreaks(w) \/ Invalidate(w)
    \/ Sample \/ Tick

Spec == Init /\ [][Next]_vars

-----------------------------------------------------------------------------
(* Properties.                                                             *)

\* "Nothing is cached longer than _TTL_S, so a dashboard tab left open overnight cannot
\* pin a stale picture" (state.py:3-5): what a browser gets was read less than _TTL_S
\* before it asked, however long a thread took to produce it and whichever thread stored
\* its picture last.
NoStalePicture == page # None => page.asked - page.picture.read < TTL

\* Two copies of the promotion rule agree, the console's (state.py:345) and the
\* registry's (store.py:244): while the registry has not changed since a page began to
\* be read, its promote and rollback buttons are those the registry honours.
ButtonsTellTheRules ==
    page # None /\ page.picture.view = "models" /\ page.picture.mark = changes =>
        /\ page.picture.promotable = {v \in Version \ {registry.current} : Promotes(v)}
        /\ page.picture.targets = Targets

\* A runtime that has been gone for the live window and a cache's life is not shown as
\* live (state.py:29, "beyond this the runtime is treated as gone").
DeadIsNotLive ==
    page # None /\ page.picture.view = "overview" /\ page.picture.live =>
        page.dead < LiveWindow + TTL

\* The chart shows no more than what fired, over restarts that set the counters back
\* and health files that are behind (state.py:462).
ChartInventsNothing == sampler.charted <= runtime.ever
=============================================================================
