-------------------------------- MODULE Dedup --------------------------------
(***************************************************************************)
(* The cooldown of use cases that are not progressive (detection/dedup.py):*)
(* a fire folds into the open alert of its entity, or else into the open   *)
(* alert of its address.  AlertDeduplicator.decide is the disjunction of   *)
(* the three actions.                                                      *)
(*                                                                         *)
(* Left out: the folded counts, the peak confidence and the set of         *)
(* user-agents, which are reported and never decide anything.              *)
(***************************************************************************)
EXTENDS Alerts

CONSTANT Cooldown   \* 30 minutes, six windows

ASSUME CooldownIsNatural == Cooldown \in Nat

VARIABLES
    openAlerts,   \* entity |-> its open alert
    openSources   \* address |-> its open alert, across user-agents

dedupVars == <<openAlerts, openSources>>

Open == [id: AlertId, last: Time]

ASSUME NoneIsNotOpen == None \notin Open

DedupTypeOK ==
    /\ openAlerts \in [Addr \X UserAgent -> Open \cup {None}]
    /\ openSources \in [Addr -> Open \cup {None}]

DedupInit ==
    /\ openAlerts = [e \in Addr \X UserAgent |-> None]
    /\ openSources = [a \in Addr |-> None]

\* Mutant of Unexpired: the cooldown ends one window early.
UnexpiredStrict(open, now) ==
    [k \in DOMAIN open |->
        IF open[k] # None /\ now - open[k].last < Cooldown THEN open[k] ELSE None]

\* _evict: what has been quiet for longer than the cooldown is closed.
Unexpired(open, now) ==
    [k \in DOMAIN open |->
        IF open[k] # None /\ now - open[k].last <= Cooldown THEN open[k] ELSE None]

\* _touch_source: the address's cooldown restarts, if it has an open alert.
Touched(sources, al) ==
    IF sources[al.ip] = None THEN sources
    ELSE [sources EXCEPT ![al.ip].last = al.ts]

\* The open alerts as decide finds them after _evict.
EntityAlert(al) == Unexpired(openAlerts, al.ts)[<<al.ip, al.ua>>]
SourceAlert(al) == Unexpired(openSources, al.ts)[al.ip]

FoldByEntity(al) ==
    /\ EntityAlert(al) # None
    /\ openAlerts' = [Unexpired(openAlerts, al.ts) EXCEPT
                          ![<<al.ip, al.ua>>].last = al.ts]
    /\ openSources' = Touched(Unexpired(openSources, al.ts), al)

\* Mutant of FoldBySource: the folded alert opens its entity.
FoldBySourceOpening(al) ==
    /\ EntityAlert(al) = None
    /\ SourceAlert(al) # None
    /\ openAlerts' = [Unexpired(openAlerts, al.ts) EXCEPT
                          ![<<al.ip, al.ua>>] = [id |-> al.id, last |-> al.ts]]
    /\ openSources' = Touched(Unexpired(openSources, al.ts), al)

FoldBySource(al) ==
    /\ EntityAlert(al) = None
    /\ SourceAlert(al) # None
    /\ openAlerts' = Unexpired(openAlerts, al.ts)
    /\ openSources' = Touched(Unexpired(openSources, al.ts), al)

OpenNew(al) ==
    LET open == [id |-> al.id, last |-> al.ts] IN
    /\ EntityAlert(al) = None
    /\ SourceAlert(al) = None
    /\ openAlerts' = [Unexpired(openAlerts, al.ts) EXCEPT ![<<al.ip, al.ua>>] = open]
    /\ openSources' = [Unexpired(openSources, al.ts) EXCEPT ![al.ip] = open]
=============================================================================
