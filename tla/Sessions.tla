------------------------------ MODULE Sessions ------------------------------
(***************************************************************************)
(* How a stream of events is grouped into visits (preprocess/sessionize.py):*)
(* an idle gap ends a visit, an event that is older than the visit's clock  *)
(* is folded in without moving it, and the sequences are capped.           *)
(*                                                                         *)
(* Left out: methods, which are kept as status codes are, and the totals   *)
(* that no sequence depends on (bytes, referrers).                         *)
(***************************************************************************)
EXTENDS Integers, Sequences, FiniteSets, SequencesExt, FiniteSetsExt

CONSTANTS
    Nothing,
    Entity,
    VisitPath,    \* what an event may ask for
    Code,         \* the status it may get
    IdleGap,      \* idle_gap
    MaxSequence,  \* max_sequence
    Lateness,     \* bound: how far an event may be behind the stream
    MaxJump,      \* bound: how far it may be ahead
    MaxFed        \* bound: events fed

ASSUME SessionsAssumption ==
    /\ Nothing \notin VisitPath \cup Code \cup Entity \cup Nat
    /\ {IdleGap, Lateness, MaxJump, MaxFed} \subseteq Nat
    /\ MaxSequence \in Nat \ {0}

Event == [at: Int, path: VisitPath \cup {Nothing}, code: Code \cup {Nothing}]

Session == [entity: Entity, startedAt: Int, lastSeenAt: Int, eventCount: Nat,
            uniquePaths: SUBSET VisitPath, paths: Seq(VisitPath), codes: Seq(Code),
            interArrivals: Seq(Nat), entryPath: VisitPath \cup {Nothing},
            exitPath: VisitPath \cup {Nothing}, truncated: BOOLEAN,
            members: Seq(Event),       \* history: the events folded in
            orphan: BOOLEAN]           \* history: begun by an event behind the stream

ASSUME NothingIsNoSession == Nothing \notin Session

VARIABLES
    visits,   \* _open
    closed,   \* entity |-> its visits that were handed out, in order
    stats,    \* SessionizerStats
    clock,    \* environment: the latest time in the stream
    fed,      \* history: the number of events fed
    ended     \* the stream is at its end

visitVars == <<visits, closed, stats, clock, fed, ended>>

-----------------------------------------------------------------------------
\* A visit that its first event begins.
Started(e, event) ==
    [entity |-> e, startedAt |-> event.at, lastSeenAt |-> event.at, eventCount |-> 0,
     uniquePaths |-> {}, paths |-> <<>>, codes |-> <<>>, interArrivals |-> <<>>,
     entryPath |-> event.path, exitPath |-> Nothing, truncated |-> FALSE,
     members |-> <<>>, orphan |-> event.at < clock]

\* Mutant of Pushed: a full sequence drops its oldest element.
PushedOut(sequence, value) ==
    IF value = Nothing THEN sequence
    ELSE IF Len(sequence) >= MaxSequence THEN Append(Tail(sequence), value)
    ELSE Append(sequence, value)

\* A full sequence takes nothing more.
Pushed(sequence, value) ==
    IF value = Nothing \/ Len(sequence) >= MaxSequence THEN sequence ELSE Append(sequence, value)

Overflows(sequence, value) == value # Nothing /\ Len(sequence) >= MaxSequence

\* The time since the visit's last event: none for the first one and for a late one.
Delta(session, event) ==
    IF event.at < session.lastSeenAt \/ session.eventCount = 0 THEN Nothing
    ELSE event.at - session.lastSeenAt

\* Mutant of Seen: a late event moves the clock of its visit back.
SeenBackwards(session, event) == event.at

\* The clock of a visit is never moved backwards.
Seen(session, event) == Max({session.lastSeenAt, event.at})

\* An event folded into a visit, whatever its time.
Appended(session, event) ==
    [session EXCEPT
        !.interArrivals = Pushed(@, Delta(session, event)),
        !.lastSeenAt = Seen(session, event),
        !.eventCount = @ + 1,
        !.exitPath = IF event.path = Nothing THEN @ ELSE event.path,
        !.uniquePaths = IF event.path # Nothing /\ Cardinality(@) < MaxSequence
                        THEN @ \cup {event.path} ELSE @,
        !.paths = Pushed(@, event.path),
        !.codes = Pushed(@, event.code),
        !.truncated = \/ @
                      \/ Overflows(session.interArrivals, Delta(session, event))
                      \/ Overflows(session.paths, event.path)
                      \/ Overflows(session.codes, event.code),
        !.members = Append(@, event)]

\* Mutant of Ends: a gap of exactly idle_gap ends a visit.
EndsAtGap(session, now) == now - session.lastSeenAt >= IdleGap

\* A visit is over when it has been idle for longer than the gap.
Ends(session, now) == now - session.lastSeenAt > IdleGap

-----------------------------------------------------------------------------
VisitsInit ==
    /\ visits = [e \in Entity |-> Nothing]
    /\ closed = [e \in Entity |-> <<>>]
    /\ stats = [opened |-> 0, closedByGap |-> 0, closedByFlush |-> 0, outOfOrder |-> 0, truncated |-> 0]
    /\ clock = 0
    /\ fed = 0
    /\ ended = FALSE

\* The counters after an event: the visit it ended, or began, and the one it is in.
CountedEvent(over, session, after) ==
    [stats EXCEPT !.closedByGap = IF over THEN @ + 1 ELSE @,
                  !.opened = IF session.eventCount = 0 THEN @ + 1 ELSE @,
                  !.outOfOrder = IF Last(after.members).at < session.lastSeenAt THEN @ + 1 ELSE @,
                  !.truncated = IF after.truncated /\ ~session.truncated THEN @ + 1 ELSE @]

\* One event of the stream: it ends the visit it is too late for, begins one when its
\* entity has none, and is folded in.
AddEvent(e, event) ==
    LET over == visits[e] # Nothing /\ Ends(visits[e], event.at)
        session == IF visits[e] = Nothing \/ over THEN Started(e, event) ELSE visits[e]
        after == Appended(session, event)
    IN  /\ ~ended /\ fed < MaxFed
        /\ closed' = IF over THEN [closed EXCEPT ![e] = Append(@, visits[e])] ELSE closed
        /\ visits' = [visits EXCEPT ![e] = after]
        /\ stats' = CountedEvent(over, session, after)
        /\ clock' = Max({clock, event.at})
        /\ fed' = fed + 1
        /\ UNCHANGED ended

\* The visits of some entities are handed out.
HandOut(entities) ==
    /\ closed' = [e \in Entity |-> IF e \in entities THEN Append(closed[e], visits[e]) ELSE closed[e]]
    /\ visits' = [e \in Entity |-> IF e \in entities THEN Nothing ELSE visits[e]]
    /\ UNCHANGED <<clock, fed>>

Live == {e \in Entity : visits[e] # Nothing}

Due == {e \in Live : Ends(visits[e], clock)}

\* The timer of a live pipeline ends every visit that is over at the stream's time.
Expire ==
    /\ ~ended /\ Due # {}
    /\ HandOut(Due)
    /\ stats' = [stats EXCEPT !.closedByGap = @ + Cardinality(Due)]
    /\ UNCHANGED ended

\* The end of an offline run ends every visit.
FlushVisits ==
    /\ ~ended
    /\ HandOut(Live)
    /\ stats' = [stats EXCEPT !.closedByFlush = @ + Cardinality(Live)]
    /\ ended' = TRUE

VisitsNext ==
    \/ \E e \in Entity, at \in (clock - Lateness)..(clock + MaxJump),
         path \in VisitPath \cup {Nothing}, code \in Code \cup {Nothing} :
            AddEvent(e, [at |-> at, path |-> path, code |-> code])
    \/ Expire
    \/ FlushVisits

VisitsSpec == VisitsInit /\ [][VisitsNext]_visitVars

-----------------------------------------------------------------------------
VisitsTypeOK ==
    /\ \A e \in Entity : visits[e] = Nothing \/ visits[e] \in Session
    /\ \A e \in Entity : \A i \in DOMAIN closed[e] : closed[e][i] \in Session
    /\ DOMAIN visits = Entity /\ DOMAIN closed = Entity
    /\ \A counter \in DOMAIN stats : stats[counter] \in Nat
    /\ clock \in Int /\ fed \in 0..MaxFed /\ ended \in BOOLEAN

\* The visits of an entity, in order.
Visits(e) == closed[e] \o (IF visits[e] = Nothing THEN <<>> ELSE <<visits[e]>>)

AllVisits == UNION {{<<e, i>> : i \in DOMAIN Visits(e)} : e \in Entity}

VisitAt(v) == Visits(v[1])[v[2]]

\* The latest time among the first i events of a visit.
ClockAfter(session, i) == Max({session.members[j].at : j \in 1..i})

Late(session) == {i \in 2..Len(session.members) : session.members[i].at < ClockAfter(session, i - 1)}

\* The places of all events, and of the late ones, in the visits.
AllEvents == UNION {{<<v, i>> : i \in DOMAIN VisitAt(v).members} : v \in AllVisits}

LateEvents == UNION {{<<v, i>> : i \in Late(VisitAt(v))} : v \in AllVisits}

\* Every event is in one visit, and the counters speak of the visits there are: none is
\* lost when a gap, the timer and the flush end visits (sessionize.py:74-92, 142-170).
EveryEventOnce ==
    /\ Cardinality(AllEvents) = fed
    /\ \A v \in AllVisits : VisitAt(v).eventCount = Len(VisitAt(v).members)
    /\ stats.opened = Cardinality(AllVisits)
    /\ stats.closedByGap + stats.closedByFlush = Cardinality(AllVisits) - Cardinality(Live)
    /\ stats.outOfOrder = Cardinality(LateEvents)
    /\ stats.truncated = Cardinality({v \in AllVisits : VisitAt(v).truncated})

\* No event of a visit comes after a gap, and two visits of an entity are a gap apart
\* unless the timer had ended the first before a late event came (sessionize.py:80-88).
VisitsSplitAtGaps ==
    \A e \in Entity :
        /\ \A v \in Range(Visits(e)) : \A i \in 2..Len(v.members) :
                v.members[i].at - ClockAfter(v, i - 1) <= IdleGap
        /\ \A i \in 2..Len(Visits(e)) :
                \/ Visits(e)[i].startedAt - Visits(e)[i - 1].lastSeenAt > IdleGap
                \/ Visits(e)[i].orphan

\* The events of a visit that ask for something, that got a status, and that are in order.
Asking(v) == {i \in DOMAIN v.members : v.members[i].path # Nothing}

Answered(v) == {i \in DOMAIN v.members : v.members[i].code # Nothing}

InOrder(v) == (2..Len(v.members)) \ Late(v)

Requests(v) == [i \in Asking(v) |-> v.members[i].path]

Statuses(v) == [i \in Answered(v) |-> v.members[i].code]

Gaps(v) == [i \in InOrder(v) |-> v.members[i].at - ClockAfter(v, i - 1)]

\* A sequence holds the values of some events, in order, as far as the cap allows.
Keeps(sequence, values) ==
    /\ Len(sequence) = Min({Cardinality(DOMAIN values), MaxSequence})
    /\ \A i \in DOMAIN values : LET place == Cardinality({j \in DOMAIN values : j <= i}) IN
            place <= MaxSequence => sequence[place] = values[i]

\* The sequences of a visit are its requests, its statuses and the times between its
\* events, in order, from their beginning, and a visit is marked truncated exactly when
\* one of them is not whole ("a silently shortened sequence would quietly corrupt any
\* sequence-based feature", contracts.py:309-314).  One that is not marked has all its
\* distinct paths.
ShorteningIsSaid ==
    \A e \in Entity : \A v \in Range(Visits(e)) :
        /\ Keeps(v.paths, Requests(v)) /\ Keeps(v.codes, Statuses(v)) /\ Keeps(v.interArrivals, Gaps(v))
        /\ v.truncated <=> \E chosen \in {Asking(v), Answered(v), InOrder(v)} :
                              Cardinality(chosen) > MaxSequence
        /\ v.uniquePaths \subseteq Range(Requests(v))
        /\ ~v.truncated => v.uniquePaths = Range(Requests(v))
=============================================================================
