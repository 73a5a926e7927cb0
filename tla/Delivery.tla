------------------------------ MODULE Delivery ------------------------------
(***************************************************************************)
(* What becomes of a scored window in live mode: DetectionRuntime.         *)
(* _handle_many, _deliver and _deliver_exposure (detection/runtime.py),    *)
(* with the part of the scorer that withholds an alert, over the stages    *)
(* that the other modules hold.  One action is one window taken through    *)
(* the whole pipeline: the runtime is a single thread and decides the      *)
(* windows one after another.                                              *)
(*                                                                         *)
(* `log` is what the run leaves on disk about its alerts, in order: the    *)
(* score log, the suppressed log, the digest and the queue in one row per  *)
(* alert, with the disposition the row states.                             *)
(***************************************************************************)
EXTENDS Progression, Dedup, Budget, ExposureTracker, Sequences, FiniteSets

CONSTANTS
    Progressive,   \* the use case: web_recon (TRUE) or bot_detection (FALSE)
    Allowed,       \* config exposure.allow
    Lateness,      \* windows by which a window may close after a later one
    MaxAlerts      \* bound on the length of `log`

ASSUME DeliveryAssumption ==
    /\ Progressive \in BOOLEAN
    /\ Allowed \subseteq Key
    /\ Lateness \in Nat
    /\ MaxAlerts \in Nat

VARIABLES log, clock

vars == <<episodes, queued, campaigns, openAlerts, openSources, spent, exposed,
          log, clock>>

Fate == {"suppressed", "folded", "candidate", "over_budget", "low_impact", "delivered"}

\* What made an alert fold, for the alerts that did.
FoldedBys == {"none", "episode", "source", "campaign", "entity", "exposure"}

Row == [id: AlertId, ip: Addr, ua: UserAgent, ts: Time, keys: SUBSET Key,
        fired: BOOLEAN, fate: Fate,
        by: FoldedBys,
        into: AlertId \cup {None}]

\* What the scorer says of one window: `suppress` is the use case's advice,
\* `keys` the sensitive files the address was served in it.  A window that has
\* neither fired nor exposed a file has no alert.
Outcome == {o \in [ip: Addr, ua: UserAgent, ts: Time, fired: BOOLEAN,
                   suppress: BOOLEAN, keys: SUBSET Key] :
                /\ o.fired \/ o.keys # {}
                /\ o.suppress => o.fired}

TypeOK ==
    /\ ProgressionTypeOK
    /\ DedupTypeOK
    /\ BudgetTypeOK
    /\ TrackerTypeOK
    /\ log \in Seq(Row)
    /\ clock \in Time

Init ==
    /\ ProgressionInit
    /\ DedupInit
    /\ BudgetInit
    /\ TrackerInit
    /\ log = <<>>
    /\ clock = 0

-----------------------------------------------------------------------------
(* From the outcome of a window to its alert.                              *)

\* Mutant of Withheld: the advice holds for exposures too.
WithheldAnyway(o) == o.fired /\ o.suppress

\* _apply_suppression: an alert with an exposure is never withheld.
Withheld(o) == o.fired /\ o.suppress /\ o.keys = {}

\* _unallowed_exposures and _make_exposure.  The alert of a window that fired
\* is built before the allowed exposures are taken out, and loses its own list
\* only when all of them are allowed.
Carried(o) ==
    IF o.keys \subseteq Allowed THEN {}
    ELSE IF o.fired THEN o.keys ELSE o.keys \ Allowed

AlertOf(o) == [id |-> Len(log) + 1, ip |-> o.ip, ua |-> o.ua, ts |-> o.ts,
               keys |-> Carried(o)]

\* A window the builder may close now.  Only web_recon owns exposures.
Arrives(o) ==
    /\ Len(log) < MaxAlerts
    /\ o.ts + Lateness >= clock
    /\ Progressive \/ o.keys = {}
    /\ clock' = IF o.ts > clock THEN o.ts ELSE clock

Record(o, fate, by, into) ==
    LET al == AlertOf(o) IN
    log' = Append(log, [id |-> al.id, ip |-> al.ip, ua |-> al.ua, ts |-> al.ts,
                        keys |-> al.keys, fired |-> o.fired, fate |-> fate,
                        by |-> by, into |-> into])

-----------------------------------------------------------------------------
(* _deliver and _deliver_exposure.                                         *)

Withhold(o) ==
    /\ Arrives(o)
    /\ Withheld(o)
    /\ Record(o, "suppressed", "none", None)
    /\ UNCHANGED <<progressionVars, dedupVars, spent, exposed>>

\* A window with exposures.  If it fired, the episode advances first, and what
\* Progression.decide returns is ignored.
Exposure(o) ==
    /\ Arrives(o)
    /\ Carried(o) # {}
    /\ IF o.fired THEN Decide(AlertOf(o)) ELSE UNCHANGED progressionVars
    /\ Track(AlertOf(o))
    /\ UNCHANGED <<dedupVars, spent>>

RaiseExposure(o) ==
    /\ Exposure(o)
    /\ NewKeys(AlertOf(o)) # {}
    /\ Record(o, "delivered", "none", None)

FoldExposure(o) ==
    /\ Exposure(o)
    /\ NewKeys(AlertOf(o)) = {}
    /\ \E k \in Alertable(AlertOf(o)) : Record(o, "folded", "exposure", exposed[k].id)

NoteExposure(o) ==
    /\ Exposure(o)
    /\ Alertable(AlertOf(o)) = {}
    /\ Record(o, "low_impact", "none", None)

\* A fire without exposures.
Scan(o) ==
    /\ Arrives(o)
    /\ o.fired
    /\ ~Withheld(o)
    /\ Carried(o) = {}
    /\ UNCHANGED exposed

FoldScan(o) ==
    LET al == AlertOf(o) IN
    /\ Scan(o)
    /\ Progressive
    /\ Fold(al)
    /\ Record(o, "folded", FoldedBy(al), FoldedInto(al).id)
    /\ UNCHANGED <<dedupVars, spent>>

DigestCandidate(o) ==
    /\ Scan(o)
    /\ Progressive
    /\ Candidate(AlertOf(o))
    /\ Record(o, "candidate", "none", None)
    /\ UNCHANGED <<dedupVars, spent>>

FoldRepeat(o) ==
    LET al == AlertOf(o) IN
    /\ Scan(o)
    /\ ~Progressive
    /\ \/ FoldByEntity(al) /\ Record(o, "folded", "entity", EntityAlert(al).id)
       \/ FoldBySource(al) /\ Record(o, "folded", "source", SourceAlert(al).id)
    /\ UNCHANGED <<progressionVars, spent>>

\* The alert comes through folding.
ForQueue(o) ==
    /\ Scan(o)
    /\ IF Progressive
       THEN Queue(AlertOf(o)) /\ UNCHANGED dedupVars
       ELSE OpenNew(AlertOf(o)) /\ UNCHANGED progressionVars

Deliver(o) ==
    /\ ForQueue(o)
    /\ Spend(AlertOf(o))
    /\ Record(o, "delivered", "none", None)

DigestOverBudget(o) ==
    /\ ForQueue(o)
    /\ OverBudget(AlertOf(o))
    /\ Record(o, "over_budget", "none", None)

Next == \E o \in Outcome :
    \/ Withhold(o)
    \/ RaiseExposure(o)
    \/ FoldExposure(o)
    \/ NoteExposure(o)
    \/ FoldScan(o)
    \/ DigestCandidate(o)
    \/ FoldRepeat(o)
    \/ Deliver(o)
    \/ DigestOverBudget(o)

Spec == Init /\ [][Next]_vars

-----------------------------------------------------------------------------
(* Properties.                                                             *)

Issued(fates) == {i \in DOMAIN log : log[i].fate \in fates}

\* Scans that came through folding; the budget decides where they go.
Reached == {i \in Issued({"delivered", "over_budget"}) : log[i].keys = {}}

Sound(ref) ==
    ref # None => /\ ref.id \in DOMAIN log
                  /\ ref.found = (log[ref.id].keys # {})

\* "Folding never hides a finding" rests on flags kept far from the alerts they
\* speak of: whatever the episodes, the daily entries and the campaigns say of
\* an alert, that it carried a finding or not, is true of that alert.
TruthfulFlags ==
    /\ \A a \in Addr : /\ episodes[a] # None => /\ Sound(episodes[a].window)
                                               /\ Sound(episodes[a].queued)
                       /\ queued[a] # None => Sound(queued[a].ref)
    /\ \A u \in UserAgent : campaigns[u] # None => Sound(campaigns[u].ref)

\* The windows in which an address fired, as known when row i was written.
FiringWindows(i) ==
    {log[j].ts : j \in {j \in 1 .. i : /\ log[j].ip = log[i].ip
                                       /\ log[j].fired
                                       /\ log[j].fate # "suppressed"}}

\* Only a sustained scanner reaches the queue: behind every scan that came
\* through folding stand HighWindows distinct firing windows of its address,
\* ending with its own and nowhere further apart than EPISODE_GAP.
SustainedOnly ==
    Progressive => \A i \in Reached : \E W \in SUBSET FiringWindows(i) :
        /\ Cardinality(W) >= HighWindows
        /\ log[i].ts \in W
        /\ \A w \in W \ {log[i].ts} : \E v \in W : w < v /\ v - w <= EpisodeGap
        /\ \A w \in W : w <= log[i].ts

\* An address reaches the queue once per event-time day, exposures apart,
\* however its fires spread over user-agents, episodes and midnight.
QueuedOncePerDay ==
    Progressive => \A i, j \in Reached :
        log[i].ip = log[j].ip /\ Day(log[i].ts) = Day(log[j].ts) => i = j

\* One actor on many addresses is one alert: no two scans of one user-agent
\* reach the queue within EPISODE_GAP of each other.
OneAlertPerCampaign ==
    Progressive => \A i, j \in Reached :
        /\ i < j
        /\ log[i].ua = log[j].ua
        => log[j].ts - log[i].ts > EpisodeGap

\* The queue never takes more scans of one day than the budget, and the budget
\* has spent exactly what was delivered: exposures are outside of it.
BudgetCap ==
    \A d \in Days :
        LET used == {i \in Reached : log[i].fate = "delivered" /\ Day(log[i].ts) = d}
        IN  spent[d] = Cardinality(used) /\ Cardinality(used) <= DailyBudget

\* The tracker and the queue agree: what is tracked of an exposure is an alert
\* that was delivered, names it and has that time, and no alert that raised the
\* exposure alone is newer.
TrackerTrue ==
    /\ \A k \in Key : exposed[k] # None =>
          /\ exposed[k].id \in Issued({"delivered"})
          /\ k \in log[exposed[k].id].keys
          /\ log[exposed[k].id].ts = exposed[k].at
    /\ \A i \in Issued({"delivered"}) : \A k \in Key :
          log[i].keys = {k} => exposed[k] # None /\ log[i].ts <= exposed[k].at

\* Every download of an alertable exposure, whether the models fired or not, is
\* answered by an alert that names the exposure, was delivered, and is not
\* older than REALERT_AFTER.
ExposureCovered ==
    \A i \in DOMAIN log : \A k \in log[i].keys \ LowImpact :
        \E j \in 1 .. i :
            /\ log[j].fate = "delivered"
            /\ k \in log[j].keys
            /\ (i = j \/ log[i].ts - log[j].ts < RealertAfter)

\* One alert per exposure, not per downloader: an alert that raises a single
\* exposure is not followed by another of the same within REALERT_AFTER.
ExposureNotRepeated ==
    \A i, j \in Issued({"delivered"}) : \A k \in Key :
        i < j /\ log[i].keys = {k} /\ log[j].keys = {k}
        => log[j].ts - log[i].ts >= RealertAfter

\* An exposure folds into a delivered alert that names one of its exposures:
\* the analyst who opens that alert sees what was downloaded again.
ExposureFoldsHome ==
    \A i \in Issued({"folded"}) : log[i].keys # {} =>
        /\ log[i].into \in Issued({"delivered"})
        /\ log[log[i].into].keys \cap log[i].keys # {}

\* A progressive scan that folds into "the address's queued alert" folds into an
\* alert that reached the queue.
FoldsIntoQueued ==
    \A i \in Issued({"folded"}) :
        log[i].by \in {"episode", "campaign"} => log[log[i].into].fate = "delivered"

\* "An allowed exposure is not alerted": no alert is ever opened for one.
AllowedNotAlerted == \A k \in Allowed : exposed[k] = None

\* The first fire of an entity opens an alert only after its address was quiet
\* for the whole cooldown, under every user-agent.
CooldownQuiet ==
    ~Progressive => \A i \in Reached, j \in DOMAIN log :
        j < i /\ log[j].ip = log[i].ip /\ log[j].fate # "suppressed"
        => log[i].ts - log[j].ts > Cooldown

\* Repeats fold into the alert their address opened last.
FoldsIntoLatest ==
    ~Progressive => \A i \in Issued({"folded"}) :
        /\ log[i].into \in Reached
        /\ log[log[i].into].ip = log[i].ip
        /\ \A j \in Reached : j < i /\ log[j].ip = log[i].ip => j <= log[i].into
=============================================================================
