----------------------------- MODULE Lifecycle -----------------------------
(***************************************************************************)
(* The life of a use case's models: train_bundle of training/trainer.py    *)
(* makes a version, scripts/check_candidate.py replays it beside the one   *)
(* that serves and records a verdict, and the registry's gate decides by   *)
(* it what may serve (registry/store.py).  Each is one step here; module   *)
(* Registry has their steps, overlaps and failures.                        *)
(*                                                                         *)
(* A version is what it catches: of each filed incident the addresses that *)
(* fire in a replay, and its canary.  Left out: fitting and scoring, what  *)
(* is printed, and incidents that are filed later.                         *)
(***************************************************************************)
EXTENDS Integers, FiniteSets

CONSTANTS
    None,
    Incident,         \* captured attacks in incidents/<slug>
    Quality,          \* what a version may be like
    Blank,            \* the quality of a version that is not there yet
    MinTrainWindows,  \* _MIN_TRAIN_WINDOWS
    Rows,             \* numbers of windows that training may meet
    MaxVersions, MaxChanges

ASSUME LifecycleAssumption ==
    /\ \A q \in Quality : q.canary \in BOOLEAN /\ DOMAIN q.catches = Incident
    /\ Blank \in Quality
    /\ MinTrainWindows \in 1 .. 100   \* it is 20; a corpus of a hundred is not cleaned
    /\ Rows \subseteq Nat
    /\ {MaxVersions, MaxChanges} \subseteq Nat \ {0}
    /\ None \notin Nat

Version == 1 .. MaxVersions

VARIABLES
    registry,  \* what the registry's directory says
    changes,   \* number of its changes
    proven     \* history: incidents caught by what served, since the last force or rollback

lifeVars == <<registry, changes, proven>>

\* An approval check: its verdict, and what it compared the version with.
Report == [verdict: {"PASS", "WARN", "DO_NOT_APPROVE"}, serving: Version]

\* At at a version stands when it was promoted last, 0 for never.
Registry == [made: 0 .. MaxVersions, current: Version \cup {None}, candidate: Version \cup {None},
             report: [Version -> Report \cup {None}], displaced: [Version -> Version \cup {None}],
             at: [Version -> Nat], quality: [Version -> Quality]]

-----------------------------------------------------------------------------
(* Training.                                                               *)

\* _drop_most_anomalous: one in a thousand, at least one, of more than a hundred.
Cleaned(rows) ==
    IF rows <= 100 THEN rows ELSE rows - (IF rows <= 1000 THEN 1 ELSE rows \div 1000)

\* train_bundle gets past its TrainingErrors.
Trains(windows, vectors, models) ==
    windows >= MinTrainWindows /\ vectors >= MinTrainWindows /\ models > 0

\* The rows of a model, and of its calibrator: the use case's selection of some of the
\* cleaned ones, unless these are too few.
Fitted(cleaned, selected) == IF selected < MinTrainWindows THEN cleaned ELSE selected

\* A training that fails changes nothing.
CanTrain == registry.made < MaxVersions /\ {r \in Rows \X Rows : Trains(r[1], r[2], 1)} # {}

Train(quality) ==
    /\ CanTrain /\ changes < MaxChanges
    /\ changes' = changes + 1
    /\ registry' = [registry EXCEPT !.made = @ + 1, !.candidate = registry.made + 1,
                                    !.quality[registry.made + 1] = quality]
    /\ UNCHANGED proven

-----------------------------------------------------------------------------
(* The approval check.                                                     *)

Catches(quality) == {i \in Incident : quality.catches[i] # {}}

\* Mutant of BlindTo: what is caught is counted over all incidents.
BlindToCounting(candidate, serving) ==
    IF Cardinality(Catches(candidate)) < Cardinality(Catches(serving))
    THEN Catches(serving) \ Catches(candidate) ELSE {}

\* Incidents of which the serving version catches something and the candidate nothing.
BlindTo(candidate, serving) == Catches(serving) \ Catches(candidate)

WeakerOn(candidate, serving) ==
    {i \in Incident : serving.catches[i] \ candidate.catches[i] # {}}

\* Whether the replay had windows of the canary, was long enough for a fire rate, and
\* had the candidate fire more.
Replay == [canary: BOOLEAN, measured: BOOLEAN, more: BOOLEAN]

Verdict(candidate, serving, replay) ==
    IF (replay.canary /\ ~candidate.canary) \/ BlindTo(candidate, serving) # {}
    THEN "DO_NOT_APPROVE"
    ELSE IF \/ WeakerOn(candidate, serving) # {}
            \/ ~replay.canary \/ ~replay.measured \/ replay.more
    THEN "WARN"
    ELSE "PASS"

Check(replay) ==
    /\ registry.candidate # None /\ registry.current # None
    /\ changes < MaxChanges
    /\ changes' = changes + 1
    /\ registry' = [registry EXCEPT !.report[registry.candidate] =
            [verdict |-> Verdict(registry.quality[registry.candidate],
                                 registry.quality[registry.current], replay),
             serving |-> registry.current]]
    /\ UNCHANGED proven

-----------------------------------------------------------------------------
(* Promotion and rollback.                                                 *)

\* What serves from now on, and whether what it catches was compared.
Serves(after, compared) ==
    /\ changes < MaxChanges
    /\ changes' = changes + 1
    /\ registry' = after
    /\ proven' = Catches(after.quality[after.current]) \cup (IF compared THEN proven ELSE {})

\* A version that serves already only loses its candidate pointer.
Promoted(v) ==
    IF v = registry.current THEN [registry EXCEPT !.candidate = None]
    ELSE [registry EXCEPT !.current = v, !.candidate = None,
                          !.displaced[v] = registry.current, !.at[v] = changes + 1]

\* Mutant of Approves: a check against whatever served then.
ApprovesEver(report) == report # None /\ report.verdict \in {"PASS", "WARN"}

Approves(report) ==
    report # None /\ report.verdict \in {"PASS", "WARN"} /\ report.serving = registry.current

\* _promotion_gate, without a reason to force it.
Admits(v) == registry.current = None \/ Approves(registry.report[v])

Promotes(v) == v <= registry.made /\ (v = registry.current \/ Admits(v))

Promote(v) == Promotes(v) /\ Serves(Promoted(v), registry.current # None)

\* An operator's reason.
Override(v) == v <= registry.made /\ ~Promotes(v) /\ Serves(Promoted(v), FALSE)

\* The runtime finds nothing to serve: it trains on live traffic, and promotes.
ColdStart(quality) ==
    /\ registry.current = None /\ CanTrain
    /\ LET v == registry.made + 1 IN
        Serves([registry EXCEPT !.made = v, !.current = v, !.candidate = None,
                                !.at[v] = changes + 1, !.quality[v] = quality], FALSE)

\* Versions that have served, without the pointed ones.
Served == {v \in Version \ {registry.current, registry.candidate} : registry.at[v] > 0}

\* rollback_target.
Targets ==
    IF registry.current = None THEN {}
    ELSE IF registry.displaced[registry.current] \notin {None, registry.current}
    THEN {registry.displaced[registry.current]}
    ELSE {v \in Served : \A w \in Served : registry.at[w] <= registry.at[v]}

Rollback == \E v \in Targets : Serves([registry EXCEPT !.current = v], FALSE)

-----------------------------------------------------------------------------
\* Nothing was ever trained.
Nothing ==
    [made |-> 0, current |-> None, candidate |-> None, report |-> [v \in Version |-> None],
     displaced |-> [v \in Version |-> None], at |-> [v \in Version |-> 0],
     quality |-> [v \in Version |-> Blank]]

\* The first version serves, and the others wait.
Deployed(quality) ==
    [Nothing EXCEPT !.made = MaxVersions, !.current = 1, !.candidate = MaxVersions, !.at[1] = 1,
                    !.quality = quality]

LifeInit ==
    /\ registry \in {Nothing} \cup {Deployed(quality) : quality \in [Version -> Quality]}
    /\ changes = 1
    /\ proven = IF registry.current = None THEN {} ELSE Catches(registry.quality[1])

LifeNext ==
    \/ \E quality \in Quality : Train(quality) \/ ColdStart(quality)
    \/ \E replay \in Replay : Check(replay)
    \/ \E v \in Version : Promote(v) \/ Override(v)
    \/ Rollback

LifeSpec == LifeInit /\ [][LifeNext]_lifeVars

-----------------------------------------------------------------------------
(* Properties.                                                             *)

LifeTypeOK ==
    /\ registry \in Registry
    /\ changes \in 1 .. MaxChanges
    /\ proven \subseteq Incident

\* "A candidate that passed its canary was once blind to a live botnet" (store.py:201):
\* over any chain of promotions through the gate, and whatever checks are out of date by
\* then, what serves still catches something of every incident that anything in the
\* chain has caught.  A force or a rollback starts a new chain.
IncidentsStayCaught ==
    registry.current # None => proven \subseteq Catches(registry.quality[registry.current])

\* No model is fitted or calibrated on fewer windows than training asks for, though
\* the threshold is looked at before the most anomalous ones are dropped and a use case
\* selects among the rest (trainer.py:104-149).
FittedOnEnough ==
    \A windows, vectors, selected, models \in Nat :
        Trains(windows, vectors, models) => Fitted(Cleaned(vectors), selected) >= MinTrainWindows
=============================================================================
