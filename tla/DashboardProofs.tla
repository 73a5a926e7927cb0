-------------------------- MODULE DashboardProofs ---------------------------
(***************************************************************************)
(* Theorems of Lifecycle, of Dashboard and of Verifier, for any versions,  *)
(* incidents, checks, sizes of a corpus, threads and times, and any        *)
(* alerts, exposures, sites and rate.                                      *)
(*                                                                         *)
(* Lifecycle: training keeps its threshold, the registry is always well    *)
(* formed, and what serves is blind to no incident that the chain of       *)
(* promotions behind it has caught.  IncidentsStayCaught is not inductive: *)
(* a promotion relies on a report that was written many steps before,      *)
(* about two versions that must still be what they were.  Compared says    *)
(* what such a report is worth, and Made that no version changes once a    *)
(* report or a pointer speaks of it.                                       *)
(*                                                                         *)
(* Dashboard: the console does to the registry only what a script may do,  *)
(* its pictures are fresh and its buttons right whatever the request       *)
(* threads interleave to, and its chart invents nothing.  The properties   *)
(* of pages follow from what is known of a picture from its first read     *)
(* until it leaves the cache: Sound, about the time and the registry's     *)
(* state it was read in, and Whole, once its bundles are read.             *)
(*                                                                         *)
(* Verifier, another part of the console: what it calls confirmed was      *)
(* public while it was checked, and an exposure is asked for again within  *)
(* the interval only by a call that was decided on before there was an     *)
(* answer.                                                                 *)
(***************************************************************************)
EXTENDS Dashboard, Verifier, TLAPS

-----------------------------------------------------------------------------
(* Lifecycle.                                                              *)

Approving == {"PASS", "WARN"}

\* What is said of versions, is said of versions that were trained.
Made ==
    /\ registry.current # None => registry.current <= registry.made
    /\ registry.candidate # None => registry.candidate <= registry.made
    /\ \A v \in Version :
        /\ registry.report[v] # None => v <= registry.made /\ registry.report[v].serving <= registry.made
        /\ registry.displaced[v] # None => registry.displaced[v] <= registry.made
        /\ registry.at[v] > 0 => v <= registry.made

\* An approving report compared the version with the one it names.
Compared ==
    \A v \in Version : registry.report[v] # None /\ registry.report[v].verdict \in Approving =>
        Catches(registry.quality[registry.report[v].serving]) \subseteq Catches(registry.quality[v])

LifeInv == LifeTypeOK /\ Made /\ Compared /\ IncidentsStayCaught

-----------------------------------------------------------------------------
(* Training.                                                               *)

\* The most anomalous windows that are dropped never take a corpus below the threshold.
LEMMA CleanedEnough ==
    ASSUME NEW windows \in Nat, windows >= MinTrainWindows
    PROVE  Cleaned(windows) >= MinTrainWindows /\ Cleaned(windows) \in Nat
<1>1. MinTrainWindows \in 1 .. 100
  BY LifecycleAssumption
<1>2. CASE windows <= 1000
  BY <1>1, <1>2 DEF Cleaned
<1>3. CASE windows > 1000
  <2>1. windows \div 1000 \in Nat /\ 1000 * (windows \div 1000) <= windows
    OBVIOUS
  <2>2. windows - windows \div 1000 >= 100
    BY <1>3, <2>1
  <2> QED
    BY <1>1, <1>3, <2>1, <2>2 DEF Cleaned
<1> QED
  BY <1>2, <1>3

\* No model and no calibrator is fitted on fewer windows than train_bundle asks for
\* (trainer.py:104-149), whatever a use case selects.
THEOREM ThresholdHolds == FittedOnEnough
<1> SUFFICES ASSUME NEW windows \in Nat, NEW vectors \in Nat, NEW selected \in Nat,
                    NEW models \in Nat, Trains(windows, vectors, models)
             PROVE  Fitted(Cleaned(vectors), selected) >= MinTrainWindows
  BY DEF FittedOnEnough
<1>1. vectors >= MinTrainWindows /\ MinTrainWindows \in Nat
  BY LifecycleAssumption DEF Trains
<1> QED
  BY <1>1, CleanedEnough DEF Fitted

-----------------------------------------------------------------------------
LEMMA Bounds ==
    /\ MaxVersions \in Nat \ {0} /\ MaxChanges \in Nat \ {0}
    /\ None \notin Nat /\ None \notin Version
    /\ Blank \in Quality
BY LifecycleAssumption DEF Version

LEMMA Fields ==
    ASSUME LifeTypeOK
    PROVE  /\ registry.made \in 0 .. MaxVersions
           /\ registry.current \in Version \cup {None}
           /\ registry.candidate \in Version \cup {None}
           /\ registry.report \in [Version -> Report \cup {None}]
           /\ registry.displaced \in [Version -> Version \cup {None}]
           /\ registry.at \in [Version -> Nat]
           /\ registry.quality \in [Version -> Quality]
           /\ changes \in Nat
BY DEF LifeTypeOK, Registry

LEMMA CatchesIncidents == ASSUME NEW q PROVE Catches(q) \subseteq Incident
BY DEF Catches

LEMMA VerdictType ==
    ASSUME NEW q, NEW r, NEW replay
    PROVE  /\ Verdict(q, r, replay) \in {"PASS", "WARN", "DO_NOT_APPROVE"}
           /\ Verdict(q, r, replay) \in Approving => Catches(r) \subseteq Catches(q)
BY DEF Verdict, Approving, BlindTo

\* A rollback goes to a version that was trained.
LEMMA TargetsMade ==
    ASSUME LifeTypeOK, Made, NEW v \in Targets
    PROVE  v \in Version /\ v <= registry.made /\ registry.current # None
<1>1. registry.current # None
  BY DEF Targets
<1>2. CASE registry.displaced[registry.current] \notin {None, registry.current}
  BY <1>1, <1>2, Fields DEF Targets, Made
<1>3. CASE registry.displaced[registry.current] \in {None, registry.current}
  <2>1. v \in Version /\ registry.at[v] > 0
    BY <1>1, <1>3 DEF Targets, Served
  <2> QED
    BY <1>1, <2>1 DEF Made
<1> QED
  BY <1>2, <1>3

-----------------------------------------------------------------------------
(* The steps.  A version that is trained anew has not been spoken of yet.  *)

LEMMA NextVersion ==
    ASSUME LifeTypeOK, registry.made < MaxVersions
    PROVE  /\ registry.made + 1 \in Version /\ registry.made + 1 \in 0 .. MaxVersions
           /\ \A v \in Version : v \in Nat
BY Fields, Bounds DEF Version

LEMMA MadeGrows ==
    ASSUME LifeTypeOK, Made, NEW n \in Nat, n = registry.made + 1
    PROVE  /\ registry.current # None => registry.current <= n /\ registry.current # n
           /\ \A v \in Version :
                /\ registry.report[v] # None => v <= n /\ registry.report[v].serving <= n
                /\ registry.displaced[v] # None => registry.displaced[v] <= n
                /\ registry.at[v] > 0 => v <= n
<1>1. registry.made \in Nat /\ \A v \in Version : v \in Nat
  BY Fields, Bounds DEF Version
<1>2. registry.current # None => registry.current <= n /\ registry.current # n
  BY <1>1, Fields DEF Made
<1>3. ASSUME NEW v \in Version
      PROVE  /\ registry.report[v] # None => v <= n /\ registry.report[v].serving <= n
             /\ registry.displaced[v] # None => registry.displaced[v] <= n
             /\ registry.at[v] > 0 => v <= n
  <2>1. registry.report[v] # None => registry.report[v].serving \in Nat
    BY <1>1, Fields DEF Report
  <2>2. registry.displaced[v] # None => registry.displaced[v] \in Nat
    BY <1>1, Fields
  <2> QED
    BY <1>1, <2>1, <2>2 DEF Made
<1> QED
  BY <1>2, <1>3

LEMMA OthersKeep ==
    ASSUME LifeTypeOK, Made, NEW n \in Nat, n = registry.made + 1, NEW quality, NEW qualities,
           qualities = [registry.quality EXCEPT ![n] = quality]
    PROVE  /\ \A v \in Version : v <= registry.made => qualities[v] = registry.quality[v]
           /\ Compared =>
                \A v \in Version : registry.report[v] # None /\ registry.report[v].verdict \in Approving =>
                    Catches(qualities[registry.report[v].serving]) \subseteq Catches(qualities[v])
<1>1. \A v \in Version : v <= registry.made => qualities[v] = registry.quality[v]
  <2>1. registry.made \in Nat /\ \A v \in Version : v \in Nat
    BY Fields, Bounds DEF Version
  <2> QED
    BY <2>1, Fields
<1>2. ASSUME Compared, NEW v \in Version, registry.report[v] # None,
             registry.report[v].verdict \in Approving
      PROVE  Catches(qualities[registry.report[v].serving]) \subseteq Catches(qualities[v])
  <2>1. registry.report[v].serving \in Version
    BY <1>2, Fields DEF Report
  <2>2. v <= registry.made /\ registry.report[v].serving <= registry.made
    BY <1>2 DEF Made
  <2>3. /\ qualities[v] = registry.quality[v]
        /\ qualities[registry.report[v].serving] = registry.quality[registry.report[v].serving]
    BY <1>1, <2>1, <2>2
  <2> QED
    BY <1>2, <2>3 DEF Compared
<1> QED
  BY <1>1, <1>2

LEMMA TrainKeeps ==
    ASSUME LifeInv, NEW quality \in Quality, Train(quality)
    PROVE  LifeInv'
<1> DEFINE n == registry.made + 1
<1>1. /\ registry' = [registry EXCEPT !.made = @ + 1, !.candidate = n, !.quality[n] = quality]
      /\ changes' = changes + 1 /\ changes < MaxChanges /\ proven' = proven
      /\ registry.made < MaxVersions
  BY DEF Train, CanTrain
<1>2. n \in Version /\ n \in Nat /\ n \in 0 .. MaxVersions /\ LifeTypeOK /\ Made
  BY NextVersion, <1>1 DEF LifeInv
<1>3. /\ registry'.made = n /\ registry'.current = registry.current /\ registry'.candidate = n
      /\ registry'.report = registry.report /\ registry'.displaced = registry.displaced
      /\ registry'.at = registry.at
      /\ registry'.quality = [registry.quality EXCEPT ![n] = quality]
  BY <1>1, Zenon DEF LifeInv, LifeTypeOK, Registry
<1>4. LifeTypeOK'
  <2>1. registry' = [made |-> n, current |-> registry.current, candidate |-> n,
                     report |-> registry.report, displaced |-> registry.displaced,
                     at |-> registry.at, quality |-> registry'.quality]
    BY <1>1, <1>2 DEF LifeTypeOK, Registry
  <2>2. registry'.quality \in [Version -> Quality]
    BY <1>2, <1>3, Fields
  <2>3. registry' \in Registry
    BY <1>2, <2>1, <2>2, Fields DEF Registry
  <2> QED
    BY <1>1, <2>3, Bounds DEF LifeInv, LifeTypeOK
<1> HIDE DEF n
<1>5. n = registry.made + 1
  BY DEF n
<1>6. Made'
  BY <1>2, <1>3, <1>5, MadeGrows DEF Made
<1>7. Compared'
  BY <1>2, <1>3, <1>5, OthersKeep DEF LifeInv, Compared
<1>8. IncidentsStayCaught'
  <2>1. \A v \in Version : v <= registry.made => registry'.quality[v] = registry.quality[v]
    BY <1>2, <1>3, <1>5, OthersKeep
  <2> QED
    BY <1>1, <1>2, <1>3, <2>1, Fields DEF LifeInv, Made, IncidentsStayCaught
<1> QED
  BY <1>4, <1>6, <1>7, <1>8 DEF LifeInv

LEMMA CheckKeeps ==
    ASSUME LifeInv, NEW replay \in Replay, Check(replay)
    PROVE  LifeInv'
<1> DEFINE c == registry.candidate
           verdict == Verdict(registry.quality[c], registry.quality[registry.current], replay)
           written == [verdict |-> verdict, serving |-> registry.current]
<1>1. /\ registry' = [registry EXCEPT !.report[c] = written]
      /\ c # None /\ registry.current # None
      /\ changes' = changes + 1 /\ changes < MaxChanges /\ proven' = proven
  BY DEF Check
<1>2. c \in Version /\ registry.current \in Version /\ LifeTypeOK
  BY Fields, <1>1 DEF LifeInv
<1>3. written \in Report
  BY <1>2, VerdictType DEF Report
<1> HIDE DEF written
<1>4. /\ registry'.made = registry.made /\ registry'.current = registry.current
      /\ registry'.candidate = c /\ registry'.displaced = registry.displaced
      /\ registry'.at = registry.at /\ registry'.quality = registry.quality
      /\ registry'.report = [registry.report EXCEPT ![c] = written]
  BY <1>1, Zenon DEF LifeInv, LifeTypeOK, Registry
<1>5. LifeTypeOK'
  <2>1. registry' \in Registry
    BY <1>1, <1>2, <1>3, Fields DEF LifeTypeOK, Registry
  <2> QED
    BY <1>1, <2>1, Bounds DEF LifeInv, LifeTypeOK
<1>6. Made'
  BY <1>1, <1>2, <1>4, Fields DEF LifeInv, Made, written
<1>7. Compared'
  <2>1. verdict \in Approving =>
            Catches(registry.quality[registry.current]) \subseteq Catches(registry.quality[c])
    BY VerdictType
  <2> QED
    BY <1>2, <1>4, <2>1, Fields DEF LifeInv, Compared, written
<1>8. IncidentsStayCaught'
  BY <1>1, <1>4 DEF LifeInv, IncidentsStayCaught
<1> QED
  BY <1>5, <1>6, <1>7, <1>8 DEF LifeInv

\* What is promoted serves from then on, with nothing else changed that is relied on.
LEMMA PromotedKeeps ==
    ASSUME LifeInv, NEW v \in Version, v <= registry.made, NEW compared, Serves(Promoted(v), compared)
    PROVE  /\ LifeTypeOK' /\ Made' /\ Compared'
           /\ registry'.current = v /\ registry'.quality = registry.quality
<1>1. /\ registry' = Promoted(v) /\ changes' = changes + 1 /\ changes < MaxChanges
      /\ proven' = Catches(Promoted(v).quality[Promoted(v).current])
                        \cup (IF compared THEN proven ELSE {})
  BY DEF Serves
<1>2. LifeTypeOK /\ Made /\ Compared /\ proven \subseteq Incident
  BY DEF LifeInv, LifeTypeOK
<1>3. \E displaced, at :
        /\ registry' = [made |-> registry.made, current |-> v, candidate |-> None,
                        report |-> registry.report, displaced |-> displaced, at |-> at,
                        quality |-> registry.quality]
        /\ displaced \in [Version -> Version \cup {None}] /\ at \in [Version -> Nat]
        /\ \A w \in Version : /\ displaced[w] # None => displaced[w] <= registry.made
                              /\ at[w] > 0 => w <= registry.made
  <2>1. CASE v = registry.current
    <3>1. registry' = [made |-> registry.made, current |-> v, candidate |-> None,
                       report |-> registry.report, displaced |-> registry.displaced,
                       at |-> registry.at, quality |-> registry.quality]
      BY <1>1, <1>2, <2>1 DEF Promoted, LifeTypeOK, Registry
    <3> QED
      BY <1>2, <3>1, Fields DEF Made
  <2>2. CASE v # registry.current
    <3> DEFINE displaced == [registry.displaced EXCEPT ![v] = registry.current]
               at == [registry.at EXCEPT ![v] = changes + 1]
    <3>1. registry' = [made |-> registry.made, current |-> v, candidate |-> None,
                       report |-> registry.report, displaced |-> displaced,
                       at |-> at, quality |-> registry.quality]
      BY <1>1, <1>2, <2>2 DEF Promoted, LifeTypeOK, Registry
    <3>2. displaced \in [Version -> Version \cup {None}] /\ at \in [Version -> Nat]
      BY <1>2, Fields
    <3>3. \A w \in Version : /\ displaced[w] # None => displaced[w] <= registry.made
                             /\ at[w] > 0 => w <= registry.made
      BY <1>2, Fields DEF Made
    <3> QED
      BY <3>1, <3>2, <3>3
  <2> QED
    BY <2>1, <2>2
<1>4. /\ registry'.made = registry.made /\ registry'.current = v /\ registry'.candidate = None
      /\ registry'.report = registry.report /\ registry'.quality = registry.quality
      /\ \A w \in Version : /\ registry'.displaced[w] # None => registry'.displaced[w] <= registry.made
                            /\ registry'.at[w] > 0 => w <= registry.made
  BY <1>3
<1>5. LifeTypeOK'
  <2>1. registry' \in Registry
    BY <1>2, <1>3, Fields DEF Registry
  <2>2. proven' \subseteq Incident
    BY <1>1, <1>2, CatchesIncidents
  <2> QED
    BY <1>1, <1>2, <2>1, <2>2, Bounds DEF LifeTypeOK
<1>6. Made'
  BY <1>2, <1>4 DEF Made
<1>7. Compared'
  BY <1>2, <1>4 DEF Compared
<1> QED
  BY <1>4, <1>5, <1>6, <1>7

LEMMA PromoteKeeps ==
    ASSUME LifeInv, NEW v \in Version, Promote(v)
    PROVE  LifeInv'
<1>1. Promotes(v) /\ v <= registry.made /\ Serves(Promoted(v), registry.current # None)
  BY DEF Promote, Promotes
<1>2. /\ LifeTypeOK' /\ Made' /\ Compared'
      /\ registry'.current = v /\ registry'.quality = registry.quality
  BY <1>1, PromotedKeeps
<1>3. proven' = Catches(registry.quality[v]) \cup (IF registry.current # None THEN proven ELSE {})
  BY <1>1, <1>2 DEF Serves
<1>4. registry.current # None => proven \subseteq Catches(registry.quality[v])
  <2>1. CASE v = registry.current
    BY <2>1 DEF LifeInv, IncidentsStayCaught
  <2>2. CASE v # registry.current /\ registry.current # None
    <3>1. Approves(registry.report[v])
      BY <1>1, <2>2 DEF Promotes, Admits
    <3>2. Catches(registry.quality[registry.current]) \subseteq Catches(registry.quality[v])
      BY <3>1 DEF Approves, LifeInv, Compared, Approving
    <3> QED
      BY <2>2, <3>2 DEF LifeInv, IncidentsStayCaught
  <2> QED
    BY <2>1, <2>2
<1> QED
  BY <1>2, <1>3, <1>4 DEF LifeInv, IncidentsStayCaught

LEMMA OverrideKeeps ==
    ASSUME LifeInv, NEW v \in Version, Override(v)
    PROVE  LifeInv'
<1>1. v <= registry.made /\ Serves(Promoted(v), FALSE)
  BY DEF Override
<1>2. /\ LifeTypeOK' /\ Made' /\ Compared'
      /\ registry'.current = v /\ registry'.quality = registry.quality
  BY <1>1, PromotedKeeps
<1>3. proven' = Catches(registry.quality[v])
  BY <1>1, <1>2 DEF Serves
<1> QED
  BY <1>2, <1>3 DEF LifeInv, IncidentsStayCaught

LEMMA ColdStartKeeps ==
    ASSUME LifeInv, NEW quality \in Quality, ColdStart(quality)
    PROVE  LifeInv'
<1> DEFINE n == registry.made + 1
           qualities == [registry.quality EXCEPT ![n] = quality]
           at == [registry.at EXCEPT ![n] = changes + 1]
<1>1. /\ registry' = [registry EXCEPT !.made = n, !.current = n, !.candidate = None,
                                      !.at[n] = changes + 1, !.quality[n] = quality]
      /\ changes' = changes + 1 /\ changes < MaxChanges /\ registry.made < MaxVersions
      /\ proven' = Catches(registry'.quality[registry'.current])
  BY DEF ColdStart, CanTrain, Serves
<1>2. n \in Version /\ n \in Nat /\ n \in 0 .. MaxVersions /\ LifeTypeOK /\ Made
  BY NextVersion, <1>1 DEF LifeInv
<1>3. registry' = [made |-> n, current |-> n, candidate |-> None,
                   report |-> registry.report, displaced |-> registry.displaced,
                   at |-> at, quality |-> qualities]
  BY <1>1, <1>2 DEF LifeTypeOK, Registry
<1>4. qualities \in [Version -> Quality] /\ at \in [Version -> Nat]
  BY <1>2, Fields
<1>5. LifeTypeOK'
  <2>1. registry' \in Registry
    BY <1>2, <1>3, <1>4, Fields DEF Registry
  <2>2. proven' \subseteq Incident
    BY <1>1, CatchesIncidents
  <2> QED
    BY <1>1, <1>2, <2>1, <2>2, Bounds DEF LifeTypeOK
<1>6. \A v \in Version : at[v] > 0 => v <= n
  BY <1>2, Fields, MadeGrows
<1>7. /\ registry'.made = n /\ registry'.current = n /\ registry'.candidate = None
      /\ registry'.report = registry.report /\ registry'.displaced = registry.displaced
      /\ registry'.at = at /\ registry'.quality = qualities
  BY <1>3
<1> HIDE DEF at, qualities
<1>8. Made'
  BY <1>2, <1>6, <1>7, MadeGrows DEF Made
<1>9. Compared'
  BY <1>2, <1>7, OthersKeep DEF LifeInv, Compared, qualities
<1> QED
  BY <1>1, <1>5, <1>8, <1>9 DEF LifeInv, IncidentsStayCaught

LEMMA RollbackKeeps ==
    ASSUME LifeInv, Rollback
    PROVE  LifeInv'
<1>1. PICK v \in Targets : Serves([registry EXCEPT !.current = v], FALSE)
  BY DEF Rollback
<1>2. LifeTypeOK /\ Made /\ v \in Version /\ v <= registry.made
  BY TargetsMade DEF LifeInv
<1>3. /\ registry' = [made |-> registry.made, current |-> v, candidate |-> registry.candidate,
                      report |-> registry.report, displaced |-> registry.displaced,
                      at |-> registry.at, quality |-> registry.quality]
      /\ changes' = changes + 1 /\ changes < MaxChanges
      /\ proven' = Catches(registry'.quality[registry'.current])
  BY <1>1, <1>2 DEF Serves, LifeTypeOK, Registry
<1>4. LifeTypeOK'
  <2>1. registry' \in Registry
    BY <1>2, <1>3, Fields DEF Registry
  <2>2. proven' \subseteq Incident
    BY <1>3, CatchesIncidents
  <2> QED
    BY <1>2, <1>3, <2>1, <2>2, Bounds DEF LifeTypeOK
<1>5. Made' /\ Compared'
  BY <1>2, <1>3 DEF LifeInv, Made, Compared
<1> QED
  BY <1>3, <1>4, <1>5 DEF LifeInv, IncidentsStayCaught

-----------------------------------------------------------------------------
LEMMA LifeStarts == LifeInit => LifeInv
<1> SUFFICES ASSUME LifeInit PROVE LifeInv
  OBVIOUS
<1>1. Nothing \in Registry
  BY Bounds DEF Nothing, Registry
<1>2. CASE registry = Nothing
  <2>1. proven = {} /\ changes = 1
    BY <1>2 DEF LifeInit, Nothing
  <2>2. Made /\ Compared /\ IncidentsStayCaught
    BY <1>2, Bounds DEF Nothing, Made, Compared, IncidentsStayCaught
  <2> QED
    BY <1>1, <1>2, <2>1, <2>2, Bounds DEF LifeInv, LifeTypeOK
<1>3. CASE registry # Nothing
  <2>1. PICK quality \in [Version -> Quality] : registry = Deployed(quality)
    BY <1>3 DEF LifeInit
  <2>2. registry = [made |-> MaxVersions, current |-> 1, candidate |-> MaxVersions,
                    report |-> [v \in Version |-> None], displaced |-> [v \in Version |-> None],
                    at |-> [[v \in Version |-> 0] EXCEPT ![1] = 1], quality |-> quality]
    BY <2>1 DEF Deployed, Nothing
  <2>3. 1 \in Version /\ MaxVersions \in Version /\ MaxVersions \in 0 .. MaxVersions
    BY Bounds DEF Version
  <2>4. registry \in Registry
    BY <2>2, <2>3 DEF Registry
  <2>5. proven = Catches(registry.quality[1]) /\ changes = 1
    BY <2>2, Bounds DEF LifeInit
  <2>6. \A v \in Version : v <= MaxVersions
    BY Bounds DEF Version
  <2>7. Made /\ Compared /\ IncidentsStayCaught
    BY <2>2, <2>3, <2>5, <2>6 DEF Made, Compared, IncidentsStayCaught
  <2> QED
    BY <2>4, <2>5, <2>7, CatchesIncidents, Bounds DEF LifeInv, LifeTypeOK
<1> QED
  BY <1>2, <1>3

LEMMA LifeStep == LifeInv /\ [LifeNext]_lifeVars => LifeInv'
<1> SUFFICES ASSUME LifeInv, [LifeNext]_lifeVars PROVE LifeInv'
  OBVIOUS
<1>1. CASE \E quality \in Quality : Train(quality) \/ ColdStart(quality)
  BY <1>1, TrainKeeps, ColdStartKeeps
<1>2. CASE \E replay \in Replay : Check(replay)
  BY <1>2, CheckKeeps
<1>3. CASE \E v \in Version : Promote(v) \/ Override(v)
  BY <1>3, PromoteKeeps, OverrideKeeps
<1>4. CASE Rollback
  BY <1>4, RollbackKeeps
<1>5. CASE UNCHANGED lifeVars
  BY <1>5 DEF lifeVars, LifeInv, LifeTypeOK, Made, Compared, IncidentsStayCaught
<1> QED
  BY <1>1, <1>2, <1>3, <1>4, <1>5 DEF LifeNext

\* A registry directory is well formed, and what serves is blind to no incident that the
\* promotions behind it had caught (store.py:201), whoever runs the scripts in whatever
\* order.
THEOREM StaysCaught == LifeSpec => [](LifeTypeOK /\ IncidentsStayCaught)
<1>1. LifeInv => LifeTypeOK /\ IncidentsStayCaught
  BY DEF LifeInv
<1> QED
  BY <1>1, LifeStarts, LifeStep, PTL DEF LifeSpec

-----------------------------------------------------------------------------
(* The console works on that registry in these steps only.                 *)

LEMMA ConsoleStep == Next => LifeNext \/ UNCHANGED lifeVars
<1> SUFFICES ASSUME Next PROVE LifeNext \/ UNCHANGED lifeVars
  OBVIOUS
<1>1. CASE CommandLine
  BY <1>1 DEF CommandLine, LifeNext
<1>2. CASE Fire \/ WriteHealth \/ Kill \/ Restart
  BY <1>2 DEF Fire, WriteHealth, Kill, Restart, Runs
<1>3. CASE \E w \in Thread, view \in View : Poll(w, view)
  BY <1>3 DEF Poll, Console
<1>4. CASE \E w \in Thread : Read(w) \/ Produce(w) \/ ProduceBreaks(w) \/ Store(w) \/ Invalidate(w)
  BY <1>4 DEF Read, Produce, ProduceBreaks, Store, Invalidate, Console
<1>5. CASE \E w \in Thread : Post(w) \/ PostBreaks(w)
  BY <1>5 DEF Post, PostBreaks, LifeNext
<1>6. CASE Sample \/ Tick
  BY <1>6 DEF Sample, Tick
<1> QED
  BY <1>1, <1>2, <1>3, <1>4, <1>5, <1>6 DEF Next

\* The console, its cache and its buttons (state.py:404-433) implement the registry's
\* life: its requests, however they interleave, do nothing a script could not do.
THEOREM ConsoleImplementsLifecycle == Spec => LifeSpec
<1>1. Init => LifeInit
  BY DEF Init
<1>2. [Next]_vars => [LifeNext]_lifeVars
  BY ConsoleStep DEF vars
<1> QED
  BY <1>1, <1>2, PTL DEF Spec, LifeSpec

\* Nor does a dashboard's promotion, rollback or stale page make the deployment blind to
\* an incident that the chain of promotions behind it had caught.
THEOREM ConsoleStaysCaught == Spec => []IncidentsStayCaught
BY ConsoleImplementsLifecycle, StaysCaught, PTL

-----------------------------------------------------------------------------
(* The chart.                                                              *)

LEMMA DeltaIs ==
    ASSUME NEW m \in Nat, NEW n \in Nat
    PROVE  Delta(m, n) = IF m >= n THEN m - n ELSE 0
<1>1. CASE m >= n
  <2>1. \A x \in {0, m - n} : (\A y \in {0, m - n} : x >= y) <=> x = m - n
    BY <1>1
  <2> QED
    BY <1>1, <2>1 DEF Delta, Max
<1>2. CASE m < n
  <2>1. \A x \in {0, m - n} : (\A y \in {0, m - n} : x >= y) <=> x = 0
    BY <1>2
  <2> QED
    BY <1>2, <2>1 DEF Delta, Max
<1> QED
  BY <1>1, <1>2

LEMMA DeltaFacts ==
    ASSUME NEW l \in Nat, NEW m \in Nat, NEW n \in Nat
    PROVE  /\ Delta(m, n) \in Nat
           /\ Delta(m + 1, n) <= Delta(m, n) + 1
           /\ Delta(n, l) <= Delta(n, m) + Delta(m, l)
           /\ Delta(n, n) = 0 /\ Delta(0, n) = 0 /\ Delta(n, 0) = n
<1>1. m + 1 \in Nat /\ 0 \in Nat
  OBVIOUS
<1>2. /\ Delta(m, n) = IF m >= n THEN m - n ELSE 0
      /\ Delta(m + 1, n) = IF m + 1 >= n THEN m + 1 - n ELSE 0
      /\ Delta(n, l) = IF n >= l THEN n - l ELSE 0
      /\ Delta(n, m) = IF n >= m THEN n - m ELSE 0
      /\ Delta(m, l) = IF m >= l THEN m - l ELSE 0
      /\ Delta(n, n) = IF n >= n THEN n - n ELSE 0
      /\ Delta(0, n) = IF 0 >= n THEN 0 - n ELSE 0
      /\ Delta(n, 0) = IF n >= 0 THEN n - 0 ELSE 0
  BY <1>1, DeltaIs
<1> QED
  BY <1>2

\* What is charted, and what the next samples could chart of what has fired.
Counted ==
    /\ runtime \in [alive: BOOLEAN, fired: Nat, died: Nat, ever: Nat]
    /\ health \in Health \cup {None} /\ clock \in Nat
    /\ sampler \in [last: Nat \cup {None}, charted: Nat]
    /\ runtime.fired <= runtime.ever
    /\ Reading <= runtime.ever
    /\ sampler.last = None => sampler.charted = 0
    /\ sampler.last # None =>
        sampler.charted + Delta(Reading, sampler.last) + Delta(runtime.fired, Reading) <= runtime.ever

LEMMA CountedTypes ==
    ASSUME Counted
    PROVE  /\ Reading \in Nat /\ runtime.fired \in Nat /\ runtime.ever \in Nat
           /\ sampler.last # None => sampler.last \in Nat
           /\ sampler.charted \in Nat
BY DEF Counted, Reading, Health

LEMMA FireCounted == ASSUME Counted, Fire PROVE Counted'
<1>1. /\ runtime' = [alive |-> runtime.alive, fired |-> runtime.fired + 1,
                     died |-> runtime.died, ever |-> runtime.ever + 1]
      /\ health' = health /\ sampler' = sampler /\ clock' = clock
  BY DEF Fire, Runs, Counted
<1>2. /\ runtime'.fired = runtime.fired + 1 /\ runtime'.ever = runtime.ever + 1
      /\ runtime' \in [alive: BOOLEAN, fired: Nat, died: Nat, ever: Nat]
  BY <1>1 DEF Counted
<1>3. Reading' = Reading
  BY <1>1 DEF Reading
<1>4. /\ Delta(runtime.fired + 1, Reading) <= Delta(runtime.fired, Reading) + 1
      /\ Delta(runtime.fired + 1, Reading) \in Nat /\ Delta(runtime.fired, Reading) \in Nat
      /\ sampler.last # None => Delta(Reading, sampler.last) \in Nat
  <2>1. runtime.fired + 1 \in Nat
    BY CountedTypes
  <2> QED
    BY <2>1, CountedTypes, DeltaFacts
<1>5. /\ Delta(Reading, sampler.last)' = Delta(Reading, sampler.last)
      /\ Delta(runtime.fired, Reading)' = Delta(runtime.fired + 1, Reading)
  BY <1>1, <1>2, <1>3 DEF Delta
<1>6. /\ sampler' \in [last: Nat \cup {None}, charted: Nat]
      /\ health' \in Health \cup {None} /\ clock' \in Nat
      /\ sampler'.last = None => sampler'.charted = 0
      /\ runtime'.fired <= runtime'.ever /\ Reading' <= runtime'.ever
  BY <1>1, <1>2, <1>3, CountedTypes DEF Counted
<1>7. sampler.last # None =>
        sampler.charted + Delta(Reading, sampler.last) + Delta(runtime.fired + 1, Reading)
            <= runtime.ever + 1
  <2> DEFINE p == Delta(Reading, sampler.last)
             q == Delta(runtime.fired, Reading)
             r == Delta(runtime.fired + 1, Reading)
  <2>1. sampler.last # None => sampler.charted + p + q <= runtime.ever
    BY DEF Counted
  <2>2. q \in Nat /\ r \in Nat /\ r <= q + 1 /\ (sampler.last # None => p \in Nat)
    BY <1>4
  <2> HIDE DEF p, q, r
  <2>3. sampler.last # None => sampler.charted + p + r <= runtime.ever + 1
    BY <2>1, <2>2, CountedTypes
  <2> QED
    BY <2>3 DEF p, q, r
<1> QED
  BY <1>1, <1>2, <1>3, <1>5, <1>6, <1>7 DEF Counted

LEMMA WriteCounted == ASSUME Counted, WriteHealth PROVE Counted'
<1>1. /\ health' = [at |-> clock, fired |-> runtime.fired]
      /\ runtime' = runtime /\ sampler' = sampler /\ clock' = clock
  BY DEF WriteHealth, Runs
<1>2. health' \in Health /\ health' # None
  BY <1>1, CountedTypes, NoneIsNoHealth DEF Health, Counted
<1>3. Reading' = runtime.fired
  BY <1>1, <1>2 DEF Reading
<1> DEFINE p == Delta(Reading, sampler.last)
           q == Delta(runtime.fired, Reading)
           r == Delta(runtime.fired, sampler.last)
<1>4. /\ q \in Nat /\ Delta(runtime.fired, runtime.fired) = 0
      /\ sampler.last # None => p \in Nat /\ r \in Nat /\ r <= q + p
  BY CountedTypes, DeltaFacts
<1>5. sampler.last # None => sampler.charted + p + q <= runtime.ever
  BY DEF Counted
<1>6. /\ Delta(Reading, sampler.last)' = r
      /\ Delta(runtime.fired, Reading)' = Delta(runtime.fired, runtime.fired)
  BY <1>1, <1>3 DEF Delta
<1> HIDE DEF p, q, r
<1>7. sampler.last # None => sampler.charted + r + 0 <= runtime.ever
  BY <1>4, <1>5, CountedTypes
<1>8. /\ runtime' \in [alive: BOOLEAN, fired: Nat, died: Nat, ever: Nat]
      /\ health' \in Health \cup {None} /\ clock' \in Nat
      /\ sampler' \in [last: Nat \cup {None}, charted: Nat]
      /\ runtime'.fired <= runtime'.ever /\ Reading' <= runtime'.ever
      /\ sampler'.last = None => sampler'.charted = 0
  BY <1>1, <1>2, <1>3 DEF Counted
<1> QED
  BY <1>1, <1>4, <1>6, <1>7, <1>8 DEF Counted

LEMMA RestartCounted == ASSUME Counted, Kill \/ Restart PROVE Counted'
<1>1. /\ health' = health /\ sampler' = sampler /\ clock' = clock
  BY DEF Kill, Restart, Runs
<1>2. /\ runtime' \in [alive: BOOLEAN, fired: Nat, died: Nat, ever: Nat]
      /\ runtime'.ever = runtime.ever
      /\ runtime'.fired = runtime.fired \/ runtime'.fired = 0
  <2>1. CASE Kill
    <3>1. runtime' = [alive |-> FALSE, fired |-> runtime.fired, died |-> clock,
                      ever |-> runtime.ever]
      BY <2>1 DEF Kill, Runs, Counted
    <3> QED
      BY <3>1 DEF Counted
  <2>2. CASE Restart
    <3>1. runtime' = [alive |-> TRUE, fired |-> 0, died |-> runtime.died, ever |-> runtime.ever]
      BY <2>2 DEF Restart, Runs, Counted
    <3> QED
      BY <3>1 DEF Counted
  <2> QED
    BY <2>1, <2>2
<1>3. Reading' = Reading
  BY <1>1 DEF Reading
<1> DEFINE p == Delta(Reading, sampler.last)
           q == Delta(runtime.fired, Reading)
           r == Delta(runtime'.fired, Reading)
<1>4. /\ q \in Nat /\ Delta(0, Reading) = 0
      /\ sampler.last # None => p \in Nat
  BY CountedTypes, DeltaFacts
<1>5. r \in Nat /\ r <= q
  BY <1>2, <1>4
<1>6. sampler.last # None => sampler.charted + p + q <= runtime.ever
  BY DEF Counted
<1>7. /\ Delta(Reading, sampler.last)' = p
      /\ Delta(runtime.fired, Reading)' = r
  BY <1>1, <1>3 DEF Delta
<1> HIDE DEF p, q, r
<1>8. sampler.last # None => sampler.charted + p + r <= runtime.ever
  BY <1>4, <1>5, <1>6, CountedTypes
<1>9. /\ health' \in Health \cup {None} /\ clock' \in Nat
      /\ sampler' \in [last: Nat \cup {None}, charted: Nat]
      /\ runtime'.fired <= runtime'.ever /\ Reading' <= runtime'.ever
      /\ sampler'.last = None => sampler'.charted = 0
  BY <1>1, <1>2, <1>3, CountedTypes DEF Counted
<1> QED
  BY <1>1, <1>2, <1>7, <1>8, <1>9 DEF Counted

LEMMA SampleCounted == ASSUME Counted, Sample PROVE Counted'
<1> DEFINE more == IF sampler.last = None THEN 0 ELSE Delta(Reading, sampler.last)
           q == Delta(runtime.fired, Reading)
<1>1. /\ sampler' = [last |-> Reading, charted |-> sampler.charted + more]
      /\ runtime' = runtime /\ health' = health /\ clock' = clock
  BY DEF Sample
<1>2. more \in Nat /\ q \in Nat /\ Delta(Reading, Reading) = 0 /\ q <= runtime.fired
  <2>1. Reading \in Nat /\ runtime.fired \in Nat /\ (sampler.last # None => sampler.last \in Nat)
    BY CountedTypes
  <2>2. more \in Nat
    BY <2>1, DeltaFacts
  <2>3. q \in Nat /\ Delta(Reading, Reading) = 0
    BY <2>1, DeltaFacts
  <2>4. q <= runtime.fired
    <3>1. q = IF runtime.fired >= Reading THEN runtime.fired - Reading ELSE 0
      BY <2>1, DeltaIs
    <3> QED
      BY <2>1, <3>1
  <2> QED
    BY <2>2, <2>3, <2>4
<1>3. sampler'.last = Reading /\ sampler'.charted = sampler.charted + more
  BY <1>1
<1>4. Reading' = Reading
  BY <1>1 DEF Reading
<1>5. /\ Delta(Reading, sampler.last)' = Delta(Reading, Reading)
      /\ Delta(runtime.fired, Reading)' = q
  BY <1>1, <1>3, <1>4 DEF Delta
<1>6. sampler.charted + more + q <= runtime.ever
  <2>1. CASE sampler.last = None
    BY <1>2, <2>1, CountedTypes DEF Counted
  <2>2. CASE sampler.last # None
    BY <2>2 DEF Counted
  <2> QED
    BY <2>1, <2>2
<1> HIDE DEF more, q
<1>7. sampler.charted + more + 0 + q <= runtime.ever
  BY <1>2, <1>6, CountedTypes
<1>8. sampler' \in [last: Nat \cup {None}, charted: Nat] /\ sampler'.last # None
  BY <1>1, <1>2, CountedTypes, LifecycleAssumption
<1> QED
  BY <1>1, <1>2, <1>3, <1>4, <1>5, <1>7, <1>8 DEF Counted

LEMMA CountedStep == Counted /\ [Next]_vars => Counted'
<1> SUFFICES ASSUME Counted, [Next]_vars PROVE Counted'
  OBVIOUS
<1>1. CASE UNCHANGED <<runtime, health, sampler>> /\ clock' \in {clock, clock + 1}
  BY <1>1 DEF Counted, Reading, Delta, Max
<1>2. CASE Fire \/ WriteHealth \/ Kill \/ Restart \/ Sample
  BY <1>2, FireCounted, WriteCounted, RestartCounted, SampleCounted
<1>3. CommandLine => UNCHANGED <<runtime, health, sampler, clock>>
  BY DEF CommandLine, Registers
<1>4. \A w \in Thread :
        \/ Read(w) \/ Produce(w) \/ ProduceBreaks(w) \/ Store(w)
        \/ Invalidate(w) \/ Post(w) \/ PostBreaks(w)
        => UNCHANGED <<runtime, health, sampler, clock>>
  BY DEF Read, Produce, ProduceBreaks, Store, Invalidate, Post, PostBreaks, Console, Registers
<1>5. \A w \in Thread, view \in View : Poll(w, view) => UNCHANGED <<runtime, health, sampler, clock>>
  BY DEF Poll, Console
<1>6. Tick => UNCHANGED <<runtime, health, sampler>> /\ clock' = clock + 1
  BY DEF Tick
<1>7. UNCHANGED vars => UNCHANGED <<runtime, health, sampler, clock>>
  BY DEF vars
<1> QED
  BY <1>1, <1>2, <1>3, <1>4, <1>5, <1>6, <1>7 DEF Next

LEMMA CountedStarts == Init => Counted
<1> SUFFICES ASSUME Init PROVE Counted
  OBVIOUS
<1>1. /\ runtime = [alive |-> TRUE, fired |-> 0, died |-> 0, ever |-> 0]
      /\ health = None /\ sampler = [last |-> None, charted |-> 0] /\ clock = 0
  BY DEF Init
<1>2. Reading = 0
  BY <1>1 DEF Reading
<1> QED
  BY <1>1, <1>2 DEF Counted

\* The dashboard's chart never shows more than what fired (state.py:462-479), over
\* restarts that set the runtime's counters back, and health files that are behind.
THEOREM ChartIsHonest == Spec => []ChartInventsNothing
<1>1. Counted => ChartInventsNothing
  <2> SUFFICES ASSUME Counted PROVE sampler.charted <= runtime.ever
    BY DEF ChartInventsNothing
  <2>1. CASE sampler.last = None
    BY <2>1, CountedTypes DEF Counted
  <2>2. CASE sampler.last # None
    <3>1. Delta(Reading, sampler.last) \in Nat /\ Delta(runtime.fired, Reading) \in Nat
      BY <2>2, CountedTypes, DeltaFacts
    <3> QED
      BY <2>2, <3>1, CountedTypes DEF Counted
  <2> QED
    BY <2>1, <2>2
<1> QED
  BY <1>1, CountedStarts, CountedStep, PTL DEF Spec

-----------------------------------------------------------------------------
(* The pages.                                                              *)

\* When the runtime last ran.
LastRan == IF runtime.alive THEN clock ELSE runtime.died

\* What a picture that was asked for at `since` is from its first read on.
Sound(picture, since) ==
    /\ since <= picture.read /\ picture.read <= clock
    /\ picture.view = "overview" /\ picture.live => picture.read < LiveWindow + LastRan
    /\ picture.view = "models" =>
        /\ picture.mark <= changes
        /\ picture.mark = changes => picture.current = registry.current

\* What it is once the bundles are read too.
Whole(picture) ==
    picture.view = "models" /\ picture.mark = changes =>
        /\ picture.promotable = {v \in Version \ {registry.current} : Promotes(v)}
        /\ picture.targets = Targets

Entry == [stamp: Nat, picture: Picture]

RuntimeInv ==
    /\ runtime \in [alive: BOOLEAN, fired: Nat, died: Nat, ever: Nat]
    /\ health \in Health \cup {None}
    /\ clock \in Nat /\ runtime.died <= clock
    /\ health # None => health.at <= LastRan

EntryInv(entry) == entry # None => Sound(entry.picture, entry.stamp) /\ Whole(entry.picture)

CacheInv ==
    /\ cache \in [View -> Entry \cup {None}]
    /\ \A view \in View : \A entry \in {cache[view]} : EntryInv(entry)

RequestInv(request) ==
    /\ request.at = "miss" => request.asked <= clock
    /\ request.at \in {"read", "produced"} => Sound(request.picture, request.asked)
    /\ request.at = "produced" => Whole(request.picture)

CallInv ==
    /\ call \in [Thread -> Call]
    /\ \A w \in Thread : \A request \in {call[w]} : RequestInv(request)

PageInv == NoStalePicture /\ ButtonsTellTheRules /\ DeadIsNotLive

PicturesInv == RuntimeInv /\ CacheInv /\ CallInv /\ PageInv

LEMMA Windowed == TTL \in Nat \ {0} /\ LiveWindow \in Nat \ {0}
BY DashboardAssumption

\* Time goes on, and the registry's number of changes tells its states apart.
Ages ==
    /\ clock \in Nat /\ clock' \in Nat /\ clock <= clock'
    /\ LastRan \in Nat /\ LastRan' \in Nat /\ LastRan <= LastRan'
    /\ UNCHANGED lifeVars \/ changes' = changes + 1

LEMMA Ageing ==
    ASSUME RuntimeInv, Ages, LifeTypeOK, NEW picture \in Picture, NEW since \in Nat,
           Sound(picture, since)
    PROVE  Sound(picture, since)' /\ (Whole(picture) => Whole(picture)')
<1>1. /\ picture.read \in Nat /\ (picture.view = "models" => picture.mark \in Nat)
      /\ changes \in Nat
  BY Fields DEF Picture
<1>2. since <= picture.read /\ picture.read <= clock'
  BY <1>1 DEF Sound, Ages
<1>3. picture.view = "overview" /\ picture.live => picture.read < LiveWindow + LastRan'
  BY <1>1, Windowed DEF Sound, Ages
<1>4. CASE UNCHANGED lifeVars
  BY <1>2, <1>3, <1>4 DEF Sound, Whole, lifeVars, Promotes, Admits, Approves, Targets, Served
<1>5. CASE changes' = changes + 1
  <2>1. picture.view = "models" => picture.mark <= changes' /\ picture.mark # changes'
    BY <1>1, <1>5 DEF Sound
  <2> QED
    BY <1>2, <1>3, <2>1 DEF Sound, Whole
<1> QED
  BY <1>4, <1>5 DEF Ages

LEMMA LifeChanges == ASSUME LifeNext PROVE changes' = changes + 1
BY DEF LifeNext, Train, ColdStart, Check, Promote, Override, Rollback, Serves

LEMMA RuntimeStep ==
    ASSUME RuntimeInv, [Next]_vars
    PROVE  RuntimeInv' /\ Ages
<1>1. UNCHANGED lifeVars \/ changes' = changes + 1
  BY ConsoleStep, LifeChanges DEF vars
<1>2. /\ runtime.alive \in BOOLEAN /\ runtime.died \in Nat /\ clock \in Nat
      /\ health # None => health.at \in Nat
  BY DEF RuntimeInv, Health
<1>3. CASE UNCHANGED <<runtime, health>> /\ clock' \in {clock, clock + 1}
  BY <1>1, <1>2, <1>3 DEF RuntimeInv, LastRan, Ages
<1>4. CASE Fire
  <2>1. runtime' = [alive |-> runtime.alive, fired |-> runtime.fired + 1,
                    died |-> runtime.died, ever |-> runtime.ever + 1]
        /\ health' = health /\ clock' = clock
    BY <1>4 DEF Fire, Runs, RuntimeInv
  <2>2. runtime' \in [alive: BOOLEAN, fired: Nat, died: Nat, ever: Nat]
    BY <2>1 DEF RuntimeInv
  <2> QED
    BY <1>1, <1>2, <2>1, <2>2 DEF RuntimeInv, LastRan, Ages
<1>5. CASE WriteHealth
  <2>1. /\ health' = [at |-> clock, fired |-> runtime.fired] /\ runtime.alive
        /\ runtime' = runtime /\ clock' = clock
    BY <1>5 DEF WriteHealth, Runs
  <2>2. health' \in Health
    BY <2>1 DEF RuntimeInv, Health
  <2> QED
    BY <1>1, <1>2, <2>1, <2>2 DEF RuntimeInv, LastRan, Ages
<1>6. CASE Kill
  <2>1. /\ runtime' = [alive |-> FALSE, fired |-> runtime.fired, died |-> clock,
                       ever |-> runtime.ever]
        /\ runtime.alive /\ health' = health /\ clock' = clock
    BY <1>6 DEF Kill, Runs, RuntimeInv
  <2>2. runtime' \in [alive: BOOLEAN, fired: Nat, died: Nat, ever: Nat]
    BY <2>1 DEF RuntimeInv
  <2> QED
    BY <1>1, <1>2, <2>1, <2>2 DEF RuntimeInv, LastRan, Ages
<1>7. CASE Restart
  <2>1. /\ runtime' = [alive |-> TRUE, fired |-> 0, died |-> runtime.died, ever |-> runtime.ever]
        /\ ~runtime.alive /\ health' = health /\ clock' = clock
    BY <1>7 DEF Restart, Runs, RuntimeInv
  <2>2. runtime' \in [alive: BOOLEAN, fired: Nat, died: Nat, ever: Nat]
    BY <2>1 DEF RuntimeInv
  <2> QED
    BY <1>1, <1>2, <2>1, <2>2 DEF RuntimeInv, LastRan, Ages
<1>8. CommandLine => UNCHANGED <<runtime, health, clock>>
  BY DEF CommandLine, Registers
<1>9. \A w \in Thread :
        \/ Read(w) \/ Produce(w) \/ ProduceBreaks(w) \/ Store(w)
        \/ Invalidate(w) \/ Post(w) \/ PostBreaks(w)
        => UNCHANGED <<runtime, health, clock>>
  BY DEF Read, Produce, ProduceBreaks, Store, Invalidate, Post, PostBreaks, Console, Registers
<1>10. \A w \in Thread, view \in View : Poll(w, view) => UNCHANGED <<runtime, health, clock>>
  BY DEF Poll, Console
<1>11. Tick => UNCHANGED <<runtime, health>> /\ clock' = clock + 1
  BY DEF Tick
<1>12. Sample \/ UNCHANGED vars => UNCHANGED <<runtime, health, clock>>
  BY DEF Sample, vars
<1> QED
  BY <1>3, <1>4, <1>5, <1>6, <1>7, <1>8, <1>9, <1>10, <1>11, <1>12 DEF Next

LEMMA EntryAges ==
    ASSUME RuntimeInv, Ages, LifeTypeOK, NEW entry \in Entry \cup {None}, EntryInv(entry)
    PROVE  EntryInv(entry)'
<1>1. CASE entry # None
  <2>1. entry.picture \in Picture /\ entry.stamp \in Nat
    BY <1>1 DEF Entry
  <2>2. Sound(entry.picture, entry.stamp) /\ Whole(entry.picture)
    BY <1>1 DEF EntryInv
  <2>3. Sound(entry.picture, entry.stamp)' /\ Whole(entry.picture)'
    BY <2>1, <2>2, Ageing
  <2> QED
    BY <2>3 DEF EntryInv
<1> QED
  BY <1>1 DEF EntryInv

LEMMA RequestAges ==
    ASSUME RuntimeInv, Ages, LifeTypeOK, NEW request \in Call, RequestInv(request)
    PROVE  RequestInv(request)'
<1>1. request.at = "miss" => request.asked \in Nat
  BY DEF Call
<1>2. request.at = "miss" => request.asked <= clock'
  BY <1>1 DEF RequestInv, Ages
<1>3. CASE request.at \in {"read", "produced"}
  <2>1. request.picture \in Picture /\ request.asked \in Nat
    BY <1>3 DEF Call
  <2>2. Sound(request.picture, request.asked) /\ (request.at = "produced" => Whole(request.picture))
    BY <1>3 DEF RequestInv
  <2>3. Sound(request.picture, request.asked)' /\ (request.at = "produced" => Whole(request.picture)')
    BY <2>1, <2>2, Ageing
  <2> QED
    BY <1>3, <2>3 DEF RequestInv
<1> QED
  BY <1>2, <1>3 DEF RequestInv

\* The pictures that a step leaves alone, and one that it puts in.
LEMMA CacheKeeps ==
    ASSUME RuntimeInv, Ages, LifeTypeOK, CacheInv,
           \A view \in View : cache'[view] = cache[view] \/ \A entry \in {cache'[view]} : EntryInv(entry)',
           cache' \in [View -> Entry \cup {None}]
    PROVE  CacheInv'
<1>1. ASSUME NEW view \in View PROVE \A entry \in {cache'[view]} : EntryInv(entry)'
  <2>1. cache[view] \in Entry \cup {None} /\ \A entry \in {cache[view]} : EntryInv(entry)
    BY DEF CacheInv
  <2>2. \A entry \in {cache[view]} : EntryInv(entry)'
    BY <2>1, EntryAges
  <2> QED
    BY <2>2
<1> QED
  BY <1>1 DEF CacheInv

LEMMA CallKeeps ==
    ASSUME RuntimeInv, Ages, LifeTypeOK, CallInv,
           \A w \in Thread : call'[w] = call[w] \/ \A request \in {call'[w]} : RequestInv(request)',
           call' \in [Thread -> Call]
    PROVE  CallInv'
<1>1. ASSUME NEW w \in Thread PROVE \A request \in {call'[w]} : RequestInv(request)'
  <2>1. call[w] \in Call /\ \A request \in {call[w]} : RequestInv(request)
    BY DEF CallInv
  <2>2. \A request \in {call[w]} : RequestInv(request)'
    BY <2>1, RequestAges
  <2> QED
    BY <2>2
<1> QED
  BY <1>1 DEF CallInv

\* What is read first is sound, and what is read then makes it whole.
LEMMA FirstSound ==
    ASSUME RuntimeInv, LifeTypeOK, NEW view \in View, NEW asked \in Nat, asked <= clock
    PROVE  First(view) \in Picture /\ Sound(First(view), asked)
<1>1. clock \in Nat /\ LastRan \in Nat /\ changes \in Nat /\ registry.current \in Version \cup {None}
  BY Fields DEF RuntimeInv, LastRan
<1>2. CASE view = "overview"
  <2>1. Live(clock) \in BOOLEAN
    BY DEF Live
  <2>2. Live(clock) => clock < LiveWindow + LastRan
    <3>1. health # None => health.at \in Nat /\ health.at <= LastRan
      BY DEF RuntimeInv, Health
    <3> QED
      BY <1>1, <3>1, Windowed DEF Live
  <2>3. First(view) = [view |-> "overview", read |-> clock, live |-> Live(clock)]
    BY <1>2 DEF First
  <2> QED
    BY <1>1, <2>1, <2>2, <2>3 DEF Picture, Sound
<1>3. CASE view = "models"
  <2>1. First(view) = [view |-> "models", read |-> clock, mark |-> changes,
                       current |-> registry.current, promotable |-> {}, targets |-> {}]
    BY <1>3 DEF First
  <2> QED
    BY <1>1, <2>1 DEF Picture, Sound
<1> QED
  BY <1>2, <1>3 DEF View

LEMMA BundlesWhole ==
    ASSUME LifeTypeOK, Made, NEW picture \in Picture, NEW asked \in Nat, Sound(picture, asked)
    PROVE  /\ WithBundles(picture) \in Picture
           /\ Sound(WithBundles(picture), asked) /\ Whole(WithBundles(picture))
<1>1. CASE picture.view = "overview"
  BY <1>1 DEF WithBundles, Whole
<1>2. CASE picture.view # "overview"
  <2> DEFINE buttons == {v \in 1 .. registry.made : Promotable(v, picture.current)}
  <2>1. /\ picture.view = "models" /\ picture.read \in Nat /\ picture.mark \in Nat
        /\ picture.current \in Version \cup {None}
        /\ picture = [view |-> "models", read |-> picture.read, mark |-> picture.mark,
                      current |-> picture.current, promotable |-> picture.promotable,
                      targets |-> picture.targets]
    BY <1>2 DEF Picture
  <2>2. WithBundles(picture) =
            [view |-> "models", read |-> picture.read, mark |-> picture.mark,
             current |-> picture.current, promotable |-> buttons, targets |-> Targets]
    BY <1>2, <2>1 DEF WithBundles
  <2>3. 1 .. registry.made \subseteq Version
    BY Fields, Bounds DEF Version
  <2>4. buttons \in SUBSET Version /\ Targets \in SUBSET Version
    BY <2>3, TargetsMade
  <2>5. picture.current = registry.current =>
            buttons = {v \in Version \ {registry.current} : Promotes(v)}
    <3> SUFFICES ASSUME picture.current = registry.current, NEW v \in Version
                 PROVE  v \in buttons <=> v # registry.current /\ Promotes(v)
      BY <2>3
    <3>1. v \in 1 .. registry.made <=> v <= registry.made
      BY Fields, Bounds DEF Version
    <3> QED
      BY <3>1 DEF Promotable, Promotes, Admits, Approves
  <2> HIDE DEF buttons
  <2> QED
    BY <2>1, <2>2, <2>4, <2>5 DEF Picture, Sound, Whole
<1> QED
  BY <1>1, <1>2

\* An answer that is not older than it may be makes a page with all that it promises.
LEMMA AnswersGiven ==
    ASSUME RuntimeInv, NEW picture \in Picture, NEW since \in Nat, NEW asked \in Nat,
           Sound(picture, since), Whole(picture), asked < picture.read + TTL,
           Answer(picture, asked), UNCHANGED lifeVars
    PROVE  PageInv'
<1>1. page' = [picture |-> picture, asked |-> asked,
               dead |-> IF runtime.alive THEN 0 ELSE Delta(asked, runtime.died)]
  BY DEF Answer, Delta
<1>2. page'.picture = picture /\ page'.asked = asked
  BY <1>1
<1>3. picture.read \in Nat /\ runtime.died \in Nat
  BY DEF Picture, RuntimeInv
<1>4. NoStalePicture'
  BY <1>2, <1>3, Windowed DEF NoStalePicture
<1>5. ButtonsTellTheRules'
  BY <1>2 DEF ButtonsTellTheRules, Whole, lifeVars, Promotes, Admits, Approves, Targets, Served
<1>6. DeadIsNotLive'
  <2> SUFFICES ASSUME picture.view = "overview", picture.live
               PROVE  page'.dead < LiveWindow + TTL
    BY <1>2 DEF DeadIsNotLive
  <2>1. CASE runtime.alive
    BY <1>1, <2>1, Windowed
  <2>2. CASE ~runtime.alive
    <3>1. page'.dead = Delta(asked, runtime.died)
      BY <1>1, <2>2
    <3>2. picture.read < LiveWindow + runtime.died
      BY <2>2 DEF Sound, LastRan
    <3>3. Delta(asked, runtime.died) =
              IF asked >= runtime.died THEN asked - runtime.died ELSE 0
      BY <1>3, DeltaIs
    <3> QED
      BY <1>3, <3>1, <3>2, <3>3, Windowed
  <2> QED
    BY <2>1, <2>2
<1> QED
  BY <1>4, <1>5, <1>6 DEF PageInv

LEMMA NoPage == ASSUME page' = None PROVE PageInv'
BY DEF PageInv, NoStalePicture, ButtonsTellTheRules, DeadIsNotLive

-----------------------------------------------------------------------------
(* The steps, with what RuntimeStep gives.                                 *)

Given == LifeInv /\ PicturesInv /\ Ages /\ RuntimeInv'

LEMMA GivenFacts ==
    ASSUME Given
    PROVE  /\ LifeTypeOK /\ Made /\ RuntimeInv /\ Ages /\ CacheInv /\ CallInv /\ PageInv
           /\ cache \in [View -> Entry \cup {None}] /\ call \in [Thread -> Call]
BY DEF Given, LifeInv, PicturesInv, CacheInv, CallInv

LEMMA PollKeeps ==
    ASSUME Given, NEW w \in Thread, NEW view \in View, Poll(w, view)
    PROVE  CacheInv' /\ CallInv' /\ PageInv'
<1>1. cache' = cache /\ UNCHANGED lifeVars /\ clock \in Nat /\ clock' = clock
  BY GivenFacts DEF Poll, Console, Ages
<1>2. CacheInv'
  BY <1>1, GivenFacts, CacheKeeps
<1>3. CASE Fresh(cache[view])
  <2>1. /\ cache[view] \in Entry /\ EntryInv(cache[view]) /\ cache[view] # None
        /\ clock - cache[view].stamp < TTL
    BY <1>3, GivenFacts DEF Fresh, CacheInv
  <2>2. /\ cache[view].picture \in Picture /\ cache[view].stamp \in Nat
        /\ Sound(cache[view].picture, cache[view].stamp) /\ Whole(cache[view].picture)
    BY <2>1 DEF Entry, EntryInv
  <2>3. clock < cache[view].picture.read + TTL
    BY <1>1, <2>1, <2>2, Windowed DEF Sound, Picture
  <2>4. Answer(cache[view].picture, clock) /\ call' = call
    BY <1>3 DEF Poll
  <2>5. PageInv'
    BY <1>1, <2>2, <2>3, <2>4, AnswersGiven, GivenFacts
  <2> QED
    BY <1>2, <2>4, <2>5, CallKeeps, GivenFacts
<1>4. CASE ~Fresh(cache[view])
  <2> DEFINE miss == [at |-> "miss", view |-> view, asked |-> clock, picture |-> None]
  <2>1. call' = [call EXCEPT ![w] = miss] /\ page' = None
    BY <1>4 DEF Poll, Request
  <2>2. miss \in Call /\ \A request \in {miss} : RequestInv(request)'
    BY <1>1 DEF Call, RequestInv
  <2> HIDE DEF miss
  <2>3. call' \in [Thread -> Call] /\ call'[w] = miss
    BY <2>1, <2>2, GivenFacts
  <2>4. \A x \in Thread : call'[x] = call[x] \/ call'[x] = miss
    BY <2>1, GivenFacts
  <2>5. CallInv'
    BY <2>2, <2>3, <2>4, CallKeeps, GivenFacts
  <2> QED
    BY <1>2, <2>1, <2>5, NoPage
<1> QED
  BY <1>3, <1>4

LEMMA ReadKeeps ==
    ASSUME Given, NEW w \in Thread, Read(w)
    PROVE  CacheInv' /\ CallInv' /\ PageInv'
<1> DEFINE view == call[w].view
           asked == call[w].asked
           request == [at |-> "read", view |-> view, asked |-> asked, picture |-> First(view)]
<1>1. /\ cache' = cache /\ page' = None /\ UNCHANGED lifeVars
      /\ call[w].at = "miss"
      /\ call' = [call EXCEPT ![w] = request]
  BY DEF Read, Console, Request
<1>2. view \in View /\ asked \in Nat /\ asked <= clock
  BY <1>1, GivenFacts DEF Call, CallInv, RequestInv
<1>3. First(view) \in Picture /\ Sound(First(view), asked)
  BY <1>2, FirstSound, GivenFacts
<1>4. request \in Call /\ RequestInv(request)
  BY <1>2, <1>3 DEF Call, RequestInv
<1> HIDE DEF request
<1>5. \A r \in {request} : RequestInv(r)'
  BY <1>4, RequestAges, GivenFacts
<1>6. call' \in [Thread -> Call] /\ \A x \in Thread : call'[x] = call[x] \/ call'[x] = request
  BY <1>1, <1>4, GivenFacts
<1>7. CallInv'
  BY <1>5, <1>6, CallKeeps, GivenFacts
<1> QED
  BY <1>1, <1>7, CacheKeeps, NoPage, GivenFacts

LEMMA ProduceKeeps ==
    ASSUME Given, NEW w \in Thread, Produce(w)
    PROVE  CacheInv' /\ CallInv' /\ PageInv'
<1> DEFINE view == call[w].view
           asked == call[w].asked
           picture == call[w].picture
           request == [at |-> "produced", view |-> view, asked |-> asked,
                       picture |-> WithBundles(picture)]
<1>1. /\ cache' = cache /\ page' = None
      /\ call[w].at = "read"
      /\ call' = [call EXCEPT ![w] = request]
  BY DEF Produce, Console, Request
<1>2. /\ view \in View /\ asked \in Nat /\ picture \in Picture /\ Sound(picture, asked)
  BY <1>1, GivenFacts DEF Call, CallInv, RequestInv
<1>3. /\ WithBundles(picture) \in Picture
      /\ Sound(WithBundles(picture), asked) /\ Whole(WithBundles(picture))
  BY <1>2, BundlesWhole, GivenFacts
<1>4. request \in Call /\ RequestInv(request)
  BY <1>2, <1>3 DEF Call, RequestInv
<1> HIDE DEF request
<1>5. \A r \in {request} : RequestInv(r)'
  BY <1>4, RequestAges, GivenFacts
<1>6. call' \in [Thread -> Call] /\ \A x \in Thread : call'[x] = call[x] \/ call'[x] = request
  BY <1>1, <1>4, GivenFacts
<1>7. CallInv'
  BY <1>5, <1>6, CallKeeps, GivenFacts
<1> QED
  BY <1>1, <1>7, CacheKeeps, NoPage, GivenFacts

\* A request that the cache or the browser no longer keeps.
LEMMA BackToRest ==
    ASSUME Given, NEW w \in Thread, NEW request \in [at: {"idle", "changed"}],
           call' = [call EXCEPT ![w] = request]
    PROVE  CallInv'
<1>1. request \in Call /\ \A r \in {request} : RequestInv(r)'
  BY DEF Call, RequestInv
<1>2. call' \in [Thread -> Call] /\ \A x \in Thread : call'[x] = call[x] \/ call'[x] = request
  BY <1>1, GivenFacts
<1> QED
  BY <1>1, <1>2, CallKeeps, GivenFacts

LEMMA StoreKeeps ==
    ASSUME Given, NEW w \in Thread, Store(w)
    PROVE  CacheInv' /\ CallInv' /\ PageInv'
<1> DEFINE view == call[w].view
           asked == call[w].asked
           picture == call[w].picture
           entry == [stamp |-> asked, picture |-> picture]
<1>1. /\ cache' = [cache EXCEPT ![view] = entry] /\ call[w].at = "produced"
      /\ Answer(picture, asked) /\ UNCHANGED lifeVars
      /\ call' = [call EXCEPT ![w] = Idle]
  BY DEF Store, Stamp, Console
<1>2. /\ view \in View /\ asked \in Nat /\ picture \in Picture
      /\ Sound(picture, asked) /\ Whole(picture)
  BY <1>1, GivenFacts DEF Call, CallInv, RequestInv
<1>3. CallInv'
  BY <1>1, BackToRest DEF Idle
<1>4. PageInv'
  <2>1. asked < picture.read + TTL
    BY <1>2, Windowed DEF Sound, Picture
  <2> QED
    BY <1>1, <1>2, <2>1, AnswersGiven, GivenFacts
<1>5. entry \in Entry /\ EntryInv(entry)
  BY <1>2 DEF Entry, EntryInv
<1> HIDE DEF entry
<1>6. \A e \in {entry} : EntryInv(e)'
  BY <1>5, EntryAges, GivenFacts
<1>7. cache' \in [View -> Entry \cup {None}] /\ \A v \in View : cache'[v] = cache[v] \/ cache'[v] = entry
  BY <1>1, <1>2, <1>5, GivenFacts
<1> QED
  BY <1>3, <1>4, <1>6, <1>7, CacheKeeps, GivenFacts

LEMMA InvalidateKeeps ==
    ASSUME Given, NEW w \in Thread, Invalidate(w)
    PROVE  CacheInv' /\ CallInv' /\ PageInv'
<1>1. cache' = [view \in View |-> None] /\ call' = [call EXCEPT ![w] = Idle] /\ page' = None
  BY DEF Invalidate
<1>2. CacheInv'
  BY <1>1 DEF CacheInv, EntryInv
<1> QED
  BY <1>1, <1>2, BackToRest, NoPage DEF Idle

LEMMA PostKeeps ==
    ASSUME Given, NEW w \in Thread, Post(w)
    PROVE  CacheInv' /\ CallInv' /\ PageInv'
<1>1. cache' = cache /\ page' = None /\ call' = [call EXCEPT ![w] = [at |-> "changed"]]
  BY DEF Post, Registers
<1> QED
  BY <1>1, BackToRest, CacheKeeps, NoPage, GivenFacts

LEMMA BreaksKeep ==
    ASSUME Given, NEW w \in Thread, ProduceBreaks(w) \/ PostBreaks(w)
    PROVE  CacheInv' /\ CallInv' /\ PageInv'
<1>1. CASE ProduceBreaks(w)
  <2>1. cache' = cache /\ page' = None /\ call' = [call EXCEPT ![w] = Idle]
    BY <1>1 DEF ProduceBreaks
  <2> QED
    BY <2>1, BackToRest, CacheKeeps, NoPage, GivenFacts DEF Idle
<1>2. CASE PostBreaks(w)
  <2>1. UNCHANGED <<cache, call>> /\ page' = None
    BY <1>2 DEF PostBreaks, Registers
  <2> QED
    BY <2>1, CallKeeps, CacheKeeps, NoPage, GivenFacts
<1> QED
  BY <1>1, <1>2

LEMMA PicturesStep == LifeInv /\ PicturesInv /\ [Next]_vars => PicturesInv'
<1> SUFFICES ASSUME LifeInv, PicturesInv, [Next]_vars PROVE PicturesInv'
  OBVIOUS
<1>1. RuntimeInv' /\ Given
  BY RuntimeStep DEF PicturesInv, Given
<1>2. UNCHANGED <<cache, call>> => CacheInv' /\ CallInv'
  BY <1>1, CacheKeeps, CallKeeps, GivenFacts
<1>3. UNCHANGED <<cache, call>> /\ page' = None => PicturesInv'
  BY <1>1, <1>2, NoPage DEF PicturesInv
<1>4. CommandLine \/ Fire \/ WriteHealth \/ Kill \/ Restart \/ Sample \/ Tick
        => UNCHANGED <<cache, call>> /\ page' = None
  BY DEF CommandLine, Registers, Fire, WriteHealth, Kill, Restart, Sample, Tick, Runs, consoleVars
<1>5. CASE UNCHANGED vars
  <2>1. UNCHANGED <<cache, call, page, lifeVars>>
    BY <1>5 DEF vars, consoleVars
  <2>2. PageInv'
    BY <1>1, <2>1, GivenFacts DEF PageInv, NoStalePicture, ButtonsTellTheRules, DeadIsNotLive,
            lifeVars, Promotes, Admits, Approves, Targets, Served
  <2> QED
    BY <1>1, <1>2, <2>1, <2>2 DEF PicturesInv
<1>6. CASE \E w \in Thread, view \in View : Poll(w, view)
  BY <1>1, <1>6, PollKeeps DEF PicturesInv
<1>7. CASE \E w \in Thread : Read(w) \/ Produce(w) \/ ProduceBreaks(w) \/ Store(w)
  BY <1>1, <1>7, ReadKeeps, ProduceKeeps, BreaksKeep, StoreKeeps DEF PicturesInv
<1>8. CASE \E w \in Thread : Post(w) \/ PostBreaks(w) \/ Invalidate(w)
  BY <1>1, <1>8, PostKeeps, BreaksKeep, InvalidateKeeps DEF PicturesInv
<1> QED
  BY <1>3, <1>4, <1>5, <1>6, <1>7, <1>8 DEF Next

LEMMA PicturesStart == Init => PicturesInv
<1> SUFFICES ASSUME Init PROVE PicturesInv
  OBVIOUS
<1>1. /\ runtime = [alive |-> TRUE, fired |-> 0, died |-> 0, ever |-> 0]
      /\ health = None /\ cache = [view \in View |-> None] /\ call = [w \in Thread |-> Idle]
      /\ page = None /\ clock = 0
  BY DEF Init
<1>2. RuntimeInv
  BY <1>1 DEF RuntimeInv
<1>3. CacheInv /\ CallInv
  BY <1>1 DEF CacheInv, EntryInv, CallInv, RequestInv, Call, Idle
<1> QED
  BY <1>1, <1>2, <1>3 DEF PicturesInv, PageInv, NoStalePicture, ButtonsTellTheRules, DeadIsNotLive

LEMMA PicturesInvariant == Spec => []PicturesInv
<1>1. LifeSpec => []LifeInv
  BY LifeStarts, LifeStep, PTL DEF LifeSpec
<1> QED
  BY <1>1, ConsoleImplementsLifecycle, PicturesStart, PicturesStep, PTL DEF Spec

\* "A dashboard tab left open overnight cannot pin a stale picture" (state.py:3-5), for
\* any number of request threads and any life of the cache.
THEOREM PicturesAreFresh == Spec => []NoStalePicture
<1>1. PicturesInv => NoStalePicture
  BY DEF PicturesInv, PageInv
<1> QED
  BY <1>1, PicturesInvariant, PTL

\* The promote and rollback buttons of a page are those that the registry honours
\* (state.py:345 and :359, store.py:244), for any registry that did not change meanwhile.
THEOREM ButtonsAreHonoured == Spec => []ButtonsTellTheRules
<1>1. PicturesInv => ButtonsTellTheRules
  BY DEF PicturesInv, PageInv
<1> QED
  BY <1>1, PicturesInvariant, PTL

\* A runtime that is gone is not shown as live for longer than the live window and the
\* life of the cache (state.py:29), whatever its health file says.
THEOREM TheDeadAreShown == Spec => []DeadIsNotLive
<1>1. PicturesInv => DeadIsNotLive
  BY DEF PicturesInv, PageInv
<1> QED
  BY <1>1, PicturesInvariant, PTL

-----------------------------------------------------------------------------
(* Verifier.                                                               *)

(* The invariants.                                                         *)

\* What a call is made of.
IsCall(c) ==
    /\ c = [at |-> c.at, todo |-> c.todo, age |-> c.age, seen |-> c.seen,
            answers |-> c.answers, verdict |-> c.verdict]
    /\ c.age \in Age

\* While a site is asked, the call remembers all it has answered, and it has no
\* verdict before there is one to be written.
Asks(w) ==
    /\ worker[w].at \in {"https", "http"} =>
          Subject(w) \in Checkable /\ site[Subject(w)] \in worker[w].answers
    /\ worker[w].verdict = "confirmed" => worker[w].at = "append"

\* A check that runs is as old as the last mark of its exposure, or older.
Marked(w) ==
    worker[w].at \in {"https", "http", "append"} =>
        /\ Subject(w) \in DOMAIN lastVerify
        /\ lastVerify[Subject(w)] <= worker[w].age

\* ConfirmedWasPublic and RepeatsUnansweredOnly of one thread.
Public(w) ==
    worker[w].verdict = "confirmed" =>
        \E answers \in worker[w].answers, scheme \in {"https", "http"} :
            /\ answers[scheme].status = "ok"
            /\ answers[scheme].marks \cap Signs[KindOf[Subject(w)]] # {}
            /\ answers[scheme].page => KindOf[Subject(w)] \in {"vcs", "debug"}

Unanswered(w) ==
    worker[w].at = "mark" =>
        \A i \in 1 .. worker[w].seen : rows[i].key = Subject(w) => rows[i].age = Interval

CheckInv(w) ==
    /\ IsCall(worker[w]) /\ worker[w].seen \in 0 .. Len(rows)
    /\ Asks(w) /\ Marked(w) /\ Public(w) /\ Unanswered(w)

\* The time in memory is no older than any row, and a row of an exposure that memory
\* knows nothing of is old.
RowsInv ==
    /\ rows \in Seq({rows[i] : i \in DOMAIN rows})
    /\ \A k \in DOMAIN lastVerify : lastVerify[k] \in Age
    /\ \A i \in DOMAIN rows :
          /\ rows[i] = [key |-> rows[i].key, age |-> rows[i].age]
          /\ rows[i].age \in Age
          /\ rows[i].key \in DOMAIN lastVerify => lastVerify[rows[i].key] <= rows[i].age
          /\ rows[i].key \notin DOMAIN lastVerify => rows[i].age = Interval

VerifierInv ==
    /\ site \in [Checkable -> Sites]
    /\ DOMAIN worker = Worker
    /\ RowsInv
    /\ \A w \in Worker : CheckInv(w)

-----------------------------------------------------------------------------
(* Lemmas.                                                                 *)

\* A body that is taken for a file bears one of the signs of its kind, and a web
\* page only for the kinds that are pages.
LEMMA RecognisedSigns ==
    ASSUME NEW kind, NEW body, Recognised(kind, body)
    PROVE  /\ body.marks \cap Signs[kind] # {}
           /\ body.page => kind \in {"vcs", "debug"}
<1> DEFINE signs == IF body.page THEN EvidentSigns(kind) ELSE Signs[kind]
<1>1. body.marks \cap signs # {}
  BY DEF Recognised
<1>2. CASE body.page
  <2>1. EvidentSigns(kind) # {}
    BY <1>1, <1>2
  <2>2. kind \in {"vcs", "debug"}
    BY <2>1 DEF EvidentSigns
  <2>3. EvidentSigns(kind) \subseteq Signs[kind]
    <3>1. CASE kind = "vcs"
      BY <3>1 DEF EvidentSigns
    <3>2. CASE kind = "debug"
      BY <3>2 DEF EvidentSigns, Signs
    <3> QED
      BY <2>2, <3>1, <3>2
  <2> QED
    BY <1>1, <1>2, <2>2, <2>3
<1>3. CASE ~body.page
  BY <1>1, <1>3
<1> QED
  BY <1>2, <1>3

\* What is confirmed was answered with a body that is taken for the file.
LEMMA ConfirmedByReply ==
    ASSUME NEW kind, NEW reply \in Reply, reply.status # "none",
           ReplyVerdict(kind, reply) = "confirmed"
    PROVE  reply.status = "ok" /\ Recognised(kind, reply)
BY DEF ReplyVerdict, Reply

LEMMA IdleIsCall == IsCall(NoCheck) /\ NoCheck.at = "idle" /\ NoCheck.seen = 0 /\ NoCheck.verdict = NoVerdict
BY VerifierAssumption DEF IsCall, NoCheck, Age

\* A call that goes on, or ends, has neither answers nor a verdict.
LEMMA GoesOn ==
    ASSUME NEW w \in Worker, DOMAIN worker = Worker, NEW todo, GoOn(w, todo)
    PROVE  /\ DOMAIN worker' = Worker
           /\ \A v \in Worker \ {w} : worker'[v] = worker[v]
           /\ IsCall(worker'[w])
           /\ worker'[w].at \in {"idle", "check"}
           /\ worker'[w].seen = 0 /\ worker'[w].verdict = NoVerdict
<1>1. worker'[w] = NoCheck \/ worker'[w] = [NoCheck EXCEPT !.at = "check", !.todo = todo]
  BY DEF GoOn
<1>2. DOMAIN worker' = Worker /\ \A v \in Worker \ {w} : worker'[v] = worker[v]
  BY DEF GoOn
<1>3. CASE worker'[w] = NoCheck
  BY <1>2, <1>3, IdleIsCall
<1>4. CASE worker'[w] = [NoCheck EXCEPT !.at = "check", !.todo = todo]
  <2>1. NoCheck = [at |-> "idle", todo |-> <<>>, age |-> 0, seen |-> 0, answers |-> {},
                verdict |-> NoVerdict]
    BY DEF NoCheck
  <2>2. LET c == worker'[w] IN
        /\ c = [at |-> c.at, todo |-> c.todo, age |-> c.age, seen |-> c.seen,
                answers |-> c.answers, verdict |-> c.verdict]
        /\ c.at = "check" /\ c.age = 0 /\ c.seen = 0 /\ c.verdict = NoVerdict
    BY <1>4, <2>1
  <2>3. 0 \in Age
    BY VerifierAssumption DEF Age
  <2>4. IsCall(worker'[w])
    BY <2>2, <2>3 DEF IsCall
  <2> QED
    BY <1>2, <2>2, <2>4
<1> QED
  BY <1>1, <1>3, <1>4

LEMMA OlderIs ==
    ASSUME NEW a \in Age, NEW b \in Age, a <= b
    PROVE  Older(a) \in Age /\ Older(b) \in Age /\ Older(a) <= Older(b)
BY VerifierAssumption DEF Older, Age

-----------------------------------------------------------------------------
(* The steps.                                                              *)

LEMMA InvInit == VerifierInit => VerifierInv
<1> SUFFICES ASSUME VerifierInit
             PROVE  VerifierInv
  OBVIOUS
<1>1. RowsInv /\ Len(rows) = 0
  BY DEF VerifierInit, RowsInv
<1>2. ASSUME NEW w \in Worker
      PROVE  CheckInv(w)
  <2>1. worker[w] = NoCheck
    BY DEF VerifierInit
  <2>2. "confirmed" \in CheckVerdict
    BY DEF CheckVerdict
  <2> QED
    BY <1>1, <2>1, <2>2, IdleIsCall, NoVerdictIsNone
       DEF CheckInv, Asks, Marked, Public, Unanswered
<1> QED
  BY <1>1, <1>2 DEF VerifierInv, VerifierInit

\* What a thread is doing stays true while only other threads move.
LEMMA CallKept ==
    ASSUME NEW w \in Worker, CheckInv(w), worker'[w] = worker[w],
           UNCHANGED <<site, rows, lastVerify>>
    PROVE  CheckInv(w)'
<1>1. IsCall(worker[w])' /\ Asks(w)' /\ Marked(w)' /\ Public(w)' /\ Unanswered(w)'
  BY DEF CheckInv, IsCall, Asks, Marked, Public, Unanswered, Subject
<1> QED
  BY <1>1 DEF CheckInv

\* A thread that rests between two checks owes nothing.
LEMMA Resting ==
    ASSUME NEW w \in Worker, IsCall(worker'[w]), worker'[w].at \in {"idle", "check"},
           worker'[w].seen = 0, worker'[w].verdict = NoVerdict, Len(rows') \in Nat
    PROVE  CheckInv(w)'
<1>1. "confirmed" \in CheckVerdict
  BY DEF CheckVerdict
<1> QED
  BY <1>1, NoVerdictIsNone DEF CheckInv, IsCall, Asks, Marked, Public, Unanswered

LEMMA RowsAre == RowsInv => Len(rows) \in Nat /\ DOMAIN rows = 1 .. Len(rows)
BY DEF RowsInv

\* Threads that end a check, or begin a call, without touching what they share.
LEMMA ToRest ==
    ASSUME VerifierInv, NEW w \in Worker,
           DOMAIN worker' = Worker, \A v \in Worker \ {w} : worker'[v] = worker[v],
           IsCall(worker'[w]), worker'[w].at \in {"idle", "check"},
           worker'[w].seen = 0, worker'[w].verdict = NoVerdict,
           UNCHANGED <<site, rows, lastVerify>>
    PROVE  VerifierInv'
<1>1. CheckInv(w)'
  BY Resting, RowsAre DEF VerifierInv
<1>2. ASSUME NEW v \in Worker \ {w}
      PROVE  CheckInv(v)'
  BY CallKept DEF VerifierInv
<1>3. RowsInv'
  BY DEF VerifierInv, RowsInv
<1> QED
  BY <1>1, <1>2, <1>3 DEF VerifierInv

LEMMA AskKeeps ==
    ASSUME VerifierInv, NEW w \in Worker, NEW a, Ask(w, a)
    PROVE  VerifierInv'
<1>1. GoOn(w, ExposuresOf[a]) /\ UNCHANGED <<site, rows, lastVerify>>
  BY DEF Ask, GoOn
<1> QED
  BY <1>1, GoesOn, ToRest DEF VerifierInv

LEMMA StartPassKeeps == VerifierInv /\ StartPass => VerifierInv'
<1> SUFFICES ASSUME VerifierInv, StartPass
             PROVE  VerifierInv'
  OBVIOUS
<1>1. GoOn("verifier", Pending) /\ UNCHANGED <<site, rows, lastVerify>>
  BY DEF StartPass, GoOn
<1>2. "verifier" \in Worker
  BY DEF Worker
<1> QED
  BY <1>1, <1>2, GoesOn, ToRest DEF VerifierInv

LEMMA PassOverKeeps == VerifierInv /\ PassOver => VerifierInv'
<1> SUFFICES ASSUME VerifierInv, PassOver
             PROVE  VerifierInv'
  OBVIOUS
<1>1. GoOn("verifier", Tail(worker["verifier"].todo)) /\ UNCHANGED <<site, rows, lastVerify>>
  BY DEF PassOver
<1>2. "verifier" \in Worker
  BY DEF Worker
<1> QED
  BY <1>1, <1>2, GoesOn, ToRest DEF VerifierInv

LEMMA AnsweredKeeps ==
    ASSUME VerifierInv, NEW w \in Worker, Answered(w)
    PROVE  VerifierInv'
<1>1. GoOn(w, AfterAnswer(w)) /\ UNCHANGED <<site, rows, lastVerify>>
  BY DEF Answered
<1> QED
  BY <1>1, GoesOn, ToRest DEF VerifierInv

LEMMA AppendFailsKeeps ==
    ASSUME VerifierInv, NEW w \in Worker, AppendFails(w)
    PROVE  VerifierInv'
<1>1. GoOn(w, <<>>) /\ UNCHANGED <<site, rows, lastVerify>>
  BY DEF AppendFails, GoOn
<1> QED
  BY <1>1, GoesOn, ToRest DEF VerifierInv

\* A check is decided on when the rows there are say nothing: memory knows of none
\* that is younger than the interval.
LEMMA DecideKeeps ==
    ASSUME VerifierInv, NEW w \in Worker, Decide(w)
    PROVE  VerifierInv'
<1> DEFINE c == worker[w]
           k == Subject(w)
<1>1. /\ worker' = [worker EXCEPT ![w] = [c EXCEPT !.at = "mark", !.seen = Len(rows)]]
      /\ c.at = "check" /\ (Recent(k) => RowsOf(k) = {})
      /\ UNCHANGED <<site, rows, lastVerify>>
  BY DEF Decide
<1>2. /\ DOMAIN worker' = Worker /\ \A v \in Worker \ {w} : worker'[v] = worker[v]
      /\ worker'[w] = [c EXCEPT !.at = "mark", !.seen = Len(rows)]
  BY <1>1 DEF VerifierInv
<1>2a. LET d == worker'[w] IN
      /\ d = [at |-> d.at, todo |-> d.todo, age |-> d.age, seen |-> d.seen,
              answers |-> d.answers, verdict |-> d.verdict]
      /\ d.at = "mark" /\ d.seen = Len(rows)
      /\ d.todo = c.todo /\ d.age = c.age /\ d.verdict = c.verdict
  <2>1. c = [at |-> c.at, todo |-> c.todo, age |-> c.age, seen |-> c.seen,
             answers |-> c.answers, verdict |-> c.verdict]
    BY DEF VerifierInv, CheckInv, IsCall
  <2> HIDE DEF c
  <2> QED
    BY <1>2, <2>1
<1>3. Len(rows) \in Nat /\ DOMAIN rows = 1 .. Len(rows) /\ Interval \in Nat \ {0}
  BY RowsAre, VerifierAssumption DEF VerifierInv
<1>4. ASSUME NEW i \in DOMAIN rows, rows[i].key = k
      PROVE  rows[i].age = Interval
  <2>1. ~Recent(k)
    BY <1>1, <1>4 DEF RowsOf
  <2>2. k \in DOMAIN lastVerify => lastVerify[k] \in Age /\ lastVerify[k] >= Interval
    BY <1>3, <2>1 DEF Recent, VerifierInv, RowsInv, Age
  <2>3. /\ rows[i].age \in Age
        /\ k \in DOMAIN lastVerify => lastVerify[k] <= rows[i].age
        /\ k \notin DOMAIN lastVerify => rows[i].age = Interval
    BY <1>4 DEF VerifierInv, RowsInv
  <2> QED
    BY <1>3, <2>2, <2>3 DEF Age
<1>5. CheckInv(w)'
  <2>1. c.age \in Age /\ c.verdict # "confirmed"
    BY <1>1 DEF VerifierInv, CheckInv, IsCall, Asks
  <2>2. Subject(w)' = k
    BY <1>2a DEF Subject
  <2>3. Unanswered(w)'
    BY <1>1, <1>2a, <1>3, <1>4, <2>2 DEF Unanswered
  <2>4. IsCall(worker'[w]) /\ worker'[w].seen \in 0 .. Len(rows')
    BY <1>1, <1>3, <1>2a, <2>1 DEF IsCall
  <2> QED
    BY <1>2a, <2>1, <2>3, <2>4 DEF CheckInv, Asks, Marked, Public, IsCall
<1>6. ASSUME NEW v \in Worker \ {w}
      PROVE  CheckInv(v)'
  BY <1>1, <1>2, CallKept DEF VerifierInv
<1>7. RowsInv'
  BY <1>1 DEF VerifierInv, RowsInv
<1> QED
  BY <1>1, <1>2, <1>5, <1>6, <1>7 DEF VerifierInv

\* A mark is the youngest time there is, and the check that begins is as young.
LEMMA MarkKeeps ==
    ASSUME VerifierInv, NEW w \in Worker, Mark(w)
    PROVE  VerifierInv'
<1> DEFINE c == worker[w]
           k == Subject(w)
<1>1. /\ lastVerify' = [j \in DOMAIN lastVerify \cup {k} |-> IF j = k THEN 0 ELSE lastVerify[j]]
      /\ worker' = [worker EXCEPT ![w] = IF k \in Checkable
              THEN [c EXCEPT !.at = "https", !.seen = 0, !.answers = {site[k]}]
              ELSE [c EXCEPT !.at = "append", !.seen = 0, !.verdict = "refused"]]
      /\ c.at = "mark"
      /\ UNCHANGED <<site, rows>>
  BY DEF Mark
<1>2. /\ DOMAIN worker' = Worker /\ \A v \in Worker \ {w} : worker'[v] = worker[v]
      /\ worker'[w] = IF k \in Checkable
              THEN [c EXCEPT !.at = "https", !.seen = 0, !.answers = {site[k]}]
              ELSE [c EXCEPT !.at = "append", !.seen = 0, !.verdict = "refused"]
  BY <1>1 DEF VerifierInv
<1>3. LET d == worker'[w] IN
      /\ d = [at |-> d.at, todo |-> d.todo, age |-> d.age, seen |-> d.seen,
              answers |-> d.answers, verdict |-> d.verdict]
      /\ d.seen = 0 /\ d.todo = c.todo /\ d.age = c.age
      /\ \/ k \in Checkable /\ d.at = "https" /\ d.answers = {site[k]} /\ d.verdict = c.verdict
         \/ d.at = "append" /\ d.verdict = "refused"
  <2>1. c = [at |-> c.at, todo |-> c.todo, age |-> c.age, seen |-> c.seen,
             answers |-> c.answers, verdict |-> c.verdict]
    BY DEF VerifierInv, CheckInv, IsCall
  <2> HIDE DEF c, k
  <2>2. CASE k \in Checkable
    BY <1>2, <2>1, <2>2
  <2>3. CASE k \notin Checkable
    BY <1>2, <2>1, <2>3
  <2> QED
    BY <2>2, <2>3
<1>4. Len(rows) \in Nat /\ DOMAIN rows = 1 .. Len(rows) /\ 0 \in Age /\ Age \subseteq Nat
  BY RowsAre, VerifierAssumption DEF VerifierInv, Age
<1>5. CheckInv(w)'
  <2>1. c.age \in Age /\ c.verdict # "confirmed"
    BY <1>1 DEF VerifierInv, CheckInv, IsCall, Asks
  <2>2. Subject(w)' = k
    BY <1>3 DEF Subject
  <2>3. IsCall(worker'[w]) /\ worker'[w].seen \in 0 .. Len(rows')
    BY <1>1, <1>3, <1>4, <2>1 DEF IsCall
  <2>4. Asks(w)'
    <3> HIDE DEF c, k
    <3> QED
      BY <1>1, <1>3, <2>1, <2>2 DEF Asks
  <2>5. Marked(w)'
    BY <1>1, <1>3, <1>4, <2>1, <2>2 DEF Marked
  <2>6. Public(w)' /\ Unanswered(w)'
    BY <1>3, <2>1 DEF Public, Unanswered
  <2> QED
    BY <2>3, <2>4, <2>5, <2>6 DEF CheckInv, IsCall
<1>6. ASSUME NEW v \in Worker \ {w}
      PROVE  CheckInv(v)'
  <2>1. CheckInv(v) /\ worker'[v] = worker[v] /\ worker[v].age \in Age
    BY <1>2 DEF VerifierInv, CheckInv, IsCall
  <2>2. Marked(v)'
    BY <1>1, <1>4, <2>1 DEF CheckInv, Marked, Subject
  <2>3. IsCall(worker[v])' /\ Asks(v)' /\ Public(v)' /\ Unanswered(v)'
    BY <1>1, <2>1 DEF CheckInv, IsCall, Asks, Public, Unanswered, Subject
  <2> QED
    BY <1>1, <2>1, <2>2, <2>3 DEF CheckInv
<1>7. RowsInv'
  <2>1. ASSUME NEW j \in DOMAIN lastVerify'
        PROVE  lastVerify'[j] \in Age
    BY <1>1, <1>4 DEF VerifierInv, RowsInv
  <2>2. ASSUME NEW i \in DOMAIN rows
        PROVE  /\ rows[i].key \in DOMAIN lastVerify' => lastVerify'[rows[i].key] <= rows[i].age
               /\ rows[i].key \notin DOMAIN lastVerify' => rows[i].age = Interval
    BY <1>1, <1>4 DEF VerifierInv, RowsInv
  <2> HIDE DEF k
  <2> QED
    BY <1>1, <2>1, <2>2 DEF VerifierInv, RowsInv
<1> QED
  BY <1>1, <1>2, <1>5, <1>6, <1>7 DEF VerifierInv

\* The verdict is on an answer the call remembers.
LEMMA FetchKeeps ==
    ASSUME VerifierInv, NEW w \in Worker, Fetch(w)
    PROVE  VerifierInv'
<1> DEFINE c == worker[w]
           k == Subject(w)
           reply == site[k][c.at]
<1>1. /\ worker' = [worker EXCEPT ![w] =
              IF reply.status # "none"
              THEN [c EXCEPT !.at = "append", !.verdict = ReplyVerdict(KindOf[k], reply)]
              ELSE IF c.at = "https" THEN [c EXCEPT !.at = "http"]
              ELSE [c EXCEPT !.at = "append", !.verdict = "unreachable"]]
      /\ c.at \in {"https", "http"}
      /\ UNCHANGED <<site, rows, lastVerify>>
  BY DEF Fetch
<1>2. /\ DOMAIN worker' = Worker /\ \A v \in Worker \ {w} : worker'[v] = worker[v]
      /\ worker'[w] =
              IF reply.status # "none"
              THEN [c EXCEPT !.at = "append", !.verdict = ReplyVerdict(KindOf[k], reply)]
              ELSE IF c.at = "https" THEN [c EXCEPT !.at = "http"]
              ELSE [c EXCEPT !.at = "append", !.verdict = "unreachable"]
  BY <1>1 DEF VerifierInv
<1>3. LET d == worker'[w] IN
      /\ d = [at |-> d.at, todo |-> d.todo, age |-> d.age, seen |-> d.seen,
              answers |-> d.answers, verdict |-> d.verdict]
      /\ d.seen = c.seen /\ d.todo = c.todo /\ d.age = c.age /\ d.answers = c.answers
      /\ \/ /\ reply.status # "none"
            /\ d.at = "append" /\ d.verdict = ReplyVerdict(KindOf[k], reply)
         \/ d.at = "http" /\ d.verdict = c.verdict
         \/ d.at = "append" /\ d.verdict = "unreachable"
  <2>1. c = [at |-> c.at, todo |-> c.todo, age |-> c.age, seen |-> c.seen,
             answers |-> c.answers, verdict |-> c.verdict]
    BY DEF VerifierInv, CheckInv, IsCall
  <2> HIDE DEF c, k, reply
  <2>2. CASE reply.status # "none"
    BY <1>2, <2>1, <2>2
  <2>3. CASE reply.status = "none" /\ c.at = "https"
    BY <1>2, <2>1, <2>3
  <2>4. CASE reply.status = "none" /\ c.at # "https"
    BY <1>2, <2>1, <2>4
  <2> QED
    BY <2>2, <2>3, <2>4
<1>4. /\ IsCall(c) /\ c.seen \in 0 .. Len(rows) /\ c.verdict # "confirmed"
      /\ k \in Checkable /\ site[k] \in c.answers
      /\ k \in DOMAIN lastVerify /\ lastVerify[k] <= c.age
  BY <1>1 DEF VerifierInv, CheckInv, Asks, Marked
<1>5. reply \in Reply
  <2>1. site[k] \in [https: Reply, http: Reply]
    BY <1>4, SitesAnswer DEF VerifierInv
  <2> QED
    BY <1>1, <2>1
<1>6. Subject(w)' = k
  BY <1>3 DEF Subject
<1>7. ASSUME worker'[w].verdict = "confirmed"
      PROVE  Public(w)'
  <2>1. reply.status # "none" /\ ReplyVerdict(KindOf[k], reply) = "confirmed"
    BY <1>3, <1>4, <1>7
  <2>2. reply.status = "ok" /\ Recognised(KindOf[k], reply)
    BY <1>5, <2>1, ConfirmedByReply
  <2>3. /\ reply.marks \cap Signs[KindOf[k]] # {}
        /\ reply.page => KindOf[k] \in {"vcs", "debug"}
    BY <2>2, RecognisedSigns
  <2>4. site[k] \in worker'[w].answers
    BY <1>3, <1>4
  <2> QED
    BY <1>1, <1>6, <2>2, <2>3, <2>4 DEF Public
<1>8. CheckInv(w)'
  <2> HIDE DEF c, k, reply
  <2>1. IsCall(worker'[w]) /\ worker'[w].seen \in 0 .. Len(rows')
    BY <1>1, <1>3, <1>4 DEF IsCall
  <2>2. Asks(w)'
    BY <1>1, <1>3, <1>4, <1>6 DEF Asks
  <2>3. Marked(w)'
    BY <1>1, <1>3, <1>4, <1>6 DEF Marked
  <2>4. Public(w)'
    BY <1>7 DEF Public
  <2>5. Unanswered(w)'
    BY <1>3 DEF Unanswered
  <2> QED
    BY <2>1, <2>2, <2>3, <2>4, <2>5 DEF CheckInv, IsCall
<1>9. ASSUME NEW v \in Worker \ {w}
      PROVE  CheckInv(v)'
  BY <1>1, <1>2, CallKept DEF VerifierInv
<1>10. RowsInv'
  BY <1>1 DEF VerifierInv, RowsInv
<1> QED
  BY <1>1, <1>2, <1>8, <1>9, <1>10 DEF VerifierInv

\* A site changes under a check: the check has been told what it answers now.
LEMMA SiteChangesKeeps ==
    ASSUME VerifierInv, NEW k \in Checkable, SiteChanges(k)
    PROVE  VerifierInv'
<1>1. PICK new \in Sites :
         /\ site' = [site EXCEPT ![k] = new]
         /\ worker' = [w \in Worker |-> IF Asking(w, k)
                                       THEN [worker[w] EXCEPT !.answers = @ \cup {new}]
                                       ELSE worker[w]]
         /\ UNCHANGED <<rows, lastVerify>>
  BY DEF SiteChanges
<1>2. site' \in [Checkable -> Sites] /\ site'[k] = new
      /\ \A j \in Checkable \ {k} : site'[j] = site[j]
  BY <1>1 DEF VerifierInv
<1>3. ASSUME NEW w \in Worker
      PROVE  CheckInv(w)'
  <2> DEFINE c == worker[w]
  <2>1. CheckInv(w) /\ c = [at |-> c.at, todo |-> c.todo, age |-> c.age, seen |-> c.seen,
                           answers |-> c.answers, verdict |-> c.verdict]
    BY DEF VerifierInv, CheckInv, IsCall
  <2>2. worker'[w] = IF Asking(w, k) THEN [c EXCEPT !.answers = c.answers \cup {new}] ELSE c
    BY <1>1
  <2>3. LET d == worker'[w] IN
        /\ d = [at |-> d.at, todo |-> d.todo, age |-> d.age, seen |-> d.seen,
                answers |-> d.answers, verdict |-> d.verdict]
        /\ d.at = c.at /\ d.todo = c.todo /\ d.age = c.age /\ d.seen = c.seen
        /\ d.verdict = c.verdict /\ c.answers \subseteq d.answers
        /\ Asking(w, k) => new \in d.answers
    <3> HIDE DEF c
    <3>1. CASE Asking(w, k)
      BY <2>1, <2>2, <3>1
    <3>2. CASE ~Asking(w, k)
      BY <2>1, <2>2, <3>2
    <3> QED
      BY <3>1, <3>2
  <2>4. Subject(w)' = Subject(w)
    BY <2>3 DEF Subject
  <2>5. IsCall(worker'[w]) /\ worker'[w].seen \in 0 .. Len(rows')
    BY <1>1, <2>1, <2>3 DEF CheckInv, IsCall
  <2>6. Asks(w)'
    <3>1. CASE c.at \in {"https", "http"} /\ Subject(w) = k
      BY <1>2, <2>1, <2>3, <2>4, <3>1 DEF CheckInv, Asks, Asking, Subject
    <3>2. CASE ~(c.at \in {"https", "http"} /\ Subject(w) = k)
      BY <1>2, <2>1, <2>3, <2>4, <3>2 DEF CheckInv, Asks
    <3> QED
      BY <3>1, <3>2
  <2>7. Marked(w)'
    BY <1>1, <2>1, <2>3, <2>4 DEF CheckInv, Marked
  <2>8. Public(w)'
    <3> HIDE DEF c
    <3>1. CASE worker[w].verdict = "confirmed"
      BY <2>1, <2>3, <2>4, <3>1 DEF CheckInv, Public, c
    <3>2. CASE worker[w].verdict # "confirmed"
      BY <2>3, <3>2 DEF Public, c
    <3> QED
      BY <3>1, <3>2
  <2>9. Unanswered(w)'
    BY <1>1, <2>1, <2>3, <2>4 DEF CheckInv, Unanswered
  <2> QED
    BY <2>5, <2>6, <2>7, <2>8, <2>9 DEF CheckInv, IsCall
<1>4. RowsInv'
  BY <1>1 DEF VerifierInv, RowsInv
<1>5. DOMAIN worker' = Worker
  BY <1>1
<1> QED
  BY <1>2, <1>3, <1>4, <1>5 DEF VerifierInv

\* All times grow together, up to the interval.
LEMMA TickKeeps ==
    ASSUME VerifierInv, TimePasses
    PROVE  VerifierInv'
<1>1. /\ \A w \in Worker : worker[w].at # "mark"
      /\ lastVerify' = [k \in DOMAIN lastVerify |-> Older(lastVerify[k])]
      /\ rows' = [i \in DOMAIN rows |-> [rows[i] EXCEPT !.age = Older(rows[i].age)]]
      /\ worker' = [w \in Worker |-> IF worker[w].at \in {"https", "http", "append"}
                                    THEN [worker[w] EXCEPT !.age = Older(worker[w].age)]
                                    ELSE worker[w]]
      /\ UNCHANGED site
  BY DEF TimePasses
<1>2. /\ Len(rows) \in Nat /\ DOMAIN rows = 1 .. Len(rows)
      /\ Interval \in Nat /\ Interval \in Age /\ Older(Interval) = Interval
  BY RowsAre, VerifierAssumption DEF VerifierInv, Age, Older
<1>3. ASSUME NEW i \in DOMAIN rows
      PROVE  /\ rows'[i] = [key |-> rows[i].key, age |-> Older(rows[i].age)]
             /\ rows'[i].key = rows[i].key /\ rows'[i].age = Older(rows[i].age)
  <2>1. rows[i] = [key |-> rows[i].key, age |-> rows[i].age]
    BY DEF VerifierInv, RowsInv
  <2>2. rows'[i] = [rows[i] EXCEPT !.age = Older(rows[i].age)]
    BY <1>1
  <2> QED
    BY <2>1, <2>2
<1>4. /\ DOMAIN rows' = 1 .. Len(rows) /\ rows' \in Seq({rows'[i] : i \in DOMAIN rows'})
      /\ Len(rows') = Len(rows)
  BY <1>1, <1>2
<1>5. RowsInv'
  <2>1. ASSUME NEW k \in DOMAIN lastVerify'
        PROVE  lastVerify'[k] \in Age
    BY <1>1, OlderIs DEF VerifierInv, RowsInv, Age
  <2>2. ASSUME NEW i \in DOMAIN rows'
        PROVE  /\ rows'[i] = [key |-> rows'[i].key, age |-> rows'[i].age]
               /\ rows'[i].age \in Age
               /\ rows'[i].key \in DOMAIN lastVerify' => lastVerify'[rows'[i].key] <= rows'[i].age
               /\ rows'[i].key \notin DOMAIN lastVerify' => rows'[i].age = Interval
    <3>1. /\ i \in DOMAIN rows /\ rows[i].age \in Age
          /\ rows[i].key \in DOMAIN lastVerify => /\ lastVerify[rows[i].key] \in Age
                                                  /\ lastVerify[rows[i].key] <= rows[i].age
          /\ rows[i].key \notin DOMAIN lastVerify => rows[i].age = Interval
      BY <1>2, <1>4 DEF VerifierInv, RowsInv
    <3>2. Older(rows[i].age) \in Age
      BY <3>1, OlderIs DEF Age
    <3>3. CASE rows[i].key \in DOMAIN lastVerify
      <4>1. Older(lastVerify[rows[i].key]) <= Older(rows[i].age)
        BY <3>1, <3>3, OlderIs
      <4> QED
        BY <1>1, <1>3, <3>1, <3>2, <3>3, <4>1
    <3>4. CASE rows[i].key \notin DOMAIN lastVerify
      BY <1>1, <1>2, <1>3, <3>1, <3>2, <3>4
    <3> QED
      BY <3>3, <3>4
  <2> QED
    BY <1>4, <2>1, <2>2 DEF RowsInv
<1>6. ASSUME NEW w \in Worker
      PROVE  CheckInv(w)'
  <2> DEFINE c == worker[w]
  <2>1. /\ CheckInv(w) /\ c.age \in Age
        /\ c = [at |-> c.at, todo |-> c.todo, age |-> c.age, seen |-> c.seen,
                answers |-> c.answers, verdict |-> c.verdict]
    BY DEF VerifierInv, CheckInv, IsCall
  <2>2. worker'[w] = IF c.at \in {"https", "http", "append"} THEN [c EXCEPT !.age = Older(c.age)]
                                                            ELSE c
    BY <1>1
  <2>3. LET d == worker'[w] IN
        /\ d = [at |-> d.at, todo |-> d.todo, age |-> d.age, seen |-> d.seen,
                answers |-> d.answers, verdict |-> d.verdict]
        /\ d.at = c.at /\ d.todo = c.todo /\ d.seen = c.seen /\ d.answers = c.answers
        /\ d.verdict = c.verdict
        /\ d.age = IF c.at \in {"https", "http", "append"} THEN Older(c.age) ELSE c.age
    <3> HIDE DEF c
    <3>1. CASE c.at \in {"https", "http", "append"}
      BY <2>1, <2>2, <3>1
    <3>2. CASE c.at \notin {"https", "http", "append"}
      BY <2>1, <2>2, <3>2
    <3> QED
      BY <3>1, <3>2
  <2>4. Subject(w)' = Subject(w) /\ Older(c.age) \in Age
    BY <2>1, <2>3, OlderIs DEF Subject, Age
  <2>5. IsCall(worker'[w]) /\ worker'[w].seen \in 0 .. Len(rows')
    BY <1>4, <2>1, <2>3, <2>4 DEF CheckInv, IsCall
  <2>6. Asks(w)'
    BY <1>1, <2>1, <2>3, <2>4 DEF CheckInv, Asks
  <2>7. Marked(w)'
    <3>1. CASE c.at \in {"https", "http", "append"}
      <4>1. /\ Subject(w) \in DOMAIN lastVerify /\ lastVerify[Subject(w)] \in Age
            /\ lastVerify[Subject(w)] <= c.age
        BY <2>1, <3>1 DEF CheckInv, Marked, VerifierInv, RowsInv
      <4>2. Older(lastVerify[Subject(w)]) <= Older(c.age)
        BY <2>1, <4>1, OlderIs
      <4> QED
        BY <1>1, <2>3, <2>4, <3>1, <4>1, <4>2 DEF Marked
    <3>2. CASE c.at \notin {"https", "http", "append"}
      BY <2>3, <3>2 DEF Marked
    <3> QED
      BY <3>1, <3>2
  <2>8. Public(w)'
    BY <2>1, <2>3, <2>4 DEF CheckInv, Public
  <2>9. Unanswered(w)'
    BY <1>1, <2>3 DEF Unanswered
  <2> QED
    BY <2>5, <2>6, <2>7, <2>8, <2>9 DEF CheckInv, IsCall
<1> QED
  BY <1>1, <1>5, <1>6 DEF VerifierInv

\* A row is as old as its check, so no younger than the mark of its exposure.
LEMMA AppendRowKeeps ==
    ASSUME VerifierInv, NEW w \in Worker, AppendRow(w)
    PROVE  VerifierInv'
<1> DEFINE k == Subject(w)
           age == worker[w].age
           row == [key |-> k, age |-> age]
           n == Len(rows)
<1>1. /\ rows' = Append(rows, row) /\ GoOn(w, AfterAnswer(w))
      /\ worker[w].at = "append"
      /\ UNCHANGED <<site, lastVerify>>
  BY DEF AppendRow
<1>2. /\ DOMAIN worker' = Worker /\ \A v \in Worker \ {w} : worker'[v] = worker[v]
      /\ IsCall(worker'[w]) /\ worker'[w].at \in {"idle", "check"}
      /\ worker'[w].seen = 0 /\ worker'[w].verdict = NoVerdict
  BY <1>1, GoesOn DEF VerifierInv
<1>3. n \in Nat /\ DOMAIN rows = 1 .. n
  BY RowsAre DEF VerifierInv
<1>4. /\ Len(rows') = n + 1 /\ DOMAIN rows' = 1 .. n + 1
      /\ rows'[n + 1] = row /\ \A i \in 1 .. n : rows'[i] = rows[i]
  <2>1. rows \in Seq({rows[i] : i \in DOMAIN rows} \cup {row})
    BY DEF VerifierInv, RowsInv
  <2> HIDE DEF row
  <2> QED
    BY <1>1, <2>1
<1>5. rows' \in Seq({rows'[i] : i \in DOMAIN rows'})
  <2>1. rows' \in [1 .. n + 1 -> {rows'[i] : i \in DOMAIN rows'}]
    <3>1. \E S : rows' \in Seq(S)
      <4>1. rows \in Seq({rows[i] : i \in DOMAIN rows} \cup {row})
        BY DEF VerifierInv, RowsInv
      <4> HIDE DEF row
      <4> QED
        BY <1>1, <4>1
    <3> HIDE DEF n
    <3> QED
      BY <1>4, <3>1
  <2> HIDE DEF n
  <2> QED
    BY <1>3, <2>1
<1>6. RowsInv'
  <2>1. k \in DOMAIN lastVerify /\ lastVerify[k] <= age /\ age \in Age
    BY <1>1 DEF VerifierInv, CheckInv, Marked, IsCall
  <2>2. ASSUME NEW i \in DOMAIN rows'
        PROVE  /\ rows'[i] = [key |-> rows'[i].key, age |-> rows'[i].age]
               /\ rows'[i].age \in Age
               /\ rows'[i].key \in DOMAIN lastVerify => lastVerify[rows'[i].key] <= rows'[i].age
               /\ rows'[i].key \notin DOMAIN lastVerify => rows'[i].age = Interval
    <3>1. CASE i = n + 1
      <4>1. rows'[i] = [key |-> k, age |-> age] /\ rows'[i].key = k /\ rows'[i].age = age
        BY <1>4, <3>1
      <4> HIDE DEF k, age
      <4> QED
        BY <2>1, <4>1
    <3>2. CASE i # n + 1
      <4>1. i \in DOMAIN rows /\ rows'[i] = rows[i]
        BY <1>3, <1>4, <3>2
      <4> QED
        BY <4>1 DEF VerifierInv, RowsInv
    <3> QED
      BY <3>1, <3>2
  <2> QED
    BY <1>1, <1>5, <2>2 DEF VerifierInv, RowsInv
<1>7. CheckInv(w)'
  BY <1>2, <1>3, <1>4, Resting
<1>8. ASSUME NEW v \in Worker \ {w}
      PROVE  CheckInv(v)'
  <2>1. CheckInv(v) /\ worker'[v] = worker[v]
    BY <1>2 DEF VerifierInv
  <2>2. IsCall(worker[v])' /\ Asks(v)' /\ Marked(v)' /\ Public(v)'
    BY <1>1, <2>1 DEF CheckInv, IsCall, Asks, Marked, Public, Subject
  <2>3. worker[v].seen \in 0 .. n + 1 /\ 1 .. worker[v].seen \subseteq 1 .. n
    BY <1>3, <2>1 DEF CheckInv
  <2>4. Unanswered(v)'
    <3> HIDE DEF n
    <3> QED
      BY <1>4, <2>1, <2>3 DEF CheckInv, Unanswered, Subject
  <2> QED
    BY <1>4, <2>1, <2>2, <2>3, <2>4 DEF CheckInv
<1> QED
  BY <1>1, <1>2, <1>6, <1>7, <1>8 DEF VerifierInv

\* A restarted console has forgotten all times, and its rows are old.
LEMMA RestartKeeps ==
    ASSUME VerifierInv, ConsoleRestarts
    PROVE  VerifierInv'
<1>1. /\ worker' = [w \in Worker |-> NoCheck]
      /\ lastVerify' = [k \in {} |-> 0]
      /\ rows' = [i \in DOMAIN rows |-> [rows[i] EXCEPT !.age = Interval]]
      /\ UNCHANGED site
  BY DEF ConsoleRestarts
<1>2. Len(rows) \in Nat /\ DOMAIN rows = 1 .. Len(rows) /\ Interval \in Age
  BY RowsAre, VerifierAssumption DEF VerifierInv, Age
<1>3. ASSUME NEW i \in DOMAIN rows
      PROVE  rows'[i] = [key |-> rows[i].key, age |-> Interval]
  <2>1. rows[i] = [key |-> rows[i].key, age |-> rows[i].age]
    BY DEF VerifierInv, RowsInv
  <2>2. rows'[i] = [rows[i] EXCEPT !.age = Interval]
    BY <1>1
  <2> QED
    BY <2>1, <2>2
<1>4. /\ DOMAIN rows' = 1 .. Len(rows) /\ rows' \in Seq({rows'[i] : i \in DOMAIN rows'})
      /\ Len(rows') = Len(rows)
  BY <1>1, <1>2
<1>5. RowsInv'
  <2>1. DOMAIN lastVerify' = {}
    BY <1>1
  <2>2. ASSUME NEW i \in DOMAIN rows'
        PROVE  /\ rows'[i] = [key |-> rows'[i].key, age |-> rows'[i].age]
               /\ rows'[i].age \in Age /\ rows'[i].age = Interval
    <3>1. rows'[i] = [key |-> rows[i].key, age |-> Interval]
      BY <1>2, <1>3, <1>4
    <3> QED
      BY <1>2, <3>1
  <2> QED
    BY <1>4, <2>1, <2>2 DEF RowsInv
<1>6. ASSUME NEW w \in Worker
      PROVE  CheckInv(w)'
  <2>1. worker'[w] = NoCheck
    BY <1>1
  <2> QED
    BY <1>2, <1>4, <2>1, IdleIsCall, Resting
<1> QED
  BY <1>1, <1>5, <1>6 DEF VerifierInv

LEMMA OtherChecksKeep ==
    ASSUME VerifierInv, UNCHANGED <<site, rows, lastVerify, worker>>
    PROVE  VerifierInv'
<1>1. ASSUME NEW w \in Worker
      PROVE  CheckInv(w)'
  BY CallKept DEF VerifierInv
<1> QED
  BY <1>1 DEF VerifierInv, RowsInv

-----------------------------------------------------------------------------
(* The theorems.                                                           *)

\* In every state, each call and each row is as the invariants above say.
THEOREM Checks == VerifierSpec => []VerifierInv
<1>1. VerifierInv /\ [VerifierNext]_verifierVars => VerifierInv'
  <2> SUFFICES ASSUME VerifierInv, [VerifierNext]_verifierVars
               PROVE  VerifierInv'
    OBVIOUS
  <2>1. CASE UNCHANGED verifierVars
    BY <2>1, OtherChecksKeep DEF verifierVars
  <2>2. ASSUME NEW a \in Alert, Emit(a)
        PROVE  VerifierInv'
    BY <2>2, OtherChecksKeep DEF Emit
  <2>3. ASSUME NEW w \in Analyst, NEW a \in Alert, Ask(w, a)
        PROVE  VerifierInv'
    BY <2>3, AskKeeps DEF Worker
  <2>4. ASSUME NEW w \in Worker, Step(w) \/ AppendFails(w)
        PROVE  VerifierInv'
    BY <2>4, AnsweredKeeps, DecideKeeps, MarkKeeps, FetchKeeps, AppendRowKeeps,
       AppendFailsKeeps DEF Step
  <2> QED
    BY <2>1, <2>2, <2>3, <2>4, SiteChangesKeeps, TickKeeps, StartPassKeeps, PassOverKeeps,
       RestartKeeps DEF VerifierNext
<1> QED
  BY <1>1, InvInit, PTL DEF VerifierSpec

\* What is confirmed was public while it was checked: however the site changed between
\* the two requests, it answered with a body that bears a sign of the exposure's kind.
THEOREM ConfirmedIsPublic == VerifierSpec => []ConfirmedWasPublic
<1>1. VerifierInv => ConfirmedWasPublic
  BY DEF VerifierInv, CheckInv, Public, ConfirmedWasPublic
<1> QED
  BY <1>1, Checks, PTL

\* The rate limit against any number of threads, failures and restarts: a site is asked
\* for an exposure again within the interval only by a call that was decided on before
\* the first result was in the file.
THEOREM OnlyUnansweredRepeat == VerifierSpec => []RepeatsUnansweredOnly
<1>1. VerifierInv => RepeatsUnansweredOnly
  BY DEF VerifierInv, CheckInv, Unanswered, RepeatsUnansweredOnly
<1> QED
  BY <1>1, Checks, PTL
=============================================================================
