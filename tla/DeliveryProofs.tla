--------------------------- MODULE DeliveryProofs ---------------------------
(***************************************************************************)
(* Theorems of Delivery, for every value of its constants: its types, what *)
(* delivery guarantees in whatever order windows close, and from "Windows  *)
(* that close in order" on what it guarantees only when they do.           *)
(*                                                                         *)
(* The flags of progressive alerting are true of the alerts they speak of, *)
(* no exposure goes without a delivered alert, and no day takes more scans *)
(* than its budget.  In order, cooldowns, queues, campaigns and sustained  *)
(* findings hold of the whole log.                                         *)
(***************************************************************************)
EXTENDS Delivery, TLAPS, FiniteSetTheorems

ConstantAssumptions ==
    /\ DayLength \in Nat \ {0}
    /\ Horizon \in Nat
    /\ EpisodeGap \in Nat
    /\ HighWindows \in Nat \ {0}
    /\ DailyBudget \in Nat

\* The assumptions on integers that the steps below rely on.
LEMMA Constants == ConstantAssumptions
BY DayLengthIsPositive, HorizonIsNatural, GapIsNatural, HighIsNatural, BudgetIsNatural
   DEF ConstantAssumptions

-----------------------------------------------------------------------------
(* Types of the operators the stages are made of.                          *)

LEMMA DayType == \A ts \in Time : Day(ts) \in Nat /\ Day(ts) \in Days
BY Constants DEF ConstantAssumptions, Time, Day, Days

\* The alert of an outcome is an alert, stamped within the model's time.
LEMMA AlertType ==
    ASSUME TypeOK, NEW o \in Outcome
    PROVE  AlertOf(o) \in Alert
<1>1. Len(log) \in Nat
  BY DEF TypeOK
<1>2. Carried(o) \in SUBSET Key
  BY DEF Carried, Outcome
<1>. QED
  BY <1>1, <1>2 DEF AlertOf, Alert, AlertId, Outcome

LEMMA RefType == \A al \in Alert : RefTo(al) \in Ref /\ Found(al) \in BOOLEAN
BY DEF RefTo, Ref, Found, Alert

\* What _evict leaves has the type it found.
LEMMA LiveTypes ==
    ASSUME ProgressionTypeOK, NEW now \in Time
    PROVE  /\ LiveEpisodes(now) \in [Addr -> Episode \cup {None}]
           /\ LiveQueued(now) \in [Addr -> Daily \cup {None}]
           /\ LiveCampaigns(now) \in [UserAgent -> Campaign \cup {None}]
BY DEF ProgressionTypeOK, LiveEpisodes, LiveQueued, LiveCampaigns

LEMMA AdvancedType ==
    ASSUME ProgressionTypeOK, NEW al \in Alert
    PROVE  Advanced(al) \in Episode
<1>. DEFINE e == LiveEpisodes(al.ts)[al.ip]
<1>1. al.ts \in Time /\ al.ip \in Addr
  BY DEF Alert
<1>2. e \in Episode \cup {None}
  BY <1>1, LiveTypes
<1>3. CASE e = None
  BY <1>1, <1>3 DEF Advanced, Episode
<1>4. CASE e # None
  <2>1. e \in Episode
    BY <1>2, <1>4
  <2>2. CASE al.ts > e.last
    BY <1>1, <1>4, <2>1, <2>2 DEF Advanced, Episode
  <2>3. CASE ~(al.ts > e.last)
    BY <1>4, <2>1, <2>3 DEF Advanced
  <2>. QED
    BY <2>2, <2>3
<1>. QED
  BY <1>3, <1>4

LEMMA CampaignRefType ==
    ASSUME ProgressionTypeOK, NEW al \in Alert, CampaignRef(al) # None
    PROVE  /\ LiveCampaigns(al.ts)[al.ua] \in Campaign
           /\ CampaignRef(al) = LiveCampaigns(al.ts)[al.ua].ref
           /\ CampaignRef(al) \in Ref
<1>1. al.ts \in Time /\ al.ua \in UserAgent
  BY DEF Alert
<1>2. LiveCampaigns(al.ts)[al.ua] \in Campaign \cup {None}
  BY <1>1, LiveTypes
<1>3. LiveCampaigns(al.ts)[al.ua] # None
  BY DEF CampaignRef
<1>. QED
  BY <1>2, <1>3 DEF CampaignRef, Campaign

-----------------------------------------------------------------------------
(* Type correctness.                                                       *)

\* Progression.decide keeps its state well typed.
LEMMA DecideType ==
    ASSUME ProgressionTypeOK, NEW al \in Alert, Decide(al)
    PROVE  ProgressionTypeOK'
<1>1. al.ts \in Time /\ al.ip \in Addr /\ al.ua \in UserAgent
  BY DEF Alert
<1>2. /\ LiveEpisodes(al.ts) \in [Addr -> Episode \cup {None}]
      /\ LiveQueued(al.ts) \in [Addr -> Daily \cup {None}]
      /\ LiveCampaigns(al.ts) \in [UserAgent -> Campaign \cup {None}]
  BY <1>1, LiveTypes
<1>3. Advanced(al) \in Episode /\ RefTo(al) \in Ref /\ Day(al.ts) \in Nat
  BY <1>1, AdvancedType, RefType, DayType
<1>4. ASSUME NEW ref \in Ref
      PROVE  /\ [Advanced(al) EXCEPT !.window = ref] \in Episode
             /\ [Advanced(al) EXCEPT !.window = ref, !.queued = ref] \in Episode
             /\ [day |-> Day(al.ts), ref |-> ref] \in Daily
             /\ [last |-> al.ts, ref |-> ref] \in Campaign
  BY <1>1, <1>3, <1>4 DEF Episode, Daily, Campaign
<1>5. CASE FoldByAddress(al)
  BY <1>1, <1>2, <1>3, <1>5 DEF FoldByAddress, ProgressionTypeOK
<1>6. CASE FoldByCampaign(al)
  <2>1. CampaignRef(al) # None
    BY <1>6 DEF FoldByCampaign, ByCampaign, Takes
  <2>2. CampaignRef(al) \in Ref /\ LiveCampaigns(al.ts)[al.ua] \in Campaign
    BY <2>1, CampaignRefType
  <2>3. episodes' \in [Addr -> Episode \cup {None}] /\ queued' \in [Addr -> Daily \cup {None}]
    BY <1>1, <1>2, <1>4, <1>6, <2>2 DEF FoldByCampaign, Represent
  <2>4. ASSUME NEW t \in Time
        PROVE  [LiveCampaigns(al.ts)[al.ua] EXCEPT !.last = t] \in Campaign
    BY <2>2, <2>4 DEF Campaign
  <2>5. LiveCampaigns(al.ts)[al.ua].last \in Time
    BY <2>2 DEF Campaign
  <2>6. campaigns' \in [UserAgent -> Campaign \cup {None}]
    BY <1>1, <1>2, <1>6, <2>4, <2>5 DEF FoldByCampaign
  <2>. QED
    BY <2>3, <2>6 DEF ProgressionTypeOK
<1>7. CASE Queue(al)
  <2>1. episodes' \in [Addr -> Episode \cup {None}] /\ queued' \in [Addr -> Daily \cup {None}]
    BY <1>1, <1>2, <1>3, <1>4, <1>7 DEF Queue, Represent
  <2>2. campaigns' \in [UserAgent -> Campaign \cup {None}]
    BY <1>1, <1>2, <1>3, <1>4, <1>7 DEF Queue
  <2>. QED
    BY <2>1, <2>2 DEF ProgressionTypeOK
<1>8. CASE Candidate(al)
  BY <1>1, <1>2, <1>3, <1>4, <1>8 DEF Candidate, ProgressionTypeOK
<1>. QED
  BY <1>5, <1>6, <1>7, <1>8 DEF Decide, Fold

\* AlertDeduplicator.decide keeps its state well typed.
LEMMA DedupType ==
    ASSUME DedupTypeOK, NEW al \in Alert,
           FoldByEntity(al) \/ FoldBySource(al) \/ OpenNew(al)
    PROVE  DedupTypeOK'
<1>. DEFINE E == Addr \X UserAgent
            entities == Unexpired(openAlerts, al.ts)
            sources == Unexpired(openSources, al.ts)
<1>1. al.ts \in Time /\ al.ip \in Addr /\ <<al.ip, al.ua>> \in E /\ al.id \in AlertId
  BY DEF Alert
<1>2. entities \in [E -> Open \cup {None}] /\ sources \in [Addr -> Open \cup {None}]
  BY DEF DedupTypeOK, Unexpired
<1>3. ASSUME NEW open \in Open
      PROVE  [open EXCEPT !.last = al.ts] \in Open
  BY <1>1, <1>3 DEF Open
<1>4. [id |-> al.id, last |-> al.ts] \in Open
  BY <1>1 DEF Open
<1>5. Touched(sources, al) \in [Addr -> Open \cup {None}]
  BY <1>1, <1>2, <1>3 DEF Touched
<1>6. CASE FoldByEntity(al)
  <2>1. entities[<<al.ip, al.ua>>] \in Open
    BY <1>1, <1>2, <1>6 DEF FoldByEntity, EntityAlert
  <2>2. [entities[<<al.ip, al.ua>>] EXCEPT !.last = al.ts] \in Open
    BY <1>3, <2>1
  <2>3. openAlerts' = [entities EXCEPT
            ![<<al.ip, al.ua>>] = [entities[<<al.ip, al.ua>>] EXCEPT !.last = al.ts]]
    BY <1>6 DEF FoldByEntity
  <2>4. openSources' = Touched(sources, al)
    BY <1>6 DEF FoldByEntity
  <2>. HIDE DEF entities, sources, E
  <2>5. openAlerts' \in [E -> Open \cup {None}]
    BY <1>1, <1>2, <2>2, <2>3
  <2>. QED
    BY <1>5, <2>4, <2>5 DEF DedupTypeOK, E
<1>7. CASE FoldBySource(al)
  BY <1>2, <1>5, <1>7 DEF FoldBySource, DedupTypeOK
<1>8. CASE OpenNew(al)
  BY <1>1, <1>2, <1>4, <1>8 DEF OpenNew, DedupTypeOK
<1>. QED
  BY <1>6, <1>7, <1>8

LEMMA SpendType ==
    ASSUME BudgetTypeOK, NEW al \in Alert, Spend(al) \/ OverBudget(al)
    PROVE  BudgetTypeOK'
<1>1. Day(al.ts) \in Days
  BY DayType DEF Alert
<1>. QED
  BY <1>1 DEF BudgetTypeOK, Spend, OverBudget

LEMMA TrackType ==
    ASSUME TrackerTypeOK, NEW al \in Alert, Track(al)
    PROVE  TrackerTypeOK'
<1>1. [id |-> al.id, at |-> al.ts] \in Raised
  BY DEF Alert, Raised
<1>. QED
  BY <1>1 DEF TrackerTypeOK, Track

\* The row of an outcome: what is written is the alert with its disposition.
LEMMA RowType ==
    ASSUME TypeOK, NEW o \in Outcome, NEW fate \in Fate,
           NEW by \in FoldedBys,
           NEW into \in AlertId \cup {None},
           Record(o, fate, by, into)
    PROVE  /\ log' \in Seq(Row)
           /\ Len(log') = Len(log) + 1
           /\ \A i \in 1 .. Len(log) : log'[i] = log[i]
           /\ log'[Len(log')] = [id |-> AlertOf(o).id, ip |-> o.ip, ua |-> o.ua,
                                ts |-> o.ts, keys |-> Carried(o), fired |-> o.fired,
                                fate |-> fate, by |-> by, into |-> into]
<1>. DEFINE row == [id |-> AlertOf(o).id, ip |-> o.ip, ua |-> o.ua, ts |-> o.ts,
                    keys |-> Carried(o), fired |-> o.fired, fate |-> fate,
                    by |-> by, into |-> into]
<1>1. AlertOf(o) \in Alert
  BY AlertType
<1>2. log' = Append(log, row)
  BY DEF Record, AlertOf
<1>3. row \in Row
  BY <1>1 DEF Row, Alert, AlertOf, Outcome
<1>4. log \in Seq(Row)
  BY DEF TypeOK
<1>. HIDE DEF row
<1>5. Append(log, row) \in Seq(Row) /\ Len(Append(log, row)) = Len(log) + 1
  BY <1>3, <1>4
<1>6. /\ Append(log, row)[Len(log) + 1] = row
      /\ \A i \in 1 .. Len(log) : Append(log, row)[i] = log[i]
  BY <1>3, <1>4
<1>7. log'[Len(log')] = row
  BY <1>2, <1>5, <1>6
<1>. QED
  BY <1>2, <1>5, <1>6, <1>7 DEF row
\* What FoldScan records: the alert a progressive fold ends in.
LEMMA FoldedIntoType ==
    ASSUME ProgressionTypeOK, NEW al \in Alert, Fold(al)
    PROVE  /\ FoldedInto(al).id \in AlertId
           /\ FoldedBy(al) \in {"episode", "source", "campaign"}
<1>1. al.ts \in Time /\ al.ip \in Addr /\ al.ua \in UserAgent
  BY DEF Alert
<1>2. Advanced(al) \in Episode
  BY AdvancedType
<1>3. LiveQueued(al.ts)[al.ip] \in Daily \cup {None}
  BY <1>1, LiveTypes
<1>4. Advanced(al).queued # None => Advanced(al).queued.id \in AlertId
  BY <1>2 DEF Episode, Ref
<1>5. Advanced(al).window # None => Advanced(al).window.id \in AlertId
  BY <1>2 DEF Episode, Ref
<1>6. TodayRef(al) # None => TodayRef(al).id \in AlertId
  BY <1>3 DEF TodayRef, Daily, Ref
<1>7. CampaignRef(al) # None => CampaignRef(al).id \in AlertId
  BY CampaignRefType DEF Ref
<1>8. CASE ByEpisode(al)
  BY <1>4, <1>8 DEF ByEpisode, Takes, FoldedInto, FoldedBy, ByDay, BySource,
                     ByCampaign, ByAddress
<1>9. CASE ByDay(al)
  BY <1>6, <1>9 DEF ByDay, Takes, FoldedInto, FoldedBy, BySource, ByCampaign, ByAddress
<1>10. CASE BySource(al)
  BY <1>5, <1>10 DEF BySource, Takes, FoldedInto, FoldedBy, ByCampaign, ByAddress
<1>11. CASE ByCampaign(al)
  BY <1>7, <1>11 DEF ByCampaign, Takes, FoldedInto, FoldedBy, ByAddress
<1>. QED
  BY <1>8, <1>9, <1>10, <1>11 DEF Fold, FoldByAddress, FoldByCampaign, ByAddress

\* Time moves on, and stays within the horizon.
LEMMA ArrivesType ==
    ASSUME TypeOK, NEW o \in Outcome, Arrives(o)
    PROVE  clock' \in Time
BY DEF TypeOK, Arrives, Outcome

Handle(o) ==
    \/ Withhold(o) \/ RaiseExposure(o) \/ FoldExposure(o) \/ NoteExposure(o)
    \/ FoldScan(o) \/ DigestCandidate(o) \/ FoldRepeat(o)
    \/ Deliver(o) \/ DigestOverBudget(o)

\* Whatever becomes of a window, one row says so.
LEMMA HandleRecords ==
    ASSUME TypeOK, NEW o \in Outcome, Handle(o)
    PROVE  \E fate \in Fate, by \in FoldedBys, into \in AlertId \cup {None} :
               /\ Record(o, fate, by, into)
               /\ fate = "delivered" => Deliver(o) \/ RaiseExposure(o)
<1>. DEFINE al == AlertOf(o)
<1>1. al \in Alert
  BY AlertType
<1>. HIDE DEF al
<1>2. CASE FoldExposure(o)
  <2>1. PICK k \in Alertable(al) : Record(o, "folded", "exposure", exposed[k].id)
    BY <1>2 DEF FoldExposure, al
  <2>2. exposed[k] \in Raised
    BY <1>1, <1>2, <2>1 DEF FoldExposure, NewKeys, Known, al, TypeOK, TrackerTypeOK,
                            Alertable, Alert
  <2>. QED
    BY <2>1, <2>2 DEF Raised, Fate, FoldedBys
<1>3. CASE FoldScan(o)
  <2>1. FoldedInto(al).id \in AlertId /\ FoldedBy(al) \in FoldedBys
    BY <1>1, <1>3, FoldedIntoType DEF FoldScan, FoldedBys, al, TypeOK
  <2>. QED
    BY <1>3, <2>1 DEF FoldScan, Fate, al
<1>4. CASE FoldRepeat(o)
  <2>1. /\ EntityAlert(al) # None => EntityAlert(al).id \in AlertId
        /\ SourceAlert(al) # None => SourceAlert(al).id \in AlertId
    BY <1>1 DEF EntityAlert, SourceAlert, Unexpired, TypeOK, DedupTypeOK, Open, Alert
  <2>. QED
    BY <1>4, <2>1 DEF FoldRepeat, FoldByEntity, FoldBySource, Fate, FoldedBys, al
<1>. QED
  BY <1>2, <1>3, <1>4 DEF Handle, Withhold, RaiseExposure, NoteExposure,
     DigestCandidate, Deliver, DigestOverBudget, Fate, FoldedBys

\* The log only grows: rows are kept, and the last one is of this window.
LEMMA LogGrows ==
    ASSUME TypeOK, NEW o \in Outcome, Handle(o)
    PROVE  /\ log' \in Seq(Row)
           /\ Len(log') = Len(log) + 1
           /\ \A i \in 1 .. Len(log) : log'[i] = log[i]
           /\ log'[Len(log')].ts = o.ts
           /\ log'[Len(log')].keys = Carried(o)
<1>1. PICK fate \in Fate, by \in FoldedBys, into \in AlertId \cup {None} :
          Record(o, fate, by, into)
  BY HandleRecords
<1>2. /\ log' \in Seq(Row)
      /\ Len(log') = Len(log) + 1
      /\ \A i \in 1 .. Len(log) : log'[i] = log[i]
  BY <1>1, RowType
<1>3. log'[Len(log')] = [id |-> AlertOf(o).id, ip |-> o.ip, ua |-> o.ua,
                        ts |-> o.ts, keys |-> Carried(o), fired |-> o.fired,
                        fate |-> fate, by |-> by, into |-> into]
  BY <1>1, RowType
<1>4. log'[Len(log')].ts = o.ts /\ log'[Len(log')].keys = Carried(o)
  BY <1>3
<1>. QED
  BY <1>2, <1>4

LEMMA InitType == Init => TypeOK
<1>. SUFFICES ASSUME Init PROVE TypeOK
  OBVIOUS
<1>1. ProgressionTypeOK
  BY DEF Init, ProgressionInit, ProgressionTypeOK
<1>2. DedupTypeOK
  BY DEF Init, DedupInit, DedupTypeOK
<1>3. BudgetTypeOK
  BY DEF Init, BudgetInit, BudgetTypeOK
<1>4. TrackerTypeOK
  BY DEF Init, TrackerInit, TrackerTypeOK
<1>5. log \in Seq(Row) /\ clock \in Time
  BY Constants DEF ConstantAssumptions, Init, Time
<1>. QED
  BY <1>1, <1>2, <1>3, <1>4, <1>5 DEF TypeOK

LEMMA StepType == TypeOK /\ [Next]_vars => TypeOK'
<1>. SUFFICES ASSUME TypeOK, [Next]_vars PROVE TypeOK'
  OBVIOUS
<1>1. CASE UNCHANGED vars
  BY <1>1 DEF vars, TypeOK, ProgressionTypeOK, DedupTypeOK, BudgetTypeOK, TrackerTypeOK
<1>2. ASSUME NEW o \in Outcome, Handle(o)
      PROVE  TypeOK'
  <2>. DEFINE al == AlertOf(o)
  <2>1. al \in Alert
    BY AlertType
  <2>2. UNCHANGED progressionVars => ProgressionTypeOK'
    BY DEF progressionVars, TypeOK, ProgressionTypeOK
  <2>3. UNCHANGED dedupVars => DedupTypeOK'
    BY DEF dedupVars, TypeOK, DedupTypeOK
  <2>4. UNCHANGED spent => BudgetTypeOK'
    BY DEF TypeOK, BudgetTypeOK
  <2>5. UNCHANGED exposed => TrackerTypeOK'
    BY DEF TypeOK, TrackerTypeOK
  <2>6. Arrives(o) => clock' \in Time
    BY ArrivesType
  <2>7. log' \in Seq(Row)
    BY <1>2, LogGrows
  <2>8. Decide(al) => ProgressionTypeOK'
    BY <2>1, DecideType DEF TypeOK
  <2>9. FoldByEntity(al) \/ FoldBySource(al) \/ OpenNew(al) => DedupTypeOK'
    BY <2>1, DedupType DEF TypeOK
  <2>10. Spend(al) \/ OverBudget(al) => BudgetTypeOK'
    BY <2>1, SpendType DEF TypeOK
  <2>11. Track(al) => TrackerTypeOK'
    BY <2>1, TrackType DEF TypeOK
  <2>. HIDE DEF al
  <2>12. Exposure(o) => TypeOK'
    BY <2>2, <2>3, <2>4, <2>6, <2>7, <2>8, <2>11 DEF Exposure, al, TypeOK
  <2>13. Scan(o) => TrackerTypeOK' /\ clock' \in Time
    BY <2>5, <2>6 DEF Scan
  <2>14. ForQueue(o) => /\ ProgressionTypeOK' /\ DedupTypeOK'
                       /\ TrackerTypeOK' /\ clock' \in Time
    BY <2>2, <2>3, <2>8, <2>9, <2>13 DEF ForQueue, Decide, al
  <2>15. CASE Withhold(o)
    BY <2>2, <2>3, <2>4, <2>5, <2>6, <2>7, <2>15 DEF Withhold, TypeOK
  <2>16. CASE RaiseExposure(o) \/ FoldExposure(o) \/ NoteExposure(o)
    BY <2>12, <2>16 DEF RaiseExposure, FoldExposure, NoteExposure
  <2>17. CASE FoldScan(o)
    BY <2>3, <2>4, <2>7, <2>8, <2>13, <2>17 DEF FoldScan, Decide, al, TypeOK
  <2>18. CASE DigestCandidate(o)
    BY <2>3, <2>4, <2>7, <2>8, <2>13, <2>18 DEF DigestCandidate, Decide, al, TypeOK
  <2>19. CASE FoldRepeat(o)
    BY <2>2, <2>4, <2>7, <2>9, <2>13, <2>19 DEF FoldRepeat, al, TypeOK
  <2>20. CASE Deliver(o) \/ DigestOverBudget(o)
    BY <2>7, <2>10, <2>14, <2>20 DEF Deliver, DigestOverBudget, al, TypeOK
  <2>. QED
    BY <1>2, <2>15, <2>16, <2>17, <2>18, <2>19, <2>20 DEF Handle
<1>. QED
  BY <1>1, <1>2 DEF Next, Handle

\* The state is well typed throughout: every stage's memory, the log and time.
THEOREM TypeCorrect == Spec => []TypeOK
<1>. QED
  BY InitType, StepType, PTL DEF Spec

-----------------------------------------------------------------------------
(* Flags.  The references the stages hold stay within any set that has the *)
(* ones they held and the alert at hand.                                   *)

EpisodesIn(S, es) == \A a \in Addr : es[a] # None =>
    es[a].window \in S \cup {None} /\ es[a].queued \in S \cup {None}

DailiesIn(S, qs) == \A a \in Addr : qs[a] # None => qs[a].ref \in S

CampaignsIn(S, cs) == \A u \in UserAgent : cs[u] # None => cs[u].ref \in S

RefsIn(S) == EpisodesIn(S, episodes) /\ DailiesIn(S, queued) /\ CampaignsIn(S, campaigns)

\* _evict only drops entries.
LEMMA LiveIn ==
    ASSUME NEW S, RefsIn(S), NEW now
    PROVE  /\ EpisodesIn(S, LiveEpisodes(now))
           /\ DailiesIn(S, LiveQueued(now))
           /\ CampaignsIn(S, LiveCampaigns(now))
<1>1. EpisodesIn(S, LiveEpisodes(now))
  BY DEF RefsIn, EpisodesIn, LiveEpisodes
<1>2. DailiesIn(S, LiveQueued(now))
  BY DEF RefsIn, DailiesIn, LiveQueued
<1>3. CampaignsIn(S, LiveCampaigns(now))
  BY DEF RefsIn, CampaignsIn, LiveCampaigns
<1>. QED
  BY <1>1, <1>2, <1>3

LEMMA AdvancedIn ==
    ASSUME NEW S, RefsIn(S), NEW al \in Alert
    PROVE  Advanced(al).window \in S \cup {None} /\ Advanced(al).queued \in S \cup {None}
<1>1. al.ip \in Addr
  BY DEF Alert
<1>. DEFINE e == LiveEpisodes(al.ts)[al.ip]
<1>2. e # None => e.window \in S \cup {None} /\ e.queued \in S \cup {None}
  BY <1>1, LiveIn DEF EpisodesIn
<1>3. CASE e = None
  BY <1>3 DEF Advanced
<1>4. CASE e # None /\ al.ts > e.last
  BY <1>2, <1>4 DEF Advanced
<1>5. CASE e # None /\ ~(al.ts > e.last)
  BY <1>2, <1>5 DEF Advanced
<1>. QED
  BY <1>3, <1>4, <1>5

LEMMA RepresentIn ==
    ASSUME ProgressionTypeOK, NEW S, RefsIn(S), NEW al \in Alert, NEW ref \in S,
           Represent(al, ref)
    PROVE  EpisodesIn(S, episodes') /\ DailiesIn(S, queued')
<1>1. al.ip \in Addr /\ al.ts \in Time
  BY DEF Alert
<1>. DEFINE new == [Advanced(al) EXCEPT !.window = ref, !.queued = ref]
<1>2. /\ LiveEpisodes(al.ts) \in [Addr -> Episode \cup {None}]
      /\ LiveQueued(al.ts) \in [Addr -> Daily \cup {None}]
  BY <1>1, LiveTypes
<1>3. new.window = ref /\ new.queued = ref
  BY AdvancedType DEF Episode
<1>. HIDE DEF new
<1>4. \A a \in Addr : episodes'[a] = IF a = al.ip THEN new ELSE LiveEpisodes(al.ts)[a]
  BY <1>2 DEF Represent, new
<1>5. EpisodesIn(S, episodes')
  BY <1>3, <1>4, LiveIn DEF EpisodesIn
<1>6. \A a \in Addr : queued'[a] =
          IF a = al.ip THEN [day |-> Day(al.ts), ref |-> ref] ELSE LiveQueued(al.ts)[a]
  BY <1>2 DEF Represent
<1>7. DailiesIn(S, queued')
  BY <1>6, LiveIn DEF DailiesIn
<1>. QED
  BY <1>5, <1>7

LEMMA DecideIn ==
    ASSUME ProgressionTypeOK, NEW S, RefsIn(S), NEW al \in Alert, RefTo(al) \in S,
           Decide(al)
    PROVE  RefsIn(S)'
<1>1. al.ip \in Addr /\ al.ua \in UserAgent /\ al.ts \in Time
  BY DEF Alert
<1>2. /\ LiveEpisodes(al.ts) \in [Addr -> Episode \cup {None}]
      /\ LiveCampaigns(al.ts) \in [UserAgent -> Campaign \cup {None}]
  BY <1>1, LiveTypes
<1>3. /\ EpisodesIn(S, LiveEpisodes(al.ts))
      /\ DailiesIn(S, LiveQueued(al.ts))
      /\ CampaignsIn(S, LiveCampaigns(al.ts))
  BY LiveIn
<1>4. ASSUME EpisodesIn(S, episodes'), DailiesIn(S, queued'), CampaignsIn(S, campaigns')
      PROVE  RefsIn(S)'
  BY <1>4 DEF RefsIn, EpisodesIn, DailiesIn, CampaignsIn
<1>5. CASE FoldByAddress(al)
  <2>1. \A a \in Addr : episodes'[a] =
            IF a = al.ip THEN Advanced(al) ELSE LiveEpisodes(al.ts)[a]
    BY <1>2, <1>5 DEF FoldByAddress
  <2>2. EpisodesIn(S, episodes')
    BY <1>3, <2>1, AdvancedIn DEF EpisodesIn
  <2>. QED
    BY <1>3, <1>4, <1>5, <2>2 DEF FoldByAddress
<1>6. CASE FoldByCampaign(al)
  <2>. DEFINE c == LiveCampaigns(al.ts)[al.ua]
  <2>1. CampaignRef(al) # None /\ Represent(al, CampaignRef(al))
    BY <1>6 DEF FoldByCampaign, ByCampaign, Takes
  <2>2. c \in Campaign /\ c # None /\ CampaignRef(al) = c.ref
    BY <2>1, CampaignRefType, NoneIsNoEntry
  <2>3. c.ref \in S
    BY <1>1, <1>3, <2>2 DEF CampaignsIn
  <2>4. EpisodesIn(S, episodes') /\ DailiesIn(S, queued')
    BY <2>1, <2>2, <2>3, RepresentIn
  <2>5. PICK t : \A u \in UserAgent : campaigns'[u] =
            IF u = al.ua THEN [c EXCEPT !.last = t] ELSE LiveCampaigns(al.ts)[u]
    BY <1>1, <1>2, <1>6 DEF FoldByCampaign
  <2>6. [c EXCEPT !.last = t].ref = c.ref
    BY <2>2 DEF Campaign
  <2>. HIDE DEF c
  <2>7. CampaignsIn(S, campaigns')
    BY <1>3, <2>3, <2>5, <2>6 DEF CampaignsIn
  <2>. QED
    BY <1>4, <2>4, <2>7
<1>7. CASE Queue(al)
  <2>1. EpisodesIn(S, episodes') /\ DailiesIn(S, queued')
    BY <1>7, RepresentIn DEF Queue
  <2>2. \A u \in UserAgent : campaigns'[u] =
            IF u = al.ua THEN [last |-> al.ts, ref |-> RefTo(al)] ELSE LiveCampaigns(al.ts)[u]
    BY <1>2, <1>7 DEF Queue
  <2>3. CampaignsIn(S, campaigns')
    BY <1>3, <2>2 DEF CampaignsIn
  <2>. QED
    BY <1>4, <2>1, <2>3
<1>8. CASE Candidate(al)
  <2>. DEFINE new == [Advanced(al) EXCEPT !.window = RefTo(al)]
  <2>1. new.window = RefTo(al) /\ new.queued = Advanced(al).queued
    BY AdvancedType DEF Episode
  <2>. HIDE DEF new
  <2>2. \A a \in Addr : episodes'[a] = IF a = al.ip THEN new ELSE LiveEpisodes(al.ts)[a]
    BY <1>2, <1>8 DEF Candidate, new
  <2>3. EpisodesIn(S, episodes')
    BY <1>3, <2>1, <2>2, AdvancedIn DEF EpisodesIn
  <2>. QED
    BY <1>3, <1>4, <1>8, <2>3 DEF Candidate
<1>. QED
  BY <1>5, <1>6, <1>7, <1>8 DEF Decide, Fold

SoundRefs == {r \in Ref : Sound(r)}

\* The flags are truthful exactly if the stages hold sound references only.
LEMMA FlagsAreSoundRefs ==
    ProgressionTypeOK => (TruthfulFlags <=> RefsIn(SoundRefs))
<1>. SUFFICES ASSUME ProgressionTypeOK
              PROVE  TruthfulFlags <=> RefsIn(SoundRefs)
  OBVIOUS
<1>1. ASSUME NEW a \in Addr, episodes[a] # None
      PROVE  episodes[a].window \in Ref \cup {None} /\ episodes[a].queued \in Ref \cup {None}
  BY <1>1 DEF ProgressionTypeOK, Episode
<1>2. ASSUME NEW a \in Addr, queued[a] # None PROVE queued[a].ref \in Ref
  BY <1>2 DEF ProgressionTypeOK, Daily
<1>3. ASSUME NEW u \in UserAgent, campaigns[u] # None PROVE campaigns[u].ref \in Ref
  BY <1>3 DEF ProgressionTypeOK, Campaign
<1>4. ASSUME NEW r \in Ref PROVE r \in SoundRefs <=> Sound(r)
  BY <1>4 DEF SoundRefs
<1>5. ASSUME NEW r \in Ref \cup {None} PROVE r \in SoundRefs \cup {None} <=> Sound(r)
  BY <1>4, <1>5 DEF Sound
<1>6. EpisodesIn(SoundRefs, episodes) <=>
          \A a \in Addr : episodes[a] # None =>
              Sound(episodes[a].window) /\ Sound(episodes[a].queued)
  BY <1>1, <1>5 DEF EpisodesIn
<1>7. DailiesIn(SoundRefs, queued) <=>
          \A a \in Addr : queued[a] # None => Sound(queued[a].ref)
  BY <1>2, <1>4 DEF DailiesIn
<1>8. CampaignsIn(SoundRefs, campaigns) <=>
          \A u \in UserAgent : campaigns[u] # None => Sound(campaigns[u].ref)
  BY <1>3, <1>4 DEF CampaignsIn
<1>. QED
  BY <1>6, <1>7, <1>8 DEF TruthfulFlags, RefsIn

\* A reference stays sound: the log only grows.
LEMMA SoundStays ==
    ASSUME TypeOK, NEW o \in Outcome, Handle(o)
    PROVE  SoundRefs \subseteq SoundRefs' /\ RefTo(AlertOf(o)) \in SoundRefs'
<1>1. /\ log \in Seq(Row) /\ log' \in Seq(Row)
      /\ Len(log') = Len(log) + 1
      /\ \A i \in 1 .. Len(log) : log'[i] = log[i]
      /\ log'[Len(log')].keys = Carried(o)
  BY LogGrows DEF TypeOK
<1>2. DOMAIN log = 1 .. Len(log) /\ DOMAIN log' = 1 .. Len(log')
  BY <1>1
<1>3. ASSUME NEW r \in Ref, r.id \in DOMAIN log, r.found = (log[r.id].keys # {})
      PROVE  r \in SoundRefs'
  BY <1>1, <1>2, <1>3 DEF SoundRefs, Sound
<1>4. SoundRefs \subseteq SoundRefs'
  BY <1>3, NoneIsNoRef DEF SoundRefs, Sound
<1>5. RefTo(AlertOf(o)) \in Ref
  BY AlertType, RefType
<1>6. /\ RefTo(AlertOf(o)).id = Len(log')
      /\ RefTo(AlertOf(o)).found = (log'[Len(log')].keys # {})
  BY <1>1 DEF RefTo, AlertOf, Found
<1>7. Len(log') \in DOMAIN log'
  BY <1>1, <1>2
<1>. QED
  BY <1>4, <1>5, <1>6, <1>7 DEF SoundRefs, Sound

\* What progressive alerting does in a step, whatever becomes of the window.
LEMMA HandleDecides ==
    ASSUME NEW o \in Outcome, Handle(o)
    PROVE  Decide(AlertOf(o)) \/ UNCHANGED progressionVars
BY DEF Handle, Withhold, RaiseExposure, FoldExposure, NoteExposure, Exposure, FoldScan,
       DigestCandidate, FoldRepeat, Deliver, DigestOverBudget, ForQueue, Decide

LEMMA StepFlags == TypeOK /\ TruthfulFlags /\ [Next]_vars => TruthfulFlags'
<1>. SUFFICES ASSUME TypeOK, TruthfulFlags, [Next]_vars PROVE TruthfulFlags'
  OBVIOUS
<1>1. CASE UNCHANGED vars
  BY <1>1 DEF vars, TruthfulFlags, Sound
<1>2. ASSUME NEW o \in Outcome, Handle(o)
      PROVE  TruthfulFlags'
  <2>1. ProgressionTypeOK /\ ProgressionTypeOK'
    BY StepType DEF TypeOK
  <2>2. AlertOf(o) \in Alert
    BY AlertType
  <2>3. RefsIn(SoundRefs)
    BY <2>1, FlagsAreSoundRefs
  <2>4. SoundRefs \subseteq SoundRefs' /\ RefTo(AlertOf(o)) \in SoundRefs'
    BY <1>2, SoundStays
  <2>5. EpisodesIn(SoundRefs', episodes) /\ DailiesIn(SoundRefs', queued)
            /\ CampaignsIn(SoundRefs', campaigns)
    BY <2>3, <2>4 DEF RefsIn, EpisodesIn, DailiesIn, CampaignsIn
  <2>6. EpisodesIn(SoundRefs', episodes') /\ DailiesIn(SoundRefs', queued')
            /\ CampaignsIn(SoundRefs', campaigns')
    <3>1. CASE Decide(AlertOf(o))
      BY <2>1, <2>2, <2>4, <2>5, <3>1, DecideIn DEF RefsIn
    <3>2. CASE UNCHANGED progressionVars
      BY <2>5, <3>2 DEF progressionVars
    <3>. QED
      BY <1>2, <3>1, <3>2, HandleDecides
  <2>7. RefsIn(SoundRefs)'
    BY <2>6 DEF RefsIn, EpisodesIn, DailiesIn, CampaignsIn
  <2>8. (ProgressionTypeOK => (TruthfulFlags <=> RefsIn(SoundRefs)))'
    BY FlagsAreSoundRefs, PTL
  <2>. QED
    BY <2>1, <2>7, <2>8
<1>. QED
  BY <1>1, <1>2 DEF Next, Handle

\* "Folding never hides a finding" rests on this: whatever the episodes, the
\* daily entries and the campaigns say of an alert is true of that alert.
THEOREM FlagsTruthful == Spec => []TruthfulFlags
<1>1. Init => TruthfulFlags
  BY DEF Init, ProgressionInit, TruthfulFlags
<1>. QED
  BY <1>1, InitType, StepType, StepFlags, PTL DEF Spec

-----------------------------------------------------------------------------
(* Exposures.  What the tracker remembers is in the log, so a row that folds *)
(* finds there the delivered alert that answers it.                        *)

ExposureInv ==
    /\ TypeOK
    /\ TrackerTrue
    /\ ExposureCovered
    /\ ExposureNotRepeated
    /\ ExposureFoldsHome

LEMMA PlainRow ==
    ASSUME TypeOK, NEW o \in Outcome, NEW fate \in Fate, Record(o, fate, "none", None)
    PROVE  log'[Len(log) + 1].fate = fate
<1>1. log'[Len(log) + 1] = [id |-> AlertOf(o).id, ip |-> o.ip, ua |-> o.ua,
          ts |-> o.ts, keys |-> Carried(o), fired |-> o.fired,
          fate |-> fate, by |-> "none", into |-> None]
  BY RowType DEF FoldedBys
<1>. QED
  BY <1>1

\* A row of an alert with exposures says raised, folded or noted; the tracker
\* moves in the first case only.
LEMMA ExposureRow ==
    ASSUME TypeOK, NEW o \in Outcome, Handle(o)
    PROVE  LET n == Len(log) + 1
               al == AlertOf(o)
           IN  \/ /\ log'[n].keys = {}
                  /\ UNCHANGED exposed
               \/ /\ log'[n].keys = al.keys /\ log'[n].keys # {}
                  /\ NewKeys(al) # {}
                  /\ log'[n].fate = "delivered"
                  /\ Track(al)
               \/ /\ log'[n].keys = al.keys /\ log'[n].keys # {}
                  /\ NewKeys(al) = {}
                  /\ log'[n].fate = "folded"
                  /\ UNCHANGED exposed
                  /\ \E k \in Alertable(al) : log'[n].into = exposed[k].id
               \/ /\ log'[n].keys = al.keys /\ log'[n].keys # {}
                  /\ Alertable(al) = {}
                  /\ log'[n].fate = "low_impact"
                  /\ UNCHANGED exposed
<1>. DEFINE n == Len(log) + 1
            al == AlertOf(o)
<1>1. log'[n].keys = Carried(o) /\ al.keys = Carried(o)
  BY LogGrows DEF AlertOf
<1>2. ASSUME NewKeys(al) = {}, Track(al) PROVE UNCHANGED exposed
  <2>1. exposed' = [k \in Key |-> exposed[k]]
    BY <1>2 DEF Track
  <2>. QED
    BY <2>1 DEF TypeOK, TrackerTypeOK
<1>3. CASE RaiseExposure(o)
  <2>1. log'[n].fate = "delivered"
    BY <1>3, PlainRow DEF RaiseExposure, Fate
  <2>. QED
    BY <1>1, <1>3, <2>1 DEF RaiseExposure, Exposure
<1>4. CASE FoldExposure(o)
  <2>1. PICK k \in Alertable(al) : Record(o, "folded", "exposure", exposed[k].id)
    BY <1>4 DEF FoldExposure
  <2>2. exposed[k] \in Raised
    BY <1>4, <2>1, AlertType DEF FoldExposure, NewKeys, Known, TypeOK, TrackerTypeOK,
                              Alertable, Alert
  <2>3. exposed[k].id \in AlertId /\ "folded" \in Fate /\ "exposure" \in FoldedBys
    BY <2>2 DEF Raised, Fate, FoldedBys
  <2>4. log'[n] = [id |-> AlertOf(o).id, ip |-> o.ip, ua |-> o.ua,
                   ts |-> o.ts, keys |-> Carried(o), fired |-> o.fired,
                   fate |-> "folded", by |-> "exposure", into |-> exposed[k].id]
    BY <2>1, <2>3, RowType
  <2>5. log'[n].fate = "folded" /\ log'[n].into = exposed[k].id
    BY <2>4
  <2>. QED
    BY <1>1, <1>2, <1>4, <2>5 DEF FoldExposure, Exposure
<1>5. CASE NoteExposure(o)
  <2>1. log'[n].fate = "low_impact"
    BY <1>5, PlainRow DEF NoteExposure, Fate
  <2>2. NewKeys(al) = {}
    BY <1>5 DEF NoteExposure, NewKeys
  <2>. QED
    BY <1>1, <1>2, <1>5, <2>1, <2>2 DEF NoteExposure, Exposure
<1>6. CASE Withhold(o)
  BY <1>1, <1>6 DEF Withhold, Withheld, Carried
<1>7. CASE FoldScan(o) \/ DigestCandidate(o) \/ FoldRepeat(o) \/ Deliver(o)
               \/ DigestOverBudget(o)
  BY <1>1, <1>7 DEF FoldScan, DigestCandidate, FoldRepeat, Deliver, DigestOverBudget,
                    ForQueue, Scan
<1>. QED
  BY <1>3, <1>4, <1>5, <1>6, <1>7 DEF Handle

LEMMA StepExposures == ExposureInv /\ [Next]_vars => ExposureInv'
<1>. SUFFICES ASSUME ExposureInv, [Next]_vars PROVE ExposureInv'
  OBVIOUS
<1>1. TypeOK /\ TypeOK'
  BY StepType DEF ExposureInv
<1>2. CASE UNCHANGED vars
  BY <1>1, <1>2 DEF vars, ExposureInv, TrackerTrue, ExposureCovered, ExposureNotRepeated,
                    ExposureFoldsHome, Issued
<1>3. ASSUME NEW o \in Outcome, Handle(o)
      PROVE  ExposureInv'
  <2>. DEFINE n == Len(log) + 1
              al == AlertOf(o)
              row == log'[n]
  <2>1. /\ Len(log) \in Nat /\ n = Len(log) + 1
        /\ DOMAIN log = 1 .. Len(log) /\ DOMAIN log' = 1 .. n
        /\ \A i \in 1 .. Len(log) : log'[i] = log[i]
        /\ row.ts = al.ts
    BY <1>1, <1>3, LogGrows DEF TypeOK, AlertOf
  <2>2. al \in Alert /\ al.id = n /\ al.ts \in Int
    BY <1>1, AlertType DEF AlertOf, Alert, Time
  <2>3. \A k \in Key : exposed[k] # None => exposed[k].id \in AlertId /\ exposed[k].at \in Int
    BY <1>1 DEF TypeOK, TrackerTypeOK, Raised, Time
  <2>4. \A i \in DOMAIN log : log[i].ts \in Int /\ log[i].keys \subseteq Key
    <3>1. \A i \in DOMAIN log : log[i] \in Row
      BY <1>1 DEF TypeOK
    <3>. QED
      BY <3>1 DEF Row, Time
  <2>5. RealertAfter \in Nat
    BY RealertIsNatural
  <2>6. \/ row.keys = {} /\ UNCHANGED exposed
        \/ /\ row.keys = al.keys /\ NewKeys(al) # {}
           /\ row.fate = "delivered" /\ Track(al)
        \/ /\ row.keys = al.keys /\ NewKeys(al) = {} /\ row.fate = "folded"
           /\ UNCHANGED exposed /\ \E k \in Alertable(al) : row.into = exposed[k].id
        \/ /\ row.keys = al.keys /\ Alertable(al) = {} /\ row.fate = "low_impact"
           /\ UNCHANGED exposed
    BY <1>1, <1>3, ExposureRow
  <2>7. Alertable(al) \subseteq Key /\ NewKeys(al) \subseteq Alertable(al)
            /\ Alertable(al) \subseteq al.keys
    BY <2>2 DEF Alertable, NewKeys, Alert
  <2>. HIDE DEF n, al, row
  <2>8. \A i \in DOMAIN log : i \in Issued({"delivered"}) <=> i \in Issued({"delivered"})'
    BY <2>1 DEF Issued
  <2>9. row.fate = "delivered" <=> n \in Issued({"delivered"})'
    BY <2>1 DEF Issued, row
  <2>10. \A i \in DOMAIN log' : i \in DOMAIN log \/ i = n
    BY <2>1
  <2>11. DOMAIN log \subseteq DOMAIN log' /\ n \in DOMAIN log' /\ n \notin DOMAIN log
    BY <2>1
  <2>12. Track(al) => \A k \in Key : exposed'[k] =
             IF k \in NewKeys(al) THEN [id |-> n, at |-> al.ts] ELSE exposed[k]
    BY <2>2 DEF Track
  <2>13. TrackerTrue'
    <3>1. ASSUME NEW k \in Key, exposed'[k] # None
          PROVE  /\ exposed'[k].id \in Issued({"delivered"})'
                 /\ k \in log'[exposed'[k].id].keys
                 /\ log'[exposed'[k].id].ts = exposed'[k].at
      <4>1. CASE exposed'[k] = exposed[k]
        BY <1>3, <2>1, <2>8, <3>1, <4>1 DEF ExposureInv, TrackerTrue, Issued
      <4>2. CASE Track(al) /\ row.fate = "delivered" /\ row.keys = al.keys /\ k \in NewKeys(al)
        BY <2>1, <2>7, <2>9, <2>12, <4>2 DEF row
      <4>. QED
        BY <2>6, <2>12, <4>1, <4>2
    <3>2. ASSUME NEW i \in Issued({"delivered"})', NEW k \in Key, log'[i].keys = {k}
          PROVE  exposed'[k] # None /\ log'[i].ts <= exposed'[k].at
      <4>1. CASE i \in DOMAIN log
        <5>1. exposed[k] # None /\ log[i].ts <= exposed[k].at
          BY <2>1, <2>8, <3>2, <4>1 DEF ExposureInv, TrackerTrue
        <5>2. k \in NewKeys(al) => exposed[k].at <= al.ts
          BY <2>2, <2>3, <2>5, <5>1 DEF NewKeys, Known
        <5>3. \/ exposed'[k] = exposed[k]
              \/ k \in NewKeys(al) /\ exposed'[k] = [id |-> n, at |-> al.ts]
          BY <2>6, <2>12
        <5>4. CASE exposed'[k] = exposed[k]
          BY <2>1, <4>1, <5>1, <5>4
        <5>5. CASE k \in NewKeys(al) /\ exposed'[k] = [id |-> n, at |-> al.ts]
          <6>1. exposed'[k] # None
            BY <2>2, <5>5, NoneIsNotRaised DEF Raised, Alert
          <6>2. log'[i].ts <= al.ts
            BY <2>1, <2>2, <2>3, <2>4, <4>1, <5>1, <5>2, <5>5
          <6>. QED
            BY <5>5, <6>1, <6>2
        <5>. QED
          BY <5>3, <5>4, <5>5
      <4>2. CASE i = n
        <5>1. row.fate = "delivered" /\ row.keys = {k}
          BY <2>9, <3>2, <4>2 DEF row
        <5>2. Track(al) /\ NewKeys(al) # {} /\ row.keys = al.keys
          BY <2>6, <5>1
        <5>3. k \in NewKeys(al)
          BY <2>7, <5>1, <5>2
        <5>4. exposed'[k] = [id |-> n, at |-> al.ts]
          BY <2>12, <5>2, <5>3
        <5>5. exposed'[k] # None
          BY <2>2, <5>4, NoneIsNotRaised DEF Raised, Alert
        <5>. QED
          BY <2>1, <2>2, <4>2, <5>4, <5>5 DEF row
      <4>. QED
        BY <2>10, <3>2, <4>1, <4>2 DEF Issued
    <3>. QED
      BY <3>1, <3>2 DEF TrackerTrue
  <2>14. ExposureCovered'
    <3>1. ASSUME NEW i \in DOMAIN log', NEW k \in log'[i].keys \ LowImpact
          PROVE  \E j \in 1 .. i : /\ log'[j].fate = "delivered"
                                   /\ k \in log'[j].keys
                                   /\ (i = j \/ log'[i].ts - log'[j].ts < RealertAfter)
      <4>1. CASE i \in DOMAIN log
        <5>1. PICK j \in 1 .. i : /\ log[j].fate = "delivered"
                                  /\ k \in log[j].keys
                                  /\ (i = j \/ log[i].ts - log[j].ts < RealertAfter)
          BY <2>1, <3>1, <4>1 DEF ExposureInv, ExposureCovered
        <5>. QED
          BY <2>1, <4>1, <5>1
      <4>2. CASE i = n
        <5>1. row.keys = al.keys /\ k \in Alertable(al)
          BY <2>6, <3>1, <4>2 DEF row, Alertable
        <5>2. CASE row.fate = "delivered"
          BY <2>1, <3>1, <4>2, <5>2 DEF row
        <5>3. CASE row.fate # "delivered"
          <6>1. k \notin NewKeys(al)
            BY <2>6, <2>7, <3>1, <4>2, <5>1, <5>3
          <6>2. Known(k, al.ts)
            BY <5>1, <6>1 DEF NewKeys
          <6>3. /\ exposed[k].id \in Issued({"delivered"})
                /\ k \in log[exposed[k].id].keys
                /\ log[exposed[k].id].ts = exposed[k].at
            BY <2>7, <5>1, <6>2 DEF Known, ExposureInv, TrackerTrue
          <6>. QED
            BY <2>1, <4>2, <6>2, <6>3 DEF Known, Issued, row
        <5>. QED
          BY <5>2, <5>3
      <4>. QED
        BY <2>10, <3>1, <4>1, <4>2
    <3>. QED
      BY <3>1 DEF ExposureCovered
  <2>15. ExposureNotRepeated'
    <3>1. ASSUME NEW i \in Issued({"delivered"})', NEW j \in Issued({"delivered"})',
                 NEW k \in Key, i < j, log'[i].keys = {k}, log'[j].keys = {k}
          PROVE  log'[j].ts - log'[i].ts >= RealertAfter
      <4>1. i \in DOMAIN log
        BY <2>1, <2>10, <3>1 DEF Issued
      <4>2. i \in Issued({"delivered"}) /\ log[i].keys = {k}
        BY <2>1, <2>8, <3>1, <4>1
      <4>3. CASE j \in DOMAIN log
        BY <2>1, <2>8, <3>1, <4>1, <4>2, <4>3 DEF ExposureInv, ExposureNotRepeated
      <4>4. CASE j = n
        <5>1. row.fate = "delivered" /\ row.keys = {k}
          BY <2>9, <3>1, <4>4 DEF row
        <5>2. k \in NewKeys(al)
          BY <2>6, <2>7, <5>1
        <5>3. exposed[k] # None /\ log[i].ts <= exposed[k].at
          BY <4>2 DEF ExposureInv, TrackerTrue
        <5>4. al.ts - exposed[k].at >= RealertAfter
          BY <2>2, <2>3, <2>5, <5>2, <5>3 DEF NewKeys, Known
        <5>5. al.ts - log[i].ts >= RealertAfter
          BY <2>2, <2>3, <2>4, <2>5, <4>1, <5>3, <5>4
        <5>. QED
          BY <2>1, <4>1, <4>4, <5>5 DEF row
      <4>. QED
        BY <2>10, <3>1, <4>3, <4>4 DEF Issued
    <3>. QED
      BY <3>1 DEF ExposureNotRepeated
  <2>16. ExposureFoldsHome'
    <3>1. ASSUME NEW i \in Issued({"folded"})', log'[i].keys # {}
          PROVE  /\ log'[i].into \in Issued({"delivered"})'
                 /\ log'[log'[i].into].keys \cap log'[i].keys # {}
      <4>1. CASE i \in DOMAIN log
        <5>1. /\ log[i].into \in Issued({"delivered"})
              /\ log[log[i].into].keys \cap log[i].keys # {}
          BY <2>1, <3>1, <4>1 DEF Issued, ExposureInv, ExposureFoldsHome
        <5>. QED
          BY <2>1, <2>8, <4>1, <5>1 DEF Issued
      <4>2. CASE i = n
        <5>1. row.fate = "folded" /\ row.keys # {}
          BY <3>1, <4>2 DEF Issued, row
        <5>2. PICK k \in Alertable(al) : row.into = exposed[k].id
          BY <2>6, <5>1
        <5>3. NewKeys(al) = {} /\ row.keys = al.keys
          BY <2>6, <5>1
        <5>4. exposed[k] # None
          BY <5>2, <5>3 DEF NewKeys, Known
        <5>5. exposed[k].id \in Issued({"delivered"}) /\ k \in log[exposed[k].id].keys
          BY <2>7, <5>2, <5>4 DEF ExposureInv, TrackerTrue
        <5>. QED
          BY <2>1, <2>7, <2>8, <4>2, <5>2, <5>3, <5>5 DEF Issued, row
      <4>. QED
        BY <2>10, <3>1, <4>1, <4>2 DEF Issued
    <3>. QED
      BY <3>1 DEF ExposureFoldsHome
  <2>. QED
    BY <1>1, <2>13, <2>14, <2>15, <2>16 DEF ExposureInv
<1>. QED
  BY <1>2, <1>3 DEF Next, Handle

LEMMA ExposuresInvariant == Spec => []ExposureInv
<1>1. Init => ExposureInv
  BY InitType DEF Init, TrackerInit, ExposureInv, TrackerTrue, ExposureCovered,
                  ExposureNotRepeated, ExposureFoldsHome, Issued
<1>. QED
  BY <1>1, StepExposures, PTL DEF Spec

\* The tracker's memory and the queue agree in every reachable state.
THEOREM TrackerIsTrue == Spec => []TrackerTrue
BY ExposuresInvariant, PTL DEF ExposureInv

\* Every download of an alertable exposure is answered by a delivered alert.
THEOREM ExposuresCovered == Spec => []ExposureCovered
BY ExposuresInvariant, PTL DEF ExposureInv

\* No exposure is raised alone twice within REALERT_AFTER.
THEOREM ExposuresNotRepeated == Spec => []ExposureNotRepeated
BY ExposuresInvariant, PTL DEF ExposureInv

\* A folded exposure folds into a delivered alert that names it.
THEOREM ExposuresFoldHome == Spec => []ExposureFoldsHome
BY ExposuresInvariant, PTL DEF ExposureInv

-----------------------------------------------------------------------------
(* The budget.                                                             *)

\* The scans of a day that were delivered.
Used(d) == {i \in Reached : log[i].fate = "delivered" /\ Day(log[i].ts) = d}

LEMMA UsedFinite ==
    ASSUME TypeOK, NEW d
    PROVE  IsFiniteSet(Used(d)) /\ Used(d) \subseteq 1 .. Len(log)
<1>1. Used(d) \subseteq 1 .. Len(log)
  BY DEF Used, Reached, Issued, TypeOK
<1>2. Len(log) \in Nat
  BY DEF TypeOK
<1>3. IsFiniteSet(1 .. Len(log))
  BY <1>2, FS_Interval
<1> QED
  BY <1>1, <1>3, FS_Subset

\* A row more: the day it belongs to has used one more alert, if it delivered a scan.
LEMMA UsedGrows ==
    ASSUME TypeOK, NEW o \in Outcome, NEW fate \in Fate, NEW by \in FoldedBys,
           NEW into \in AlertId \cup {None}, Record(o, fate, by, into), NEW d
    PROVE  Used(d)' = IF fate = "delivered" /\ Carried(o) = {} /\ Day(o.ts) = d
                      THEN Used(d) \cup {Len(log) + 1} ELSE Used(d)
<1> DEFINE n == Len(log) + 1
<1>1. /\ log' \in Seq(Row) /\ Len(log') = n /\ Len(log) \in Nat
      /\ \A i \in 1 .. Len(log) : log'[i] = log[i]
      /\ log'[n].ts = o.ts /\ log'[n].keys = Carried(o) /\ log'[n].fate = fate
  <2>1. /\ log' \in Seq(Row) /\ Len(log') = n
        /\ \A i \in 1 .. Len(log) : log'[i] = log[i]
    BY RowType
  <2>2. log'[n] = [id |-> AlertOf(o).id, ip |-> o.ip, ua |-> o.ua,
                   ts |-> o.ts, keys |-> Carried(o), fired |-> o.fired,
                   fate |-> fate, by |-> by, into |-> into]
    BY <2>1, RowType
  <2>3. Len(log) \in Nat
    BY DEF TypeOK
  <2> QED
    BY <2>1, <2>2, <2>3
<1>2. DOMAIN log' = DOMAIN log \cup {n} /\ DOMAIN log = 1 .. Len(log)
  BY <1>1 DEF TypeOK
<1>3. \A i \in DOMAIN log : log'[i] = log[i]
  BY <1>1, <1>2
<1>4. \A i : i \in Used(d) <=> /\ i \in DOMAIN log /\ log[i].fate = "delivered"
                               /\ log[i].keys = {} /\ Day(log[i].ts) = d
  BY DEF Used, Reached, Issued
<1>5. \A i : i \in Used(d)' <=> /\ i \in DOMAIN log' /\ log'[i].fate = "delivered"
                                /\ log'[i].keys = {} /\ Day(log'[i].ts) = d
  BY DEF Used, Reached, Issued, Day
<1>6. \A i \in DOMAIN log : i \in Used(d)' <=> i \in Used(d)
  BY <1>2, <1>3, <1>4, <1>5
<1>7. n \notin DOMAIN log
  BY <1>1, <1>2
<1>8. n \in Used(d)' <=> fate = "delivered" /\ Carried(o) = {} /\ Day(o.ts) = d
  BY <1>1, <1>2, <1>5
<1> HIDE DEF n
<1>9. Used(d)' \subseteq DOMAIN log \cup {n} /\ Used(d) \subseteq DOMAIN log
  BY <1>2, <1>4, <1>5
<1> QED
  <2>1. n \in Used(d)' => Used(d)' = Used(d) \cup {n}
    BY <1>6, <1>7, <1>9
  <2>2. n \notin Used(d)' => Used(d)' = Used(d)
    BY <1>6, <1>7, <1>9
  <2> QED
    BY <1>8, <2>1, <2>2 DEF n

\* What an action writes, and what it takes from the budget.
LEMMA SpendsWhatItDelivers ==
    ASSUME TypeOK, NEW o \in Outcome, Handle(o)
    PROVE  \E fate \in Fate, by \in FoldedBys, into \in AlertId \cup {None} :
              /\ Record(o, fate, by, into)
              /\ \/ /\ fate = "delivered" /\ Carried(o) = {}
                    /\ Spend(AlertOf(o))
                 \/ ~(fate = "delivered" /\ Carried(o) = {}) /\ spent' = spent
<1>1. CASE Deliver(o)
  BY <1>1 DEF Deliver, ForQueue, Scan, Fate, FoldedBys
<1>2. CASE RaiseExposure(o)
  BY <1>2 DEF RaiseExposure, Exposure, Fate, FoldedBys
<1>3. CASE ~Deliver(o) /\ ~RaiseExposure(o)
  <2>1. spent' = spent
    BY <1>3 DEF Handle, Withhold, FoldExposure, NoteExposure, Exposure, FoldScan,
       DigestCandidate, FoldRepeat, DigestOverBudget, OverBudget
  <2> QED
    BY <1>3, <2>1, HandleRecords
<1> QED
  BY <1>1, <1>2, <1>3

LEMMA StepBudget == TypeOK /\ BudgetCap /\ [Next]_vars => BudgetCap'
<1> SUFFICES ASSUME TypeOK, BudgetCap, [Next]_vars PROVE BudgetCap'
  OBVIOUS
<1>1. CASE UNCHANGED vars
  BY <1>1 DEF vars, BudgetCap, Reached, Issued, Day
<1>2. ASSUME NEW o \in Outcome, Handle(o), NEW d \in Days
      PROVE  spent'[d] = Cardinality(Used(d)') /\ Cardinality(Used(d)') <= DailyBudget
  <2>1. PICK fate \in Fate, by \in FoldedBys, into \in AlertId \cup {None} :
              /\ Record(o, fate, by, into)
              /\ \/ /\ fate = "delivered" /\ Carried(o) = {}
                    /\ Spend(AlertOf(o))
                 \/ ~(fate = "delivered" /\ Carried(o) = {}) /\ spent' = spent
    BY <1>2, SpendsWhatItDelivers
  <2>2. Used(d)' = IF fate = "delivered" /\ Carried(o) = {} /\ Day(o.ts) = d
                   THEN Used(d) \cup {Len(log) + 1} ELSE Used(d)
    BY <2>1, UsedGrows
  <2>3. /\ IsFiniteSet(Used(d)) /\ Len(log) + 1 \notin Used(d)
        /\ Cardinality(Used(d)) \in Nat
    <3>1. IsFiniteSet(Used(d)) /\ Used(d) \subseteq 1 .. Len(log) /\ Len(log) \in Nat
      BY UsedFinite DEF TypeOK
    <3> QED
      BY <3>1, FS_CardinalityType
  <2>4. spent[d] = Cardinality(Used(d)) /\ Cardinality(Used(d)) <= DailyBudget
    BY DEF BudgetCap, Used
  <2>5. CASE fate = "delivered" /\ Carried(o) = {} /\ Day(o.ts) = d
    <3>1. Cardinality(Used(d) \cup {Len(log) + 1}) = Cardinality(Used(d)) + 1
      BY <2>3, FS_AddElement
    <3>2. Spend(AlertOf(o)) /\ AlertOf(o).ts = o.ts
      BY <2>1, <2>5 DEF AlertOf
    <3>3. spent[d] < DailyBudget /\ spent'[d] = spent[d] + 1
      BY <2>5, <3>2 DEF Spend, TypeOK, BudgetTypeOK
    <3>4. DailyBudget \in Nat
      BY Constants DEF ConstantAssumptions
    <3> QED
      BY <2>2, <2>3, <2>4, <2>5, <3>1, <3>3, <3>4
  <2>6. CASE ~(fate = "delivered" /\ Carried(o) = {} /\ Day(o.ts) = d)
    <3>1. Used(d)' = Used(d)
      BY <2>2, <2>6
    <3>2. spent'[d] = spent[d]
      <4>1. CASE spent' = spent
        BY <4>1
      <4>2. CASE spent' # spent
        <5>1. Spend(AlertOf(o)) /\ AlertOf(o).ts = o.ts /\ Day(o.ts) # d
          BY <2>1, <2>6, <4>2 DEF AlertOf
        <5> QED
          BY <5>1 DEF Spend, TypeOK, BudgetTypeOK
      <4> QED
        BY <4>1, <4>2
    <3> QED
      BY <2>4, <3>1, <3>2
  <2> QED
    BY <2>5, <2>6
<1> QED
  BY <1>1, <1>2 DEF Next, Handle, BudgetCap, Used

\* No day of events takes more scans than the daily budget (budget.py:43-55), and the
\* count that decides it is that of the scans delivered, in whatever order windows of
\* several days arrive.
THEOREM BudgetHolds == Spec => []BudgetCap
<1>1. Init => BudgetCap
  <2> SUFFICES ASSUME Init, NEW d \in Days
               PROVE  spent[d] = Cardinality(Used(d)) /\ Cardinality(Used(d)) <= DailyBudget
    BY DEF BudgetCap, Used
  <2>1. Used(d) = {} /\ spent[d] = 0
    BY DEF Init, BudgetInit, Used, Reached, Issued
  <2> QED
    BY <2>1, FS_EmptySet, Constants DEF ConstantAssumptions
<1> QED
  BY <1>1, StepBudget, TypeCorrect, PTL DEF Spec

-----------------------------------------------------------------------------
(* Windows that close in the order of their time (Lateness = 0).           *)
(*                                                                         *)
(* Eviction takes the time of the alert in hand for the present; as long   *)
(* as it is, what the stages have forgotten is what is over.               *)

(* The invariants.                                                         *)

\* Nothing that was recorded is of the future.
Past == \A i \in DOMAIN log : log[i].ts <= clock

Answered(i) == log[i].fate # "suppressed"

\* `n` is the alert that address `a` opened last.
LatestOf(a, n) ==
    /\ n \in Reached
    /\ log[n].ip = a
    /\ \A j \in Reached : log[j].ip = a => j <= n

\* What a cooldown remembers: the address's open alert is its latest, is not
\* older than anything the address did within the cooldown, and outlives the
\* open alerts of its entities, which are the same alert.
CooldownMemory ==
    /\ \A a \in Addr : openSources[a] # None => LatestOf(a, openSources[a].id)
    /\ \A a \in Addr, u \in UserAgent : openAlerts[<<a, u>>] # None =>
          /\ openSources[a] # None
          /\ openSources[a].id = openAlerts[<<a, u>>].id
          /\ openAlerts[<<a, u>>].last <= openSources[a].last
    /\ \A a \in Addr : openSources[a] # None => openSources[a].last <= clock
    /\ \A j \in DOMAIN log : Answered(j) /\ clock - log[j].ts <= Cooldown =>
          /\ openSources[log[j].ip] # None
          /\ log[j].ts <= openSources[log[j].ip].last

\* What a day remembers: every address that reached the queue today.
DayMemory ==
    \A i \in Reached : Day(log[i].ts) = Day(clock) =>
        /\ queued[log[i].ip] # None
        /\ queued[log[i].ip].day = Day(clock)

\* What a campaign remembers: every user-agent that reached the queue moments ago.
CampaignMemory ==
    \A i \in Reached : clock - log[i].ts <= EpisodeGap =>
        /\ campaigns[log[i].ua] # None
        /\ log[i].ts <= campaigns[log[i].ua].last

\* The windows in which an address has fired.
Firings(a) ==
    {log[j].ts : j \in {j \in DOMAIN log : /\ log[j].ip = a
                                           /\ log[j].fired
                                           /\ Answered(j)}}

\* At least `n` windows, the last of them `last`, no two further apart than the gap.
Chain(W, last, n) ==
    /\ IsFiniteSet(W)
    /\ Cardinality(W) >= n
    /\ last \in W
    /\ \A w \in W \ {last} : \E v \in W : w < v /\ v - w <= EpisodeGap
    /\ \A w \in W : w <= last

\* What an episode counts: windows the address did fire in, in a chain.
EpisodeMemory ==
    \A a \in Addr : episodes[a] # None =>
        /\ episodes[a].last <= clock
        /\ \E W \in SUBSET Firings(a) : Chain(W, episodes[a].last, episodes[a].windows)

CooldownInv == TypeOK /\ Past /\ CooldownMemory /\ CooldownQuiet /\ FoldsIntoLatest

SustainInv == TypeOK /\ Past /\ EpisodeMemory /\ SustainedOnly

OnceInv ==
    /\ TypeOK /\ Past
    /\ DayMemory /\ QueuedOncePerDay
    /\ CampaignMemory /\ OneAlertPerCampaign

-----------------------------------------------------------------------------
(* The row of a step, and its time.                                        *)

LEMMA Recorded ==
    ASSUME TypeOK, NEW o \in Outcome, NEW fate \in Fate, NEW by \in FoldedBys,
           NEW into \in AlertId \cup {None}, Record(o, fate, by, into)
    PROVE  LET n == Len(log) + 1 IN
           /\ DOMAIN log = 1 .. Len(log) /\ n \in Nat /\ n \notin DOMAIN log
           /\ DOMAIN log' = DOMAIN log \cup {n}
           /\ \A i \in DOMAIN log : log'[i] = log[i] /\ i < n /\ i \in Nat
           /\ log'[n].ip = o.ip /\ log'[n].ua = o.ua /\ log'[n].ts = o.ts
           /\ log'[n].keys = Carried(o) /\ log'[n].fired = o.fired
           /\ log'[n].fate = fate /\ log'[n].into = into
<1>. DEFINE n == Len(log) + 1
            row == [id |-> AlertOf(o).id, ip |-> o.ip, ua |-> o.ua, ts |-> o.ts,
                    keys |-> Carried(o), fired |-> o.fired, fate |-> fate,
                    by |-> by, into |-> into]
<1>1. /\ log' \in Seq(Row) /\ Len(log') = n /\ Len(log) \in Nat /\ log \in Seq(Row)
      /\ \A i \in 1 .. Len(log) : log'[i] = log[i]
      /\ log'[n] = row
  <2>1. /\ log' \in Seq(Row) /\ Len(log') = n
        /\ \A i \in 1 .. Len(log) : log'[i] = log[i]
        /\ log'[Len(log')] = row
    BY RowType
  <2>. QED
    BY <2>1 DEF TypeOK
<1>2. DOMAIN log' = DOMAIN log \cup {n} /\ DOMAIN log = 1 .. Len(log)
  BY <1>1
<1>3. /\ row.ip = o.ip /\ row.ua = o.ua /\ row.ts = o.ts /\ row.keys = Carried(o)
      /\ row.fired = o.fired /\ row.fate = fate /\ row.into = into
  OBVIOUS
<1>. HIDE DEF row
<1>. QED
  BY <1>1, <1>2, <1>3

\* Rows and the clock are times.
LEMMA RowTimes ==
    ASSUME TypeOK
    PROVE  /\ clock \in Int
           /\ \A i \in DOMAIN log : /\ log[i].ts \in Int /\ log[i].ip \in Addr
                                    /\ log[i].ua \in UserAgent /\ log[i].ts \in Time
<1>1. clock \in Int
  BY DEF TypeOK, Time
<1>2. \A i \in DOMAIN log : log[i] \in Row
  BY DEF TypeOK
<1>. QED
  BY <1>1, <1>2 DEF Row, Time

\* On time, the clock is the time of the window in hand.
LEMMA Punctual ==
    ASSUME Lateness = 0, TypeOK, NEW o \in Outcome, Handle(o)
    PROVE  /\ o.ts \in Int /\ o.ts \in Time /\ clock <= o.ts /\ clock' = o.ts
           /\ o.ip \in Addr /\ o.ua \in UserAgent
           /\ Progressive \/ o.keys = {}
<1>1. Arrives(o)
  BY DEF Handle, Withhold, RaiseExposure, FoldExposure, NoteExposure, Exposure, FoldScan,
         DigestCandidate, FoldRepeat, Deliver, DigestOverBudget, ForQueue, Scan
<1>2. o.ts \in Time /\ o.ts \in Int /\ o.ip \in Addr /\ o.ua \in UserAgent
  BY DEF Outcome, Time
<1>. QED
  BY <1>1, <1>2, RowTimes DEF Arrives

LEMMA PastStays ==
    ASSUME Lateness = 0, TypeOK, Past, NEW o \in Outcome, Handle(o)
    PROVE  Past'
<1>1. PICK fate \in Fate, by \in FoldedBys, into \in AlertId \cup {None} :
          Record(o, fate, by, into)
  BY HandleRecords
<1>. DEFINE n == Len(log) + 1
<1>2. /\ DOMAIN log' = DOMAIN log \cup {n}
      /\ \A i \in DOMAIN log : log'[i] = log[i]
      /\ log'[n].ts = o.ts
  BY <1>1, Recorded
<1>3. clock <= o.ts /\ clock' = o.ts /\ o.ts \in Int
  BY Punctual
<1>. HIDE DEF n
<1>4. ASSUME NEW i \in DOMAIN log' PROVE log'[i].ts <= clock'
  <2>1. CASE i = n
    BY <1>2, <1>3, <2>1
  <2>2. CASE i # n
    BY <1>2, <1>3, <2>2, RowTimes DEF Past
  <2>. QED
    BY <2>1, <2>2
<1>. QED
  BY <1>4 DEF Past

-----------------------------------------------------------------------------
(* The cooldown.                                                           *)

Repeats(al, fate, into) ==
    \/ FoldByEntity(al) /\ fate = "folded" /\ into = EntityAlert(al).id
    \/ FoldBySource(al) /\ fate = "folded" /\ into = SourceAlert(al).id

Opens(al, fate) == OpenNew(al) /\ fate \in {"delivered", "over_budget"}

\* A use case that is not progressive withholds a window, or asks the cooldown.
LEMMA CooldownRow ==
    ASSUME Lateness = 0, ~Progressive, TypeOK, NEW o \in Outcome, Handle(o)
    PROVE  /\ Carried(o) = {}
           /\ \E fate \in Fate, by \in FoldedBys, into \in AlertId \cup {None} :
                /\ Record(o, fate, by, into)
                /\ \/ fate = "suppressed" /\ UNCHANGED dedupVars
                   \/ Repeats(AlertOf(o), fate, into)
                   \/ Opens(AlertOf(o), fate)
<1>. DEFINE al == AlertOf(o)
<1>1. Carried(o) = {}
  BY Punctual DEF Carried
<1>2. al \in Alert
  BY AlertType
<1>. HIDE DEF al
<1>3. /\ EntityAlert(al) # None => EntityAlert(al).id \in AlertId
      /\ SourceAlert(al) # None => SourceAlert(al).id \in AlertId
  BY <1>2 DEF EntityAlert, SourceAlert, Unexpired, TypeOK, DedupTypeOK, Open, Alert
<1>4. CASE Withhold(o)
  BY <1>1, <1>4 DEF Withhold, dedupVars, Fate, FoldedBys
<1>5. CASE FoldRepeat(o)
  BY <1>1, <1>3, <1>5 DEF FoldRepeat, Repeats, FoldByEntity, FoldBySource, Fate,
                          FoldedBys, al
<1>6. CASE Deliver(o)
  BY <1>1, <1>6 DEF Deliver, ForQueue, Opens, Fate, FoldedBys
<1>7. CASE DigestOverBudget(o)
  BY <1>1, <1>7 DEF DigestOverBudget, ForQueue, Opens, Fate, FoldedBys
<1>8. CASE RaiseExposure(o) \/ FoldExposure(o) \/ NoteExposure(o)
  BY <1>1, <1>8 DEF RaiseExposure, FoldExposure, NoteExposure, Exposure
<1>9. CASE FoldScan(o) \/ DigestCandidate(o)
  BY <1>9 DEF FoldScan, DigestCandidate
<1>. QED
  BY <1>4, <1>5, <1>6, <1>7, <1>8, <1>9 DEF Handle

\* What is open after a decision: for every address, the entry it had if that is
\* not over, with the time of a repeat; for the address at hand, always one.
LEMMA CooldownDecides ==
    ASSUME TypeOK, CooldownMemory, NEW al \in Alert, clock <= al.ts,
           FoldByEntity(al) \/ FoldBySource(al)
    PROVE  /\ SourceAlert(al) # None
           /\ SourceAlert(al) = openSources[al.ip]
           /\ al.ts - openSources[al.ip].last <= Cooldown
           /\ FoldByEntity(al) => EntityAlert(al).id = SourceAlert(al).id
<1>1. al.ip \in Addr /\ al.ua \in UserAgent /\ al.ts \in Int
  BY DEF Alert, Time
<1>2. openAlerts \in [Addr \X UserAgent -> Open \cup {None}]
      /\ openSources \in [Addr -> Open \cup {None}]
  BY DEF TypeOK, DedupTypeOK
<1>. DEFINE s == openSources[al.ip]
            e == openAlerts[<<al.ip, al.ua>>]
<1>3. /\ SourceAlert(al) = IF s # None /\ al.ts - s.last <= Cooldown THEN s ELSE None
      /\ EntityAlert(al) = IF e # None /\ al.ts - e.last <= Cooldown THEN e ELSE None
  BY <1>1, <1>2 DEF SourceAlert, EntityAlert, Unexpired
<1>4. /\ s # None => s.last \in Int
      /\ e # None => e.last \in Int
  BY <1>1, <1>2 DEF Open, Time
<1>5. e # None => s # None /\ s.id = e.id /\ e.last <= s.last
  BY <1>1 DEF CooldownMemory
<1>. HIDE DEF s, e
<1>6. CASE FoldByEntity(al)
  <2>1. EntityAlert(al) # None
    BY <1>6 DEF FoldByEntity
  <2>2. e # None /\ al.ts - e.last <= Cooldown /\ EntityAlert(al) = e
    BY <1>3, <2>1
  <2>3. al.ts - s.last <= Cooldown
    BY <1>1, <1>4, <1>5, <2>2, CooldownIsNatural
  <2>. QED
    BY <1>3, <1>5, <2>2, <2>3 DEF s
<1>7. CASE ~FoldByEntity(al) /\ FoldBySource(al)
  <2>1. SourceAlert(al) # None
    BY <1>7 DEF FoldBySource
  <2>. QED
    BY <1>3, <1>7, <2>1 DEF s
<1>. QED
  BY <1>6, <1>7

\* What is open after a decision: of other addresses what is not over yet, of the
\* address at hand one alert, `id`, that is as young as the decision.
Keeps(al, id) ==
    /\ openSources'[al.ip] # None
    /\ openSources'[al.ip].id = id
    /\ openSources'[al.ip].last = al.ts
    /\ \A a \in Addr \ {al.ip} :
          /\ openSources'[a] \in {None, openSources[a]}
          /\ openSources[a] # None /\ al.ts - openSources[a].last <= Cooldown =>
                openSources'[a] = openSources[a]
    /\ \A a \in Addr, u \in UserAgent : openAlerts'[<<a, u>>] # None =>
          \/ /\ a = al.ip
             /\ openAlerts'[<<a, u>>].id = id
             /\ openAlerts'[<<a, u>>].last <= al.ts
          \/ /\ a # al.ip
             /\ openAlerts'[<<a, u>>] = openAlerts[<<a, u>>]
             /\ al.ts - openAlerts[<<a, u>>].last <= Cooldown

LEMMA CooldownKeeps ==
    ASSUME TypeOK, CooldownMemory, NEW al \in Alert, clock <= al.ts,
           FoldByEntity(al) \/ FoldBySource(al) \/ OpenNew(al)
    PROVE  Keeps(al, IF OpenNew(al) THEN al.id ELSE openSources[al.ip].id)
<1>. DEFINE E == Addr \X UserAgent
            ip == al.ip
            k == <<al.ip, al.ua>>
            S == Unexpired(openSources, al.ts)
            A == Unexpired(openAlerts, al.ts)
            id == IF OpenNew(al) THEN al.id ELSE openSources[al.ip].id
<1>1. ip \in Addr /\ al.ua \in UserAgent /\ al.ts \in Int /\ k \in E
  BY DEF Alert, Time
<1>2. openAlerts \in [E -> Open \cup {None}] /\ openSources \in [Addr -> Open \cup {None}]
  BY DEF TypeOK, DedupTypeOK
<1>3. /\ S \in [Addr -> Open \cup {None}]
      /\ \A a \in Addr : S[a] = IF openSources[a] # None /\ al.ts - openSources[a].last <= Cooldown
                                THEN openSources[a] ELSE None
  BY <1>2 DEF Unexpired
<1>4. /\ A \in [E -> Open \cup {None}]
      /\ \A e \in E : A[e] = IF openAlerts[e] # None /\ al.ts - openAlerts[e].last <= Cooldown
                             THEN openAlerts[e] ELSE None
  BY <1>2 DEF Unexpired
<1>5. \A a \in Addr, u \in UserAgent : A[<<a, u>>] # None =>
          /\ A[<<a, u>>] = openAlerts[<<a, u>>] /\ al.ts - openAlerts[<<a, u>>].last <= Cooldown
          /\ openAlerts[<<a, u>>].last <= clock
          /\ S[a] # None /\ S[a] = openSources[a] /\ openSources[a].id = openAlerts[<<a, u>>].id
  <2>. TAKE a \in Addr, u \in UserAgent
  <2>. HAVE A[<<a, u>>] # None
  <2>1. <<a, u>> \in E
    OBVIOUS
  <2>2. /\ openAlerts[<<a, u>>] # None /\ A[<<a, u>>] = openAlerts[<<a, u>>]
        /\ al.ts - openAlerts[<<a, u>>].last <= Cooldown
    BY <1>4, <2>1
  <2>3. openAlerts[<<a, u>>].last \in Int
    BY <1>2, <2>1, <2>2 DEF Open, Time
  <2>4. /\ openSources[a] # None /\ openSources[a].id = openAlerts[<<a, u>>].id
        /\ openAlerts[<<a, u>>].last <= openSources[a].last /\ openSources[a].last <= clock
    BY <2>2 DEF CooldownMemory
  <2>5. openSources[a].last \in Int
    BY <1>2, <2>4 DEF Open, Time
  <2>. HIDE DEF A, S
  <2>6. al.ts - openSources[a].last <= Cooldown /\ openAlerts[<<a, u>>].last <= clock
    BY <1>1, <2>2, <2>3, <2>4, <2>5, CooldownIsNatural, RowTimes
  <2>. QED
    BY <1>3, <2>2, <2>4, <2>6
<1>6. /\ EntityAlert(al) = A[k] /\ SourceAlert(al) = S[ip]
  BY DEF EntityAlert, SourceAlert
<1>. HIDE DEF E, A, S
<1>7. \A a \in Addr, u \in UserAgent : <<a, u>> \in E /\ (<<a, u>> = k <=> a = ip /\ u = al.ua)
  BY DEF E
<1>8. CASE ~OpenNew(al)
  <2>1. S[ip] # None /\ S[ip] = openSources[ip] /\ openSources[ip] \in Open
    BY <1>1, <1>2, <1>6, <1>8, CooldownDecides
  <2>2. openSources' = [S EXCEPT ![ip] = [S[ip] EXCEPT !.last = al.ts]]
    BY <1>8, <2>1 DEF FoldByEntity, FoldBySource, Touched, S
  <2>3. /\ openSources'[ip] = [openSources[ip] EXCEPT !.last = al.ts]
        /\ \A a \in Addr \ {ip} : openSources'[a] = S[a]
    BY <1>1, <1>3, <2>1, <2>2
  <2>4. /\ openSources'[ip] \in Open /\ openSources'[ip].last = al.ts
        /\ openSources'[ip].id = openSources[ip].id
    BY <1>1, <2>1, <2>3 DEF Open, Alert
  <2>5. openSources'[ip] # None
    BY <2>4, NoneIsNotOpen
  <2>6. \A a \in Addr, u \in UserAgent :
            \/ /\ a = ip /\ u = al.ua /\ A[k] # None
               /\ openAlerts'[<<a, u>>] = [A[k] EXCEPT !.last = al.ts]
            \/ openAlerts'[<<a, u>>] = A[<<a, u>>]
    <3>1. CASE FoldByEntity(al)
      <4>1. openAlerts' = [A EXCEPT ![k] = [A[k] EXCEPT !.last = al.ts]] /\ A[k] # None
        BY <1>6, <3>1 DEF FoldByEntity, A
      <4>2. \A e \in E : openAlerts'[e] = IF e = k THEN [A[k] EXCEPT !.last = al.ts] ELSE A[e]
        BY <1>4, <4>1
      <4>. QED
        BY <1>7, <4>1, <4>2
    <3>2. CASE FoldBySource(al)
      BY <3>2 DEF FoldBySource, A
    <3>. QED
      BY <1>8, <3>1, <3>2
  <2>7. A[k] # None => /\ [A[k] EXCEPT !.last = al.ts].id = A[k].id
                       /\ [A[k] EXCEPT !.last = al.ts].last = al.ts
    <3>1. SUFFICES ASSUME A[k] # None PROVE A[k] \in Open
      BY DEF Open
    <3>. QED
      BY <1>1, <1>4, <3>1
  <2>8. ASSUME NEW a \in Addr, NEW u \in UserAgent, openAlerts'[<<a, u>>] # None
        PROVE  \/ /\ a = ip
                  /\ openAlerts'[<<a, u>>].id = openSources[ip].id
                  /\ openAlerts'[<<a, u>>].last <= al.ts
               \/ /\ a # ip
                  /\ openAlerts'[<<a, u>>] = openAlerts[<<a, u>>]
                  /\ al.ts - openAlerts[<<a, u>>].last <= Cooldown
    <3>1. CASE openAlerts'[<<a, u>>] = A[<<a, u>>]
      <4>1. /\ A[<<a, u>>] = openAlerts[<<a, u>>] /\ al.ts - openAlerts[<<a, u>>].last <= Cooldown
            /\ openAlerts[<<a, u>>].last <= clock /\ openSources[a].id = openAlerts[<<a, u>>].id
            /\ openAlerts[<<a, u>>] # None
        BY <1>5, <2>8, <3>1
      <4>2. openAlerts[<<a, u>>].last \in Int
        BY <1>2, <1>7, <4>1 DEF Open, Time
      <4>3. openAlerts[<<a, u>>].last <= al.ts
        BY <1>1, <4>1, <4>2, RowTimes
      <4>. QED
        BY <3>1, <4>1, <4>3
    <3>2. CASE a = ip /\ u = al.ua /\ A[k] # None
               /\ openAlerts'[<<a, u>>] = [A[k] EXCEPT !.last = al.ts]
      BY <1>1, <1>5, <2>7, <3>2
    <3>. QED
      BY <2>6, <3>1, <3>2
  <2>9. id = openSources[ip].id
    BY <1>8
  <2>. HIDE DEF id
  <2>10. Keeps(al, id)
    BY <1>3, <2>3, <2>4, <2>5, <2>8, <2>9 DEF Keeps
  <2>. QED
    BY <2>10 DEF id
<1>9. CASE OpenNew(al)
  <2>. DEFINE open == [id |-> al.id, last |-> al.ts]
  <2>1. open \in Open /\ open # None /\ open.id = al.id /\ open.last = al.ts
    BY NoneIsNotOpen DEF Alert, Open
  <2>2. /\ openAlerts' = [A EXCEPT ![k] = open] /\ openSources' = [S EXCEPT ![ip] = open]
        /\ S[ip] = None
    BY <1>6, <1>9 DEF OpenNew, A, S
  <2>. HIDE DEF open
  <2>3. /\ \A e \in E : openAlerts'[e] = IF e = k THEN open ELSE A[e]
        /\ \A a \in Addr : openSources'[a] = IF a = ip THEN open ELSE S[a]
    BY <1>3, <1>4, <2>2
  <2>4. ASSUME NEW a \in Addr, NEW u \in UserAgent, openAlerts'[<<a, u>>] # None
        PROVE  \/ /\ a = ip
                  /\ openAlerts'[<<a, u>>].id = al.id
                  /\ openAlerts'[<<a, u>>].last <= al.ts
               \/ /\ a # ip
                  /\ openAlerts'[<<a, u>>] = openAlerts[<<a, u>>]
                  /\ al.ts - openAlerts[<<a, u>>].last <= Cooldown
    <3>1. CASE <<a, u>> = k
      BY <1>1, <1>7, <2>1, <2>3, <3>1
    <3>2. CASE <<a, u>> # k
      BY <1>5, <1>7, <2>2, <2>3, <2>4, <3>2
    <3>. QED
      BY <3>1, <3>2
  <2>5. id = al.id
    BY <1>9
  <2>. HIDE DEF id
  <2>6. Keeps(al, id)
    BY <1>1, <1>3, <2>1, <2>3, <2>4, <2>5 DEF Keeps
  <2>. QED
    BY <2>6 DEF id
<1>. QED
  BY <1>8, <1>9

LEMMA ReachedGrows ==
    ASSUME TypeOK, NEW o \in Outcome, NEW fate \in Fate, NEW by \in FoldedBys,
           NEW into \in AlertId \cup {None}, Record(o, fate, by, into)
    PROVE  /\ Reached' = IF fate \in {"delivered", "over_budget"} /\ Carried(o) = {}
                         THEN Reached \cup {Len(log) + 1} ELSE Reached
           /\ Reached \subseteq DOMAIN log
<1>. DEFINE n == Len(log) + 1
<1>1. /\ n \notin DOMAIN log
      /\ DOMAIN log' = DOMAIN log \cup {n}
      /\ \A i \in DOMAIN log : log'[i] = log[i]
      /\ log'[n].keys = Carried(o) /\ log'[n].fate = fate
  BY Recorded
<1>2. \A i : i \in Reached <=> /\ i \in DOMAIN log /\ log[i].keys = {}
                               /\ log[i].fate \in {"delivered", "over_budget"}
  BY DEF Reached, Issued
<1>3. \A i : i \in Reached' <=> /\ i \in DOMAIN log' /\ log'[i].keys = {}
                                /\ log'[i].fate \in {"delivered", "over_budget"}
  BY DEF Reached, Issued
<1>. HIDE DEF n
<1>4. \A i : i \in Reached' <=> \/ i \in Reached
                                \/ /\ i = n /\ Carried(o) = {}
                                   /\ fate \in {"delivered", "over_budget"}
  BY <1>1, <1>2, <1>3
<1>5. CASE fate \in {"delivered", "over_budget"} /\ Carried(o) = {}
  BY <1>2, <1>4, <1>5 DEF n
<1>6. CASE ~(fate \in {"delivered", "over_budget"} /\ Carried(o) = {})
  BY <1>2, <1>4, <1>6
<1>. QED
  BY <1>5, <1>6

\* The same of the state a step leads to.
LatestAfter(a, m) ==
    /\ m \in Reached'
    /\ log'[m].ip = a
    /\ \A j \in Reached' : log'[j].ip = a => j <= m

LEMMA StepCooldown ==
    ASSUME Lateness = 0, ~Progressive
    PROVE  CooldownInv /\ [Next]_vars => CooldownInv'
<1>. SUFFICES ASSUME CooldownInv, [Next]_vars PROVE CooldownInv'
  OBVIOUS
<1>0. TypeOK /\ Past /\ CooldownMemory /\ CooldownQuiet /\ FoldsIntoLatest /\ TypeOK'
  BY StepType DEF CooldownInv
<1>1. CASE UNCHANGED vars
  BY <1>0, <1>1 DEF vars, CooldownInv, Past, CooldownMemory, CooldownQuiet, FoldsIntoLatest,
                    LatestOf, Reached, Issued, Answered
<1>2. ASSUME NEW o \in Outcome, Handle(o)
      PROVE  CooldownInv'
  <2>. DEFINE al == AlertOf(o)
              n == Len(log) + 1
  <2>1. PICK fate \in Fate, by \in FoldedBys, into \in AlertId \cup {None} :
           /\ Carried(o) = {}
           /\ Record(o, fate, by, into)
           /\ \/ fate = "suppressed" /\ UNCHANGED dedupVars
              \/ Repeats(al, fate, into)
              \/ Opens(al, fate)
    BY <1>0, <1>2, CooldownRow
  <2>2. al \in Alert /\ al.ip = o.ip /\ al.ts = o.ts /\ al.id = n
    BY <1>0, AlertType DEF AlertOf
  <2>3. /\ n \in Nat /\ n \notin DOMAIN log
        /\ DOMAIN log' = DOMAIN log \cup {n}
        /\ \A i \in DOMAIN log : log'[i] = log[i] /\ i < n /\ i \in Nat
        /\ log'[n].ip = o.ip /\ log'[n].ts = o.ts
        /\ log'[n].fate = fate /\ log'[n].into = into
    BY <1>0, <2>1, Recorded
  <2>4. /\ o.ts \in Int /\ o.ip \in Addr /\ clock <= o.ts /\ clock' = o.ts
    BY <1>0, <1>2, Punctual
  <2>5. /\ Reached' = IF fate \in {"delivered", "over_budget"} THEN Reached \cup {n} ELSE Reached
        /\ Reached \subseteq DOMAIN log
    BY <1>0, <2>1, ReachedGrows
  <2>6. /\ clock \in Int
        /\ \A i \in DOMAIN log : /\ log[i].ts \in Int /\ log[i].ip \in Addr
                                 /\ log[i].ts <= clock
    BY <1>0, RowTimes DEF Past
  <2>7. Past'
    BY <1>0, <1>2, PastStays
  <2>8. \A i : i \in Issued({"folded"})' <=>
            i \in Issued({"folded"}) \/ (i = n /\ fate = "folded")
    BY <2>3 DEF Issued
  <2>9. openSources \in [Addr -> Open \cup {None}]
        /\ openAlerts \in [Addr \X UserAgent -> Open \cup {None}]
    BY <1>0 DEF TypeOK, DedupTypeOK
  <2>10. \A a \in Addr : openSources[a] # None => openSources[a].last \in Int
    BY <2>9 DEF Open, Time
  <2>. HIDE DEF al, n
  <2>11. CASE fate = "suppressed" /\ UNCHANGED dedupVars
    <3>1. openSources' = openSources /\ openAlerts' = openAlerts /\ Reached' = Reached
      BY <2>5, <2>11 DEF dedupVars
    <3>2. \A i : i \in Issued({"folded"})' <=> i \in Issued({"folded"})
      BY <2>8, <2>11
    <3>3. \A a \in Addr : openSources[a] # None => LatestAfter(a, openSources[a].id)
      BY <1>0, <2>3, <2>5, <3>1 DEF CooldownMemory, LatestOf, LatestAfter
    <3>4. \A j \in DOMAIN log' : Answered(j)' /\ clock' - log'[j].ts <= Cooldown =>
              /\ openSources[log'[j].ip] # None
              /\ log'[j].ts <= openSources[log'[j].ip].last
      BY <1>0, <2>3, <2>4, <2>6, <2>11, CooldownIsNatural DEF CooldownMemory, Answered
    <3>5. \A a \in Addr : openSources[a] # None => openSources[a].last <= clock'
      BY <1>0, <2>4, <2>6, <2>10 DEF CooldownMemory
    <3>6. CooldownMemory'
      BY <1>0, <3>1, <3>3, <3>4, <3>5 DEF CooldownMemory, LatestOf, LatestAfter
    <3>7. CooldownQuiet'
      BY <1>0, <2>3, <2>5, <2>11, <3>1 DEF CooldownQuiet
    <3>8. FoldsIntoLatest'
      BY <1>0, <2>3, <2>5, <3>1, <3>2 DEF FoldsIntoLatest, Issued
    <3>. QED
      BY <1>0, <2>7, <3>6, <3>7, <3>8 DEF CooldownInv
  <2>12. CASE Repeats(al, fate, into) \/ Opens(al, fate)
    <3>. DEFINE id == IF OpenNew(al) THEN al.id ELSE openSources[al.ip].id
    <3>1. Keeps(al, id)
      BY <1>0, <2>2, <2>4, <2>12, CooldownKeeps DEF Repeats, Opens
    <3>2. LatestAfter(o.ip, id) /\ id \in Reached'
      <4>1. CASE OpenNew(al)
        <5>1. fate \in {"delivered", "over_budget"} /\ id = n
          BY <2>2, <2>12, <4>1 DEF Repeats, Opens, FoldByEntity, FoldBySource, OpenNew
        <5>. QED
          BY <2>3, <2>5, <5>1 DEF LatestAfter
      <4>2. CASE ~OpenNew(al)
        <5>1. /\ openSources[o.ip] # None /\ id = openSources[o.ip].id /\ fate = "folded"
          BY <1>0, <2>2, <2>4, <2>12, <4>2, CooldownDecides DEF Repeats, Opens
        <5>2. LatestOf(o.ip, id)
          BY <1>0, <2>4, <5>1 DEF CooldownMemory
        <5>3. Reached' = Reached
          BY <2>5, <5>1
        <5>. HIDE DEF id
        <5>. QED
          BY <2>3, <2>5, <5>2, <5>3 DEF LatestOf, LatestAfter
      <4>. QED
        BY <4>1, <4>2
    <3>3. fate = "folded" => into = id /\ fate \notin {"delivered", "over_budget"}
      <4>1. SUFFICES ASSUME fate = "folded" PROVE into = id
        OBVIOUS
      <4>2. Repeats(al, fate, into) /\ ~OpenNew(al)
        BY <2>12, <4>1 DEF Repeats, Opens, FoldByEntity, FoldBySource, OpenNew
      <4>3. /\ SourceAlert(al) = openSources[al.ip]
            /\ FoldByEntity(al) => EntityAlert(al).id = SourceAlert(al).id
        BY <1>0, <2>2, <2>4, <4>2, CooldownDecides DEF Repeats
      <4>. QED
        BY <4>2, <4>3 DEF Repeats
    <3>4. fate \in {"delivered", "over_budget"} => OpenNew(al)
      BY <2>12 DEF Repeats, Opens
    <3>. HIDE DEF id
    <3>5. ASSUME NEW a \in Addr, openSources'[a] # None
          PROVE  LatestAfter(a, openSources'[a].id) /\ openSources'[a].last <= clock'
      <4>1. CASE a = o.ip
        BY <2>2, <2>4, <3>1, <3>2, <4>1 DEF Keeps
      <4>2. CASE a # o.ip
        <5>1. openSources'[a] = openSources[a] /\ openSources[a] # None
          BY <2>2, <3>1, <3>5, <4>2 DEF Keeps
        <5>2. LatestOf(a, openSources[a].id) /\ openSources[a].last <= clock
          BY <1>0, <5>1 DEF CooldownMemory
        <5>3. LatestAfter(a, openSources'[a].id)
          BY <2>3, <2>5, <4>2, <5>1, <5>2 DEF LatestOf, LatestAfter
        <5>. QED
          BY <2>4, <2>6, <2>10, <5>1, <5>2, <5>3
      <4>. QED
        BY <4>1, <4>2
    <3>6. ASSUME NEW a \in Addr, NEW u \in UserAgent, openAlerts'[<<a, u>>] # None
          PROVE  /\ openSources'[a] # None
                 /\ openSources'[a].id = openAlerts'[<<a, u>>].id
                 /\ openAlerts'[<<a, u>>].last <= openSources'[a].last
      <4>1. CASE a = al.ip
        BY <3>1, <3>6, <4>1 DEF Keeps
      <4>2. CASE a # al.ip
        <5>1. /\ openAlerts'[<<a, u>>] = openAlerts[<<a, u>>]
              /\ al.ts - openAlerts[<<a, u>>].last <= Cooldown
          BY <3>1, <3>6, <4>2 DEF Keeps
        <5>2. /\ openSources[a] # None /\ openSources[a].id = openAlerts[<<a, u>>].id
              /\ openAlerts[<<a, u>>].last <= openSources[a].last
          BY <1>0, <3>6, <5>1 DEF CooldownMemory
        <5>3. openAlerts[<<a, u>>].last \in Int
          <6>1. <<a, u>> \in Addr \X UserAgent
            OBVIOUS
          <6>. QED
            BY <2>9, <3>6, <5>1, <6>1 DEF Open, Time
        <5>4. al.ts - openSources[a].last <= Cooldown
          BY <2>2, <2>4, <2>10, <5>1, <5>2, <5>3, CooldownIsNatural
        <5>5. openSources'[a] = openSources[a]
          BY <3>1, <4>2, <5>2, <5>4 DEF Keeps
        <5>. QED
          BY <5>1, <5>2, <5>5
      <4>. QED
        BY <4>1, <4>2
    <3>7. ASSUME NEW j \in DOMAIN log', Answered(j)', clock' - log'[j].ts <= Cooldown
          PROVE  /\ openSources'[log'[j].ip] # None
                 /\ log'[j].ts <= openSources'[log'[j].ip].last
      <4>1. CASE j = n
        BY <2>2, <2>3, <2>4, <3>1, <4>1 DEF Keeps
      <4>2. CASE j # n
        <5>1. j \in DOMAIN log /\ log'[j] = log[j] /\ Answered(j)
          BY <2>3, <3>7, <4>2 DEF Answered
        <5>2. log[j].ts \in Int /\ log[j].ip \in Addr /\ log[j].ts <= clock
          BY <2>6, <5>1
        <5>3. /\ openSources[log[j].ip] # None /\ log[j].ts <= openSources[log[j].ip].last
          BY <1>0, <2>4, <2>6, <3>7, <5>1, <5>2, CooldownIsNatural DEF CooldownMemory
        <5>4. CASE log[j].ip = al.ip
          BY <2>2, <2>4, <2>6, <3>1, <5>1, <5>2, <5>4 DEF Keeps
        <5>5. CASE log[j].ip # al.ip
          <6>1. al.ts - openSources[log[j].ip].last <= Cooldown
            BY <2>2, <2>4, <2>10, <3>7, <5>1, <5>2, <5>3, CooldownIsNatural
          <6>2. openSources'[log[j].ip] = openSources[log[j].ip]
            BY <3>1, <5>2, <5>3, <5>5, <6>1 DEF Keeps
          <6>. QED
            BY <5>1, <5>3, <6>2
        <5>. QED
          BY <5>4, <5>5
      <4>. QED
        BY <4>1, <4>2
    <3>8. CooldownMemory'
      <4>1. \A a \in Addr : openSources'[a] # None =>
                LatestAfter(a, openSources'[a].id) /\ openSources'[a].last <= clock'
        BY <3>5
      <4>2. \A a \in Addr, u \in UserAgent : openAlerts'[<<a, u>>] # None =>
                /\ openSources'[a] # None
                /\ openSources'[a].id = openAlerts'[<<a, u>>].id
                /\ openAlerts'[<<a, u>>].last <= openSources'[a].last
        BY <3>6
      <4>3. \A j \in DOMAIN log' : Answered(j)' /\ clock' - log'[j].ts <= Cooldown =>
                /\ openSources'[log'[j].ip] # None
                /\ log'[j].ts <= openSources'[log'[j].ip].last
        BY <3>7
      <4>. QED
        BY <4>1, <4>2, <4>3 DEF CooldownMemory, LatestOf, LatestAfter, Answered
    <3>9. CooldownQuiet'
      <4>1. SUFFICES ASSUME NEW i \in Reached', NEW j \in DOMAIN log',
                            j < i, log'[j].ip = log'[i].ip, log'[j].fate # "suppressed"
                     PROVE  log'[i].ts - log'[j].ts > Cooldown
        BY DEF CooldownQuiet
      <4>2. CASE i = n
        <5>1. OpenNew(al) /\ j \in DOMAIN log /\ log'[j] = log[j]
          BY <2>3, <2>5, <3>4, <4>1, <4>2
        <5>2. log[j].ip = al.ip /\ log[j].ts \in Int /\ log[j].ip \in Addr /\ log[j].ts <= clock
          BY <2>2, <2>3, <2>6, <4>1, <4>2, <5>1
        <5>3. ASSUME al.ts - log[j].ts <= Cooldown PROVE FALSE
          <6>1. openSources[al.ip] # None /\ log[j].ts <= openSources[al.ip].last
            BY <1>0, <2>2, <2>4, <2>6, <4>1, <5>1, <5>2, <5>3, CooldownIsNatural
               DEF CooldownMemory, Answered
          <6>2. al.ts - openSources[al.ip].last <= Cooldown
            BY <2>2, <2>4, <2>10, <5>2, <5>3, <6>1, CooldownIsNatural
          <6>3. SourceAlert(al) # None
            BY <5>2, <6>1, <6>2, <2>9 DEF SourceAlert, Unexpired
          <6>. QED
            BY <5>1, <6>3 DEF OpenNew
        <5>. QED
          BY <2>2, <2>3, <2>4, <4>2, <5>1, <5>2, <5>3, CooldownIsNatural
      <4>3. CASE i # n
        <5>1. i \in Reached /\ i \in DOMAIN log /\ j # n
          BY <2>3, <2>5, <4>1, <4>3
        <5>. QED
          BY <1>0, <2>3, <4>1, <5>1 DEF CooldownQuiet
      <4>. QED
        BY <4>2, <4>3
    <3>10. FoldsIntoLatest'
      <4>1. SUFFICES ASSUME NEW i \in Issued({"folded"})'
                     PROVE  /\ log'[i].into \in Reached'
                            /\ log'[log'[i].into].ip = log'[i].ip
                            /\ \A j \in Reached' : j < i /\ log'[j].ip = log'[i].ip
                                                   => j <= log'[i].into
        BY DEF FoldsIntoLatest
      <4>2. CASE i = n
        <5>1. fate = "folded"
          BY <2>3, <4>1, <4>2 DEF Issued
        <5>2. into = id /\ log'[i].into = id /\ log'[i].ip = o.ip
          BY <2>3, <3>3, <4>2, <5>1
        <5>. QED
          BY <3>2, <5>2 DEF LatestAfter
      <4>3. CASE i # n
        <5>1. i \in Issued({"folded"}) /\ i \in DOMAIN log
          BY <2>8, <4>1, <4>3 DEF Issued
        <5>2. /\ log[i].into \in Reached /\ log[log[i].into].ip = log[i].ip
              /\ \A j \in Reached : j < i /\ log[j].ip = log[i].ip => j <= log[i].into
          BY <1>0, <5>1 DEF FoldsIntoLatest
        <5>3. \A j \in Reached' : j < i => j \in Reached
          BY <2>3, <2>5, <5>1
        <5>. QED
          BY <2>3, <2>5, <5>1, <5>2, <5>3
      <4>. QED
        BY <4>2, <4>3
    <3>. QED
      BY <1>0, <2>7, <3>8, <3>9, <3>10 DEF CooldownInv
  <2>. QED
    BY <2>1, <2>11, <2>12
<1>. QED
  BY <1>1, <1>2 DEF Next, Handle

LEMMA CooldownInvariant ==
    ASSUME Lateness = 0, ~Progressive
    PROVE  Spec => []CooldownInv
<1>1. Init => CooldownInv
  <2>. SUFFICES ASSUME Init PROVE CooldownInv
    OBVIOUS
  <2>1. TypeOK /\ DOMAIN log = {}
    BY InitType DEF Init
  <2>2. CooldownMemory
    BY <2>1 DEF Init, DedupInit, CooldownMemory
  <2>. QED
    BY <2>1, <2>2 DEF CooldownInv, Past, CooldownQuiet, FoldsIntoLatest, Reached, Issued
<1>. QED
  BY <1>1, StepCooldown, PTL DEF Spec

\* When windows close in order, the first fire of an entity comes through the cooldown
\* (detection/dedup.py) only if its address was quiet for the whole of it, under every
\* user-agent.
THEOREM CooldownIsQuiet == ASSUME Lateness = 0 PROVE Spec => []CooldownQuiet
<1>1. CASE Progressive
  <2>1. CooldownQuiet
    BY <1>1 DEF CooldownQuiet
  <2>. QED
    BY <2>1, PTL
<1>2. CASE ~Progressive
  BY <1>2, CooldownInvariant, PTL DEF CooldownInv
<1>. QED
  BY <1>1, <1>2

\* When windows close in order, a repeat folds into the alert that its address opened
\* last (detection/dedup.py), by the entity's entry or by the address's.
THEOREM RepeatsFoldIntoLatest == ASSUME Lateness = 0 PROVE Spec => []FoldsIntoLatest
<1>1. CASE Progressive
  <2>1. FoldsIntoLatest
    BY <1>1 DEF FoldsIntoLatest
  <2>. QED
    BY <2>1, PTL
<1>2. CASE ~Progressive
  BY <1>2, CooldownInvariant, PTL DEF CooldownInv
<1>. QED
  BY <1>1, <1>2

-----------------------------------------------------------------------------
(* Progressive alerting.                                                   *)

\* The days of the calendar are in order.
LEMMA DayInOrder ==
    ASSUME NEW s \in Time, NEW t \in Time, s <= t
    PROVE  Day(s) <= Day(t)
<1>1. s \in Int /\ t \in Int /\ DayLength \in Int /\ DayLength > 0
  BY Constants DEF ConstantAssumptions, Time
<1>. QED
  BY <1>1 DEF Day

\* What a decision leaves of the dictionaries: entries that are over are dropped, and
\* those of the address and the user-agent at hand are written.
LEMMA DecideKeeps ==
    ASSUME TypeOK, NEW al \in Alert, Decide(al)
    PROVE  /\ \A a \in Addr \ {al.ip} : episodes'[a] \in {None, episodes[a]}
           /\ episodes'[al.ip].last = Advanced(al).last
           /\ episodes'[al.ip].windows = Advanced(al).windows
           /\ \A a \in Addr : queued[a] # None /\ queued[a].day = Day(al.ts) =>
                 /\ queued'[a] # None /\ queued'[a].day = Day(al.ts)
           /\ \A u \in UserAgent : campaigns[u] # None /\ Within(campaigns[u].last, al.ts) =>
                 /\ campaigns'[u] # None
                 /\ campaigns'[u].last = campaigns[u].last
                       \/ (u = al.ua /\ campaigns'[u].last >= al.ts)
           /\ Queue(al) => /\ queued'[al.ip] # None /\ queued'[al.ip].day = Day(al.ts)
                           /\ campaigns'[al.ua] # None /\ campaigns'[al.ua].last = al.ts
<1>1. al.ip \in Addr /\ al.ua \in UserAgent /\ al.ts \in Time /\ al.ts \in Int /\ Day(al.ts) \in Nat
  BY DayType DEF Alert, Time
<1>2. ProgressionTypeOK /\ Advanced(al) \in Episode /\ RefTo(al) \in Ref
  BY AdvancedType, RefType DEF TypeOK
<1>3. /\ LiveEpisodes(al.ts) \in [Addr -> Episode \cup {None}]
      /\ LiveQueued(al.ts) \in [Addr -> Daily \cup {None}]
      /\ LiveCampaigns(al.ts) \in [UserAgent -> Campaign \cup {None}]
  BY <1>1, <1>2, LiveTypes
<1>4. \A a \in Addr : LiveEpisodes(al.ts)[a] \in {None, episodes[a]}
  BY DEF LiveEpisodes
<1>5. \A a \in Addr : queued[a] # None /\ queued[a].day = Day(al.ts) =>
          LiveQueued(al.ts)[a] = queued[a]
  BY <1>1 DEF LiveQueued
<1>6. \A u \in UserAgent : campaigns[u] # None /\ Within(campaigns[u].last, al.ts) =>
          LiveCampaigns(al.ts)[u] = campaigns[u]
  BY DEF LiveCampaigns
<1>7. \A ref \in Ref : /\ [day |-> Day(al.ts), ref |-> ref] # None
                       /\ [last |-> al.ts, ref |-> ref] # None
  BY <1>1, NoneIsNoEntry DEF Daily, Campaign
<1>8. ASSUME NEW ref \in Ref, Represent(al, ref)
      PROVE  /\ \A a \in Addr \ {al.ip} : episodes'[a] \in {None, episodes[a]}
             /\ episodes'[al.ip].last = Advanced(al).last
             /\ episodes'[al.ip].windows = Advanced(al).windows
             /\ queued'[al.ip] # None /\ queued'[al.ip].day = Day(al.ts)
             /\ \A a \in Addr : queued[a] # None /\ queued[a].day = Day(al.ts) =>
                   /\ queued'[a] # None /\ queued'[a].day = Day(al.ts)
  <2>. DEFINE e == [Advanced(al) EXCEPT !.window = ref, !.queued = ref]
              q == [day |-> Day(al.ts), ref |-> ref]
  <2>1. e.last = Advanced(al).last /\ e.windows = Advanced(al).windows
    BY <1>2 DEF Episode
  <2>2. q # None /\ q.day = Day(al.ts)
    BY <1>7
  <2>3. /\ episodes' = [LiveEpisodes(al.ts) EXCEPT ![al.ip] = e]
        /\ queued' = [LiveQueued(al.ts) EXCEPT ![al.ip] = q]
    BY <1>8 DEF Represent
  <2>. HIDE DEF e, q
  <2>4. /\ \A a \in Addr : episodes'[a] = IF a = al.ip THEN e ELSE LiveEpisodes(al.ts)[a]
        /\ \A a \in Addr : queued'[a] = IF a = al.ip THEN q ELSE LiveQueued(al.ts)[a]
    BY <1>3, <2>3
  <2>. QED
    BY <1>1, <1>4, <1>5, <2>1, <2>2, <2>4
<1>9. CASE FoldByAddress(al)
  <2>1. \A a \in Addr : episodes'[a] = IF a = al.ip THEN Advanced(al) ELSE LiveEpisodes(al.ts)[a]
    BY <1>3, <1>9 DEF FoldByAddress
  <2>2. queued' = LiveQueued(al.ts) /\ campaigns' = LiveCampaigns(al.ts) /\ ~Queue(al)
    BY <1>9 DEF FoldByAddress, Queue
  <2>. QED
    BY <1>1, <1>4, <1>5, <1>6, <2>1, <2>2
<1>10. CASE FoldByCampaign(al)
  <2>. DEFINE c == LiveCampaigns(al.ts)[al.ua]
              t == IF al.ts > c.last THEN al.ts ELSE c.last
  <2>1. CampaignRef(al) # None /\ Represent(al, CampaignRef(al)) /\ ~Queue(al)
    BY <1>10 DEF FoldByCampaign, ByCampaign, Takes, Queue
  <2>2. c \in Campaign /\ CampaignRef(al) \in Ref
    BY <1>2, <2>1, CampaignRefType
  <2>3. c.last \in Int /\ c.last \in Time /\ t \in Time /\ t >= al.ts
    BY <1>1, <2>2 DEF Campaign, Time
  <2>4. campaigns' = [LiveCampaigns(al.ts) EXCEPT ![al.ua] = [c EXCEPT !.last = t]]
    BY <1>10 DEF FoldByCampaign
  <2>5. [c EXCEPT !.last = t].last = t /\ [c EXCEPT !.last = t] # None
    BY <2>2, <2>3, NoneIsNoEntry DEF Campaign
  <2>. HIDE DEF c, t
  <2>6. \A u \in UserAgent : campaigns'[u] =
            IF u = al.ua THEN [c EXCEPT !.last = t] ELSE LiveCampaigns(al.ts)[u]
    BY <1>1, <1>3, <2>4
  <2>7. \A u \in UserAgent : campaigns[u] # None /\ Within(campaigns[u].last, al.ts) =>
                 /\ campaigns'[u] # None
                 /\ campaigns'[u].last = campaigns[u].last
                       \/ (u = al.ua /\ campaigns'[u].last >= al.ts)
    BY <1>1, <1>6, <2>3, <2>5, <2>6
  <2>. QED
    BY <1>8, <2>1, <2>2, <2>7
<1>11. CASE Queue(al)
  <2>. DEFINE c == [last |-> al.ts, ref |-> RefTo(al)]
  <2>1. c # None /\ c.last = al.ts
    BY <1>2, <1>7
  <2>2. Represent(al, RefTo(al)) /\ campaigns' = [LiveCampaigns(al.ts) EXCEPT ![al.ua] = c]
    BY <1>11 DEF Queue
  <2>. HIDE DEF c
  <2>3. \A u \in UserAgent : campaigns'[u] = IF u = al.ua THEN c ELSE LiveCampaigns(al.ts)[u]
    BY <1>3, <2>2
  <2>4. /\ campaigns'[al.ua] # None /\ campaigns'[al.ua].last = al.ts
        /\ \A u \in UserAgent : campaigns[u] # None /\ Within(campaigns[u].last, al.ts) =>
                 /\ campaigns'[u] # None
                 /\ campaigns'[u].last = campaigns[u].last
                       \/ (u = al.ua /\ campaigns'[u].last >= al.ts)
    BY <1>1, <1>6, <2>1, <2>3
  <2>. QED
    BY <1>2, <1>8, <2>2, <2>4
<1>12. CASE Candidate(al)
  <2>. DEFINE e == [Advanced(al) EXCEPT !.window = RefTo(al)]
  <2>1. e.last = Advanced(al).last /\ e.windows = Advanced(al).windows
    BY <1>2 DEF Episode
  <2>2. /\ episodes' = [LiveEpisodes(al.ts) EXCEPT ![al.ip] = e]
        /\ queued' = LiveQueued(al.ts) /\ campaigns' = LiveCampaigns(al.ts) /\ ~Queue(al)
    BY <1>12 DEF Candidate, Queue
  <2>. HIDE DEF e
  <2>3. \A a \in Addr : episodes'[a] = IF a = al.ip THEN e ELSE LiveEpisodes(al.ts)[a]
    BY <1>3, <2>2
  <2>. QED
    BY <1>1, <1>4, <1>5, <1>6, <2>1, <2>2, <2>3
<1>. QED
  BY <1>9, <1>10, <1>11, <1>12 DEF Decide, Fold

\* What a progressive use case writes: a window that was decided on is a firing one
\* that was not withheld, and a scan that comes through was queued.
LEMMA ProgressRow ==
    ASSUME Progressive, TypeOK, NEW o \in Outcome, Handle(o)
    PROVE  \E fate \in Fate, by \in FoldedBys, into \in AlertId \cup {None} :
              /\ Record(o, fate, by, into)
              /\ \/ Decide(AlertOf(o)) /\ o.fired /\ fate # "suppressed"
                 \/ UNCHANGED progressionVars
              /\ fate \in {"delivered", "over_budget"} /\ Carried(o) = {} =>
                    Queue(AlertOf(o)) /\ Decide(AlertOf(o)) /\ o.fired
<1>. DEFINE al == AlertOf(o)
<1>1. al \in Alert
  BY AlertType
<1>. HIDE DEF al
<1>2. CASE FoldExposure(o)
  <2>1. PICK k \in Alertable(al) : Record(o, "folded", "exposure", exposed[k].id)
    BY <1>2 DEF FoldExposure, al
  <2>2. exposed[k] \in Raised
    BY <1>1, <1>2, <2>1 DEF FoldExposure, NewKeys, Known, al, TypeOK, TrackerTypeOK,
                            Alertable, Alert
  <2>. QED
    BY <1>2, <2>1, <2>2 DEF FoldExposure, Exposure, Raised, Fate, FoldedBys
<1>3. CASE FoldScan(o)
  <2>1. FoldedInto(al).id \in AlertId /\ FoldedBy(al) \in FoldedBys
    BY <1>1, <1>3, FoldedIntoType DEF FoldScan, FoldedBys, al, TypeOK
  <2>. QED
    BY <1>3, <2>1 DEF FoldScan, Scan, Decide, Fate, al
<1>4. CASE Withhold(o)
  BY <1>4 DEF Withhold, Fate, FoldedBys
<1>5. CASE RaiseExposure(o)
  BY <1>5 DEF RaiseExposure, Exposure, Fate, FoldedBys
<1>6. CASE NoteExposure(o)
  BY <1>6 DEF NoteExposure, Exposure, Fate, FoldedBys
<1>7. CASE DigestCandidate(o)
  BY <1>7 DEF DigestCandidate, Scan, Decide, Fate, FoldedBys
<1>8. CASE Deliver(o)
  BY <1>8 DEF Deliver, ForQueue, Scan, Decide, Fate, FoldedBys
<1>9. CASE DigestOverBudget(o)
  BY <1>9 DEF DigestOverBudget, ForQueue, Scan, Decide, Fate, FoldedBys
<1>10. CASE FoldRepeat(o)
  BY <1>10 DEF FoldRepeat
<1>. QED
  BY <1>2, <1>3, <1>4, <1>5, <1>6, <1>7, <1>8, <1>9, <1>10 DEF Handle

\* A scan is queued when nothing of its address's day and nothing of its campaign is
\* remembered, and its episode is long enough.
LEMMA QueuedIsFresh ==
    ASSUME TypeOK, NEW al \in Alert, Queue(al), al.keys = {}
    PROVE  /\ ~(queued[al.ip] # None /\ queued[al.ip].day = Day(al.ts))
           /\ ~(campaigns[al.ua] # None /\ Within(campaigns[al.ua].last, al.ts))
           /\ Advanced(al).windows >= HighWindows
<1>1. al.ip \in Addr /\ al.ua \in UserAgent /\ al.ts \in Time /\ Day(al.ts) \in Nat /\ ~Found(al)
  BY DayType DEF Alert, Found
<1>2. /\ queued \in [Addr -> Daily \cup {None}]
      /\ campaigns \in [UserAgent -> Campaign \cup {None}]
  BY DEF TypeOK, ProgressionTypeOK
<1>3. ASSUME queued[al.ip] # None, queued[al.ip].day = Day(al.ts) PROVE FALSE
  <2>1. LiveQueued(al.ts)[al.ip] = queued[al.ip]
    BY <1>1, <1>3 DEF LiveQueued
  <2>2. TodayRef(al) = queued[al.ip].ref
    BY <1>3, <2>1 DEF TodayRef
  <2>3. queued[al.ip].ref # None
    BY <1>1, <1>2, <1>3, NoneIsNoRef DEF Daily
  <2>. QED
    BY <1>1, <2>2, <2>3 DEF Queue, ByAddress, ByDay, Takes
<1>4. ASSUME campaigns[al.ua] # None, Within(campaigns[al.ua].last, al.ts) PROVE FALSE
  <2>1. CampaignRef(al) = campaigns[al.ua].ref
    BY <1>1, <1>4 DEF CampaignRef, LiveCampaigns
  <2>2. campaigns[al.ua].ref # None
    BY <1>1, <1>2, <1>4, NoneIsNoRef DEF Campaign
  <2>. QED
    BY <1>1, <2>1, <2>2 DEF Queue, ByCampaign, Takes
<1>5. Advanced(al).windows >= HighWindows
  BY <1>1 DEF Queue, ReachesQueue
<1>. QED
  BY <1>3, <1>4, <1>5

LEMMA StepOnce ==
    ASSUME Lateness = 0, Progressive
    PROVE  OnceInv /\ [Next]_vars => OnceInv'
<1>. SUFFICES ASSUME OnceInv, [Next]_vars PROVE OnceInv'
  OBVIOUS
<1>0. /\ TypeOK /\ Past /\ DayMemory /\ QueuedOncePerDay /\ CampaignMemory
      /\ OneAlertPerCampaign /\ TypeOK' /\ EpisodeGap \in Int
  BY StepType, Constants DEF OnceInv, ConstantAssumptions
<1>1. CASE UNCHANGED vars
  BY <1>0, <1>1 DEF vars, OnceInv, Past, DayMemory, CampaignMemory, QueuedOncePerDay,
                    OneAlertPerCampaign, Reached, Issued, Day
<1>2. ASSUME NEW o \in Outcome, Handle(o)
      PROVE  OnceInv'
  <2>. DEFINE al == AlertOf(o)
              n == Len(log) + 1
  <2>1. PICK fate \in Fate, by \in FoldedBys, into \in AlertId \cup {None} :
              /\ Record(o, fate, by, into)
              /\ \/ Decide(al) /\ o.fired /\ fate # "suppressed"
                 \/ UNCHANGED progressionVars
              /\ fate \in {"delivered", "over_budget"} /\ Carried(o) = {} =>
                    Queue(al) /\ Decide(al) /\ o.fired
    BY <1>0, <1>2, ProgressRow
  <2>2. /\ al \in Alert /\ al.ip = o.ip /\ al.ua = o.ua /\ al.ts = o.ts
        /\ al.keys = Carried(o)
    BY <1>0, AlertType DEF AlertOf
  <2>3. /\ n \in Nat /\ n \notin DOMAIN log
        /\ DOMAIN log' = DOMAIN log \cup {n}
        /\ \A i \in DOMAIN log : log'[i] = log[i] /\ i < n /\ i \in Nat
        /\ log'[n].ip = o.ip /\ log'[n].ts = o.ts /\ log'[n].ua = o.ua
        /\ log'[n].keys = Carried(o)
    BY <1>0, <2>1, Recorded
  <2>4. /\ o.ts \in Int /\ o.ts \in Time /\ clock <= o.ts /\ clock' = o.ts
        /\ o.ip \in Addr /\ o.ua \in UserAgent
    BY <1>0, <1>2, Punctual
  <2>5. /\ Reached' = IF fate \in {"delivered", "over_budget"} /\ Carried(o) = {}
                      THEN Reached \cup {n} ELSE Reached
        /\ Reached \subseteq DOMAIN log
    BY <1>0, <2>1, ReachedGrows
  <2>6. /\ clock \in Int /\ clock \in Time
        /\ \A i \in DOMAIN log : /\ log[i].ts \in Int /\ log[i].ip \in Addr
                                 /\ log[i].ua \in UserAgent /\ log[i].ts \in Time
                                 /\ log[i].ts <= clock
    BY <1>0, RowTimes DEF Past, TypeOK
  <2>7. Past'
    BY <1>0, <1>2, PastStays
  <2>8. ASSUME NEW i \in DOMAIN log, Day(log[i].ts) = Day(o.ts)
        PROVE  Day(clock) = Day(o.ts)
    BY <2>4, <2>6, <2>8, DayInOrder, DayType
  <2>9. \A u \in UserAgent : campaigns[u] # None => campaigns[u].last \in Int
    BY <1>0 DEF TypeOK, ProgressionTypeOK, Campaign, Time
  <2>. HIDE DEF al, n
  <2>10. ASSUME n \in Reached'
         PROVE  /\ Queue(al) /\ Decide(al) /\ al.keys = {}
    BY <2>1, <2>2, <2>3, <2>5, <2>10
  <2>11. ASSUME NEW i \in Reached, Day(log[i].ts) = Day(o.ts)
         PROVE  /\ queued[log[i].ip] # None /\ queued[log[i].ip].day = Day(o.ts)
                /\ queued'[log[i].ip] # None /\ queued'[log[i].ip].day = Day(o.ts)
    <3>1. queued[log[i].ip] # None /\ queued[log[i].ip].day = Day(o.ts)
      BY <1>0, <2>5, <2>8, <2>11 DEF DayMemory
    <3>2. CASE Decide(al)
      BY <1>0, <2>2, <2>5, <2>6, <3>1, <3>2, DecideKeeps
    <3>3. CASE UNCHANGED progressionVars
      BY <3>1, <3>3 DEF progressionVars
    <3>. QED
      BY <2>1, <3>1, <3>2, <3>3
  <2>12. ASSUME NEW i \in Reached, o.ts - log[i].ts <= EpisodeGap
         PROVE  /\ campaigns[log[i].ua] # None /\ Within(campaigns[log[i].ua].last, o.ts)
                /\ campaigns'[log[i].ua] # None /\ log[i].ts <= campaigns'[log[i].ua].last
    <3>1. i \in DOMAIN log /\ log[i].ts \in Int /\ log[i].ua \in UserAgent /\ log[i].ts <= clock
      BY <2>5, <2>6
    <3>2. campaigns[log[i].ua] # None /\ log[i].ts <= campaigns[log[i].ua].last
      BY <1>0, <2>4, <2>6, <2>12, <3>1 DEF CampaignMemory
    <3>3. Within(campaigns[log[i].ua].last, o.ts)
      BY <1>0, <2>4, <2>9, <2>12, <3>1, <3>2 DEF Within
    <3>4. CASE Decide(al)
      <4>1. /\ campaigns'[log[i].ua] # None
            /\ campaigns'[log[i].ua].last = campaigns[log[i].ua].last
                  \/ campaigns'[log[i].ua].last >= al.ts
        BY <1>0, <2>2, <3>1, <3>2, <3>3, <3>4, DecideKeeps
      <4>2. campaigns'[log[i].ua].last \in Int
        BY <1>0, <3>1, <4>1 DEF TypeOK, ProgressionTypeOK, Campaign, Time
      <4>. QED
        BY <2>2, <2>4, <2>6, <3>1, <3>2, <3>3, <4>1, <4>2
    <3>5. CASE UNCHANGED progressionVars
      BY <3>2, <3>3, <3>5 DEF progressionVars
    <3>. QED
      BY <2>1, <3>2, <3>3, <3>4, <3>5
  <2>13. ASSUME NEW i \in Reached', i # n PROVE i \in Reached /\ i \in DOMAIN log /\ log'[i] = log[i]
    BY <2>3, <2>5, <2>13
  <2>14. ASSUME NEW i \in Reached', Day(log'[i].ts) = Day(o.ts)
         PROVE  queued'[log'[i].ip] # None /\ queued'[log'[i].ip].day = Day(o.ts)
    <3>1. CASE i = n
      BY <1>0, <2>2, <2>3, <2>10, <2>14, <3>1, DecideKeeps
    <3>2. CASE i # n
      BY <2>11, <2>13, <2>14, <3>2
    <3>. QED
      BY <3>1, <3>2
  <2>15. ASSUME NEW i \in Reached', o.ts - log'[i].ts <= EpisodeGap
         PROVE  campaigns'[log'[i].ua] # None /\ log'[i].ts <= campaigns'[log'[i].ua].last
    <3>1. CASE i = n
      BY <1>0, <2>2, <2>3, <2>4, <2>10, <3>1, DecideKeeps
    <3>2. CASE i # n
      BY <2>12, <2>13, <2>15, <3>2
    <3>. QED
      BY <3>1, <3>2
  <2>16. DayMemory'
    BY <2>4, <2>14 DEF DayMemory, Day
  <2>17. CampaignMemory'
    BY <2>4, <2>15 DEF CampaignMemory
  <2>18. ASSUME NEW i \in Reached, n \in Reached', log[i].ip = o.ip, Day(log[i].ts) = Day(o.ts)
         PROVE  FALSE
    BY <1>0, <2>2, <2>10, <2>11, <2>18, QueuedIsFresh
  <2>19. ASSUME NEW i \in Reached, n \in Reached', log[i].ua = o.ua, o.ts - log[i].ts <= EpisodeGap
         PROVE  FALSE
    BY <1>0, <2>2, <2>10, <2>12, <2>19, QueuedIsFresh
  <2>20. QueuedOncePerDay'
    <3>1. SUFFICES ASSUME NEW i \in Reached', NEW j \in Reached',
                          log'[i].ip = log'[j].ip, Day(log'[i].ts) = Day(log'[j].ts), i # j
                   PROVE  FALSE
      BY DEF QueuedOncePerDay, Day
    <3>2. CASE i = n
      BY <2>3, <2>13, <2>18, <3>1, <3>2
    <3>3. CASE j = n
      BY <2>3, <2>13, <2>18, <3>1, <3>3
    <3>4. CASE i # n /\ j # n
      BY <1>0, <2>13, <3>1, <3>4 DEF QueuedOncePerDay
    <3>. QED
      BY <3>2, <3>3, <3>4
  <2>21. OneAlertPerCampaign'
    <3>1. SUFFICES ASSUME NEW i \in Reached', NEW j \in Reached', i < j,
                          log'[i].ua = log'[j].ua
                   PROVE  log'[j].ts - log'[i].ts > EpisodeGap
      BY DEF OneAlertPerCampaign
    <3>2. i # n
      BY <2>3, <2>13, <3>1
    <3>3. CASE j = n
      BY <1>0, <2>3, <2>4, <2>6, <2>13, <2>19, <3>1, <3>2, <3>3
    <3>4. CASE j # n
      BY <1>0, <2>13, <3>1, <3>2, <3>4 DEF OneAlertPerCampaign
    <3>. QED
      BY <3>3, <3>4
  <2>. QED
    BY <1>0, <2>7, <2>16, <2>17, <2>20, <2>21 DEF OnceInv
<1>. QED
  BY <1>1, <1>2 DEF Next, Handle

LEMMA OnceInvariant ==
    ASSUME Lateness = 0, Progressive
    PROVE  Spec => []OnceInv
<1>1. Init => OnceInv
  BY InitType DEF Init, OnceInv, Past, DayMemory, CampaignMemory, QueuedOncePerDay,
                  OneAlertPerCampaign, Reached, Issued
<1>. QED
  BY <1>1, StepOnce, PTL DEF Spec

\* When windows close in order, an address comes through progressive alerting
\* (fusion/progressive.py) once per event-time day, exposures apart, however its fires
\* spread over user-agents and episodes.
THEOREM QueuedOnceADay == ASSUME Lateness = 0 PROVE Spec => []QueuedOncePerDay
<1>1. CASE Progressive
  BY <1>1, OnceInvariant, PTL DEF OnceInv
<1>2. CASE ~Progressive
  <2>1. QueuedOncePerDay
    BY <1>2 DEF QueuedOncePerDay
  <2>. QED
    BY <2>1, PTL
<1>. QED
  BY <1>1, <1>2

\* When windows close in order, no two scans of one user-agent come through progressive
\* alerting (fusion/progressive.py) within EPISODE_GAP, from however many addresses.
THEOREM OneAlertACampaign == ASSUME Lateness = 0 PROVE Spec => []OneAlertPerCampaign
<1>1. CASE Progressive
  BY <1>1, OnceInvariant, PTL DEF OnceInv
<1>2. CASE ~Progressive
  <2>1. OneAlertPerCampaign
    BY <1>2 DEF OneAlertPerCampaign
  <2>. QED
    BY <2>1, PTL
<1>. QED
  BY <1>1, <1>2

-----------------------------------------------------------------------------
(* Sustained scanners.  An episode counts windows; each is a firing window  *)
(* that the log still shows, so the chain behind a count can be read off it.*)

LEMMA ChainBegins ==
    ASSUME NEW t \in Time
    PROVE  Chain({t}, t, 1)
<1>1. IsFiniteSet({t}) /\ Cardinality({t}) = 1
  BY FS_Singleton
<1>2. t \in Int
  BY DEF Time
<1>. QED
  BY <1>1, <1>2 DEF Chain

LEMMA ChainGrows ==
    ASSUME NEW W \in SUBSET Time, NEW last \in Time, NEW n \in Nat, Chain(W, last, n),
           NEW t \in Time, t > last, t - last <= EpisodeGap
    PROVE  Chain(W \cup {t}, t, n + 1)
<1>1. /\ t \in Int /\ last \in Int /\ \A w \in W : w \in Int /\ w <= last
      /\ IsFiniteSet(W) /\ Cardinality(W) >= n /\ last \in W
  BY DEF Chain, Time
<1>2. t \notin W
  BY <1>1
<1>3. IsFiniteSet(W \cup {t}) /\ Cardinality(W \cup {t}) = Cardinality(W) + 1
  BY <1>1, <1>2, FS_AddElement
<1>4. Cardinality(W \cup {t}) >= n + 1
  BY <1>1, <1>3, FS_CardinalityType
<1>5. ASSUME NEW w \in (W \cup {t}) \ {t}
      PROVE  \E v \in W \cup {t} : w < v /\ v - w <= EpisodeGap
  <2>1. CASE w = last
    BY <1>1, <2>1
  <2>2. CASE w # last
    BY <1>5, <2>2 DEF Chain
  <2>. QED
    BY <2>1, <2>2
<1>6. \A w \in W \cup {t} : w <= t
  BY <1>1
<1>. QED
  BY <1>3, <1>4, <1>5, <1>6 DEF Chain

\* The episode a window belongs to ends with it, and counts a chain of firing windows.
LEMMA AdvancedCounts ==
    ASSUME TypeOK, EpisodeMemory, NEW al \in Alert, clock <= al.ts,
           NEW F, Firings(al.ip) \subseteq F, F \subseteq Time, al.ts \in F
    PROVE  /\ Advanced(al).last = al.ts
           /\ \E W \in SUBSET F : Chain(W, al.ts, Advanced(al).windows)
<1>. DEFINE e == LiveEpisodes(al.ts)[al.ip]
<1>1. al.ip \in Addr /\ al.ts \in Time /\ al.ts \in Int /\ clock \in Int
  BY RowTimes DEF Alert, Time
<1>2. CASE e = None
  <2>1. Advanced(al).last = al.ts /\ Advanced(al).windows = 1
    BY <1>2 DEF Advanced
  <2>. QED
    BY <1>1, <2>1, ChainBegins
<1>3. CASE e # None
  <2>1. e = episodes[al.ip] /\ episodes[al.ip] # None /\ Within(e.last, al.ts)
    BY <1>1, <1>3 DEF LiveEpisodes
  <2>2. e \in Episode
    BY <1>1, <2>1 DEF TypeOK, ProgressionTypeOK
  <2>3. e.last \in Time /\ e.last \in Int /\ e.windows \in Nat /\ e.last <= al.ts
    BY <1>1, <2>1, <2>2 DEF Episode, Time, EpisodeMemory
  <2>4. PICK W \in SUBSET Firings(al.ip) : Chain(W, e.last, e.windows)
    BY <1>1, <2>1 DEF EpisodeMemory
  <2>5. CASE al.ts > e.last
    <3>1. Advanced(al).last = al.ts /\ Advanced(al).windows = e.windows + 1
      BY <1>3, <2>5 DEF Advanced
    <3>2. al.ts - e.last <= EpisodeGap
      BY <2>1 DEF Within
    <3>. HIDE DEF e
    <3>3. Chain(W \cup {al.ts}, al.ts, e.windows + 1)
      BY <1>1, <2>3, <2>4, <2>5, <3>2, ChainGrows
    <3>4. W \cup {al.ts} \in SUBSET F
      BY <2>4
    <3>. QED
      BY <3>1, <3>3, <3>4
  <2>6. CASE ~(al.ts > e.last)
    <3>1. Advanced(al) = e /\ e.last = al.ts
      BY <1>1, <1>3, <2>3, <2>6 DEF Advanced
    <3>. HIDE DEF e
    <3>. QED
      BY <2>4, <3>1
  <2>. QED
    BY <2>5, <2>6
<1>. QED
  BY <1>2, <1>3

\* Behind row i: what SustainedOnly says of it.
SustainedRow(i) ==
    \E W \in SUBSET FiringWindows(i) :
        /\ Cardinality(W) >= HighWindows
        /\ log[i].ts \in W
        /\ \A w \in W \ {log[i].ts} : \E v \in W : w < v /\ v - w <= EpisodeGap
        /\ \A w \in W : w <= log[i].ts

LEMMA StepSustain ==
    ASSUME Lateness = 0, Progressive
    PROVE  SustainInv /\ [Next]_vars => SustainInv'
<1>. SUFFICES ASSUME SustainInv, [Next]_vars PROVE SustainInv'
  OBVIOUS
<1>0. /\ TypeOK /\ Past /\ EpisodeMemory /\ SustainedOnly /\ TypeOK'
      /\ HighWindows \in Int
  BY StepType, Constants DEF SustainInv, ConstantAssumptions
<1>1. CASE UNCHANGED vars
  BY <1>0, <1>1 DEF vars, SustainInv, Past, EpisodeMemory, SustainedOnly, Firings, Answered,
                    FiringWindows, Reached, Issued
<1>2. ASSUME NEW o \in Outcome, Handle(o)
      PROVE  SustainInv'
  <2>. DEFINE al == AlertOf(o)
              n == Len(log) + 1
  <2>1. PICK fate \in Fate, by \in FoldedBys, into \in AlertId \cup {None} :
              /\ Record(o, fate, by, into)
              /\ \/ Decide(al) /\ o.fired /\ fate # "suppressed"
                 \/ UNCHANGED progressionVars
              /\ fate \in {"delivered", "over_budget"} /\ Carried(o) = {} =>
                    Queue(al) /\ Decide(al) /\ o.fired
    BY <1>0, <1>2, ProgressRow
  <2>2. /\ al \in Alert /\ al.ip = o.ip /\ al.ts = o.ts /\ al.keys = Carried(o)
    BY <1>0, AlertType DEF AlertOf
  <2>0. n = Len(log) + 1 /\ Len(log) \in Nat /\ DOMAIN log = 1 .. Len(log)
    BY <1>0 DEF TypeOK
  <2>3. /\ n \in Nat /\ n \notin DOMAIN log
        /\ DOMAIN log' = DOMAIN log \cup {n}
        /\ \A i \in DOMAIN log : log'[i] = log[i] /\ i < n /\ i \in Nat
        /\ log'[n].ip = o.ip /\ log'[n].ts = o.ts
        /\ log'[n].fired = o.fired /\ log'[n].fate = fate
    BY <1>0, <2>1, Recorded
  <2>4. /\ o.ts \in Int /\ o.ts \in Time /\ clock <= o.ts /\ clock' = o.ts /\ o.ip \in Addr
    BY <1>0, <1>2, Punctual
  <2>5. /\ Reached' = IF fate \in {"delivered", "over_budget"} /\ Carried(o) = {}
                      THEN Reached \cup {n} ELSE Reached
        /\ Reached \subseteq DOMAIN log
    BY <1>0, <2>1, ReachedGrows
  <2>6. /\ clock \in Int /\ \A i \in DOMAIN log : log[i].ts \in Time
    BY <1>0, RowTimes
  <2>7. Past'
    BY <1>0, <1>2, PastStays
  <2>. HIDE DEF al, n
  <2>8. ASSUME NEW a \in Addr PROVE Firings(a) \subseteq Firings(a)' /\ Firings(a)' \subseteq Time
    BY <2>3, <2>4, <2>6 DEF Firings, Answered
  <2>9. ASSUME o.fired, fate # "suppressed" PROVE o.ts \in Firings(o.ip)'
    BY <2>3, <2>9 DEF Firings, Answered
  <2>10. ASSUME Decide(al), o.fired, fate # "suppressed"
         PROVE  /\ Advanced(al).last = o.ts
                /\ \E W \in SUBSET Firings(o.ip)' : Chain(W, o.ts, Advanced(al).windows)
    BY <1>0, <2>2, <2>4, <2>8, <2>9, <2>10, AdvancedCounts
  <2>11. ASSUME NEW a \in Addr, episodes'[a] # None
         PROVE  /\ episodes'[a].last <= clock'
                /\ \E W \in SUBSET Firings(a)' : Chain(W, episodes'[a].last, episodes'[a].windows)
    <3>1. CASE episodes'[a] = episodes[a]
      <4>1. PICK W \in SUBSET Firings(a) : Chain(W, episodes[a].last, episodes[a].windows)
        BY <1>0, <2>11, <3>1 DEF EpisodeMemory
      <4>2. W \in SUBSET Firings(a)'
        BY <2>8
      <4>3. episodes[a].last <= clock /\ episodes[a].last \in Int
        BY <1>0, <2>11, <3>1 DEF EpisodeMemory, TypeOK, ProgressionTypeOK, Episode, Time
      <4>4. episodes'[a].last <= clock'
        BY <2>4, <2>6, <3>1, <4>3
      <4>. QED
        BY <3>1, <4>1, <4>2, <4>4
    <3>2. CASE episodes'[a] # episodes[a]
      <4>1. Decide(al) /\ o.fired /\ fate # "suppressed"
        BY <2>1, <3>2 DEF progressionVars
      <4>2. a = o.ip
        BY <1>0, <2>2, <2>11, <3>2, <4>1, DecideKeeps
      <4>3. episodes'[a].last = o.ts /\ episodes'[a].windows = Advanced(al).windows
        BY <1>0, <2>2, <2>10, <4>1, <4>2, DecideKeeps
      <4>. QED
        BY <2>4, <2>10, <4>1, <4>2, <4>3
    <3>. QED
      BY <3>1, <3>2
  <2>12. EpisodeMemory'
    <3>1. \A a \in Addr : episodes'[a] # None =>
            /\ episodes'[a].last <= clock'
            /\ \E W \in SUBSET Firings(a)' : Chain(W, episodes'[a].last, episodes'[a].windows)
      BY <2>11
    <3>. QED
      BY <3>1 DEF EpisodeMemory, Firings, Answered
  <2>13. ASSUME NEW i \in Reached' PROVE SustainedRow(i)'
    <3>1. CASE i = n
      <4>1. Queue(al) /\ Decide(al) /\ o.fired /\ fate # "suppressed" /\ al.keys = {}
        BY <2>1, <2>2, <2>3, <2>5, <2>13, <3>1
      <4>2. Advanced(al).windows >= HighWindows /\ Advanced(al).windows \in Int
        BY <1>0, <2>2, <4>1, QueuedIsFresh, AdvancedType DEF TypeOK, Episode
      <4>3. PICK W \in SUBSET Firings(o.ip)' : Chain(W, o.ts, Advanced(al).windows)
        BY <2>10, <4>1
      <4>4. Firings(o.ip)' = FiringWindows(i)'
        <5>1. DOMAIN log' = 1 .. i
          BY <2>0, <2>3, <3>1
        <5>. QED
          BY <2>3, <3>1, <5>1 DEF Firings, Answered, FiringWindows
      <4>5. Cardinality(W) >= HighWindows
        BY <1>0, <4>2, <4>3, FS_CardinalityType DEF Chain
      <4>. QED
        BY <2>3, <3>1, <4>3, <4>4, <4>5 DEF SustainedRow, Chain
    <3>2. CASE i # n
      <4>1. i \in Reached /\ i \in DOMAIN log /\ i \in Nat /\ log'[i] = log[i]
        BY <2>3, <2>5, <2>13, <3>2
      <4>2. SustainedRow(i)
        BY <1>0, <4>1 DEF SustainedOnly, SustainedRow
      <4>3. FiringWindows(i)' = FiringWindows(i)
        <5>1. \A j \in 1 .. i : log'[j] = log[j]
          BY <2>0, <2>3, <4>1
        <5>. QED
          BY <4>1, <5>1 DEF FiringWindows
      <4>. QED
        BY <4>1, <4>2, <4>3 DEF SustainedRow
    <3>. QED
      BY <3>1, <3>2
  <2>14. SustainedOnly'
    BY <2>13 DEF SustainedOnly, SustainedRow
  <2>. QED
    BY <1>0, <2>7, <2>12, <2>14 DEF SustainInv
<1>. QED
  BY <1>1, <1>2 DEF Next, Handle

\* When windows close in order, only a sustained scanner comes through progressive
\* alerting (fusion/progressive.py): the log shows, behind every scan that did, at least
\* HighWindows distinct firing windows of its address, none further than EPISODE_GAP
\* from the next.
THEOREM OnlySustained == ASSUME Lateness = 0 PROVE Spec => []SustainedOnly
<1>1. CASE Progressive
  <2>1. Init => SustainInv
    BY InitType DEF Init, ProgressionInit, SustainInv, Past, EpisodeMemory, SustainedOnly,
                    Reached, Issued
  <2>. QED
    BY <1>1, <2>1, StepSustain, PTL DEF Spec, SustainInv
<1>2. CASE ~Progressive
  <2>1. SustainedOnly
    BY <1>2 DEF SustainedOnly
  <2>. QED
    BY <2>1, PTL
<1>. QED
  BY <1>1, <1>2
=============================================================================
