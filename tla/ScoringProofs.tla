--------------------------- MODULE ScoringProofs ---------------------------
(***************************************************************************)
(* Scoring, for every value of its constants.  Pruning and the order       *)
(* windows come in never make a window fire that should not, nor keep one  *)
(* from firing, unless it came too late for its streak; and web_recon is   *)
(* told in every sweep what bot_detection made of it.                      *)
(*                                                                         *)
(* GateInv says what the table of streaks remembers of the whole history   *)
(* of an entity, AnnotationsInv how the table of annotations stands while  *)
(* a sweep is scored: the entities it is being told of are its warmest.    *)
(***************************************************************************)
EXTENDS Scoring, FiniteSetTheorems, SequenceTheorems, WellFoundedInduction, TLAPS

-----------------------------------------------------------------------------
(* The invariant.                                                          *)

\* The windows of the batch are of the past, one that is late enough to miss its
\* streak is known to be, and there is a next one while there is a use case.
BatchInv ==
    /\ clock \in Nat /\ Len(turns) \in Nat /\ batch \in Seq(Window)
    /\ \A j \in DOMAIN batch :
          /\ batch[j].end <= clock
          /\ batch[j].end + StaleAfter <= clock => batch[j].entity \in tardy
    /\ turn <= Len(turns) => at \in DOMAIN batch

\* `s` is a streak that ends with the history `ends`: its windows are the last ones,
\* each next to the one before, and it misses none, unless the entity was late.
Counts(s, ends, e) ==
    LET k == Len(ends) IN
    /\ s \in [n: Nat, last: Time]
    /\ s.n \in 1 .. k
    /\ s.last = ends[k]
    /\ \A i \in k - s.n + 2 .. k : ends[i] - ends[i - 1] <= 1
    /\ s.n = k \/ ends[k - s.n + 1] - ends[k - s.n] > 1 \/ e \in tardy

\* A history that is not counted any more is broken: no window of the present can
\* follow it.
Forgotten(ends) == ends = <<>> \/ ends[Len(ends)] + StaleAfter < clock

StreakInv(e) ==
    /\ past[e] \in Seq(Time)
    /\ streaks[e] = None => Forgotten(past[e])
    /\ streaks[e] # None => Counts(streaks[e], past[e], e)

GateInv ==
    /\ BatchInv
    /\ DOMAIN past = Entity /\ DOMAIN streaks = Entity
    /\ \A e \in Entity : StreakInv(e)

-----------------------------------------------------------------------------
(* Lemmas.                                                                 *)

LEMMA Constants == StaleAfter \in Nat \ {0} /\ Sustained \in Nat \ {0} /\ Time \subseteq Nat
BY ScoringAssumption

LEMMA UseCases == IsFiniteSet(UseCase) /\ Cardinality(UseCase) = 2
<1>1. UseCase = {"bot_detection"} \cup {"web_recon"} /\ "web_recon" \notin {"bot_detection"}
  BY DEF UseCase
<1>2. IsFiniteSet({"bot_detection"}) /\ Cardinality({"bot_detection"}) = 1
  BY FS_Singleton
<1> QED
  BY <1>1, <1>2, FS_AddElement

LEMMA Numbers == Number("bot_detection") = 1 /\ Number("web_recon") = 2
<1>1. DOMAIN Slugs = {1, 2} /\ Slugs[1] = "bot_detection" /\ Slugs[2] = "web_recon"
  BY DEF Slugs
<1> QED
  BY <1>1 DEF Number

\* The turns are a sequence, as long as there are use cases.
LEMMA OrderLength ==
    ASSUME NEW given \in SUBSET UseCase
    PROVE  /\ Cardinality(given) \in Nat
           /\ Len(DependencyOrder(given)) = Cardinality(given)
<1>1. Cardinality(given) \in Nat
  BY UseCases, FS_Subset, FS_CardinalityType
<1> DEFINE n == Cardinality(given)
           at_(i) == CHOOSE u \in given : Cardinality({v \in given : Before(given, v, u)}) = i - 1
           All == {at_(i) : i \in 1 .. n}
<1>2. DependencyOrder(given) = [i \in 1 .. n |-> at_(i)]
  BY DEF DependencyOrder
<1> HIDE DEF at_
<1>3. [i \in 1 .. n |-> at_(i)] \in Seq(All)
  BY <1>1
<1> QED
  BY <1>1, <1>2, <1>3

\* What is left of both use cases, round by round.
LEMMA RemainingIs ==
    /\ Remaining(UseCase)[1] = {"web_recon"}
    /\ Remaining(UseCase)[2] = {}
<1> DEFINE n == Cardinality(UseCase)
           Left(f) == f = [i \in 0 .. n |->
                               IF i = 0 THEN UseCase
                               ELSE {u \in f[i - 1] : DependsOn[u] \cap f[i - 1] # {}}]
           g == [i \in 0 .. n |-> IF i = 0 THEN UseCase ELSE IF i = 1 THEN {"web_recon"} ELSE {}]
<1>1. n = 2
  BY UseCases
<1>2. Left(g)
  <2> DEFINE step(i) == IF i = 0 THEN UseCase
                        ELSE {u \in g[i - 1] : DependsOn[u] \cap g[i - 1] # {}}
  <2>1. ASSUME NEW i \in 0 .. n
        PROVE  g[i] = step(i)
    <3>1. CASE i = 0
      BY <3>1
    <3>2. CASE i = 1
      <4>1. g[i - 1] = UseCase /\ g[i] = {"web_recon"}
        BY <1>1, <3>2
      <4>2. {u \in UseCase : DependsOn[u] \cap UseCase # {}} = {"web_recon"}
        BY DEF UseCase, DependsOn
      <4> QED
        BY <3>2, <4>1, <4>2
    <3>3. CASE i = 2
      <4>1. g[i - 1] = {"web_recon"} /\ g[i] = {}
        BY <1>1, <3>3
      <4>2. {u \in {"web_recon"} : DependsOn[u] \cap {"web_recon"} # {}} = {}
        BY DEF DependsOn
      <4> QED
        BY <3>3, <4>1, <4>2
    <3> QED
      BY <1>1, <3>1, <3>2, <3>3
  <2>2. g = [i \in 0 .. n |-> g[i]]
    OBVIOUS
  <2>3. g = [i \in 0 .. n |-> step(i)]
    <3> HIDE DEF g, step
    <3> QED
      BY <2>1, <2>2
  <2> QED
    BY <2>3
<1>3. Remaining(UseCase) = CHOOSE f : Left(f)
  BY DEF Remaining
<1>4. Left(Remaining(UseCase))
  <2> HIDE DEF Left, g, n
  <2> QED
    BY <1>2, <1>3
<1> DEFINE r == Remaining(UseCase)
<1>5. r[0] = UseCase
  BY <1>1, <1>4
<1>6. r[1] = {u \in r[0] : DependsOn[u] \cap r[0] # {}}
  BY <1>1, <1>4
<1>7. r[2] = {u \in r[1] : DependsOn[u] \cap r[1] # {}}
  BY <1>1, <1>4
<1> HIDE DEF r
<1>8. r[1] = {"web_recon"}
  BY <1>5, <1>6 DEF UseCase, DependsOn
<1>9. r[2] = {}
  BY <1>7, <1>8 DEF DependsOn
<1> QED
  BY <1>8, <1>9 DEF r

\* bot_detection is told about before web_recon asks.
LEMMA OrderIs ==
    ASSUME NEW given \in SUBSET UseCase, Len(DependencyOrder(given)) = 2
    PROVE  DependencyOrder(given) = <<"bot_detection", "web_recon">>
<1>2. IsFiniteSet(given) /\ Cardinality(given) \in Nat
  BY UseCases, FS_Subset, FS_CardinalityType
<1>3. Len(DependencyOrder(given)) = Cardinality(given)
  BY OrderLength
<1>4. given = UseCase
  BY <1>2, <1>3, UseCases, FS_Subset
<1>5. Round(UseCase, "bot_detection") = 1 /\ Round(UseCase, "web_recon") = 2
  <2>1. {n \in 1 .. 2 : "bot_detection" \notin Remaining(UseCase)[n]} = {1, 2}
    BY RemainingIs
  <2>2. {n \in 1 .. 2 : "web_recon" \notin Remaining(UseCase)[n]} = {2}
    BY RemainingIs
  <2>3. Min({1, 2}) = 1 /\ Min({2}) = 2
    BY DEF Min
  <2> QED
    BY <2>1, <2>2, <2>3, UseCases DEF Round
<1>6. /\ {v \in UseCase : Before(UseCase, v, "bot_detection")} = {}
      /\ {v \in UseCase : Before(UseCase, v, "web_recon")} = {"bot_detection"}
  <2>1. /\ ~Before(UseCase, "bot_detection", "bot_detection")
        /\ ~Before(UseCase, "web_recon", "bot_detection")
        /\ Before(UseCase, "bot_detection", "web_recon")
        /\ ~Before(UseCase, "web_recon", "web_recon")
    BY <1>5, Numbers DEF Before
  <2> QED
    BY <2>1 DEF UseCase
<1>7. Cardinality({}) = 0 /\ Cardinality({"bot_detection"}) = 1
  BY FS_EmptySet, FS_Singleton
<1> DEFINE at_(i) == CHOOSE u \in UseCase :
                         Cardinality({v \in UseCase : Before(UseCase, v, u)}) = i - 1
<1>8. at_(1) = "bot_detection" /\ at_(2) = "web_recon"
  <2>1. /\ Cardinality({v \in UseCase : Before(UseCase, v, "bot_detection")}) = 0
        /\ Cardinality({v \in UseCase : Before(UseCase, v, "web_recon")}) = 1
    BY <1>6, <1>7
  <2>2. \A u \in UseCase : u = "bot_detection" \/ u = "web_recon"
    BY DEF UseCase
  <2>3. "bot_detection" \in UseCase /\ "web_recon" \in UseCase
    BY DEF UseCase
  <2> QED
    BY <2>1, <2>2, <2>3
<1>9. DependencyOrder(given) = [i \in 1 .. 2 |-> at_(i)]
  BY <1>4, UseCases DEF DependencyOrder
<1> HIDE DEF at_
<1> QED
  BY <1>8, <1>9

LEMMA LaterIs ==
    ASSUME NEW c \in Nat, NEW x \in Nat
    PROVE  /\ Max({c, x}) \in {c, x}
           /\ Max({c, x}) >= c
           /\ Max({c, x}) >= x
<1>1. \E m \in {c, x} : \A y \in {c, x} : m >= y
  OBVIOUS
<1>2. Max({c, x}) \in {c, x} /\ \A y \in {c, x} : Max({c, x}) >= y
  BY <1>1 DEF Max
<1> QED
  BY <1>2

LEMMA EndIs ==
    ASSUME NEW ends \in Seq(Time), NEW i \in 1 .. Len(ends)
    PROVE  ends[i] \in Time /\ ends[i] \in Nat
<1>1. ends[i] \in Time
  OBVIOUS
<1> QED
  BY <1>1, Constants

\* A history grows by one window.
LEMMA Longer ==
    ASSUME NEW ends \in Seq(Time), NEW end \in Time
    PROVE  /\ Append(ends, end) \in Seq(Time)
           /\ Len(ends) \in Nat
           /\ Len(Append(ends, end)) = Len(ends) + 1
           /\ Append(ends, end)[Len(ends) + 1] = end
           /\ \A i \in 1 .. Len(ends) : Append(ends, end)[i] = ends[i] /\ ends[i] \in Nat
           /\ end \in Nat
<1>1. end \in Nat
  BY Constants
<1>2. \A i \in 1 .. Len(ends) : ends[i] \in Nat
  BY EndIs
<1>3. /\ Append(ends, end) \in Seq(Time)
      /\ Len(ends) \in Nat
      /\ Len(Append(ends, end)) = Len(ends) + 1
      /\ Append(ends, end)[Len(ends) + 1] = end
      /\ \A i \in 1 .. Len(ends) : Append(ends, end)[i] = ends[i]
  OBVIOUS
<1> QED
  BY <1>1, <1>2, <1>3

\* A streak that a window follows is one longer.
LEMMA Continues ==
    ASSUME NEW ends \in Seq(Time), NEW end \in Time, NEW s, NEW e,
           Counts(s, ends, e), end - s.last <= 1
    PROVE  Counts([n |-> s.n + 1, last |-> end], Append(ends, end), e)
<1> DEFINE k == Len(ends)
           t == [n |-> s.n + 1, last |-> end]
           more == Append(ends, end)
<1>1. /\ k \in Nat /\ s.n \in 1 .. k /\ Len(more) = k + 1 /\ more[k + 1] = end
      /\ \A i \in 1 .. k : more[i] = ends[i] /\ ends[i] \in Nat
      /\ end \in Nat
  BY Longer DEF Counts
<1>2. t \in [n: Nat, last: Time] /\ t.n \in 1 .. k + 1 /\ t.last = more[k + 1]
  BY <1>1
<1>3. ASSUME NEW i \in k - s.n + 1 + 1 .. k + 1
      PROVE  more[i] - more[i - 1] <= 1
  <2>1. CASE i = k + 1
    BY <1>1, <2>1 DEF Counts
  <2>2. CASE i <= k
    <3>1. i \in k - s.n + 2 .. k /\ i \in 1 .. k /\ i - 1 \in 1 .. k
      BY <1>1, <2>2
    <3> QED
      BY <1>1, <3>1 DEF Counts
  <2> QED
    BY <1>1, <2>1, <2>2
<1>4. t.n = k + 1 \/ more[k - s.n + 1] - more[k - s.n] > 1 \/ e \in tardy
  <2>1. CASE s.n = k
    BY <2>1
  <2>2. CASE s.n # k /\ ends[k - s.n + 1] - ends[k - s.n] > 1
    <3>1. k - s.n + 1 \in 1 .. k /\ k - s.n \in 1 .. k
      BY <1>1, <2>2
    <3> QED
      BY <1>1, <2>2, <3>1
  <2> QED
    BY <2>1, <2>2 DEF Counts
<1>5. /\ Len(more) = k + 1
      /\ Len(more) - t.n + 2 = k - s.n + 1 + 1
      /\ Len(more) - t.n + 1 = k - s.n + 1
      /\ Len(more) - t.n = k - s.n
  BY <1>1
<1> HIDE DEF t, more, k
<1>6. /\ t.n \in 1 .. Len(more) /\ t.last = more[Len(more)]
      /\ \A i \in Len(more) - t.n + 2 .. Len(more) : more[i] - more[i - 1] <= 1
      /\ t.n = Len(more) \/ more[Len(more) - t.n + 1] - more[Len(more) - t.n] > 1 \/ e \in tardy
  BY <1>2, <1>3, <1>4, <1>5
<1>7. Counts(t, more, e)
  BY <1>2, <1>6, Zenon DEF Counts
<1> QED
  BY <1>7 DEF t, more

\* A window that follows nothing is a streak of its own.
LEMMA Starts ==
    ASSUME NEW ends \in Seq(Time), NEW end \in Time, NEW e,
           ends = <<>> \/ end - ends[Len(ends)] > 1 \/ e \in tardy
    PROVE  Counts([n |-> 1, last |-> end], Append(ends, end), e)
<1> DEFINE k == Len(ends)
           t == [n |-> 1, last |-> end]
           more == Append(ends, end)
<1>1. /\ k \in Nat /\ Len(more) = k + 1 /\ more[k + 1] = end
      /\ \A i \in 1 .. k : more[i] = ends[i] /\ ends[i] \in Nat
      /\ end \in Nat
  BY Longer
<1>2. t \in [n: Nat, last: Time] /\ t.n \in 1 .. k + 1 /\ t.last = more[k + 1]
  BY <1>1
<1>3. t.n = k + 1 \/ more[k + 1] - more[k] > 1 \/ e \in tardy
  <2>1. CASE ends = <<>>
    BY <2>1
  <2>2. CASE ends # <<>> /\ end - ends[k] > 1
    <3>1. k \in 1 .. k
      BY <1>1, <2>2
    <3> QED
      BY <1>1, <2>2, <3>1
  <2> QED
    BY <2>1, <2>2
<1>4. /\ Len(more) = k + 1
      /\ Len(more) - t.n + 2 = k + 2
      /\ Len(more) - t.n + 1 = k + 1
      /\ Len(more) - t.n = k
  BY <1>1
<1>5. k + 2 .. k + 1 = {}
  BY <1>1
<1> HIDE DEF t, more, k
<1>6. /\ t.n \in 1 .. Len(more) /\ t.last = more[Len(more)]
      /\ \A i \in Len(more) - t.n + 2 .. Len(more) : more[i] - more[i - 1] <= 1
      /\ t.n = Len(more) \/ more[Len(more) - t.n + 1] - more[Len(more) - t.n] > 1 \/ e \in tardy
  BY <1>2, <1>3, <1>4, <1>5
<1>7. Counts(t, more, e)
  BY <1>2, <1>6, Zenon DEF Counts
<1> QED
  BY <1>7 DEF t, more

\* A streak is long enough exactly when the last windows of the history follow
\* each other.
LEMMA LongEnough ==
    ASSUME NEW ends \in Seq(Time), NEW s, NEW e, Counts(s, ends, e)
    PROVE  /\ s.n >= Sustained => InARow(ends)
           /\ InARow(ends) => s.n >= Sustained \/ e \in tardy
<1> DEFINE k == Len(ends)
<1>1. k \in Nat /\ s.n \in 1 .. k /\ Sustained \in Nat \ {0}
  BY Constants DEF Counts
<1>2. ASSUME s.n >= Sustained
      PROVE  InARow(ends)
  <2>1. k - Sustained + 2 .. k \subseteq k - s.n + 2 .. k
    BY <1>1, <1>2
  <2> QED
    BY <1>1, <1>2, <2>1 DEF Counts, InARow
<1>3. ASSUME InARow(ends), s.n < Sustained, e \notin tardy
      PROVE  FALSE
  <2>1. k >= Sustained
    BY <1>3 DEF InARow
  <2>2. ends[k - s.n + 1] - ends[k - s.n] > 1
    BY <1>1, <1>3, <2>1 DEF Counts
  <2>3. k - s.n + 1 \in k - Sustained + 2 .. k /\ (k - s.n + 1) - 1 = k - s.n
    BY <1>1, <1>3, <2>1
  <2>4. ends[k - s.n + 1] - ends[k - s.n] <= 1
    <3>1. ends[k - s.n + 1] - ends[(k - s.n + 1) - 1] <= 1
      BY <1>3, <2>3 DEF InARow
    <3> QED
      BY <2>3, <3>1
  <2>5. ends[k - s.n + 1] \in Nat /\ ends[k - s.n] \in Nat
    <3>1. k - s.n + 1 \in 1 .. k /\ k - s.n \in 1 .. k
      BY <1>1, <1>3, <2>1
    <3> QED
      BY <3>1, EndIs
  <2> QED
    BY <2>2, <2>4, <2>5
<1> QED
  BY <1>1, <1>2, <1>3


-----------------------------------------------------------------------------
(* The steps.                                                              *)

LEMMA GateInvInit == Init => GateInv
<1> SUFFICES ASSUME Init
             PROVE  GateInv
  OBVIOUS
<1>1. Len(turns) \in Nat
  <2>1. PICK given \in SUBSET UseCase \ {{}} : turns = DependencyOrder(given)
    BY DEF Init
  <2> QED
    BY <2>1, OrderLength
<1>2. BatchInv
  BY <1>1 DEF Init, BatchInv
<1>3. ASSUME NEW e \in Entity
      PROVE  StreakInv(e)
  BY DEF Init, BotGateInit, StreakInv, Forgotten
<1> QED
  BY <1>2, <1>3 DEF GateInv, Init, BotGateInit

\* Time goes on and more entities are known to be late: the histories stay as true.
LEMMA SweepKeeps ==
    ASSUME GateInv, NEW windows \in Batches, Sweep(windows)
    PROVE  GateInv'
<1> DEFINE k == Len(windows)
<1>1. /\ windows \in Seq(Window) /\ k \in Nat /\ k > 0 /\ DOMAIN windows = 1 .. k
      /\ \A j \in 1 .. k : windows[j] \in Window
  <2>1. PICK m \in 0 .. MaxBatch : windows \in [1 .. m -> Window]
    BY DEF Batches, SeqOf
  <2>2. windows \in Seq(Window) /\ windows # <<>>
    BY <2>1 DEF Batches
  <2> QED
    BY <2>2
<1>2. ASSUME NEW j \in 1 .. k
      PROVE  windows[j].end \in Nat /\ windows[j].end <= windows[k].end
  <2>1. windows[j].end \in Nat /\ windows[k].end \in Nat
    <3>1. windows[j] \in Window /\ windows[k] \in Window
      BY <1>1
    <3>2. windows[j].end \in Time /\ windows[k].end \in Time
      BY <3>1 DEF Window
    <3> QED
      BY <3>2, Constants
  <2>2. j = k \/ j < k
    <3>1. k \in Nat /\ j \in 1 .. k
      BY <1>1
    <3> HIDE DEF k
    <3> QED
      BY <3>1
  <2>3. j < k => windows[j].end <= windows[k].end
    BY <1>1 DEF Batches
  <2> QED
    BY <2>1, <2>2, <2>3
<1>3. clock' \in Nat /\ clock' >= clock /\ clock' >= windows[k].end
  <2>1. clock \in Nat /\ windows[k].end \in Nat
    BY <1>1, <1>2 DEF GateInv, BatchInv
  <2>2. clock' = Max({clock, windows[k].end})
    BY DEF Sweep
  <2> HIDE DEF k
  <2> QED
    BY <2>1, <2>2, LaterIs
<1>4. BatchInv'
  <2>1. ASSUME NEW j \in DOMAIN batch'
        PROVE  /\ batch'[j].end <= clock'
               /\ batch'[j].end + StaleAfter <= clock' => batch'[j].entity \in tardy'
    <3>1. batch' = windows /\ j \in 1 .. k
      BY <1>1 DEF Sweep
    <3>2. windows[j].end <= clock'
      BY <1>1, <1>2, <1>3, <3>1
    <3>3. windows[j].end + StaleAfter <= clock' => windows[j].entity \in tardy'
      BY <1>1, <3>1 DEF Sweep
    <3> QED
      BY <1>1, <3>1, <3>2, <3>3
  <2>2. at' \in DOMAIN batch' /\ batch' \in Seq(Window)
    BY <1>1 DEF Sweep
  <2>3. Len(turns)' \in Nat
    BY DEF Sweep, configVars, GateInv, BatchInv
  <2> QED
    BY <1>3, <2>1, <2>2, <2>3 DEF BatchInv
<1>5. ASSUME NEW e \in Entity
      PROVE  StreakInv(e)'
  <2>1. StreakInv(e) /\ past' = past /\ streaks' = streaks
    BY DEF GateInv, Sweep
  <2>2. Forgotten(past[e]) => Forgotten(past[e])'
    <3>1. past[e] # <<>> => past[e][Len(past[e])] \in Nat
      <4>1. past[e] # <<>> => Len(past[e]) \in 1 .. Len(past[e])
        BY <2>1 DEF StreakInv
      <4> QED
        BY <2>1, <4>1, EndIs DEF StreakInv
    <3> QED
      BY <1>3, <2>1, <3>1, Constants DEF Forgotten, GateInv, BatchInv
  <2>3. Counts(streaks[e], past[e], e)
            => Counts(streaks[e], past[e], e)'
    <3>1. e \in tardy => e \in tardy'
      BY DEF Sweep
    <3> QED
      BY <2>1, <3>1 DEF Counts
  <2> QED
    BY <2>1, <2>2, <2>3 DEF StreakInv
<1> QED
  BY <1>4, <1>5 DEF GateInv, Sweep

LEMMA AdvanceKeeps ==
    ASSUME BatchInv, turn <= Len(turns), Advance, UNCHANGED <<configVars, tardy, clock>>
    PROVE  BatchInv'
<1>1. at \in DOMAIN batch
  BY DEF BatchInv
<1>2. at' \in DOMAIN batch'
  BY <1>1 DEF Advance
<1> QED
  BY <1>2 DEF BatchInv, Advance, configVars


\* The gate lets a window fire as the streak it leaves tells.
LEMMA GateStep ==
    ASSUME GateInv, NEW w \in Window, w.end <= clock,
           w.end + StaleAfter <= clock => w.entity \in tardy,
           Gate(w.entity, w.end, w.over),
           past' = [past EXCEPT ![w.entity] = IF w.over THEN Append(@, w.end) ELSE <<>>],
           UNCHANGED <<tardy, clock>>
    PROVE  /\ DOMAIN past' = Entity /\ DOMAIN streaks' = Entity
           /\ \A e \in Entity : StreakInv(e)'
           /\ Fires(w.entity, w.end, w.over) => InARow(past'[w.entity])
           /\ w.over /\ InARow(past'[w.entity])
                => Fires(w.entity, w.end, w.over) \/ w.entity \in tardy
<1> DEFINE e == w.entity
<1>1. /\ e \in Entity /\ w.end \in Time /\ w.end \in Nat /\ clock \in Nat
      /\ StaleAfter \in Nat \ {0} /\ Sustained \in Nat \ {0}
  BY Constants DEF Window, GateInv, BatchInv
<1>2. DOMAIN past = Entity /\ DOMAIN streaks = Entity /\ \A f \in Entity : StreakInv(f)
  BY DEF GateInv
<1>3. CASE ~w.over
  <2>1. streaks' = [streaks EXCEPT ![e] = None] /\ past' = [past EXCEPT ![e] = <<>>]
    BY <1>3 DEF Gate
  <2>2. ASSUME NEW f \in Entity
        PROVE  StreakInv(f)'
    <3>1. CASE f = e
      <4>1. streaks'[f] = None /\ past'[f] = <<>>
        BY <1>2, <2>1, <3>1
      <4>2. Forgotten(past[f])'
        BY <4>1 DEF Forgotten
      <4>3. past'[f] \in Seq(Time)
        <5>1. <<>> \in Seq(Time)
          OBVIOUS
        <5> QED
          BY <4>1, <5>1, Zenon
      <4> QED
        BY <4>1, <4>2, <4>3, Zenon DEF StreakInv
    <3>2. CASE f # e
      <4>1. streaks'[f] = streaks[f] /\ past'[f] = past[f]
        BY <1>2, <2>1, <3>2
      <4> QED
        BY <1>2, <4>1 DEF StreakInv, Forgotten, Counts
    <3> QED
      BY <3>1, <3>2
  <2> QED
    BY <1>2, <1>3, <2>1, <2>2 DEF Fires
<1>4. CASE w.over
  <2> DEFINE s == [n |-> Row(e, w.end), last |-> w.end]
             more == Append(past[e], w.end)
  <2>1. streaks' = [Pruned(e, w.end) EXCEPT ![e] = s] /\ past' = [past EXCEPT ![e] = more]
    BY <1>4 DEF Gate
  <2>2. past[e] \in Seq(Time) /\ more \in Seq(Time)
    BY <1>1, <1>2 DEF StreakInv
  <2>3. Counts(s, more, e)
    <3>1. CASE streaks[e] = None
      <4>1. past[e] = <<>> \/ past[e][Len(past[e])] + StaleAfter < clock
        BY <1>1, <1>2, <3>1 DEF StreakInv, Forgotten
      <4>2. past[e] # <<>> => past[e][Len(past[e])] \in Nat
        <5>1. past[e] # <<>> => Len(past[e]) \in 1 .. Len(past[e])
          BY <2>2
        <5> QED
          BY <2>2, <5>1, EndIs
      <4>3. past[e] = <<>> \/ w.end - past[e][Len(past[e])] > 1 \/ e \in tardy
        BY <1>1, <4>1, <4>2
      <4>4. s = [n |-> 1, last |-> w.end]
        BY <3>1 DEF Row
      <4> QED
        BY <1>1, <2>2, <4>3, <4>4, Starts
    <3>2. CASE streaks[e] # None /\ ~Adjacent(streaks[e].last, w.end)
      <4>1. Counts(streaks[e], past[e], e)
        BY <1>1, <1>2, <3>2 DEF StreakInv
      <4>2. streaks[e].last = past[e][Len(past[e])] /\ past[e][Len(past[e])] \in Nat
        <5>1. Len(past[e]) \in 1 .. Len(past[e])
          BY <2>2, <4>1 DEF Counts
        <5> QED
          BY <2>2, <4>1, <5>1, EndIs DEF Counts
      <4>3. w.end - past[e][Len(past[e])] > 1
        BY <1>1, <3>2, <4>2 DEF Adjacent
      <4>4. s = [n |-> 1, last |-> w.end]
        BY <3>2 DEF Row
      <4> QED
        BY <1>1, <2>2, <4>3, <4>4, Starts
    <3>3. CASE streaks[e] # None /\ Adjacent(streaks[e].last, w.end)
      <4>1. Counts(streaks[e], past[e], e)
        BY <1>1, <1>2, <3>3 DEF StreakInv
      <4>2. s = [n |-> streaks[e].n + 1, last |-> w.end] /\ w.end - streaks[e].last <= 1
        BY <3>3 DEF Row, Adjacent
      <4> QED
        BY <1>1, <2>2, <4>1, <4>2, Continues
    <3> QED
      BY <3>1, <3>2, <3>3
  <2>4. DOMAIN Pruned(e, w.end) = Entity
    BY <1>2 DEF Pruned
  <2>5. ASSUME NEW f \in Entity
        PROVE  StreakInv(f)'
    <3>1. CASE f = e
      <4>1. streaks'[f] = s /\ past'[f] = more
        BY <1>2, <2>1, <2>4, <3>1
      <4>2. s # None
        <5> HIDE DEF s, more
        <5> QED
          BY <2>3, NoneIsNoStreak DEF Counts
      <4>3. Counts(streaks[f], past[f], f)'
        <5> HIDE DEF s, more
        <5> QED
          BY <2>3, <3>1, <4>1 DEF Counts
      <4> QED
        <5> HIDE DEF s, more
        <5> QED
          BY <2>2, <4>1, <4>2, <4>3 DEF StreakInv
    <3>2. CASE f # e
      <4>1. streaks'[f] = Pruned(e, w.end)[f] /\ past'[f] = past[f]
        BY <1>2, <2>1, <2>4, <3>2
      <4>2. CASE streaks'[f] = streaks[f]
        BY <1>2, <4>1, <4>2 DEF StreakInv, Forgotten, Counts
      <4>3. CASE streaks'[f] = None /\ streaks[f] # None /\ streaks[f].last < w.end - StaleAfter
        <5>1. Counts(streaks[f], past[f], f)
          BY <1>2, <4>3 DEF StreakInv
        <5>2. streaks[f].last = past[f][Len(past[f])] /\ past[f][Len(past[f])] \in Nat
          <6>1. Len(past[f]) \in 1 .. Len(past[f]) /\ past[f] \in Seq(Time)
            BY <1>2, <5>1 DEF Counts, StreakInv
          <6> QED
            BY <5>1, <6>1, EndIs DEF Counts
        <5>3. past[f][Len(past[f])] + StaleAfter < clock
          BY <1>1, <4>3, <5>2
        <5> QED
          BY <1>2, <4>1, <4>3, <5>3 DEF StreakInv, Forgotten
      <4>4. \/ streaks'[f] = streaks[f]
            \/ streaks'[f] = None /\ streaks[f] # None /\ streaks[f].last < w.end - StaleAfter
        BY <4>1 DEF Pruned
      <4> QED
        BY <4>2, <4>3, <4>4
    <3> QED
      BY <3>1, <3>2
  <2>6. past'[e] = more
    BY <1>1, <1>2, <2>1
  <2>7. s.n = Row(e, w.end)
    OBVIOUS
  <2>8. Fires(e, w.end, w.over) <=> s.n >= Sustained
    BY <1>4, <2>7 DEF Fires
  <2>9. /\ s.n >= Sustained => InARow(more)
        /\ InARow(more) => s.n >= Sustained \/ e \in tardy
    <3> HIDE DEF s, more
    <3> QED
      BY <2>2, <2>3, LongEnough
  <2>10. DOMAIN past' = Entity /\ DOMAIN streaks' = Entity
    BY <1>2, <2>1, <2>4
  <2> HIDE DEF s, more
  <2> QED
    BY <2>5, <2>6, <2>8, <2>9, <2>10
<1> QED
  BY <1>3, <1>4


LEMMA ScoreBotKeeps ==
    ASSUME GateInv, ScoreBot
    PROVE  GateInv' /\ GateExact'
<1> DEFINE w == batch[at]
<1>1. turn <= Len(turns) /\ at \in DOMAIN batch
  BY DEF ScoreBot, Scores, GateInv, BatchInv
<1>2. w \in Window /\ w.end <= clock /\ (w.end + StaleAfter <= clock => w.entity \in tardy)
  BY <1>1 DEF GateInv, BatchInv
<1>3. /\ Gate(w.entity, w.end, w.over)
      /\ past' = [past EXCEPT ![w.entity] = IF w.over THEN Append(@, w.end) ELSE <<>>]
      /\ UNCHANGED <<tardy, clock>>
  BY DEF ScoreBot, feedVars
<1>4. outcome' = [use |-> "bot_detection", window |-> w,
                  fired |-> Fires(w.entity, w.end, w.over),
                  read |-> Reading(w.entity), advice |-> "none"]
  BY DEF ScoreBot
<1>5. BatchInv'
  BY <1>1, AdvanceKeeps DEF ScoreBot, feedVars, GateInv
<1> HIDE DEF w
<1>6. /\ DOMAIN past' = Entity /\ DOMAIN streaks' = Entity
      /\ \A e \in Entity : StreakInv(e)'
      /\ Fires(w.entity, w.end, w.over) => InARow(past'[w.entity])
      /\ w.over /\ InARow(past'[w.entity])
           => Fires(w.entity, w.end, w.over) \/ w.entity \in tardy
  BY <1>2, <1>3, GateStep
<1>7. GateInv'
  BY <1>5, <1>6 DEF GateInv
<1>8. GateExact'
  <2>1. /\ outcome'.window = w
        /\ outcome'.fired = Fires(w.entity, w.end, w.over)
        /\ tardy' = tardy
    BY <1>3, <1>4
  <2> QED
    BY <1>6, <2>1 DEF GateExact, InARow
<1> QED
  BY <1>7, <1>8

LEMMA ScoreReconKeeps ==
    ASSUME GateInv, ScoreRecon
    PROVE  GateInv' /\ GateExact'
<1>1. BatchInv'
  BY AdvanceKeeps DEF ScoreRecon, Scores, feedVars, GateInv
<1>2. ASSUME NEW e \in Entity
      PROVE  StreakInv(e)'
  BY DEF ScoreRecon, feedVars, GateInv, StreakInv, Forgotten, Counts
<1>3. outcome'.use = "web_recon"
  BY DEF ScoreRecon
<1> QED
  BY <1>1, <1>2, <1>3 DEF GateInv, GateExact, ScoreRecon

LEMMA RestartKeeps ==
    ASSUME GateInv, Restart
    PROVE  GateInv' /\ GateExact'
<1>1. BatchInv'
  BY DEF Restart, GateInv, BatchInv
<1>2. ASSUME NEW e \in Entity
      PROVE  StreakInv(e)'
  <2>1. past'[e] = <<>> /\ streaks'[e] = None
    BY DEF Restart
  <2>2. Forgotten(past[e])' /\ past'[e] \in Seq(Time)
    BY <2>1 DEF Forgotten
  <2> QED
    BY <2>1, <2>2, Zenon DEF StreakInv
<1> QED
  BY <1>1, <1>2 DEF GateInv, GateExact, Restart

LEMMA StutterKeeps ==
    ASSUME GateInv, GateExact, UNCHANGED vars
    PROVE  GateInv' /\ GateExact'
<1>1. BatchInv'
  BY DEF GateInv, BatchInv, vars, configVars, feedVars
<1>2. ASSUME NEW e \in Entity
      PROVE  StreakInv(e)'
  BY DEF vars, feedVars, GateInv, StreakInv, Forgotten, Counts
<1>3. GateExact'
  BY DEF vars, GateExact, InARow
<1> QED
  BY <1>1, <1>2, <1>3 DEF GateInv, vars

-----------------------------------------------------------------------------
(* The theorem.                                                            *)

\* A bot_detection window fires exactly when the last ones of its entity were over
\* the gate and followed each other, for any number of entities, any size of the
\* table and any lateness: what _prune drops is broken anyway, and only a window that
\* comes StaleAfter late can miss its streak.
THEOREM GateIsExact == Spec => []GateExact
<1>1. Init => GateInv /\ GateExact
  BY GateInvInit DEF Init, GateExact
<1>2. GateInv /\ GateExact /\ [Next]_vars => GateInv' /\ GateExact'
  <2> SUFFICES ASSUME GateInv, GateExact, [Next]_vars
               PROVE  GateInv' /\ GateExact'
    OBVIOUS
  <2>1. ASSUME NEW windows \in Batches, Sweep(windows)
        PROVE  GateInv' /\ GateExact'
    BY <2>1, SweepKeeps DEF GateExact, Sweep
  <2> QED
    BY <2>1, ScoreBotKeeps, ScoreReconKeeps, RestartKeeps, StutterKeeps DEF Next
<1> QED
  BY <1>1, <1>2, PTL DEF Spec


-----------------------------------------------------------------------------
(* What web_recon is told: the invariant.                                  *)

Entry == [entity: Entity, note: [word: Words, end: Time, sweep: Nat]]

\* The table has an entity once.
TableInv ==
    /\ table \in Seq(Entry)
    /\ \A i, j \in DOMAIN table : table[i].entity = table[j].entity => i = j

\* The windows of the batch that bot_detection has scored, and their entities.
Done == IF turn = 1 THEN 1 .. at - 1 ELSE DOMAIN batch

Exported == {batch[i].entity : i \in Done}

\* `k` is the last of these of its entity.
LastDone(k) == k \in Done /\ \A j \in Done : batch[j].entity = batch[k].entity => j <= k

NoteOf(k) == [word |-> batch[k].word, end |-> batch[k].end, sweep |-> sweeps]

\* The table speaks of the last window of each entity, the entities of this sweep are
\* its warmest as long as they are written, and one is missing only when there are
\* too many.
ToldInv ==
    Len(turns) = 2 /\ exports =>
        /\ \A i \in DOMAIN table, k \in Done :
              table[i].entity = batch[k].entity /\ LastDone(k) => table[i].note = NoteOf(k)
        /\ turn = 1 => \A i, j \in DOMAIN table :
              i < j /\ table[i].entity \in Exported => table[j].entity \in Exported
        /\ \A e \in Exported : Known(e) \/ Cardinality(Exported) > MaxEntities

\* Who runs, and in which order.
TurnsInv ==
    /\ Len(turns) = 2 => turns = <<"bot_detection", "web_recon">>
    /\ turn \in Nat \ {0} /\ sweeps \in Nat

AnnotationsInv == TableInv /\ TurnsInv /\ ToldInv

-----------------------------------------------------------------------------
(* The operators of Annotations.                                           *)

LEMMA PlaceIs ==
    ASSUME TableInv, NEW e, Known(e)
    PROVE  /\ Place(e) \in DOMAIN table /\ table[Place(e)].entity = e
           /\ \A i \in DOMAIN table : table[i].entity = e => i = Place(e)
BY DEF TableInv, Known, Place

LEMMA RemoveIs ==
    ASSUME NEW S, NEW s \in Seq(S), NEW p \in 1 .. Len(s)
    PROVE  /\ RemoveAt(s, p) \in Seq(S)
           /\ Len(RemoveAt(s, p)) = Len(s) - 1
           /\ \A i \in 1 .. Len(s) - 1 : RemoveAt(s, p)[i] = IF i < p THEN s[i] ELSE s[i + 1]
<1> DEFINE n == Len(s)
           front == SubSeq(s, 1, p - 1)
           back == SubSeq(s, p + 1, n)
<1>1. n \in Nat /\ p \in Nat /\ 1 <= p /\ p <= n /\ \A i \in 1 .. n : s[i] \in S
  OBVIOUS
<1> HIDE DEF n
<1>2. /\ front \in Seq(S) /\ Len(front) = p - 1
      /\ \A i \in 1 .. p - 1 : front[i] = s[i]
  <2>1. p - 1 \in Int /\ \A i \in 1 .. p - 1 : s[i] \in S
    BY <1>1
  <2>2. /\ front \in Seq(S) /\ Len(front) = IF 1 <= p - 1 THEN (p - 1) - 1 + 1 ELSE 0
        /\ \A i \in 1 .. (p - 1) - 1 + 1 : front[i] = s[1 + i - 1]
    BY <2>1, SubSeqProperties
  <2> HIDE DEF front
  <2>3. \A i \in 1 .. p - 1 : 1 + i - 1 = i
    BY <1>1
  <2>4. (p - 1) - 1 + 1 = p - 1
    BY <1>1
  <2> QED
    BY <1>1, <2>2, <2>3, <2>4
<1>3. /\ back \in Seq(S) /\ Len(back) = n - p
      /\ \A i \in 1 .. n - p : back[i] = s[i + p]
  <2>1. p + 1 \in Int /\ n \in Int /\ \A i \in p + 1 .. n : s[i] \in S
    BY <1>1
  <2>2. /\ back \in Seq(S) /\ Len(back) = IF p + 1 <= n THEN n - (p + 1) + 1 ELSE 0
        /\ \A i \in 1 .. n - (p + 1) + 1 : back[i] = s[(p + 1) + i - 1]
    BY <2>1, SubSeqProperties
  <2> HIDE DEF back
  <2>3. \A i \in 1 .. n - p : (p + 1) + i - 1 = i + p
    BY <1>1
  <2>4. n - (p + 1) + 1 = n - p
    BY <1>1
  <2> QED
    BY <1>1, <2>2, <2>3, <2>4
<1>4. RemoveAt(s, p) = front \o back
  BY DEF RemoveAt, n
<1> HIDE DEF front, back
<1>5. /\ front \o back \in Seq(S)
      /\ Len(front \o back) = n - 1
      /\ \A i \in 1 .. n - 1 : (front \o back)[i] = IF i <= p - 1 THEN front[i] ELSE back[i - (p - 1)]
  <2>1. /\ front \o back \in Seq(S)
        /\ Len(front \o back) = Len(front) + Len(back)
        /\ \A i \in 1 .. Len(front) + Len(back) : (front \o back)[i] =
              IF i <= Len(front) THEN front[i] ELSE back[i - Len(front)]
    BY <1>2, <1>3, ConcatProperties
  <2>2. (p - 1) + (n - p) = n - 1
    BY <1>1
  <2> QED
    BY <1>2, <1>3, <2>1, <2>2
<1>6. ASSUME NEW i \in 1 .. n - 1
      PROVE  (front \o back)[i] = IF i < p THEN s[i] ELSE s[i + 1]
  <2>1. CASE i < p
    <3>1. i <= p - 1 /\ i \in 1 .. p - 1
      BY <1>1, <2>1
    <3> QED
      BY <1>2, <1>5, <2>1, <3>1
  <2>2. CASE ~(i < p)
    <3>1. ~(i <= p - 1) /\ i - (p - 1) \in 1 .. n - p /\ i - (p - 1) + p = i + 1
      BY <1>1, <2>2
    <3> QED
      BY <1>3, <1>5, <2>2, <3>1
  <2> QED
    BY <2>1, <2>2
<1> QED
  BY <1>4, <1>5, <1>6 DEF n

\* What is left without an entity is the others, in their order.
LEMMA WithoutIs ==
    ASSUME TableInv, NEW e
    PROVE  LET rest == Without(e) IN
           /\ rest \in Seq(Entry)
           /\ \A i \in DOMAIN rest : rest[i].entity # e /\ \E k \in DOMAIN table : rest[i] = table[k]
           /\ \A k \in DOMAIN table : table[k].entity # e => \E i \in DOMAIN rest : rest[i] = table[k]
           /\ \A i, j \in DOMAIN rest : i < j =>
                 \E k, l \in DOMAIN table : k < l /\ rest[i] = table[k] /\ rest[j] = table[l]
<1> DEFINE rest == Without(e)
           p == Place(e)
           n == Len(table)
<1>1. n \in Nat /\ DOMAIN table = 1 .. n /\ table \in Seq(Entry)
  BY DEF TableInv
<1>2. CASE ~Known(e)
  BY <1>1, <1>2 DEF Without, Known
<1>3. CASE Known(e)
  <2>1. p \in 1 .. n /\ \A i \in 1 .. n : table[i].entity = e <=> i = p
    BY <1>1, <1>3, PlaceIs
  <2>2. rest = RemoveAt(table, p)
    BY <1>3 DEF Without
  <2>3. /\ rest \in Seq(Entry) /\ Len(rest) = n - 1
        /\ \A i \in 1 .. n - 1 : rest[i] = IF i < p THEN table[i] ELSE table[i + 1]
    <3> HIDE DEF p
    <3> QED
      BY <1>1, <2>1, <2>2, RemoveIs
  <2> HIDE DEF rest, p, n
  <2>4. DOMAIN rest = 1 .. n - 1
    BY <2>3
  <2>7. ASSUME NEW i \in DOMAIN rest
        PROVE  rest[i].entity # e /\ \E k \in DOMAIN table : rest[i] = table[k]
    <3>1. CASE i < p
      <4>1. rest[i] = table[i] /\ i \in 1 .. n /\ i # p
        BY <1>1, <2>1, <2>3, <2>4, <3>1
      <4> QED
        BY <1>1, <2>1, <4>1
    <3>2. CASE ~(i < p)
      <4>1. rest[i] = table[i + 1] /\ i + 1 \in 1 .. n /\ i + 1 # p
        BY <1>1, <2>1, <2>3, <2>4, <3>2
      <4> QED
        BY <1>1, <2>1, <4>1
    <3> QED
      BY <3>1, <3>2
  <2>8. ASSUME NEW k \in DOMAIN table, table[k].entity # e
        PROVE  \E i \in DOMAIN rest : rest[i] = table[k]
    <3>1. k \in 1 .. n /\ k # p
      BY <1>1, <2>1, <2>8
    <3>2. CASE k < p
      BY <1>1, <2>1, <2>3, <2>4, <3>1, <3>2
    <3>3. CASE k > p
      <4>1. k - 1 \in 1 .. n - 1 /\ ~(k - 1 < p) /\ (k - 1) + 1 = k
        BY <1>1, <2>1, <3>1, <3>3
      <4> QED
        BY <2>3, <2>4, <4>1
    <3> QED
      BY <1>1, <2>1, <3>1, <3>2, <3>3
  <2>9. ASSUME NEW i \in DOMAIN rest, NEW j \in DOMAIN rest, i < j
        PROVE  \E k, l \in DOMAIN table : k < l /\ rest[i] = table[k] /\ rest[j] = table[l]
    <3> DEFINE k == IF i < p THEN i ELSE i + 1
               l == IF j < p THEN j ELSE j + 1
    <3>1. i \in 1 .. n - 1 /\ j \in 1 .. n - 1
      BY <2>4
    <3>2. k \in 1 .. n /\ l \in 1 .. n /\ k < l
      BY <1>1, <2>1, <2>9, <3>1
    <3>3. rest[i] = table[k] /\ rest[j] = table[l]
      BY <2>3, <3>1
    <3> HIDE DEF k, l
    <3> QED
      BY <1>1, <3>2, <3>3
  <2> QED
    BY <2>3, <2>7, <2>8, <2>9 DEF rest
<1> QED
  BY <1>2, <1>3

\* A set of naturals has a least element, and a bounded one a greatest.
LEMMA Least ==
    ASSUME NEW T \in SUBSET Nat, T # {}
    PROVE  \E x \in T : \A y \in T : x <= y
<1>1. IsWellFoundedOn({p \in Nat \X Nat : p[1] < p[2]}, Nat)
  BY NatLessThanWellFounded, SMT DEF OpToRel
<1>2. PICK x \in T : \A y \in T : ~(<<y, x>> \in {p \in Nat \X Nat : p[1] < p[2]})
  BY <1>1, WFMin
<1>3. ASSUME NEW y \in T
      PROVE  x <= y
  <2>1. x \in Nat /\ y \in Nat /\ <<y, x>> \in Nat \X Nat
    OBVIOUS
  <2> QED
    BY <1>2, <2>1
<1> QED
  BY <1>3

LEMMA MaxIs ==
    ASSUME NEW T \in SUBSET Nat, T # {}, NEW n \in Nat, \A y \in T : y <= n
    PROVE  Max(T) \in T /\ \A y \in T : y <= Max(T)
<1> DEFINE below == {d \in Nat : n - d \in T}
<1>1. PICK d \in below : \A c \in below : d <= c
  <2>1. \A y \in T : n - y \in below
    OBVIOUS
  <2>2. below \in SUBSET Nat /\ below # {}
    BY <2>1
  <2> HIDE DEF below
  <2> QED
    BY <2>2, Least
<1>2. ASSUME NEW y \in T
      PROVE  n - d >= y
  <2>1. y \in Nat /\ n - y \in below
    OBVIOUS
  <2>2. d <= n - y /\ d \in Nat
    BY <1>1, <2>1
  <2> QED
    BY <2>1, <2>2
<1>3. \E x \in T : \A y \in T : x >= y
  BY <1>1, <1>2
<1> QED
  BY <1>3 DEF Max

LEMMA Rooms == MaxEntities \in Nat \ {0}
BY ScoringAssumption

\* Annotating puts the entity last; the others stay as they were, in their order, and
\* only the coldest of a full table goes.
Writes(next, e, note) ==
    LET n == Len(next) - 1
        rest == Without(e)
    IN
    /\ n \in Nat /\ DOMAIN next = 1 .. n + 1 /\ next \in Seq(Entry)
    /\ next[n + 1] = [entity |-> e, note |-> note]
    /\ \A i \in 1 .. n : next[i].entity # e /\ \E k \in DOMAIN table : next[i] = table[k]
    /\ \A i, j \in 1 .. n : i < j =>
          \E k, l \in DOMAIN table : k < l /\ next[i] = table[k] /\ next[j] = table[l]
    /\ \A k \in DOMAIN table : table[k].entity # e =>
          \/ \E i \in 1 .. n : next[i] = table[k]
          \/ Len(rest) >= MaxEntities /\ rest[1] = table[k]

LEMMA AnnotatedIs ==
    ASSUME TableInv, NEW e \in Entity, NEW note \in [word: Words, end: Time, sweep: Nat]
    PROVE  Writes(Annotated(e, note), e, note)
<1> DEFINE rest == Without(e)
           full == Len(rest) >= MaxEntities
           d == IF full THEN 1 ELSE 0
           room == IF full THEN Tail(rest) ELSE rest
           new == [entity |-> e, note |-> note]
           next == Annotated(e, note)
           n == Len(room)
<1>1. rest \in Seq(Entry) /\ new \in Entry /\ MaxEntities \in Nat \ {0}
  BY WithoutIs, Rooms DEF Entry
<1>2. next = Append(room, new)
  BY DEF Annotated
<1>3. /\ \A i \in DOMAIN rest : rest[i].entity # e /\ \E k \in DOMAIN table : rest[i] = table[k]
      /\ \A k \in DOMAIN table : table[k].entity # e => \E i \in DOMAIN rest : rest[i] = table[k]
      /\ \A i, j \in DOMAIN rest : i < j =>
            \E k, l \in DOMAIN table : k < l /\ rest[i] = table[k] /\ rest[j] = table[l]
  BY WithoutIs
<1> HIDE DEF rest, new, next
<1>4. /\ room \in Seq(Entry) /\ n \in Nat /\ d \in {0, 1} /\ n + d = Len(rest)
      /\ \A i \in 1 .. n : room[i] = rest[i + d]
  <2>1. CASE full
    <3>1. rest # <<>> /\ d = 1 /\ room = Tail(rest)
      BY <1>1, <2>1
    <3> QED
      BY <1>1, <3>1
  <2>2. CASE ~full
    BY <1>1, <2>2
  <2> QED
    BY <2>1, <2>2
<1>5. full <=> d = 1
  OBVIOUS
<1> HIDE DEF full, d, room
<1>6. /\ next \in Seq(Entry) /\ Len(next) = n + 1 /\ DOMAIN next = 1 .. n + 1
      /\ next[n + 1] = new
      /\ \A i \in 1 .. n : next[i] = room[i]
  BY <1>1, <1>2, <1>4
<1> HIDE DEF n
<1>7. /\ Len(next) - 1 = n /\ DOMAIN rest = 1 .. n + d
      /\ \A i \in 1 .. n : next[i] = rest[i + d] /\ i + d \in 1 .. n + d
  BY <1>1, <1>4, <1>6
<1>8. ASSUME NEW i \in 1 .. n
      PROVE  next[i].entity # e /\ \E k \in DOMAIN table : next[i] = table[k]
  BY <1>3, <1>7
<1>9. ASSUME NEW i \in 1 .. n, NEW j \in 1 .. n, i < j
      PROVE  \E k, l \in DOMAIN table : k < l /\ next[i] = table[k] /\ next[j] = table[l]
  <2>1. i + d \in DOMAIN rest /\ j + d \in DOMAIN rest /\ i + d < j + d
    BY <1>4, <1>7, <1>9
  <2>2. \E k, l \in DOMAIN table : k < l /\ rest[i + d] = table[k] /\ rest[j + d] = table[l]
    BY <1>3, <2>1, Zenon
  <2>3. next[i] = rest[i + d] /\ next[j] = rest[j + d]
    BY <1>7
  <2> QED
    BY <2>2, <2>3
<1>10. ASSUME NEW k \in DOMAIN table, table[k].entity # e
       PROVE  (\E i \in 1 .. n : next[i] = table[k]) \/ (full /\ rest[1] = table[k])
  <2>1. PICK i \in 1 .. n + d : rest[i] = table[k]
    BY <1>3, <1>7, <1>10
  <2>2. CASE i - d \in 1 .. n
    <3>1. (i - d) + d = i
      BY <1>4
    <3> QED
      BY <1>7, <2>1, <2>2, <3>1
  <2>3. CASE ~(i - d \in 1 .. n)
    BY <1>4, <1>5, <2>1, <2>3
  <2> QED
    BY <2>2, <2>3
<1>11. Writes(next, e, note)
  BY <1>4, <1>6, <1>7, <1>8, <1>9, <1>10 DEF Writes, rest, full, new
<1> QED
  BY <1>11 DEF next

\* Reading leaves what the table holds.
LEMMA WarmedIs ==
    ASSUME TableInv, NEW e
    PROVE  LET next == Warmed(e) IN
           /\ next \in Seq(Entry)
           /\ \A i \in DOMAIN next : \E k \in DOMAIN table : next[i] = table[k]
           /\ \A k \in DOMAIN table : \E i \in DOMAIN next : next[i] = table[k]
           /\ \A i, j \in DOMAIN next : next[i].entity = next[j].entity => i = j
<1> DEFINE next == Warmed(e)
           rest == Without(e)
           p == Place(e)
           new == [entity |-> e, note |-> Current(e)]
<1>1. CASE ~Known(e)
  BY <1>1 DEF Warmed, TableInv
<1>2. CASE Known(e)
  <2>1. p \in DOMAIN table /\ table[p].entity = e /\ \A i \in DOMAIN table : table[i].entity = e => i = p
    BY <1>2, PlaceIs
  <2>2. new = table[p] /\ new \in Entry
    <3>1. table[p] \in Entry
      BY <2>1 DEF TableInv
    <3> QED
      BY <2>1, <3>1 DEF Entry, Current
  <2>3. next = Append(rest, new)
    BY <1>2 DEF Warmed
  <2>4. /\ rest \in Seq(Entry)
        /\ \A i \in DOMAIN rest : rest[i].entity # e /\ \E k \in DOMAIN table : rest[i] = table[k]
        /\ \A k \in DOMAIN table : table[k].entity # e => \E i \in DOMAIN rest : rest[i] = table[k]
        /\ \A i, j \in DOMAIN rest : i < j =>
              \E k, l \in DOMAIN table : k < l /\ rest[i] = table[k] /\ rest[j] = table[l]
    BY WithoutIs
  <2>5. new.entity = e
    OBVIOUS
  <2> HIDE DEF next, rest, p, new
  <2> DEFINE n == Len(rest)
  <2>6. /\ n \in Nat /\ next \in Seq(Entry) /\ DOMAIN rest = 1 .. n /\ DOMAIN next = 1 .. n + 1
        /\ next[n + 1] = new /\ \A i \in 1 .. n : next[i] = rest[i]
    BY <2>2, <2>3, <2>4
  <2> HIDE DEF n
  <2>7. \A i \in 1 .. n + 1 : i \in 1 .. n \/ i = n + 1
    BY <2>6
  <2>8. n + 1 \in 1 .. n + 1 /\ 1 .. n \subseteq 1 .. n + 1
    BY <2>6
  <2>9. \A i \in DOMAIN next : \E k \in DOMAIN table : next[i] = table[k]
    BY <2>1, <2>2, <2>4, <2>6, <2>7
  <2>10. \A k \in DOMAIN table : \E i \in DOMAIN next : next[i] = table[k]
    <3> TAKE k \in DOMAIN table
    <3>1. CASE k = p
      BY <2>2, <2>6, <2>8, <3>1
    <3>2. CASE k # p
      BY <2>1, <2>4, <2>6, <2>8, <3>2
    <3> QED
      BY <3>1, <3>2
  <2>11. ASSUME NEW i \in 1 .. n, NEW j \in 1 .. n, rest[i].entity = rest[j].entity
         PROVE  i = j
    <3>1. ASSUME NEW a \in 1 .. n, NEW b \in 1 .. n, a < b
          PROVE  rest[a].entity # rest[b].entity
      <4>1. PICK k \in DOMAIN table, l \in DOMAIN table :
                k < l /\ rest[a] = table[k] /\ rest[b] = table[l]
        <5>1. a \in DOMAIN rest /\ b \in DOMAIN rest
          BY <2>6
        <5> QED
          BY <2>4, <3>1, <5>1, Zenon
      <4>2. k # l
        BY <4>1 DEF TableInv
      <4> QED
        BY <4>1, <4>2 DEF TableInv
    <3>2. i < j \/ j < i \/ i = j
      BY <2>6
    <3> QED
      BY <2>11, <3>1, <3>2
  <2>12. ASSUME NEW i \in DOMAIN next, NEW j \in DOMAIN next, next[i].entity = next[j].entity
         PROVE  i = j
    <3>1. CASE i \in 1 .. n /\ j \in 1 .. n
      BY <2>6, <2>11, <2>12, <3>1
    <3>2. CASE i = n + 1 /\ j \in 1 .. n
      BY <2>4, <2>5, <2>6, <2>12, <3>2
    <3>3. CASE i \in 1 .. n /\ j = n + 1
      BY <2>4, <2>5, <2>6, <2>12, <3>3
    <3> QED
      BY <2>6, <2>7, <3>1, <3>2, <3>3
  <2> QED
    BY <2>6, <2>9, <2>10, <2>12 DEF next
<1> QED
  BY <1>1, <1>2

\* The others of a full table and one more are more than it has room for.
LEMMA Crowded ==
    ASSUME NEW X, IsFiniteSet(X), NEW s \in Seq(Entry), Len(s) >= MaxEntities, NEW e \in X,
           \A i \in DOMAIN s : s[i].entity \in X \ {e},
           \A i, j \in DOMAIN s : s[i].entity = s[j].entity => i = j
    PROVE  Cardinality(X) > MaxEntities
<1> DEFINE S == 1 .. MaxEntities + 1
           f == [i \in S |-> IF i <= MaxEntities THEN s[i].entity ELSE e]
<1>1. MaxEntities \in Nat /\ DOMAIN s = 1 .. Len(s) /\ Len(s) \in Nat
  BY Rooms
<1>2. Cardinality(X) \in Nat
  BY FS_CardinalityType
<1>3. IsFiniteSet(S) /\ Cardinality(S) = MaxEntities + 1
  BY <1>1, FS_Interval
<1>4. f \in [S -> X]
  BY <1>1
<1>5. ASSUME NEW i \in S, NEW j \in S, i # j, f[i] = f[j]
      PROVE  FALSE
  <2>1. CASE i <= MaxEntities /\ j <= MaxEntities
    BY <1>1, <1>5, <2>1
  <2>2. CASE i <= MaxEntities /\ j > MaxEntities
    <3>1. i \in DOMAIN s /\ f[i] = s[i].entity /\ f[j] = e
      BY <1>1, <2>2
    <3> QED
      BY <1>5, <3>1
  <2>3. CASE i > MaxEntities /\ j <= MaxEntities
    <3>1. j \in DOMAIN s /\ f[j] = s[j].entity /\ f[i] = e
      BY <1>1, <2>3
    <3> QED
      BY <1>5, <3>1
  <2>4. CASE i > MaxEntities /\ j > MaxEntities
    BY <1>1, <1>5, <2>4
  <2> QED
    BY <1>1, <2>1, <2>2, <2>3, <2>4
<1> HIDE DEF S, f
<1>6. ~(Cardinality(X) < Cardinality(S))
  BY <1>3, <1>4, <1>5, FS_PigeonHole
<1> QED
  BY <1>1, <1>2, <1>3, <1>6

LEMMA FinitelyMany ==
    ASSUME NEW D \in SUBSET DOMAIN batch, batch \in Seq(Window)
    PROVE  IsFiniteSet({batch[i].entity : i \in D})
<1> DEFINE T == {batch[i].entity : i \in D}
           f == [i \in D |-> batch[i].entity]
<1>1. IsFiniteSet(D)
  <2>1. DOMAIN batch = 1 .. Len(batch) /\ Len(batch) \in Nat
    OBVIOUS
  <2>2. IsFiniteSet(1 .. Len(batch))
    BY <2>1, FS_Interval
  <2> QED
    BY <2>1, <2>2, FS_Subset
<1>2. f \in Surjection(D, T)
  BY DEF Surjection
<1> HIDE DEF f, T
<1>3. IsFiniteSet(T)
  BY <1>1, <1>2, FS_Surjection
<1> QED
  BY <1>3 DEF T


-----------------------------------------------------------------------------
(* The steps, for what web_recon is told.                                  *)

LEMMA ToldInit == Init => AnnotationsInv
<1> SUFFICES ASSUME Init
             PROVE  AnnotationsInv
  OBVIOUS
<1>1. PICK given \in SUBSET UseCase \ {{}} : turns = DependencyOrder(given)
  BY DEF Init
<1>2. TurnsInv
  <2>1. Len(turns) \in Nat
    BY <1>1, OrderLength
  <2>2. Len(turns) = 2 => turns = <<"bot_detection", "web_recon">>
    BY <1>1, OrderIs
  <2> QED
    BY <2>1, <2>2 DEF Init, TurnsInv
<1>3. TableInv
  <2>1. table = <<>> /\ <<>> \in Seq(Entry) /\ DOMAIN <<>> = {}
    BY DEF Init, AnnotationsInit
  <2> QED
    BY <2>1 DEF TableInv
<1>4. Exported = {} /\ table = <<>>
  BY DEF Init, AnnotationsInit, Exported, Done
<1>5. ToldInv
  BY <1>4 DEF ToldInv
<1> QED
  BY <1>2, <1>3, <1>5 DEF AnnotationsInv

\* A new sweep has told nothing yet.
LEMMA SweepTells ==
    ASSUME AnnotationsInv, NEW windows, Sweep(windows)
    PROVE  AnnotationsInv'
<1>1. TurnsInv'
  BY DEF Sweep, AnnotationsInv, TurnsInv, configVars
<1>2. TableInv'
  BY DEF Sweep, AnnotationsInv, TableInv
<1>3. Done' = {} /\ Exported' = {}
  BY DEF Sweep, Done, Exported
<1>4. ToldInv'
  BY <1>3 DEF ToldInv
<1> QED
  BY <1>1, <1>2, <1>4 DEF AnnotationsInv

LEMMA RestartTells ==
    ASSUME GateInv, AnnotationsInv, Restart
    PROVE  AnnotationsInv' /\ ToldInThisSweep'
<1>1. TurnsInv'
  BY DEF Restart, AnnotationsInv, TurnsInv, GateInv, BatchInv
<1>2. TableInv'
  <2>1. table' = <<>> /\ <<>> \in Seq(Entry) /\ DOMAIN <<>> = {}
    BY DEF Restart
  <2> QED
    BY <2>1 DEF TableInv
<1>3. Done' = {} /\ Exported' = {}
  BY DEF Restart, Done, Exported
<1>4. ToldInv'
  BY <1>3 DEF ToldInv
<1> QED
  BY <1>1, <1>2, <1>4 DEF AnnotationsInv, Restart, ToldInThisSweep

\* bot_detection has scored one window more.
LEMMA BotDone ==
    ASSUME BatchInv, turn = 1, turn <= Len(turns), Advance, UNCHANGED sweeps
    PROVE  /\ at \in DOMAIN batch
           /\ Done' = Done \cup {at} /\ Done \subseteq DOMAIN batch
           /\ Exported' = Exported \cup {batch[at].entity}
           /\ \A k \in Done : k < at
           /\ batch' = batch /\ \A k : NoteOf(k)' = NoteOf(k)
<1>1. at \in DOMAIN batch /\ batch' = batch /\ DOMAIN batch = 1 .. Len(batch) /\ Len(batch) \in Nat
  BY DEF BatchInv, Advance
<1>2. Done = 1 .. at - 1 /\ Done \subseteq DOMAIN batch /\ \A k \in Done : k < at
  BY <1>1 DEF Done
<1>3. Done' = Done \cup {at}
  <2>1. CASE at < Len(batch)
    <3>1. at' = at + 1 /\ turn' = 1
      BY <2>1 DEF Advance
    <3>2. Done' = 1 .. (at + 1) - 1
      BY <3>1 DEF Done
    <3> QED
      BY <1>1, <1>2, <3>2
  <2>2. CASE ~(at < Len(batch))
    <3>1. turn' = 2 /\ at = Len(batch)
      BY <1>1, <2>2 DEF Advance
    <3>2. Done' = DOMAIN batch
      BY <1>1, <3>1 DEF Done
    <3> QED
      BY <1>1, <1>2, <3>1, <3>2
  <2> QED
    BY <2>1, <2>2
<1>4. Exported' = Exported \cup {batch[at].entity}
  BY <1>1, <1>3 DEF Exported
<1>5. \A k : NoteOf(k)' = NoteOf(k)
  BY <1>1 DEF NoteOf
<1> QED
  BY <1>1, <1>2, <1>3, <1>4, <1>5

\* What bot_detection writes keeps the table as web_recon needs it.
LEMMA WritingTells ==
    ASSUME AnnotationsInv, BatchInv, turn = 1, Len(turns) = 2, exports, Advance,
           UNCHANGED <<sweeps, configVars>>,
           table' = Annotated(batch[at].entity,
                        [word |-> batch[at].word, end |-> batch[at].end, sweep |-> sweeps])
    PROVE  ToldInv'
<1> DEFINE e == batch[at].entity
           note == [word |-> batch[at].word, end |-> batch[at].end, sweep |-> sweeps]
           rest == Without(e)
           n == Len(table') - 1
<1>1. /\ at \in DOMAIN batch
      /\ Done' = Done \cup {at} /\ Done \subseteq DOMAIN batch
      /\ Exported' = Exported \cup {e}
      /\ \A k \in Done : k < at
      /\ batch' = batch /\ \A k : NoteOf(k)' = NoteOf(k)
  BY BotDone
<1>2. e \in Entity /\ note \in [word: Words, end: Time, sweep: Nat] /\ TableInv
  <2>1. batch[at] \in Window
    BY <1>1 DEF BatchInv
  <2> QED
    BY <2>1 DEF Window, AnnotationsInv, TurnsInv
<1>3. note = NoteOf(at)
  BY DEF NoteOf
<1>4. /\ n \in Nat /\ DOMAIN table' = 1 .. n + 1
      /\ table'[n + 1] = [entity |-> e, note |-> note]
      /\ \A i \in 1 .. n : table'[i].entity # e /\ \E k \in DOMAIN table : table'[i] = table[k]
      /\ \A i, j \in 1 .. n : i < j =>
            \E k, l \in DOMAIN table : k < l /\ table'[i] = table[k] /\ table'[j] = table[l]
      /\ \A k \in DOMAIN table : table[k].entity # e =>
            \/ \E i \in 1 .. n : table'[i] = table[k]
            \/ Len(rest) >= MaxEntities /\ rest[1] = table[k]
  <2>1. table' = Annotated(e, note)
    OBVIOUS
  <2> HIDE DEF e, note, rest
  <2>2. Writes(Annotated(e, note), e, note)
    BY <1>2, AnnotatedIs
  <2>3. Writes(table', e, note)
    BY <2>1, <2>2
  <2> QED
    BY <2>3 DEF Writes, rest
<1>5. /\ \A i \in DOMAIN table, k \in Done :
            table[i].entity = batch[k].entity /\ LastDone(k) => table[i].note = NoteOf(k)
      /\ \A i, j \in DOMAIN table :
            i < j /\ table[i].entity \in Exported => table[j].entity \in Exported
      /\ \A x \in Exported : Known(x) \/ Cardinality(Exported) > MaxEntities
  BY DEF AnnotationsInv, ToldInv
<1>6. table'[n + 1].entity = e /\ table'[n + 1].note = note
  BY <1>4
<1>7. /\ at \in Nat /\ \A i \in DOMAIN table' : i \in 1 .. n \/ i = n + 1
      /\ n + 1 \in DOMAIN table' /\ 1 .. n \subseteq DOMAIN table'
      /\ \A i \in DOMAIN table' : i \in Nat
  BY <1>1, <1>4 DEF BatchInv
<1>8. IsFiniteSet(Exported') /\ Cardinality(Exported) \in Nat /\ Cardinality(Exported') \in Nat
      /\ Cardinality(Exported) <= Cardinality(Exported')
  <2>1. IsFiniteSet(Exported)
    BY <1>1, FinitelyMany DEF Exported, BatchInv
  <2>2. IsFiniteSet(Exported')
    BY <1>1, <2>1, FS_AddElement
  <2> QED
    BY <1>1, <2>1, <2>2, FS_Subset, FS_CardinalityType
<1> HIDE DEF n, rest
<1>9. ASSUME NEW i \in DOMAIN table', NEW k \in Done',
             table'[i].entity = batch'[k].entity, LastDone(k)'
      PROVE  table'[i].note = NoteOf(k)'
  <2>1. /\ k \in Done \cup {at}
        /\ \A j \in Done \cup {at} : batch[j].entity = batch[k].entity => j <= k
    BY <1>1, <1>9 DEF LastDone
  <2>2. CASE i = n + 1
    <3>1. batch[k].entity = e
      BY <1>1, <1>6, <1>9, <2>2
    <3>2. at <= k /\ (k = at \/ k < at) /\ k \in Nat
      BY <1>1, <1>7, <2>1, <3>1 DEF BatchInv
    <3>3. k = at
      BY <1>7, <3>2
    <3> QED
      BY <1>1, <1>3, <1>6, <2>2, <3>3
  <2>3. CASE i \in 1 .. n
    <3>1. PICK l \in DOMAIN table : table'[i] = table[l] /\ table[l].entity # e
      BY <1>4, <2>3
    <3>2. batch[k].entity # e /\ table[l].entity = batch[k].entity
      BY <1>1, <1>9, <3>1
    <3>3. k \in Done
      BY <2>1, <3>2
    <3>4. LastDone(k)
      BY <2>1, <3>3 DEF LastDone
    <3> QED
      BY <1>1, <1>5, <3>1, <3>2, <3>3, <3>4
  <2> QED
    BY <1>7, <2>2, <2>3
<1>10. ASSUME NEW i \in DOMAIN table', NEW j \in DOMAIN table', i < j, table'[i].entity \in Exported'
       PROVE  table'[j].entity \in Exported'
  <2>1. CASE j = n + 1
    BY <1>1, <1>6, <2>1
  <2>2. CASE j \in 1 .. n
    <3>1. i \in 1 .. n
      BY <1>4, <1>7, <1>10, <2>2
    <3>2. PICK k \in DOMAIN table, l \in DOMAIN table :
              k < l /\ table'[i] = table[k] /\ table'[j] = table[l]
      BY <1>4, <1>10, <2>2, <3>1, Zenon
    <3>3. table[k].entity \in Exported
      BY <1>1, <1>4, <1>10, <3>1, <3>2
    <3> QED
      BY <1>1, <1>5, <3>2, <3>3
  <2> QED
    BY <1>7, <2>1, <2>2
<1>11. ASSUME NEW x \in Exported'
       PROVE  Known(x)' \/ Cardinality(Exported') > MaxEntities
  <2>1. CASE x = e
    BY <1>6, <1>7, <2>1 DEF Known
  <2>2. CASE x # e
    <3>1. x \in Exported
      BY <1>1, <2>2
    <3>2. CASE Cardinality(Exported) > MaxEntities
      BY <1>8, <3>2, Rooms
    <3>3. CASE Known(x)
      <4>1. PICK k \in DOMAIN table : table[k].entity = x
        BY <3>3 DEF Known
      <4>2. CASE \E i \in 1 .. n : table'[i] = table[k]
        BY <1>7, <4>1, <4>2 DEF Known
      <4>3. CASE Len(rest) >= MaxEntities /\ rest[1] = table[k]
        <5>1. /\ rest \in Seq(Entry)
              /\ \A i \in DOMAIN rest : rest[i].entity # e
              /\ \A i, j \in DOMAIN rest : i < j =>
                    \E a, b \in DOMAIN table : a < b /\ rest[i] = table[a] /\ rest[j] = table[b]
          <6> HIDE DEF e
          <6> QED
            BY <1>2, WithoutIs DEF rest
        <5>2. Len(rest) \in Nat /\ DOMAIN rest = 1 .. Len(rest) /\ 1 \in DOMAIN rest
          BY <4>3, <5>1, Rooms
        <5>3. ASSUME NEW i \in DOMAIN rest
              PROVE  rest[i].entity \in Exported
          <6>1. CASE i = 1
            BY <3>1, <4>1, <4>3, <6>1
          <6>2. CASE i # 1
            <7>1. 1 < i
              BY <5>2, <6>2
            <7>2. PICK a \in DOMAIN table, b \in DOMAIN table :
                      a < b /\ rest[1] = table[a] /\ rest[i] = table[b]
              BY <5>1, <5>2, <7>1, Zenon
            <7>3. table[a].entity \in Exported
              BY <3>1, <4>1, <4>3, <7>2
            <7> QED
              BY <1>5, <7>2, <7>3
          <6> QED
            BY <6>1, <6>2
        <5>4. ASSUME NEW i \in DOMAIN rest, NEW j \in DOMAIN rest, i < j
              PROVE  rest[i].entity # rest[j].entity
          <6>1. PICK a \in DOMAIN table, b \in DOMAIN table :
                    a < b /\ rest[i] = table[a] /\ rest[j] = table[b]
            BY <5>1, <5>4, Zenon
          <6>2. a # b
            BY <1>2, <6>1 DEF TableInv
          <6> QED
            BY <1>2, <6>1, <6>2 DEF TableInv
        <5>5. ASSUME NEW i \in DOMAIN rest, NEW j \in DOMAIN rest, rest[i].entity = rest[j].entity
              PROVE  i = j
          <6>1. i < j \/ j < i \/ i = j
            BY <5>2
          <6> QED
            BY <5>4, <5>5, <6>1
        <5>6. e \in Exported' /\ \A i \in DOMAIN rest : rest[i].entity \in Exported' \ {e}
          BY <1>1, <5>1, <5>3
        <5> HIDE DEF e
        <5>7. Cardinality(Exported') > MaxEntities
          BY <1>8, <4>3, <5>1, <5>5, <5>6, Crowded
        <5> QED
          BY <5>7
      <4> QED
        BY <1>4, <2>2, <4>1, <4>2, <4>3
    <3> QED
      BY <1>5, <3>1, <3>2, <3>3
  <2> QED
    BY <2>1, <2>2
<1> QED
  BY <1>9, <1>10, <1>11 DEF ToldInv


\* bot_detection has a turn before web_recon.
LEMMA TurnIs ==
    ASSUME TurnsInv, BatchInv, Len(turns) = 2, NEW use, Scores(use)
    PROVE  /\ use = "bot_detection" => turn = 1
           /\ use = "web_recon" => turn = 2
<1>1. turn = 1 \/ turn = 2
  BY DEF Scores, TurnsInv
<1> QED
  BY <1>1 DEF Scores, TurnsInv

LEMMA TurnsGoOn ==
    ASSUME TurnsInv, Advance, UNCHANGED <<configVars, sweeps>>
    PROVE  TurnsInv'
BY DEF TurnsInv, Advance, configVars

LEMMA ReadKeepsTable ==
    ASSUME TableInv, NEW e, Read(e)
    PROVE  TableInv'
<1>1. table' = Warmed(e)
  BY DEF Read
<1> QED
  BY <1>1, WarmedIs DEF TableInv

LEMMA WriteKeepsTable ==
    ASSUME TableInv, NEW e \in Entity, NEW note \in [word: Words, end: Time, sweep: Nat],
           ReadAndAnnotate(e, note)
    PROVE  TableInv'
<1> DEFINE next == Annotated(e, note)
           n == Len(next) - 1
<1>1. table' = next
  BY DEF ReadAndAnnotate
<1>2. Writes(next, e, note)
  BY AnnotatedIs
<1> HIDE DEF next
<1>3. /\ n \in Nat /\ DOMAIN next = 1 .. n + 1 /\ next \in Seq(Entry)
      /\ next[n + 1] = [entity |-> e, note |-> note]
      /\ \A i \in 1 .. n : next[i].entity # e
      /\ \A i, j \in 1 .. n : i < j =>
            \E k, l \in DOMAIN table : k < l /\ next[i] = table[k] /\ next[j] = table[l]
  BY <1>2 DEF Writes
<1> HIDE DEF n
<1>4. ASSUME NEW i \in 1 .. n + 1, NEW j \in 1 .. n + 1, i < j
      PROVE  next[i].entity # next[j].entity
  <2>1. CASE j = n + 1
    <3>1. i \in 1 .. n
      BY <1>3, <1>4, <2>1
    <3> QED
      BY <1>3, <2>1, <3>1
  <2>2. CASE j # n + 1
    <3>1. i \in 1 .. n /\ j \in 1 .. n
      BY <1>3, <1>4, <2>2
    <3>2. PICK k \in DOMAIN table, l \in DOMAIN table :
              k < l /\ next[i] = table[k] /\ next[j] = table[l]
      BY <1>3, <1>4, <3>1, Zenon
    <3>3. k # l
      BY <3>2 DEF TableInv
    <3> QED
      BY <3>2, <3>3 DEF TableInv
  <2> QED
    BY <2>1, <2>2
<1>5. ASSUME NEW i \in 1 .. n + 1, NEW j \in 1 .. n + 1, next[i].entity = next[j].entity
      PROVE  i = j
  <2>1. i < j \/ j < i \/ i = j
    BY <1>3
  <2> QED
    BY <1>4, <1>5, <2>1
<1> QED
  BY <1>1, <1>3, <1>5 DEF TableInv

LEMMA ScoreBotTells ==
    ASSUME GateInv, AnnotationsInv, ScoreBot
    PROVE  AnnotationsInv' /\ ToldInThisSweep'
<1> DEFINE w == batch[at]
           note == [word |-> w.word, end |-> w.end, sweep |-> sweeps]
<1>1. /\ Scores("bot_detection") /\ turn <= Len(turns) /\ Advance
      /\ UNCHANGED <<configVars, sweeps>>
      /\ IF exports THEN ReadAndAnnotate(w.entity, note) ELSE Read(w.entity)
      /\ outcome'.use = "bot_detection"
  BY DEF ScoreBot, Scores, feedVars
<1>2. BatchInv /\ TurnsInv /\ TableInv
  BY DEF GateInv, AnnotationsInv
<1>3. w.entity \in Entity /\ note \in [word: Words, end: Time, sweep: Nat]
  <2>1. batch[at] \in Window
    BY <1>1, <1>2 DEF BatchInv
  <2> QED
    BY <1>2, <2>1 DEF Window, TurnsInv
<1>4. TurnsInv'
  BY <1>1, <1>2, TurnsGoOn
<1>5. TableInv'
  <2> HIDE DEF w, note
  <2> QED
    BY <1>1, <1>2, <1>3, ReadKeepsTable, WriteKeepsTable
<1>6. ToldInv'
  <2>1. CASE Len(turns) = 2 /\ exports
    <3>1. turn = 1
      BY <1>1, <1>2, <2>1, TurnIs
    <3>2. table' = Annotated(w.entity, note)
      BY <1>1, <2>1 DEF ReadAndAnnotate
    <3> QED
      BY <1>1, <1>2, <2>1, <3>1, <3>2, WritingTells
  <2>2. CASE ~(Len(turns) = 2 /\ exports)
    <3>1. ~(Len(turns') = 2 /\ exports')
      BY <1>1, <2>2 DEF configVars
    <3> QED
      BY <3>1 DEF ToldInv
  <2> QED
    BY <2>1, <2>2
<1> QED
  BY <1>1, <1>4, <1>5, <1>6 DEF AnnotationsInv, ToldInThisSweep

LEMMA ScoreReconTells ==
    ASSUME GateInv, AnnotationsInv, ScoreRecon
    PROVE  AnnotationsInv' /\ ToldInThisSweep'
<1> DEFINE w == batch[at]
           e == w.entity
<1>1. /\ Scores("web_recon") /\ turn <= Len(turns) /\ Advance
      /\ UNCHANGED <<configVars, sweeps>> /\ Read(e) /\ batch' = batch
      /\ outcome'.window = w /\ outcome'.read = Reading(e)
  BY DEF ScoreRecon, Scores, feedVars, Advance
<1>2. BatchInv /\ TurnsInv /\ TableInv /\ at \in DOMAIN batch
  BY <1>1 DEF GateInv, AnnotationsInv, BatchInv
<1>3. TurnsInv' /\ TableInv'
  BY <1>1, <1>2, TurnsGoOn, ReadKeepsTable
<1>4. ASSUME Len(turns) = 2, exports
      PROVE  ToldInv' /\ ToldInThisSweep'
  <2>1. turn = 2
    BY <1>1, <1>2, <1>4, TurnIs
  <2>2. Done = DOMAIN batch /\ Done' = Done /\ Exported' = Exported /\ turn' # 1
    <3>1. turn' = 2 \/ turn' = 3
      BY <1>1, <2>1 DEF Advance
    <3> QED
      BY <1>1, <2>1, <3>1 DEF Done, Exported
  <2>3. /\ \A i \in DOMAIN table, k \in Done :
              table[i].entity = batch[k].entity /\ LastDone(k) => table[i].note = NoteOf(k)
        /\ \A x \in Exported : Known(x) \/ Cardinality(Exported) > MaxEntities
    BY <1>4 DEF AnnotationsInv, ToldInv
  <2>4. /\ \A i \in DOMAIN table' : \E k \in DOMAIN table : table'[i] = table[k]
        /\ \A k \in DOMAIN table : \E i \in DOMAIN table' : table'[i] = table[k]
    BY <1>1, <1>2, WarmedIs DEF Read
  <2>5. \A k : NoteOf(k)' = NoteOf(k) /\ (LastDone(k)' <=> LastDone(k))
    BY <1>1, <2>2 DEF NoteOf, LastDone
  <2>6. ToldInv'
    <3>1. ASSUME NEW i \in DOMAIN table', NEW k \in Done',
                 table'[i].entity = batch'[k].entity, LastDone(k)'
          PROVE  table'[i].note = NoteOf(k)'
      BY <1>1, <2>2, <2>3, <2>4, <2>5, <3>1
    <3>2. ASSUME NEW x \in Exported'
          PROVE  Known(x)' \/ Cardinality(Exported') > MaxEntities
      BY <2>2, <2>3, <2>4 DEF Known
    <3> QED
      BY <2>2, <3>1, <3>2 DEF ToldInv
  <2>7. e \in Exported
    BY <1>2, <2>2 DEF Exported
  <2>8. CASE ~Known(e)
    <3>1. outcome'.read = None
      BY <1>1, <2>8 DEF Reading
    <3>2. Cardinality(Exported) > MaxEntities
      BY <2>3, <2>7, <2>8
    <3>3. EntitiesSwept' = Exported
      BY <1>1, <2>2 DEF EntitiesSwept, Exported
    <3> QED
      BY <2>6, <3>1, <3>2, <3>3 DEF ToldInThisSweep
  <2>9. CASE Known(e)
    <3>1. /\ Place(e) \in DOMAIN table /\ table[Place(e)].entity = e
          /\ outcome'.read = table[Place(e)].note
      BY <1>1, <1>2, <2>9, PlaceIs DEF Reading, Current
    <3>2. outcome'.read # None
      <4>1. table[Place(e)] \in Entry
        BY <1>2, <3>1 DEF TableInv
      <4> QED
        BY <3>1, <4>1, NoneIsNoNote DEF Entry
    <3> DEFINE mine == WindowsOf(e)
               last == Max(mine)
    <3>3. last \in mine /\ \A i \in mine : i <= last
      <4>1. mine \in SUBSET Nat /\ mine # {} /\ Len(batch) \in Nat /\ \A i \in mine : i <= Len(batch)
        BY <1>2 DEF WindowsOf, BatchInv
      <4> HIDE DEF mine
      <4> QED
        BY <4>1, MaxIs
    <3>4. last \in Done /\ batch[last].entity = e /\ LastDone(last)
      <4> HIDE DEF last
      <4> QED
        BY <2>2, <3>3 DEF WindowsOf, LastDone
    <3>5. outcome'.read = NoteOf(last)
      BY <2>3, <3>1, <3>4
    <3>6. {i \in DOMAIN batch' : batch'[i].entity = e} = mine
      BY <1>1 DEF WindowsOf
    <3> HIDE DEF mine
    <3>7. outcome'.read = [word |-> batch'[last].word, end |-> batch'[last].end, sweep |-> sweeps']
      BY <1>1, <3>5 DEF NoteOf
    <3>8. outcome'.window.entity = e
      BY <1>1
    <3> HIDE DEF e
    <3>9. ToldInThisSweep'
      BY <3>2, <3>6, <3>7, <3>8 DEF ToldInThisSweep, WindowsOf
    <3> QED
      BY <2>6, <3>9
  <2> QED
    BY <2>8, <2>9
<1>5. ASSUME ~(Len(turns) = 2 /\ exports)
      PROVE  ToldInv' /\ ToldInThisSweep'
  <2>1. ~(Len(turns') = 2 /\ exports')
    BY <1>1, <1>5 DEF configVars
  <2> QED
    BY <2>1 DEF ToldInv, ToldInThisSweep
<1> QED
  BY <1>3, <1>4, <1>5 DEF AnnotationsInv

LEMMA StutterTells ==
    ASSUME AnnotationsInv, ToldInThisSweep, UNCHANGED vars
    PROVE  AnnotationsInv' /\ ToldInThisSweep'
<1>1. /\ table' = table /\ turns' = turns /\ exports' = exports /\ batch' = batch
      /\ turn' = turn /\ at' = at /\ outcome' = outcome /\ sweeps' = sweeps
  BY DEF vars, configVars, feedVars
<1>2. TableInv' /\ TurnsInv'
  BY <1>1 DEF AnnotationsInv, TableInv, TurnsInv
<1>3. Done' = Done /\ Exported' = Exported
  BY <1>1 DEF Done, Exported
<1>4. ToldInv'
  BY <1>1, <1>3 DEF AnnotationsInv, ToldInv, LastDone, NoteOf, Known
<1>5. ToldInThisSweep'
  BY <1>1 DEF ToldInThisSweep, WindowsOf, EntitiesSwept
<1> QED
  BY <1>2, <1>4, <1>5 DEF AnnotationsInv

\* With both use cases running, web_recon reads what bot_detection made of the last
\* window of the entity in the same sweep, whatever the size of the table and of the
\* batch; it reads nothing only in a sweep of more entities than the table has room
\* for.
THEOREM ToldWithinTheSweep == Spec => []ToldInThisSweep
<1> DEFINE Gated == GateInv /\ GateExact
           Told == AnnotationsInv /\ ToldInThisSweep
<1>1. Init => Gated /\ Told
  <2>1. Init => outcome = None
    BY DEF Init
  <2> QED
    BY <2>1, GateInvInit, ToldInit DEF GateExact, ToldInThisSweep
<1>2. Gated /\ Told /\ [Next]_vars => Gated' /\ Told'
  <2> SUFFICES ASSUME GateInv, GateExact, AnnotationsInv, ToldInThisSweep, [Next]_vars
               PROVE  GateInv' /\ GateExact' /\ AnnotationsInv' /\ ToldInThisSweep'
    OBVIOUS
  <2>1. ASSUME NEW windows \in Batches, Sweep(windows)
        PROVE  GateInv' /\ GateExact' /\ AnnotationsInv' /\ ToldInThisSweep'
    <3>1. outcome' = None
      BY <2>1 DEF Sweep
    <3> QED
      BY <2>1, <3>1, SweepKeeps, SweepTells DEF GateExact, ToldInThisSweep
  <2>2. CASE ScoreBot
    BY <2>2, ScoreBotKeeps, ScoreBotTells
  <2>3. CASE ScoreRecon
    BY <2>3, ScoreReconKeeps, ScoreReconTells
  <2>4. CASE Restart
    BY <2>4, RestartKeeps, RestartTells
  <2>5. CASE UNCHANGED vars
    BY <2>5, StutterKeeps, StutterTells
  <2> QED
    BY <2>1, <2>2, <2>3, <2>4, <2>5 DEF Next
<1> QED
  BY <1>1, <1>2, PTL DEF Spec
=============================================================================
