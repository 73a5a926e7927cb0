--------------------------- MODULE RegistryProofs ---------------------------
(***************************************************************************)
(* Theorems of Registry, for any number of processes and versions.         *)
(*                                                                         *)
(* The gate and the records hold whatever overlaps (GateInv).  What        *)
(* pruning spares and rollback returns to is promised while one process at *)
(* a time moves the pointer: CourseInv says what a job carries at each of  *)
(* its steps, and HoldInv what the one that moves the pointer relies on,   *)
(* and what a rollback would return to.                                    *)
(***************************************************************************)
EXTENDS Registry, TLAPS

\* Versions there have been: none of them is made again.
Past == (1 .. made) \cup {None}

\* A version that can serve, if its bundle is still there, has been through the gate.
Recorded(v) == v \in dirs => record[v] # None

\* What a promotion says of its gate is true, and so is what it says of the version
\* that it displaced.
Honest(v, promotion) ==
    /\ promotion.gate = "approval_check" => <<v, promotion.displaced>> \in passed
    /\ promotion.displaced \in Past
    /\ Recorded(promotion.displaced)

\* An approving report is one that check_candidate.py has written.
ReportInv ==
    \A v \in Version : report[v] # None /\ report[v].approving => <<v, report[v].serving>> \in passed

\* Every way a version can come to serve.
DiskInv ==
    /\ ReportInv
    /\ dirs \subseteq 1 .. made
    /\ \A tag \in {pointer["current"], temp["current"]} : tag \in Past /\ Recorded(tag)
    /\ \A v \in Version : \A promotion \in {record[v]} \ {None} : Honest(v, promotion)

JobInv(j) ==
    /\ j.version \in Past
    /\ j.facts # None => Honest(j.version, j.facts)
    /\ j.step = "read" => Recorded(j.version)
    /\ j.step = "record" /\ j.version \in dirs => j.facts # None
    /\ j.step \in {"point", "swap"} /\ j.kind # "register" => Recorded(j.version)

GateInv == TypeOK /\ DiskInv /\ \A p \in Process : \A j \in {job[p]} : JobInv(j)

-----------------------------------------------------------------------------
(* Type correctness.                                                       *)

LEMMA Bounds ==
    /\ Hot \in Nat /\ MaxVersions \in Nat /\ MaxPromotions \in Nat
    /\ MaxChecks \in Nat /\ MaxKills \in Nat
    /\ None \notin Version
BY RegistryAssumption, NoneAssumption

\* What a pointer names exists.
LEMMA NamedType ==
    ASSUME TypeOK
    PROVE  \A n \in PointerName : Named(n) \in dirs \cup {None} /\ Named(n) \in Version \cup {None}
BY DEF TypeOK, Named

LEMMA ReadsType ==
    ASSUME TypeOK
    PROVE  /\ Serving \in dirs \cup {None} /\ Serving \in Version \cup {None}
           /\ Candidate \in dirs \cup {None} /\ Candidate \in Version \cup {None}
BY NamedType DEF Serving, Candidate, PointerName

\* rollback goes to versions that exist.
LEMMA RollbackTargetType ==
    ASSUME TypeOK
    PROVE  RollbackTargets \subseteq dirs
BY DEF RollbackTargets, OncePromoted

LEMMA PromotingType ==
    ASSUME TypeOK, NEW v \in dirs, v = Serving \/ clock < MaxPromotions
    PROVE  Promoting(v) \in Job
<1>1. v \in Version /\ Serving \in Version \cup {None} /\ clock \in Nat /\ MaxPromotions \in Nat
  BY ReadsType, Bounds DEF TypeOK
<1>2. CASE v = Serving
  BY <1>1, <1>2 DEF Promoting, NoJob, Job
<1>3. CASE v # Serving
  <2>1. Gate(v) \in {"bootstrap", "approval_check", "forced"}
    BY DEF Gate
  <2>2. clock + 1 \in 1 .. MaxPromotions
    BY <1>1, <1>3
  <2>3. [gate |-> Gate(v), displaced |-> Serving, at |-> clock + 1] \in Promotion
    BY <1>1, <2>1, <2>2 DEF Promotion
  <2>. QED
    BY <1>1, <1>3, <2>3 DEF Promoting, NoJob, Job
<1>. QED
  BY <1>2, <1>3

LEMMA InitType == Init => TypeOK
<1>1. NoJob \in Job
  BY DEF NoJob, Job
<1>2. 0 \in 0 .. MaxVersions /\ 0 \in 0 .. MaxPromotions /\ 0 \in 0 .. MaxChecks /\ 0 \in 0 .. MaxKills
  BY Bounds
<1>. QED
  BY <1>1, <1>2 DEF Init, TypeOK

\* Every step of a process keeps the types.
LEMMA StepType ==
    ASSUME TypeOK, NEW p \in Process, Step(p)
    PROVE  TypeOK'
<1>. USE Bounds
<1>0. /\ job[p] \in Job /\ NoJob \in Job /\ job \in [Process -> Job]
      /\ dirs \in SUBSET Version
  BY DEF TypeOK, NoJob, Job
<1>1. CASE Train(p)
  <2>1. made + 1 \in Version /\ made + 1 \in 0 .. MaxVersions
    BY <1>1 DEF Train, TypeOK, Version
  <2>2. [NoJob EXCEPT !.kind = "train", !.step = "saved", !.version = made + 1] \in Job
    BY <2>1 DEF NoJob, Job
  <2>. QED
    BY <1>1, <2>1, <2>2 DEF Train, TypeOK
<1>2. CASE Register(p)
  <2>1. [job[p] EXCEPT !.kind = "register", !.step = "point"] \in Job
    BY <1>0 DEF Job
  <2>2. job' = [job EXCEPT ![p] = [job[p] EXCEPT !.kind = "register", !.step = "point"]]
    BY <1>0, <1>2 DEF Register
  <2>. QED
    BY <1>0, <1>2, <2>1, <2>2 DEF Register, TypeOK, boundVars, diskVars
<1>3. ASSUME NEW v, Admit(p, v)
      PROVE  TypeOK'
  <2>1. Promoting(v) \in Job
    BY <1>3, PromotingType DEF Admit
  <2>2. job' \in [Process -> Job]
    BY <1>0, <1>3, <2>1 DEF Admit
  <2>3. clock' \in 0 .. MaxPromotions
    BY <1>3 DEF Admit, TypeOK
  <2>4. contended' \in BOOLEAN
    BY <1>3 DEF Admit, NoteContention
  <2>. QED
    BY <1>3, <2>2, <2>3, <2>4 DEF Admit, TypeOK, diskVars
<1>4. CASE PromoteTrained(p)
  BY <1>3, <1>4 DEF PromoteTrained
<1>5. CASE Promote(p)
  BY <1>3, <1>5 DEF Promote
<1>6. CASE Rollback(p)
  <2>1. PICK v \in RollbackTargets :
            job' = [job EXCEPT ![p] = [NoJob EXCEPT !.kind = "rollback", !.step = "read",
                                                    !.version = v]]
    BY <1>6 DEF Rollback
  <2>2. v \in Version
    BY <1>0, <2>1, RollbackTargetType
  <2>3. [NoJob EXCEPT !.kind = "rollback", !.step = "read", !.version = v] \in Job
    BY <2>2 DEF NoJob, Job
  <2>4. contended' \in BOOLEAN
    BY <1>6 DEF Rollback, NoteContention
  <2>5. job' \in [Process -> Job]
    BY <1>0, <2>1, <2>3
  <2>. QED
    BY <1>6, <2>4, <2>5 DEF Rollback, TypeOK, diskVars, boundVars
<1>7. CASE ReadMetadata(p)
  <2>1. Metadata(job[p].version) \in Promotion \cup {None}
    BY <1>0 DEF Metadata, TypeOK
  <2>2. [job[p] EXCEPT !.step = "record", !.facts = Metadata(job[p].version)] \in Job
    BY <1>0, <2>1 DEF Job
  <2>3. job' = [job EXCEPT ![p] = [job[p] EXCEPT !.step = "record",
                                                !.facts = Metadata(job[p].version)]]
    BY <1>0, <1>7 DEF ReadMetadata
  <2>4. job' \in [Process -> Job]
    BY <1>0, <2>2, <2>3
  <2>. QED
    BY <1>7, <2>4 DEF ReadMetadata, TypeOK, diskVars, boundVars
<1>8. CASE WriteMetadata(p)
  <2>1. /\ job[p].version \in Version /\ job[p].facts \in Promotion \cup {None}
        /\ [job[p] EXCEPT !.step = "point"] \in Job
    BY <1>0, <1>8 DEF WriteMetadata, Job
  <2>2. job' = [job EXCEPT ![p] = [job[p] EXCEPT !.step = "point"]]
    BY <1>0, <1>8 DEF WriteMetadata
  <2>. QED
    BY <1>0, <1>8, <2>1, <2>2 DEF WriteMetadata, TypeOK, boundVars
<1>9. CASE WriteTemp(p)
  <2>1. /\ job[p].version \in Version \cup {None}
        /\ [job[p] EXCEPT !.step = "swap"] \in Job
    BY <1>0 DEF Job
  <2>2. job' = [job EXCEPT ![p] = [job[p] EXCEPT !.step = "swap"]]
    BY <1>0, <1>9 DEF WriteTemp
  <2>3. PointerOf(p) \in PointerName
    BY DEF PointerOf, PointerName
  <2>. QED
    BY <1>0, <1>9, <2>1, <2>2, <2>3 DEF WriteTemp, TypeOK, boundVars
<1>10. CASE Replace(p)
  <2>1. PointerOf(p) \in PointerName
    BY DEF PointerOf, PointerName
  <2>2. [NoJob EXCEPT !.kind = "promote", !.step = "clear"] \in Job
    BY DEF NoJob, Job
  <2>3. job' \in [Process -> Job]
    BY <1>0, <1>10, <2>2 DEF Replace
  <2>4. job[p].facts # None => job[p].facts.displaced \in Version \cup {None}
    BY <1>0 DEF Job, Promotion
  <2>5. before' \in Version \cup {None}
    BY <1>10, <2>4 DEF Replace, TypeOK
  <2>. QED
    BY <1>10, <2>1, <2>3, <2>5 DEF Replace, TypeOK, boundVars
<1>11. CASE ClearCandidate(p)
  <2>1. [job[p] EXCEPT !.step = "prune"] \in Job
    BY <1>0 DEF Job
  <2>2. job' = [job EXCEPT ![p] = [job[p] EXCEPT !.step = "prune"]]
    BY <1>0, <1>11 DEF ClearCandidate
  <2>. QED
    BY <1>0, <1>11, <2>1, <2>2 DEF ClearCandidate, TypeOK, boundVars, PointerName
<1>12. CASE Prune(p)
  <2>1. Prunable \in SUBSET Version
    BY <1>0 DEF Prunable
  <2>2. [job[p] EXCEPT !.step = "remove", !.doomed = Prunable] \in Job
    BY <1>0, <2>1 DEF Job
  <2>3. job' \in [Process -> Job]
    BY <1>0, <1>12, <2>2 DEF Prune
  <2>. QED
    BY <1>12, <2>3 DEF Prune, TypeOK, diskVars, boundVars
<1>13. CASE Remove(p)
  <2>1. PICK v \in job[p].doomed :
          /\ dirs' = dirs \ {v}
          /\ record' = [record EXCEPT ![v] = None]
          /\ report' = [report EXCEPT ![v] = None]
          /\ job' = [job EXCEPT ![p] = IF job[p].doomed = {v} THEN NoJob
                                       ELSE [job[p] EXCEPT !.doomed = job[p].doomed \ {v}]]
    BY <1>0, <1>13 DEF Remove
  <2>2. [job[p] EXCEPT !.doomed = job[p].doomed \ {v}] \in Job
    BY <1>0 DEF Job
  <2>3. job' \in [Process -> Job]
    BY <1>0, <2>1, <2>2
  <2>. QED
    BY <1>13, <2>1, <2>3 DEF Remove, TypeOK, boundVars
<1>14. CASE Check(p)
  <2>1. [NoJob EXCEPT !.kind = "check", !.step = "replay",
                      !.version = Candidate, !.serving = Serving] \in Job
    BY ReadsType DEF NoJob, Job
  <2>2. job' \in [Process -> Job]
    BY <1>0, <1>14, <2>1 DEF Check
  <2>. QED
    BY <1>14, <2>2 DEF Check, TypeOK, diskVars
<1>15. ASSUME NEW approving \in BOOLEAN, WriteApproval(p, approving)
       PROVE  TypeOK'
  <2>1. job[p].version \in Version /\ job[p].serving \in Version \cup {None}
    BY <1>0, <1>15 DEF WriteApproval, Job
  <2>2. [approving |-> approving, serving |-> job[p].serving] \in Report
    BY <2>1 DEF Report
  <2>. QED
    BY <1>0, <1>15, <2>1, <2>2 DEF WriteApproval, TypeOK, boundVars
<1>16. CASE Fail(p)
  BY <1>0, <1>16 DEF Fail, TypeOK, diskVars, boundVars
<1>17. CASE Kill(p)
  BY <1>0, <1>17 DEF Kill, TypeOK, diskVars
<1>. QED
  BY <1>1, <1>2, <1>4, <1>5, <1>6, <1>7, <1>8, <1>9, <1>10, <1>11, <1>12, <1>13, <1>14, <1>15,
     <1>16, <1>17 DEF Step

\* Every reachable state is well typed.
THEOREM TypeCorrect == Spec => []TypeOK
<1>1. Init => TypeOK
  BY InitType
<1>2. TypeOK /\ [Next]_vars => TypeOK'
  <2>1. ASSUME TypeOK, UNCHANGED vars
        PROVE  TypeOK'
    BY <2>1 DEF TypeOK, vars, diskVars, boundVars
  <2>. QED
    BY <2>1, StepType DEF Next
<1>. QED
  BY <1>1, <1>2, PTL DEF Spec

-----------------------------------------------------------------------------
(* The gate.  Records are only ever added for bundles that are there: a    *)
(* metadata file is rewritten with a promotion or not at all, and goes     *)
(* with its bundle.  So what could serve before a step still could.        *)

\* Most steps leave the bundles and their metadata alone.
LEMMA DirectorySteps ==
    ASSUME NEW p \in Process, Step(p)
    PROVE  UNCHANGED <<dirs, record>> \/ Train(p) \/ WriteMetadata(p) \/ Remove(p)
<1>1. ASSUME NEW v, Admit(p, v)
      PROVE  UNCHANGED <<dirs, record>>
  BY <1>1 DEF Admit, diskVars
<1>2. CASE Promote(p) \/ PromoteTrained(p)
  BY <1>1, <1>2 DEF Promote, PromoteTrained
<1>. QED
  BY <1>2 DEF Step, Register, Rollback, ReadMetadata, WriteTemp, Replace, ClearCandidate, Prune,
     Check, WriteApproval, Fail, Kill, diskVars

\* What was made stays made, and what was checked stays checked.
LEMMA PastGrows ==
    ASSUME TypeOK, NEW p \in Process, Step(p)
    PROVE  Past \subseteq Past' /\ passed \subseteq passed'
<1>1. ASSUME NEW v, Admit(p, v)
      PROVE  made' = made /\ passed' = passed
  BY <1>1 DEF Admit
<1>2. CASE Promote(p) \/ PromoteTrained(p)
  BY <1>1, <1>2 DEF Promote, PromoteTrained, Past
<1>3. CASE Train(p)
  BY <1>3 DEF Train, Past, TypeOK
<1>4. CASE Check(p)
  BY <1>4 DEF Check, Past
<1>5. ASSUME NEW approving \in BOOLEAN, WriteApproval(p, approving)
      PROVE  made' = made /\ passed \subseteq passed'
  BY <1>5 DEF WriteApproval, boundVars
<1>6. CASE Register(p) \/ Rollback(p) \/ ReadMetadata(p) \/ WriteMetadata(p) \/ WriteTemp(p)
           \/ Replace(p) \/ ClearCandidate(p) \/ Prune(p) \/ Remove(p) \/ Fail(p) \/ Kill(p)
  BY <1>6 DEF Register, Rollback, ReadMetadata, WriteMetadata, WriteTemp, Replace, ClearCandidate,
     Prune, Remove, Fail, Kill, boundVars, Past
<1>. QED
  BY <1>2, <1>3, <1>4, <1>5, <1>6 DEF Step, Past

\* No step takes a promotion record from a bundle that stays.
LEMMA RecordsStay ==
    ASSUME GateInv, NEW p \in Process, Step(p)
    PROVE  \A v \in Past : v \in dirs' => v \in dirs /\ (record[v] # None => record'[v] # None)
<1>0. /\ TypeOK /\ JobInv(job[p])
      /\ None \notin Version /\ dirs \in SUBSET Version
      /\ record \in [Version -> Promotion \cup {None}] /\ None \notin dirs'
  BY StepType, Bounds DEF GateInv, TypeOK
<1>1. CASE UNCHANGED <<dirs, record>>
  BY <1>1
<1>2. CASE Train(p)
  <2>1. made + 1 \notin Past
    BY <1>0, <1>2, Bounds DEF Train, Past, TypeOK, Version
  <2>. QED
    BY <1>2, <2>1 DEF Train
<1>3. CASE WriteMetadata(p)
  <2>1. job[p].facts # None
    BY <1>0, <1>3 DEF WriteMetadata, JobInv
  <2>. QED
    BY <1>0, <1>3, <2>1 DEF WriteMetadata
<1>4. CASE Remove(p)
  <2>1. PICK v : dirs' = dirs \ {v} /\ record' = [record EXCEPT ![v] = None]
    BY <1>4 DEF Remove
  <2>. QED
    BY <1>0, <2>1
<1>. QED
  BY <1>1, <1>2, <1>3, <1>4, DirectorySteps

\* What could serve, and what was said of a gate, stays so.
LEMMA StaysHonest ==
    ASSUME GateInv, NEW p \in Process, Step(p)
    PROVE  /\ \A v \in Past : Recorded(v) => Recorded(v)'
           /\ \A v, promotion : Honest(v, promotion) => Honest(v, promotion)'
<1>1. \A v \in Past : Recorded(v) => Recorded(v)'
  BY RecordsStay DEF Recorded
<1>2. ASSUME NEW v, NEW promotion, Honest(v, promotion)
      PROVE  Honest(v, promotion)'
  <2>1. promotion.displaced \in Past /\ Recorded(promotion.displaced)'
    BY <1>1, <1>2 DEF Honest
  <2>. QED
    BY <1>2, <2>1, PastGrows DEF Honest, GateInv
<1>. QED
  BY <1>1, <1>2

\* The bundles, their metadata and the two files that can become the serving pointer.
LEMMA DiskStep ==
    ASSUME GateInv, NEW p \in Process, Step(p)
    PROVE  DiskInv'
<1>0. /\ TypeOK /\ TypeOK' /\ DiskInv /\ JobInv(job[p])
      /\ None \notin Version /\ job[p] \in Job
  BY StepType, Bounds DEF GateInv, TypeOK
<1>1. dirs' \subseteq 1 .. made'
  <2>1. CASE Train(p)
    BY <1>0, <2>1 DEF Train, DiskInv, TypeOK
  <2>2. CASE ~Train(p)
    <3>1. dirs' \subseteq dirs
      BY <2>2, DirectorySteps DEF WriteMetadata, Remove
    <3>2. dirs' \subseteq Past'
      BY <1>0, <3>1, PastGrows DEF DiskInv, Past
    <3>. QED
      BY <1>0, <3>2 DEF Past, TypeOK
  <2>. QED
    BY <2>1, <2>2
<1>2. \A tag \in {pointer'["current"], temp'["current"]} : tag \in Past /\ Recorded(tag)
  <2>1. CASE WriteTemp(p)
    BY <1>0, <2>1 DEF WriteTemp, PointerOf, DiskInv, JobInv, TypeOK, PointerName
  <2>2. CASE Replace(p)
    BY <1>0, <2>2, Bounds DEF Replace, PointerOf, DiskInv, TypeOK, PointerName, Past, Recorded
  <2>3. CASE ClearCandidate(p)
    BY <1>0, <2>3 DEF ClearCandidate, DiskInv, TypeOK, PointerName
  <2>4. ASSUME NEW v, Admit(p, v)
        PROVE  UNCHANGED <<pointer, temp>>
    BY <2>4 DEF Admit, diskVars
  <2>5. CASE Promote(p) \/ PromoteTrained(p)
    BY <1>0, <2>4, <2>5 DEF Promote, PromoteTrained, DiskInv
  <2>6. CASE ~(WriteTemp(p) \/ Replace(p) \/ ClearCandidate(p) \/ Promote(p) \/ PromoteTrained(p))
    <3>1. UNCHANGED <<pointer, temp>>
      BY <2>6 DEF Step, Train, Register, Rollback, ReadMetadata, WriteMetadata, Prune, Remove,
         Check, WriteApproval, Fail, Kill, diskVars
    <3>. QED
      BY <1>0, <3>1 DEF DiskInv
  <2>. QED
    BY <2>1, <2>2, <2>3, <2>5, <2>6
<1>3. ASSUME NEW v \in Version, NEW promotion \in {record'[v]} \ {None}
      PROVE  Honest(v, promotion)
  <2>1. CASE UNCHANGED <<dirs, record>> \/ Train(p)
    BY <1>0, <1>3, <2>1 DEF Train, DiskInv
  <2>2. CASE WriteMetadata(p)
    BY <1>0, <1>3, <2>2 DEF WriteMetadata, DiskInv, JobInv, TypeOK
  <2>3. CASE Remove(p)
    <3>1. PICK w : record' = [record EXCEPT ![w] = None]
      BY <2>3 DEF Remove
    <3>. QED
      BY <1>0, <1>3, <3>1 DEF DiskInv, TypeOK
  <2>. QED
    BY <2>1, <2>2, <2>3, DirectorySteps
<1>4. \A tag \in {pointer'["current"], temp'["current"]} : tag \in Past' /\ Recorded(tag)'
  BY <1>2, PastGrows, StaysHonest, <1>0
<1>5. \A v \in Version : \A promotion \in {record'[v]} \ {None} : Honest(v, promotion)'
  BY <1>3, StaysHonest
<1>6. ReportInv'
  <2>1. ASSUME NEW approving \in BOOLEAN, WriteApproval(p, approving)
        PROVE  ReportInv'
    BY <1>0, <2>1 DEF WriteApproval, DiskInv, ReportInv, TypeOK
  <2>2. CASE Remove(p)
    BY <1>0, <2>2, PastGrows DEF Remove, DiskInv, ReportInv, TypeOK
  <2>3. ASSUME NEW v, Admit(p, v)
        PROVE  UNCHANGED report
    BY <2>3 DEF Admit, diskVars
  <2>4. CASE Promote(p) \/ PromoteTrained(p)
    BY <1>0, <2>3, <2>4, PastGrows DEF Promote, PromoteTrained, DiskInv, ReportInv
  <2>5. CASE /\ ~(Promote(p) \/ PromoteTrained(p) \/ Remove(p))
             /\ \A approving \in BOOLEAN : ~WriteApproval(p, approving)
    <3>1. UNCHANGED report
      BY <2>5 DEF Step, Train, Register, Rollback, ReadMetadata, WriteMetadata, WriteTemp, Replace,
         ClearCandidate, Prune, Check, Fail, Kill, diskVars
    <3>. QED
      BY <1>0, <3>1, PastGrows DEF DiskInv, ReportInv
  <2>. QED
    BY <2>1, <2>2, <2>4, <2>5
<1>. QED
  BY <1>1, <1>4, <1>5, <1>6 DEF DiskInv

\* A step changes the job of one process.
LEMMA OtherJobs ==
    ASSUME TypeOK, NEW p \in Process, Step(p)
    PROVE  \A q \in Process \ {p} : job'[q] = job[q]
<1>1. job \in [Process -> Job]
  BY DEF TypeOK
<1>2. ASSUME NEW v, Admit(p, v)
      PROVE  \A q \in Process \ {p} : job'[q] = job[q]
  BY <1>1, <1>2 DEF Admit
<1>3. CASE Promote(p) \/ PromoteTrained(p)
  BY <1>2, <1>3 DEF Promote, PromoteTrained
<1>4. CASE Rollback(p) \/ Remove(p)
  BY <1>1, <1>4 DEF Rollback, Remove
<1>5. CASE ~(Promote(p) \/ PromoteTrained(p) \/ Rollback(p) \/ Remove(p))
  BY <1>1, <1>5 DEF Step, Train, Register, ReadMetadata, WriteMetadata, WriteTemp, Replace,
     ClearCandidate, Prune, Check, WriteApproval, Fail, Kill
<1>. QED
  BY <1>3, <1>4, <1>5

\* The job a promotion starts with: the promotion it will record is honest, and if it
\* records none then the version serves already.
LEMMA AdmittedJob ==
    ASSUME GateInv, NEW p \in Process, NEW v, Admit(p, v)
    PROVE  JobInv(job'[p])
<1>0. /\ TypeOK /\ DiskInv /\ job'[p] = Promoting(v) /\ v \in dirs /\ v \in Version
      /\ None \notin Version /\ dirs \subseteq Past
  BY Bounds DEF GateInv, TypeOK, Admit, DiskInv, Past
<1>1. Serving \in Past /\ Recorded(Serving)
  BY <1>0 DEF Serving, Named, DiskInv, Past, Recorded, TypeOK
<1>2. CASE v = Serving
  BY <1>0, <1>1, <1>2 DEF Promoting, JobInv, NoJob
<1>3. CASE v # Serving
  <2>. DEFINE promotion == [gate |-> Gate(v), displaced |-> Serving, at |-> clock + 1]
  <2>1. Gate(v) = "approval_check" => <<v, Serving>> \in passed
    BY <1>0 DEF Gate, Approved, DiskInv, ReportInv
  <2>2. Honest(v, promotion)
    BY <1>1, <2>1 DEF Honest
  <2>3. /\ job'[p].version = v /\ job'[p].facts = promotion /\ job'[p].step = "record"
        /\ promotion # None
    <3>1. promotion \in Promotion
      <4>1. clock + 1 \in 1 .. MaxPromotions
        BY <1>0, <1>3, Bounds DEF Admit, TypeOK
      <4>2. Serving \in Version \cup {None} /\ Gate(v) \in {"bootstrap", "approval_check", "forced"}
        BY <1>0, ReadsType DEF Gate
      <4>. QED
        BY <4>1, <4>2 DEF Promotion
    <3>. HIDE DEF promotion
    <3>2. Promoting(v) = [NoJob EXCEPT !.kind = "promote", !.step = "record", !.version = v,
                                       !.facts = promotion]
      BY <1>3 DEF Promoting, promotion
    <3>. QED
      BY <1>0, <3>1, <3>2, NoneAssumption DEF NoJob
  <2>. HIDE DEF promotion
  <2>. QED
    BY <1>0, <2>2, <2>3 DEF JobInv
<1>. QED
  BY <1>2, <1>3

\* What is true of a job stays true while the job does not change.
LEMMA JobStays ==
    ASSUME GateInv, NEW p \in Process, Step(p), NEW j \in Job, JobInv(j)
    PROVE  JobInv(j)'
<1>1. j.version \in Past /\ j.version \in Past'
  BY PastGrows DEF JobInv, GateInv
<1>2. j.version \in dirs' => j.version \in dirs
  BY <1>1, RecordsStay
<1>. QED
  BY <1>1, <1>2, StaysHonest DEF JobInv

\* The job of the process that takes the step.
LEMMA OwnJob ==
    ASSUME GateInv, NEW p \in Process, Step(p), NEW j, j = job'[p]
    PROVE  JobInv(j)'
<1>0. /\ TypeOK /\ TypeOK' /\ DiskInv /\ JobInv(job[p]) /\ j \in Job
      /\ job \in [Process -> Job] /\ job[p] \in Job /\ None \notin Version
      /\ dirs \subseteq Past /\ dirs \subseteq Version
  BY StepType, Bounds DEF GateInv, TypeOK, DiskInv, Past
<1>1. ASSUME JobInv(j)
      PROVE  JobInv(j)'
  BY <1>0, <1>1, JobStays
<1>2. CASE Train(p)
  <2>1. /\ j = [NoJob EXCEPT !.kind = "train", !.step = "saved", !.version = made + 1]
        /\ made + 1 \in Past'
    BY <1>0, <1>2 DEF Train, Past, TypeOK
  <2>2. /\ j.version \in Past' /\ j.facts = None
        /\ j.step = "saved"
    BY <2>1 DEF NoJob
  <2>. QED
    BY <2>2 DEF JobInv
<1>3. CASE Promote(p) \/ PromoteTrained(p)
  BY <1>0, <1>1, <1>3, AdmittedJob DEF Promote, PromoteTrained
<1>4. CASE Register(p)
  <2>1. /\ j.kind = "register" /\ j.step = "point"
        /\ j.version = job[p].version /\ j.facts = job[p].facts
    BY <1>0, <1>4 DEF Register, Job
  <2>. QED
    BY <1>0, <1>1, <2>1 DEF JobInv
<1>5. CASE Rollback(p)
  <2>1. PICK v \in RollbackTargets :
            j = [NoJob EXCEPT !.kind = "rollback", !.step = "read", !.version = v]
    BY <1>0, <1>5 DEF Rollback
  <2>2. v \in dirs
    BY <1>0, <2>1, RollbackTargetType
  <2>3. ASSUME v = Displaced(Serving)
        PROVE  Recorded(v)
    <3>1. Metadata(Serving) # None /\ v = Metadata(Serving).displaced
      BY <1>0, <2>2, <2>3 DEF Displaced
    <3>2. Serving \in dirs /\ Metadata(Serving) = record[Serving]
      BY <3>1 DEF Metadata
    <3>3. Honest(Serving, record[Serving])
      BY <1>0, <3>1, <3>2 DEF DiskInv
    <3>. QED
      BY <3>1, <3>2, <3>3 DEF Honest
  <2>4. ASSUME v \in OncePromoted
        PROVE  Recorded(v)
    BY <2>4 DEF OncePromoted, Recorded
  <2>5. Recorded(v)
    <3>1. v = Displaced(Serving) \/ v \in OncePromoted
      BY <2>1 DEF RollbackTargets
    <3>. QED
      BY <2>3, <2>4, <3>1
  <2>6. j.version = v /\ j.facts = None /\ j.step = "read"
    BY <2>1 DEF NoJob
  <2>. QED
    BY <1>0, <1>1, <2>2, <2>5, <2>6 DEF JobInv
<1>6. CASE ReadMetadata(p)
  <2>1. /\ j.step = "record" /\ j.version = job[p].version
        /\ j.facts = Metadata(job[p].version)
    BY <1>0, <1>6 DEF ReadMetadata, Job
  <2>2. Recorded(job[p].version)
    BY <1>0, <1>6 DEF ReadMetadata, JobInv
  <2>3. j.version \in dirs => j.facts # None
    BY <2>1, <2>2 DEF Recorded, Metadata
  <2>4. j.facts # None => Honest(j.version, j.facts)
    BY <1>0, <2>1 DEF Metadata, DiskInv
  <2>. QED
    BY <1>0, <1>1, <2>1, <2>3, <2>4 DEF JobInv
<1>7. CASE WriteMetadata(p)
  <2>1. /\ j.step = "point" /\ j.version = job[p].version /\ j.facts = job[p].facts
        /\ j.version \in dirs
    BY <1>0, <1>7 DEF WriteMetadata, Job
  <2>2. /\ j.facts # None => Honest(j.version, j.facts)
        /\ j.facts # None /\ j.version \in Past
    BY <1>0, <1>7, <2>1 DEF WriteMetadata, JobInv
  <2>3. Recorded(j.version)'
    <3>1. record'[j.version] = j.facts
      BY <1>0, <1>7, <2>1 DEF WriteMetadata, TypeOK
    <3>. QED
      BY <2>2, <3>1 DEF Recorded
  <2>4. Honest(j.version, j.facts)'
    BY <2>2, StaysHonest
  <2>5. j.version \in Past'
    BY <1>0, <2>2, PastGrows
  <2>. QED
    BY <2>1, <2>3, <2>4, <2>5 DEF JobInv
<1>8. CASE WriteTemp(p)
  <2>1. /\ j.step = "swap" /\ job[p].step = "point"
        /\ j.kind = job[p].kind /\ j.version = job[p].version /\ j.facts = job[p].facts
    BY <1>0, <1>8 DEF WriteTemp, Job
  <2>. QED
    BY <1>0, <1>1, <2>1 DEF JobInv
<1>9. CASE ClearCandidate(p) \/ Prune(p) \/ Remove(p)
  <2>1. \/ j = NoJob
        \/ /\ j.step \in {"prune", "remove"}
           /\ j.version = job[p].version /\ j.facts = job[p].facts
    <3>1. CASE ClearCandidate(p)
      BY <1>0, <3>1 DEF ClearCandidate, Job
    <3>2. CASE Prune(p)
      BY <1>0, <3>2 DEF Prune, Job
    <3>3. CASE Remove(p)
      BY <1>0, <3>3 DEF Remove, Job
    <3>. QED
      BY <1>9, <3>1, <3>2, <3>3
  <2>. QED
    BY <1>0, <1>1, <2>1 DEF JobInv, NoJob, Past
<1>10. CASE Replace(p) \/ Fail(p) \/ Kill(p) \/ \E approving \in BOOLEAN : WriteApproval(p, approving)
  <2>1. j = NoJob \/ j = [NoJob EXCEPT !.kind = "promote", !.step = "clear"]
    <3>1. CASE Replace(p)
      BY <1>0, <3>1 DEF Replace
    <3>2. CASE Fail(p) \/ Kill(p)
      BY <1>0, <3>2 DEF Fail, Kill
    <3>3. ASSUME NEW approving \in BOOLEAN, WriteApproval(p, approving)
          PROVE  j = NoJob
      BY <1>0, <3>3 DEF WriteApproval
    <3>. QED
      BY <1>10, <3>1, <3>2, <3>3
  <2>2. j.step \in {"done", "clear"} /\ j.version = None /\ j.facts = None
    <3>1. CASE j = NoJob
      BY <3>1 DEF NoJob
    <3>2. CASE j = [NoJob EXCEPT !.kind = "promote", !.step = "clear"]
      BY <3>2 DEF NoJob
    <3>. QED
      BY <2>1, <3>1, <3>2
  <2>. QED
    BY <1>1, <2>2 DEF JobInv, Past
<1>11. CASE Check(p)
  <2>1. j.step = "replay" /\ j.version = Candidate /\ j.facts = None
    BY <1>0, <1>11 DEF Check, NoJob
  <2>2. Candidate \in Past
    BY <1>0, ReadsType DEF Past
  <2>. QED
    BY <1>0, <1>1, <2>1, <2>2 DEF JobInv
<1>. QED
  BY <1>2, <1>3, <1>4, <1>5, <1>6, <1>7, <1>8, <1>9, <1>10, <1>11
  DEF Step

\* The gate's invariant, over any number of processes.
LEMMA GateInvariant == Spec => []GateInv
<1>1. Init => GateInv
  <2>1. ASSUME Init
        PROVE  DiskInv /\ \A p \in Process : \A j \in {job[p]} : JobInv(j)
    BY <2>1, Bounds DEF Init, DiskInv, ReportInv, JobInv, NoJob, Past, PointerName, Recorded
  <2>. QED
    BY <2>1, InitType DEF GateInv
<1>2. GateInv /\ [Next]_vars => GateInv'
  <2>1. ASSUME GateInv, NEW p \in Process, Step(p)
        PROVE  GateInv'
    <3>1. TypeOK' /\ DiskInv'
      BY <2>1, StepType, DiskStep DEF GateInv
    <3>2. ASSUME NEW q \in Process \ {p}, NEW j, j = job'[q]
          PROVE  JobInv(j)'
      <4>1. j = job[q] /\ j \in Job /\ JobInv(j)
        BY <2>1, <3>2, OtherJobs DEF GateInv, TypeOK
      <4>. QED
        BY <2>1, <4>1, JobStays
    <3>3. \A q \in Process : \A j \in {job'[q]} : JobInv(j)'
      BY <2>1, <3>2, OwnJob
    <3>. QED
      BY <3>1, <3>3 DEF GateInv
  <2>2. ASSUME GateInv, UNCHANGED vars
        PROVE  GateInv'
    BY <2>2 DEF GateInv, TypeOK, DiskInv, ReportInv, JobInv, Honest, Recorded, Past, vars,
       diskVars, boundVars
  <2>. QED
    BY <2>1, <2>2 DEF Next
<1>. QED
  BY <1>1, <1>2, PTL DEF Spec

\* Whatever overlaps and whatever is killed, what serves has been through the gate.
THEOREM GateHolds == Spec => []ServesVetted
<1>1. GateInv => ServesVetted
  <2>1. ASSUME GateInv, Serving # None
        PROVE  Vetted(Serving)
    <3>1. Serving \in dirs /\ Recorded(Serving) /\ Serving \in Version
      BY <2>1 DEF Serving, Named, GateInv, DiskInv, TypeOK
    <3>. QED
      BY <3>1, <2>1 DEF Recorded, Vetted, GateInv, DiskInv, Honest
  <2>. QED
    BY <2>1 DEF ServesVetted
<1>. QED
  BY <1>1, GateInvariant, PTL

\* No step, and no rewriting of metadata, loses the promotion of a bundle that stays.
THEOREM RecordsAreKept == Spec => RecordsKept
<1>1. GateInv /\ [Next]_vars
        => [\A v \in dirs \cap dirs' : record[v] # None => record'[v] # None]_vars
  <2>1. ASSUME GateInv, NEW p \in Process, Step(p)
        PROVE  \A v \in dirs \cap dirs' : record[v] # None => record'[v] # None
    BY <2>1, RecordsStay DEF GateInv, DiskInv, Past
  <2>. QED
    BY <2>1 DEF Next
<1>. QED
  BY <1>1, GateInvariant, PTL DEF Spec, RecordsKept


-----------------------------------------------------------------------------
(* Pruning and rollback, while no two processes move the serving pointer   *)
(* at once.  Then the one that does knows what serves, from the moment it  *)
(* is admitted: no other step changes the pointer, the temporary file it   *)
(* is replaced with, or the metadata of the version that serves.           *)

Moving(j) == j.kind \in {"promote", "rollback"}

\* The steps that a kind of job takes.
InCourse(j) ==
    /\ j.step \in {"clear", "prune", "remove"} => j.kind = "promote" /\ j.facts = None
    /\ j.step = "read" => j.kind = "rollback"
    /\ j.step = "record" => Moving(j)
    /\ j.step \in {"point", "swap"} => Moving(j) \/ j.kind = "register"
    /\ j.facts # None => Moving(j)

CourseInv == TypeOK /\ \A p \in Process : InCourse(job[p])

\* What the job that moves the pointer may rely on.
Placed(j) ==
    /\ j.step \in {"read", "record", "point", "swap"} => j.version \in dirs
    /\ j.step = "swap" => temp["current"] = j.version
    /\ j.step \in {"read", "record"} => j.version # Serving
    /\ j.kind = "promote" /\ j.facts # None =>
        /\ j.version # Serving /\ j.facts.displaced = Serving
        /\ j.step \in {"point", "swap"} => record[j.version] = j.facts
    /\ j.kind = "promote" /\ j.facts = None /\ j.step \in {"record", "point", "swap"} =>
         j.version = Serving
    /\ j.step = "remove" => Serving \notin j.doomed /\ Displaced(Serving) \notin j.doomed

Alone == \A p, q \in Process : Moving(job[p]) /\ Moving(job[q]) => p = q

Present == pointer["current"] # None => pointer["current"] \in dirs

\* A rollback would return to the version that the last promotion displaced.
Returns ==
    before # None /\ Serving # None =>
        Displaced(Serving) = before /\ before \in dirs /\ before # Serving

HoldInv ==
    ~contended =>
        /\ Alone /\ Present /\ Returns
        /\ \A p \in Process : \A j \in {job[p]} : Moving(j) => Placed(j)


LEMMA CourseStep ==
    ASSUME TypeOK, NEW p \in Process, InCourse(job[p]), Step(p)
    PROVE  InCourse(job'[p])
<1>0. job \in [Process -> Job] /\ job[p] \in Job /\ None \notin Version
  BY Bounds DEF TypeOK
<1>1. CASE job'[p] = NoJob
  BY <1>1 DEF InCourse, NoJob
<1>2. CASE Train(p)
  <2>1. job'[p] = [NoJob EXCEPT !.kind = "train", !.step = "saved", !.version = made + 1]
    BY <1>0, <1>2 DEF Train
  <2>2. job'[p].step = "saved" /\ job'[p].facts = None
    BY <2>1 DEF NoJob
  <2>. QED
    BY <2>2 DEF InCourse
<1>3. CASE Register(p)
  <2>1. /\ job'[p].kind = "register" /\ job'[p].step = "point" /\ job'[p].facts = job[p].facts
        /\ job[p].kind = "train"
    BY <1>0, <1>3 DEF Register, Job
  <2>. QED
    BY <2>1 DEF InCourse, Moving
<1>4. ASSUME NEW v, Admit(p, v)
      PROVE  InCourse(job'[p])
  <2>1. job'[p] = Promoting(v)
    BY <1>0, <1>4 DEF Admit
  <2>2. job'[p].kind = "promote" /\ job'[p].step \in {"point", "record"}
    <3>. DEFINE promotion == [gate |-> Gate(v), displaced |-> Serving, at |-> clock + 1]
    <3>1. \/ job'[p] = [NoJob EXCEPT !.kind = "promote", !.step = "point", !.version = v]
          \/ job'[p] = [NoJob EXCEPT !.kind = "promote", !.step = "record", !.version = v,
                                     !.facts = promotion]
      BY <2>1 DEF Promoting
    <3>. HIDE DEF promotion
    <3>. QED
      BY <3>1 DEF NoJob
  <2>. QED
    BY <2>2 DEF InCourse, Moving
<1>5. CASE Promote(p) \/ PromoteTrained(p)
  BY <1>4, <1>5 DEF Promote, PromoteTrained
<1>6. CASE Rollback(p)
  <2>1. PICK v : job'[p] = [NoJob EXCEPT !.kind = "rollback", !.step = "read", !.version = v]
    BY <1>0, <1>6 DEF Rollback
  <2>2. job'[p].kind = "rollback" /\ job'[p].step = "read"
    BY <2>1 DEF NoJob
  <2>. QED
    BY <2>2 DEF InCourse, Moving
<1>7. CASE ReadMetadata(p)
  <2>1. job'[p].kind = job[p].kind /\ job'[p].step = "record" /\ job[p].step = "read"
    BY <1>0, <1>7 DEF ReadMetadata, Job
  <2>. QED
    BY <2>1 DEF InCourse, Moving
<1>8. CASE WriteMetadata(p) \/ WriteTemp(p)
  <2>1. /\ job'[p].kind = job[p].kind /\ job'[p].facts = job[p].facts
        /\ job'[p].step \in {"point", "swap"} /\ job[p].step \in {"record", "point"}
    BY <1>0, <1>8 DEF WriteMetadata, WriteTemp, Job
  <2>. QED
    BY <2>1 DEF InCourse, Moving
<1>9. CASE Replace(p) /\ job'[p] # NoJob
  <2>1. job'[p] = [NoJob EXCEPT !.kind = "promote", !.step = "clear"]
    BY <1>0, <1>9 DEF Replace
  <2>2. job'[p].kind = "promote" /\ job'[p].step = "clear" /\ job'[p].facts = None
    BY <2>1 DEF NoJob
  <2>. QED
    BY <2>2 DEF InCourse, Moving
<1>10. CASE (ClearCandidate(p) \/ Prune(p) \/ Remove(p)) /\ job'[p] # NoJob
  <2>1. /\ job'[p].kind = job[p].kind /\ job'[p].facts = job[p].facts
        /\ job'[p].step \in {"prune", "remove"} /\ job[p].step \in {"clear", "prune", "remove"}
    <3>1. CASE ClearCandidate(p)
      BY <1>0, <3>1 DEF ClearCandidate, Job
    <3>2. CASE Prune(p)
      BY <1>0, <1>10, <3>2 DEF Prune, Job
    <3>3. CASE Remove(p)
      BY <1>0, <1>10, <3>3 DEF Remove, Job
    <3>. QED
      BY <1>10, <3>1, <3>2, <3>3
  <2>. QED
    BY <2>1 DEF InCourse, Moving
<1>11. CASE Check(p)
  <2>1. job'[p].step = "replay" /\ job'[p].facts = None
    BY <1>0, <1>11 DEF Check, NoJob
  <2>. QED
    BY <2>1 DEF InCourse
<1>12. CASE Fail(p) \/ Kill(p) \/ \E approving \in BOOLEAN : WriteApproval(p, approving)
  BY <1>0, <1>1, <1>12 DEF Fail, Kill, WriteApproval
<1>. QED
  BY <1>1, <1>2, <1>3, <1>5, <1>6, <1>7, <1>8, <1>9, <1>10, <1>11, <1>12 DEF Step

LEMMA CourseInvariant == Spec => []CourseInv
<1>1. Init => CourseInv
  BY InitType DEF Init, CourseInv, InCourse, NoJob
<1>2. CourseInv /\ [Next]_vars => CourseInv'
  <2>1. ASSUME CourseInv, NEW p \in Process, Step(p)
        PROVE  CourseInv'
    <3>1. \A q \in Process : InCourse(job'[q])
      BY <2>1, CourseStep, OtherJobs DEF CourseInv
    <3>. QED
      BY <2>1, <3>1, StepType DEF CourseInv, InCourse, Moving
  <2>2. ASSUME CourseInv, UNCHANGED vars
        PROVE  CourseInv'
    BY <2>2 DEF CourseInv, TypeOK, InCourse, Moving, vars, diskVars, boundVars
  <2>. QED
    BY <2>1, <2>2 DEF Next
<1>. QED
  BY <1>1, <1>2, PTL DEF Spec

-----------------------------------------------------------------------------
\* A step that takes no bundle away and touches neither the metadata of those there
\* are, nor the serving pointer and its temporary file.
Apart ==
    /\ dirs \subseteq dirs' /\ \A v \in dirs : record'[v] = record[v]
    /\ pointer'["current"] = pointer["current"] /\ temp'["current"] = temp["current"]

LEMMA ServingIs ==
    ASSUME TypeOK, Present
    PROVE  Serving = pointer["current"] /\ (Serving = None \/ Serving \in dirs)
BY Bounds DEF TypeOK, Present, Serving, Named

LEMMA ApartKeeps ==
    ASSUME TypeOK, TypeOK', Present, Apart
    PROVE  /\ Present'
           /\ Serving' = Serving /\ Displaced(Serving)' = Displaced(Serving)
           /\ \A j \in Job : Moving(j) /\ Placed(j) => Placed(j)'
<1>1. Present'
  BY DEF Present, Apart
<1>2. Serving' = Serving
  BY <1>1, ServingIs DEF Serving, Named, Present, Apart
<1>3. Displaced(Serving)' = Displaced(Serving)
  <2>1. None \notin dirs /\ None \notin dirs'
    BY Bounds DEF TypeOK
  <2>2. Metadata(Serving)' = Metadata(Serving)
    BY <1>2, <2>1, ServingIs DEF Metadata, Apart
  <2>. QED
    BY <2>2 DEF Displaced
<1>4. ASSUME NEW j \in Job, Moving(j), Placed(j)
      PROVE  Placed(j)'
  <2>1. j.step \in {"point", "swap"} => j.version \in dirs /\ record'[j.version] = record[j.version]
    BY <1>4 DEF Placed, Apart
  <2>. QED
    BY <1>2, <1>3, <1>4, <2>1 DEF Placed, Apart
<1>. QED
  BY <1>1, <1>2, <1>3, <1>4


\* What is left to show of a step that stays apart: its own job.
LEMMA ApartHolds ==
    ASSUME TypeOK, TypeOK', HoldInv, ~contended, NEW p \in Process,
           \A q \in Process \ {p} : job'[q] = job[q],
           Apart, before' = before,
           \A j \in {job'[p]} :
               Moving(j) => Placed(j)' /\ \A q \in Process \ {p} : ~Moving(job[q])
    PROVE  HoldInv'
<1>1. /\ Alone /\ Present /\ Returns
      /\ \A q \in Process : \A j \in {job[q]} : Moving(j) => Placed(j)
  BY DEF HoldInv
<1>2. /\ Present' /\ Serving' = Serving /\ Displaced(Serving)' = Displaced(Serving)
      /\ \A j \in Job : Moving(j) /\ Placed(j) => Placed(j)'
  BY <1>1, ApartKeeps
<1>3. Returns'
  BY <1>1, <1>2 DEF Returns, Apart
<1>4. Alone'
  <2>1. ASSUME NEW q \in Process, NEW r \in Process, Moving(job'[q]), Moving(job'[r]), q # r
        PROVE  FALSE
    <3>1. CASE q = p
      BY <2>1, <3>1
    <3>2. CASE r = p
      BY <2>1, <3>2
    <3>3. CASE q # p /\ r # p
      BY <1>1, <2>1, <3>3 DEF Alone
    <3>. QED
      BY <3>1, <3>2, <3>3
  <2>. QED
    BY <2>1 DEF Alone, Moving
<1>5. ASSUME NEW q \in Process, NEW j \in {job'[q]}, Moving(j)
      PROVE  Placed(j)'
  <2>1. CASE q = p
    BY <1>5, <2>1
  <2>2. CASE q # p
    <3>1. j = job[q] /\ job[q] \in Job
      BY <1>5, <2>2 DEF TypeOK
    <3>. QED
      BY <1>1, <1>2, <1>5, <3>1
  <2>. QED
    BY <2>1, <2>2
<1>. QED
  BY <1>2, <1>3, <1>4, <1>5 DEF HoldInv


\* What a job starts with that is admitted, or that a rollback has found a target for.
LEMMA AdmittedPlace ==
    ASSUME TypeOK, HoldInv, ~contended, NEW p \in Process, NEW v, Admit(p, v), NEW j \in {job'[p]}
    PROVE  Placed(j)
<1>0. /\ job \in [Process -> Job] /\ v \in dirs /\ v \in Version /\ None \notin Version
      /\ j = Promoting(v)
  BY Bounds DEF TypeOK, Admit
<1>1. CASE v = Serving
  <2>1. j = [NoJob EXCEPT !.kind = "promote", !.step = "point", !.version = v]
    BY <1>0, <1>1 DEF Promoting
  <2>2. j.kind = "promote" /\ j.step = "point" /\ j.version = v /\ j.facts = None
    BY <2>1 DEF NoJob
  <2>. QED
    BY <1>0, <1>1, <2>2 DEF Placed
<1>2. CASE v # Serving
  <2>. DEFINE promotion == [gate |-> Gate(v), displaced |-> Serving, at |-> clock + 1]
  <2>1. promotion.displaced = Serving
    OBVIOUS
  <2>2. promotion \in Promotion
    <3>1. clock + 1 \in 1 .. MaxPromotions
      BY <1>0, <1>2, Bounds DEF Admit, TypeOK
    <3>2. Serving \in Version \cup {None} /\ Gate(v) \in {"bootstrap", "approval_check", "forced"}
      BY <1>0, ReadsType DEF Gate
    <3>. QED
      BY <3>1, <3>2 DEF Promotion
  <2>3. j = [NoJob EXCEPT !.kind = "promote", !.step = "record", !.version = v, !.facts = promotion]
    BY <1>0, <1>2 DEF Promoting
  <2>. HIDE DEF promotion
  <2>4. j.kind = "promote" /\ j.step = "record" /\ j.version = v /\ j.facts = promotion
    BY <2>3 DEF NoJob
  <2>5. promotion # None
    BY <2>2, NoneAssumption
  <2>. QED
    BY <1>0, <1>2, <2>1, <2>4, <2>5 DEF Placed
<1>. QED
  BY <1>1, <1>2

LEMMA RollbackTargetNotServing ==
    ASSUME TypeOK
    PROVE  Serving \notin RollbackTargets
BY DEF RollbackTargets, OncePromoted

\* The steps that leave the bundles, their metadata and the serving pointer alone.
LEMMA HoldsApart ==
    ASSUME TypeOK, TypeOK', HoldInv, ~contended', NEW p \in Process, InCourse(job[p]),
           InCourse(job'[p]), Step(p), ~WriteMetadata(p), ~Remove(p),
           Replace(p) \/ WriteTemp(p) => job[p].kind = "register"
    PROVE  HoldInv'
<1>0. /\ job \in [Process -> Job] /\ job[p] \in Job /\ None \notin Version
      /\ dirs \in SUBSET Version /\ made \in Nat
      /\ \A q \in Process \ {p} : job'[q] = job[q]
  BY OtherJobs, Bounds DEF TypeOK
<1>1. ~contended
  <2>1. ASSUME NEW v, Admit(p, v)
        PROVE  ~contended
    BY <2>1 DEF Admit, NoteContention
  <2>. QED
    BY <2>1 DEF Step, Train, Register, PromoteTrained, Promote, Rollback, ReadMetadata, WriteTemp, Replace,
       ClearCandidate, Prune, Check, WriteApproval, Fail, Kill, NoteContention
<1>2. /\ Alone /\ Present
      /\ \A q \in Process : \A j \in {job[q]} : Moving(j) => Placed(j)
  BY <1>1 DEF HoldInv
<1>3. ASSUME Moving(job[p]), NEW q \in Process \ {p}
      PROVE  ~Moving(job[q])
  BY <1>2, <1>3 DEF Alone
<1>4. /\ before' = before
      /\ \/ UNCHANGED <<dirs, record>>
         \/ Train(p)
      /\ pointer'["current"] = pointer["current"] /\ temp'["current"] = temp["current"]
  <2>1. ASSUME NEW v, Admit(p, v)
        PROVE  UNCHANGED <<before, dirs, record, pointer, temp>>
    BY <2>1 DEF Admit, diskVars
  <2>2. CASE Promote(p) \/ PromoteTrained(p)
    BY <2>1, <2>2 DEF Promote, PromoteTrained
  <2>3. CASE Replace(p)
    <3>1. job[p].kind = "register" /\ job[p].facts = None
      BY <2>3 DEF InCourse, Moving
    <3>. QED
      BY <1>0, <1>1, <2>3, <3>1 DEF Replace, PointerOf, TypeOK, PointerName
  <2>4. CASE WriteTemp(p)
    BY <1>0, <2>4 DEF WriteTemp, PointerOf, TypeOK, PointerName
  <2>5. CASE ClearCandidate(p)
    BY <1>0, <2>5 DEF ClearCandidate, TypeOK, PointerName
  <2>6. CASE Train(p) \/ Register(p) \/ Rollback(p) \/ ReadMetadata(p) \/ Prune(p) \/ Check(p)
             \/ Fail(p) \/ Kill(p) \/ \E approving \in BOOLEAN : WriteApproval(p, approving)
    BY <2>6 DEF Train, Register, Rollback, ReadMetadata, Prune, Check, WriteApproval, Fail, Kill, diskVars
  <2>. QED
    BY <2>2, <2>3, <2>4, <2>5, <2>6 DEF Step
<1>5. Apart
  <2>1. CASE Train(p)
    BY <1>4, <2>1 DEF Train, Apart
  <2>. QED
    BY <1>4, <2>1 DEF Apart
<1>6. /\ Serving' = Serving /\ Displaced(Serving)' = Displaced(Serving)
      /\ \A j \in Job : Moving(j) /\ Placed(j) => Placed(j)'
  BY <1>2, <1>5, ApartKeeps
\* The jobs that may start now, or go on.
<1>7. ASSUME NEW j \in {job'[p]}, Moving(j)
      PROVE  Placed(j)' /\ \A q \in Process \ {p} : ~Moving(job[q])
  <2>0. j \in Job
    BY <1>7 DEF TypeOK
  <2>1. ASSUME NEW v, Admit(p, v)
        PROVE  Placed(j)' /\ \A q \in Process \ {p} : ~Moving(job[q])
    <3>1. \A q \in Process \ {p} : ~Moving(job[q])
      BY <2>1 DEF Admit, NoteContention, Moving
    <3>2. Placed(j)
      BY <1>1, <2>1, AdmittedPlace
    <3>. QED
      BY <1>6, <1>7, <2>0, <3>1, <3>2
  <2>2. CASE Promote(p) \/ PromoteTrained(p)
    BY <2>1, <2>2 DEF Promote, PromoteTrained
  <2>3. CASE Rollback(p)
    <3>1. \A q \in Process \ {p} : ~Moving(job[q])
      BY <2>3 DEF Rollback, NoteContention, Moving
    <3>2. PICK v \in RollbackTargets :
            j = [NoJob EXCEPT !.kind = "rollback", !.step = "read", !.version = v]
      BY <1>0, <2>3 DEF Rollback
    <3>3. v \in dirs /\ v # Serving
      BY <3>2, RollbackTargetType, RollbackTargetNotServing
    <3>4. j.kind = "rollback" /\ j.step = "read" /\ j.version = v
      BY <3>2 DEF NoJob
    <3>5. Placed(j)
      BY <3>3, <3>4 DEF Placed
    <3>. QED
      BY <1>6, <1>7, <2>0, <3>1, <3>5
  <2>4. CASE ReadMetadata(p)
    <3>1. /\ j.kind = job[p].kind /\ j.step = "record" /\ j.version = job[p].version
          /\ job[p].step = "read" /\ Moving(job[p])
      BY <1>0, <2>4 DEF ReadMetadata, Job, InCourse, Moving
    <3>2. Placed(job[p])
      BY <1>2, <3>1
    <3>3. /\ j.kind = "rollback" /\ j.step = "record"
          /\ j.version \in dirs /\ j.version # Serving
      BY <2>4, <3>1, <3>2 DEF InCourse, Placed
    <3>4. Placed(j)
      BY <3>3 DEF Placed
    <3>. QED
      BY <1>3, <1>6, <1>7, <2>0, <3>1, <3>4
  <2>5. CASE ClearCandidate(p) \/ Prune(p)
    <3>1. /\ job[p].step \in {"clear", "prune"} /\ job[p].kind = "promote" /\ job[p].facts = None
          /\ Moving(job[p])
      BY <2>5 DEF ClearCandidate, Prune, InCourse, Moving
    <3>2. /\ j.kind = "promote" /\ j.facts = None
          /\ \/ j.step = "prune"
             \/ j.step = "remove" /\ j.doomed = Prunable
      <4>1. CASE ClearCandidate(p)
        BY <1>0, <3>1, <4>1 DEF ClearCandidate, Job
      <4>2. CASE Prune(p) /\ Prunable = {}
        <5>1. j = NoJob
          BY <1>0, <4>2 DEF Prune
        <5>. QED
          BY <1>7, <5>1 DEF Moving, NoJob
      <4>3. CASE Prune(p) /\ Prunable # {}
        BY <1>0, <3>1, <4>3 DEF Prune, Job
      <4>. QED
        BY <2>5, <4>1, <4>2, <4>3
    <3>3. Serving \notin Prunable /\ Displaced(Serving) \notin Prunable
      BY DEF Prunable, Protected
    <3>4. Placed(j)
      BY <3>2, <3>3 DEF Placed
    <3>. QED
      BY <1>3, <1>6, <1>7, <2>0, <3>1, <3>4
  <2>6. CASE \/ Train(p) \/ Register(p) \/ WriteTemp(p) \/ Replace(p) \/ Check(p)
             \/ Fail(p) \/ Kill(p) \/ \E approving \in BOOLEAN : WriteApproval(p, approving)
    <3>1. CASE Train(p)
      <4>1. j = [NoJob EXCEPT !.kind = "train", !.step = "saved", !.version = made + 1]
        BY <1>0, <3>1 DEF Train
      <4>2. j.kind = "train"
        BY <4>1 DEF NoJob
      <4>. QED
        BY <1>7, <4>2 DEF Moving
    <3>2. CASE Register(p) \/ WriteTemp(p)
      <4>1. j.kind = "register"
        BY <1>0, <3>2 DEF Register, WriteTemp, Job
      <4>. QED
        BY <1>7, <4>1 DEF Moving
    <3>3. CASE Replace(p)
      <4>1. j = NoJob
        BY <1>0, <3>3 DEF Replace
      <4>. QED
        BY <1>7, <4>1 DEF Moving, NoJob
    <3>4. CASE Check(p)
      <4>1. j.kind = "check"
        BY <1>0, <3>4 DEF Check, NoJob
      <4>. QED
        BY <1>7, <4>1 DEF Moving
    <3>5. CASE Fail(p) \/ Kill(p) \/ \E approving \in BOOLEAN : WriteApproval(p, approving)
      <4>1. j = NoJob
        BY <1>0, <3>5 DEF Fail, Kill, WriteApproval
      <4>. QED
        BY <1>7, <4>1 DEF Moving, NoJob
    <3>. QED
      BY <2>6, <3>1, <3>2, <3>3, <3>4, <3>5
  <2>. QED
    BY <2>2, <2>3, <2>4, <2>5, <2>6 DEF Step
<1>. QED
  BY <1>0, <1>1, <1>4, <1>5, <1>7, ApartHolds


\* The steps of the one job that moves the pointer which others could be disturbed by.
LEMMA HoldsMove ==
    ASSUME TypeOK, TypeOK', HoldInv, ~contended', NEW p \in Process, InCourse(job[p]),
           InCourse(job'[p]),
           \/ WriteMetadata(p) \/ Remove(p)
           \/ (Replace(p) \/ WriteTemp(p)) /\ job[p].kind # "register"
    PROVE  HoldInv'
<1>0. /\ job \in [Process -> Job] /\ job[p] \in Job /\ None \notin Version
      /\ dirs \in SUBSET Version /\ record \in [Version -> Promotion \cup {None}]
      /\ pointer \in [PointerName -> Version \cup {None}] /\ temp \in [PointerName -> Version \cup {None}]
      /\ "current" \in PointerName /\ contended' = contended
      /\ \A q \in Process \ {p} : job'[q] = job[q]
  BY OtherJobs, Bounds DEF TypeOK, Step, WriteMetadata, Remove, Replace, WriteTemp, PointerName
<1>1. /\ Alone /\ Present /\ Returns
      /\ \A q \in Process : \A j \in {job[q]} : Moving(j) => Placed(j)
  BY <1>0 DEF HoldInv
<1>2. Moving(job[p])
  BY DEF InCourse, Moving, WriteMetadata, Remove, Replace, WriteTemp
<1>3. Placed(job[p]) /\ \A q \in Process \ {p} : ~Moving(job'[q])
  BY <1>0, <1>1, <1>2 DEF Alone
<1>4. Serving = pointer["current"] /\ (Serving = None \/ Serving \in dirs)
  BY <1>1, ServingIs
<1>5. Alone'
  BY <1>3 DEF Alone, Moving
<1>6. SUFFICES Present' /\ Returns' /\ \A j \in {job'[p]} : Moving(j) => Placed(j)'
  <2>1. ASSUME NEW q \in Process, NEW j \in {job'[q]}, Moving(j), q # p
        PROVE  FALSE
    BY <1>3, <2>1
  <2>. QED
    BY <1>5, <2>1 DEF HoldInv
<1>7. CASE WriteMetadata(p)
  <2>. DEFINE v == job[p].version
  <2>1. /\ v \in dirs /\ record' = [record EXCEPT ![v] = job[p].facts]
        /\ job[p].step = "record" /\ job' = [job EXCEPT ![p].step = "point"]
        /\ UNCHANGED <<dirs, pointer, temp, before>>
    BY <1>7 DEF WriteMetadata
  <2>2. v # Serving
    BY <1>3, <2>1 DEF Placed
  <2>. HIDE DEF v
  <2>3. Serving' = Serving /\ Present'
    BY <1>1, <1>4, <2>1 DEF Serving, Named, Present
  <2>4. Displaced(Serving)' = Displaced(Serving)
    <3>1. Metadata(Serving)' = Metadata(Serving)
      BY <1>0, <1>4, <2>1, <2>2, <2>3 DEF Metadata
    <3>. QED
      BY <3>1 DEF Displaced
  <2>5. Returns'
    BY <1>1, <2>1, <2>3, <2>4 DEF Returns
  <2>6. ASSUME NEW j \in {job'[p]}, Moving(j)
        PROVE  Placed(j)'
    <3>1. /\ j.kind = job[p].kind /\ j.facts = job[p].facts /\ j.version = v /\ j.step = "point"
      BY <1>0, <2>1 DEF Job, v
    <3>2. record'[v] = job[p].facts
      BY <1>0, <2>1
    <3>3. /\ job[p].kind = "promote" /\ job[p].facts # None =>
               v # Serving /\ job[p].facts.displaced = Serving
          /\ job[p].kind = "promote" /\ job[p].facts = None => v = Serving
      BY <1>3, <2>1 DEF Placed, v
    <3>. QED
      BY <2>1, <2>3, <3>1, <3>2, <3>3 DEF Placed
  <2>. QED
    BY <2>3, <2>5, <2>6
<1>8. CASE WriteTemp(p) /\ job[p].kind # "register"
  <2>1. /\ temp' = [temp EXCEPT !["current"] = job[p].version]
        /\ job' = [job EXCEPT ![p].step = "swap"] /\ job[p].step = "point"
        /\ UNCHANGED <<dirs, record, pointer, before>>
    BY <1>8 DEF WriteTemp, PointerOf
  <2>2. Serving' = Serving /\ Displaced(Serving)' = Displaced(Serving) /\ Present'
    BY <1>1, <2>1 DEF Serving, Named, Displaced, Metadata, Present
  <2>3. Returns'
    BY <1>1, <2>1, <2>2 DEF Returns
  <2>4. ASSUME NEW j \in {job'[p]}, Moving(j)
        PROVE  Placed(j)'
    <3>1. /\ j.kind = job[p].kind /\ j.facts = job[p].facts /\ j.version = job[p].version
          /\ j.step = "swap" /\ temp'["current"] = job[p].version
      BY <1>0, <2>1 DEF Job
    <3>2. /\ job[p].version \in dirs
          /\ job[p].kind = "promote" /\ job[p].facts # None =>
               /\ job[p].version # Serving /\ job[p].facts.displaced = Serving
               /\ record[job[p].version] = job[p].facts
          /\ job[p].kind = "promote" /\ job[p].facts = None => job[p].version = Serving
      BY <1>3, <2>1 DEF Placed
    <3>. QED
      BY <2>1, <2>2, <3>1, <3>2 DEF Placed
  <2>. QED
    BY <2>2, <2>3, <2>4
<1>9. CASE Replace(p) /\ job[p].kind # "register"
  <2>. DEFINE v == job[p].version
  <2>1. /\ job[p].step = "swap" /\ pointer' = [pointer EXCEPT !["current"] = temp["current"]]
        /\ UNCHANGED <<dirs, record>>
        /\ job'[p] = IF job[p].kind = "promote" THEN [NoJob EXCEPT !.kind = "promote", !.step = "clear"]
                     ELSE NoJob
        /\ before' = IF job[p].kind = "rollback" \/ contended THEN None
                     ELSE IF job[p].facts # None THEN job[p].facts.displaced
                     ELSE before
    BY <1>0, <1>9 DEF Replace, PointerOf
  <2>2. temp["current"] = v /\ v \in dirs
    BY <1>3, <2>1 DEF Placed
  <2>. HIDE DEF v
  <2>3. pointer'["current"] = v /\ Serving' = v /\ Present'
    BY <1>0, <2>1, <2>2 DEF Present, Serving, Named
  <2>4. ASSUME NEW j \in {job'[p]}, Moving(j)
        PROVE  Placed(j)'
    <3>1. CASE job[p].kind = "promote"
      <4>1. j.kind = "promote" /\ j.step = "clear" /\ j.facts = None
        BY <2>1, <3>1 DEF NoJob
      <4>. QED
        BY <4>1 DEF Placed
    <3>2. CASE job[p].kind # "promote"
      BY <2>1, <2>4, <3>2 DEF NoJob, Moving
    <3>. QED
      BY <3>1, <3>2
  <2>5. Returns'
    <3>1. CASE job[p].kind = "rollback"
      BY <2>1, <3>1 DEF Returns
    <3>2. CASE job[p].kind = "promote" /\ job[p].facts # None
      <4>1. v # Serving /\ job[p].facts.displaced = Serving /\ record[v] = job[p].facts
        BY <1>3, <2>1, <3>2 DEF Placed, v
      <4>2. before' = Serving
        BY <1>0, <2>1, <3>2, <4>1 DEF HoldInv
      <4>3. Displaced(Serving)' = Serving
        BY <2>1, <2>2, <2>3, <3>2, <4>1 DEF Displaced, Metadata
      <4>. QED
        BY <1>4, <2>1, <2>3, <4>1, <4>2, <4>3 DEF Returns
    <3>3. CASE job[p].kind = "promote" /\ job[p].facts = None
      <4>1. v = Serving
        BY <1>3, <2>1, <3>3 DEF Placed, v
      <4>2. before' = before
        BY <1>0, <2>1, <3>3
      <4>3. Serving' = Serving /\ Displaced(Serving)' = Displaced(Serving)
        BY <2>1, <2>3, <4>1 DEF Displaced, Metadata
      <4>. QED
        BY <1>1, <2>1, <4>2, <4>3 DEF Returns
    <3>. QED
      BY <1>2, <3>1, <3>2, <3>3 DEF Moving
  <2>. QED
    BY <2>3, <2>4, <2>5
<1>10. CASE Remove(p)
  <2>1. PICK v \in job[p].doomed :
          /\ dirs' = dirs \ {v}
          /\ record' = [record EXCEPT ![v] = None]
          /\ job' = [job EXCEPT ![p] = IF job[p].doomed = {v} THEN NoJob
                                       ELSE [job[p] EXCEPT !.doomed = job[p].doomed \ {v}]]
    BY <1>0, <1>10 DEF Remove
  <2>2. job[p].step = "remove" /\ UNCHANGED <<pointer, temp, before>>
    BY <1>10 DEF Remove
  <2>3. Serving \notin job[p].doomed /\ Displaced(Serving) \notin job[p].doomed
    BY <1>3, <2>2 DEF Placed
  <2>4. Serving' = Serving /\ Present'
    BY <1>1, <1>4, <2>1, <2>2, <2>3 DEF Serving, Named, Present
  <2>5. Displaced(Serving)' = Displaced(Serving)
    <3>1. Metadata(Serving)' = Metadata(Serving)
      BY <1>0, <1>4, <2>1, <2>3, <2>4 DEF Metadata
    <3>. QED
      BY <3>1 DEF Displaced
  <2>6. Returns'
    BY <1>1, <2>1, <2>2, <2>3, <2>4, <2>5 DEF Returns
  <2>7. ASSUME NEW j \in {job'[p]}, Moving(j)
        PROVE  Placed(j)'
    <3>1. CASE j = NoJob
      BY <2>7, <3>1 DEF Moving, NoJob
    <3>2. CASE j # NoJob
      <4>1. /\ j.kind = job[p].kind /\ j.facts = job[p].facts /\ j.step = "remove"
            /\ j.doomed \subseteq job[p].doomed
        BY <1>0, <2>1, <2>2, <3>2 DEF Job
      <4>2. j.facts = None
        BY <2>2, <4>1 DEF InCourse
      <4>. QED
        BY <2>3, <2>4, <2>5, <4>1, <4>2 DEF Placed
    <3>. QED
      BY <3>1, <3>2
  <2>. QED
    BY <2>4, <2>6, <2>7
<1>. QED
  BY <1>7, <1>8, <1>9, <1>10

LEMMA HoldInvariant == Spec => []HoldInv
<1>1. Init => HoldInv
  BY Bounds DEF Init, HoldInv, Alone, Present, Returns, Moving, NoJob, PointerName
<1>2. CourseInv /\ CourseInv' /\ HoldInv /\ [Next]_vars => HoldInv'
  <2>1. ASSUME CourseInv, CourseInv', HoldInv, NEW p \in Process, Step(p), ~contended'
        PROVE  HoldInv'
    <3>1. /\ TypeOK /\ TypeOK' /\ InCourse(job[p])
      BY <2>1 DEF CourseInv
    <3>2. InCourse(job'[p])
      BY <2>1, <3>1, CourseStep
    <3>3. CASE \/ WriteMetadata(p) \/ Remove(p)
               \/ (Replace(p) \/ WriteTemp(p)) /\ job[p].kind # "register"
      BY <2>1, <3>1, <3>2, <3>3, HoldsMove
    <3>4. CASE ~(\/ WriteMetadata(p) \/ Remove(p)
                 \/ (Replace(p) \/ WriteTemp(p)) /\ job[p].kind # "register")
      BY <2>1, <3>1, <3>2, <3>4, HoldsApart
    <3>. QED
      BY <3>3, <3>4
  <2>2. ASSUME HoldInv, UNCHANGED vars
        PROVE  HoldInv'
    BY <2>2 DEF HoldInv, Alone, Present, Returns, Moving, Placed, Serving, Displaced, Metadata, Named,
       vars, diskVars, boundVars
  <2>3. contended' => HoldInv'
    BY DEF HoldInv
  <2>. QED
    BY <2>1, <2>2, <2>3 DEF Next
<1>. QED
  BY <1>1, <1>2, CourseInvariant, PTL DEF Spec

\* ServingHolds of Registry (_prune and promote in registry/store.py): while no
\* two processes move the pointer at once, the version it names is never removed,
\* whoever trains, checks or is killed meanwhile.
THEOREM ServingIsKept == Spec => []ServingHolds
<1>1. HoldInv => ServingHolds
  BY DEF HoldInv, Present, ServingHolds
<1>. QED
  BY <1>1, HoldInvariant, PTL

\* RollbackReturns of Registry (promote and rollback in registry/store.py): a
\* rollback goes back to what the last promotion displaced, even if that promotion
\* was killed half-way, and whatever was trained and pruned since.
THEOREM RollbackGoesBack == Spec => []RollbackReturns
<1>1. HoldInv => RollbackReturns
  BY DEF HoldInv, Returns, RollbackReturns, RollbackTargets
<1>. QED
  BY <1>1, HoldInvariant, PTL
=============================================================================
