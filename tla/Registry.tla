------------------------------ MODULE Registry ------------------------------
(***************************************************************************)
(* The model registry of one use case (registry/store.py): a directory     *)
(* that several processes write with no lock.  The command line trains,    *)
(* promotes and rolls back, the console's request threads promote and roll *)
(* back, a cold start trains and promotes, and check_candidate.py replays  *)
(* for a long time and then records a verdict.  Any of them may be killed  *)
(* between two of its steps.                                               *)
(*                                                                         *)
(* A step is one write to the disk with the reads before it.  Versions are *)
(* numbered in the order of their names.  A bundle appears and is removed  *)
(* in one step, and the replace of a metadata file, whose temporary name   *)
(* is shared as that of a pointer is, is one step too.                     *)
(***************************************************************************)
EXTENDS Integers, FiniteSets

CONSTANTS
    Process,
    None,
    Hot,            \* _HOT_VERSIONS
    MaxVersions,    \* bound on the versions there ever are
    MaxPromotions,  \* bound on promotions that displace a version
    MaxChecks,      \* bound on approval checks
    MaxKills        \* bound on kills

ASSUME RegistryAssumption ==
    /\ Hot \in Nat /\ MaxVersions \in Nat /\ MaxPromotions \in Nat
    /\ MaxChecks \in Nat /\ MaxKills \in Nat

VARIABLES
    \* The directory.
    dirs,      \* versions that have a bundle
    record,    \* version |-> the promotion in its metadata.json
    report,    \* version |-> its approval_check.json
    pointer,   \* "current" and "candidate" |-> the version the file names
    temp,      \* the same for the temporary file a pointer is replaced with
    \* The processes.
    job,       \* process |-> what it is doing
    made,      \* number of versions there ever were
    clock,     \* number of promotions so far
    checks, kills,
    \* History.
    passed,    \* pairs of a version and the serving one it was checked against, with approval
    contended, \* two processes were promoting or rolling back at once
    before     \* the version that served before the last promotion, until a rollback or contention

diskVars == <<dirs, record, report, pointer, temp>>
boundVars == <<made, clock, checks, kills>>
vars == <<diskVars, job, boundVars, passed, contended, before>>

Version == 1 .. MaxVersions
PointerName == {"current", "candidate"}

\* rollback_target and promotion, which are always written together
Promotion ==
    [gate: {"bootstrap", "approval_check", "forced"},
     displaced: Version \cup {None},
     at: 1 .. MaxPromotions]

Report == [approving: BOOLEAN, serving: Version \cup {None}]

ASSUME NoneAssumption == None \notin Version \cup Promotion

\* What a process is doing: to which version, which version it saw serving, the
\* promotion it will write, and what it has still to remove.
Job ==
    [kind: {"none", "train", "register", "check", "promote", "rollback"},
     step: {"done", "saved", "replay", "read", "record", "point", "swap", "clear", "prune", "remove"},
     version: Version \cup {None},
     serving: Version \cup {None},
     facts: Promotion \cup {None},
     doomed: SUBSET Version]

NoJob == [kind |-> "none", step |-> "done", version |-> None, serving |-> None,
          facts |-> None, doomed |-> {}]

TypeOK ==
    /\ dirs \in SUBSET Version
    /\ record \in [Version -> Promotion \cup {None}]
    /\ report \in [Version -> Report \cup {None}]
    /\ pointer \in [PointerName -> Version \cup {None}]
    /\ temp \in [PointerName -> Version \cup {None}]
    /\ job \in [Process -> Job]
    /\ made \in 0 .. MaxVersions /\ clock \in 0 .. MaxPromotions
    /\ checks \in 0 .. MaxChecks /\ kills \in 0 .. MaxKills
    /\ passed \in SUBSET (Version \X (Version \cup {None}))
    /\ contended \in BOOLEAN
    /\ before \in Version \cup {None}

Init ==
    /\ dirs = {}
    /\ record = [v \in Version |-> None]
    /\ report = [v \in Version |-> None]
    /\ pointer = [n \in PointerName |-> None]
    /\ temp = [n \in PointerName |-> None]
    /\ job = [p \in Process |-> NoJob]
    /\ made = 0 /\ clock = 0 /\ checks = 0 /\ kills = 0
    /\ passed = {} /\ contended = FALSE /\ before = None

-----------------------------------------------------------------------------
(* What a process reads.                                                   *)

\* _read_pointer: a pointer to a version that is gone is stale, and names none.
Named(name) == IF pointer[name] \in dirs THEN pointer[name] ELSE None
Serving == Named("current")
Candidate == Named("candidate")

\* metadata: None for a bundle that is gone, or was never promoted.
Metadata(v) == IF v \in dirs THEN record[v] ELSE None

\* The rollback_target in a version's metadata.
Displaced(v) == IF Metadata(v) # None THEN Metadata(v).displaced ELSE None

\* The report has a PASS or WARN against what is serving now.
Approved(v) == report[v] # None /\ report[v].approving /\ report[v].serving = Serving

\* _promotion_gate, with "forced" for a promotion that only force_reason admits
Gate(v) ==
    IF Serving = None THEN "bootstrap" ELSE IF Approved(v) THEN "approval_check" ELSE "forced"

\* Versions other than the serving one and the candidate with a promotion record.
OncePromoted == {v \in dirs \ {Serving, Candidate} : record[v] # None}

\* Mutant of RollbackTargets: the newest other version, as it once was.
RollbackTargetsNewest ==
    LET others == dirs \ {Serving}
    IN  IF Displaced(Serving) \in others THEN {Displaced(Serving)}
        ELSE {v \in others : \A w \in others : w <= v}

\* rollback_target: what the serving version displaced, or else the version that was
\* promoted last.  Empty if there is neither.
RollbackTargets ==
    IF Displaced(Serving) \in dirs \ {Serving} THEN {Displaced(Serving)}
    ELSE {v \in OncePromoted : \A w \in OncePromoted : record[w].at <= record[v].at}

\* Mutant of Protected: the serving version and the candidate alone.
ProtectedPointers == {Serving, Candidate}

\* Mutant of Protected: what can still be promoted or rolled back to.
ProtectedTargets == {Candidate, Displaced(Serving)}

Protected == {Serving, Candidate, Displaced(Serving)}

\* What _prune removes: all but the newest Hot of what is not protected.
Prunable ==
    LET free == dirs \ Protected
    IN  {v \in free : Cardinality({w \in free : v < w}) >= Hot}

-----------------------------------------------------------------------------
(* Training.                                                               *)

\* Two processes that move the pointer at once.
NoteContention(p) ==
    contended' = (contended \/ \E q \in Process \ {p} : job[q].kind \in {"promote", "rollback"})

\* cmd_train and a cold start: the bundle is saved.
Train(p) ==
    /\ job[p] = NoJob
    /\ made < MaxVersions
    /\ made' = made + 1
    /\ dirs' = dirs \cup {made + 1}
    /\ job' = [job EXCEPT ![p] = [NoJob EXCEPT !.kind = "train", !.step = "saved",
                                               !.version = made + 1]]
    /\ UNCHANGED <<record, report, pointer, temp, clock, checks, kills, passed, contended, before>>

\* Without --promote, or when the promotion was refused: set_candidate finds the bundle.
Register(p) ==
    /\ job[p].kind = "train"
    /\ job[p].version \in dirs
    /\ job' = [job EXCEPT ![p].kind = "register", ![p].step = "point"]
    /\ UNCHANGED <<diskVars, boundVars, passed, contended, before>>

\* The job of a promotion that the gate admits.  The serving version needs no gate.
Promoting(v) ==
    IF v = Serving
    THEN [NoJob EXCEPT !.kind = "promote", !.step = "point", !.version = v]
    ELSE [NoJob EXCEPT !.kind = "promote", !.step = "record", !.version = v,
                       !.facts = [gate |-> Gate(v), displaced |-> Serving, at |-> clock + 1]]

Admit(p, v) ==
    /\ v \in dirs
    /\ v = Serving \/ clock < MaxPromotions
    /\ clock' = IF v = Serving THEN clock ELSE clock + 1
    /\ job' = [job EXCEPT ![p] = Promoting(v)]
    /\ NoteContention(p)
    /\ UNCHANGED <<diskVars, made, checks, kills, passed, before>>

\* cmd_train --promote and _cold_start: never forced.
PromoteTrained(p) ==
    /\ job[p].kind = "train"
    /\ Gate(job[p].version) # "forced"
    /\ Admit(p, job[p].version)

-----------------------------------------------------------------------------
(* Promotion and rollback.                                                 *)

\* cmd_promote and the console, for the candidate or any version that is named.  An
\* operator may force it, so no version is refused.
Promote(p) ==
    /\ job[p] = NoJob
    /\ \E v \in dirs : Admit(p, v)

\* rollback has found its target.
Rollback(p) ==
    /\ job[p] = NoJob
    /\ Serving # None
    /\ \E v \in RollbackTargets :
        job' = [job EXCEPT ![p] = [NoJob EXCEPT !.kind = "rollback", !.step = "read",
                                                !.version = v]]
    /\ NoteContention(p)
    /\ UNCHANGED <<diskVars, boundVars, passed, before>>

\* Mutant of ReadMetadata: only rolled_back_to is written.
ReadMetadataNot(p) ==
    /\ job[p].step = "read"
    /\ job' = [job EXCEPT ![p].step = "record", ![p].facts = None]
    /\ UNCHANGED <<diskVars, boundVars, passed, contended, before>>

\* update_metadata reads what it will write back beside rolled_back_to.
ReadMetadata(p) ==
    /\ job[p].step = "read"
    /\ job' = [job EXCEPT ![p].step = "record", ![p].facts = Metadata(job[p].version)]
    /\ UNCHANGED <<diskVars, boundVars, passed, contended, before>>

WriteMetadata(p) ==
    /\ job[p].step = "record"
    /\ job[p].version \in dirs
    /\ record' = [record EXCEPT ![job[p].version] = job[p].facts]
    /\ job' = [job EXCEPT ![p].step = "point"]
    /\ UNCHANGED <<dirs, report, pointer, temp, boundVars, passed, contended, before>>

PointerOf(p) == IF job[p].kind = "register" THEN "candidate" ELSE "current"

\* _write_pointer writes the temporary file, which all writers of a pointer share.
WriteTemp(p) ==
    /\ job[p].step = "point"
    /\ temp' = [temp EXCEPT ![PointerOf(p)] = job[p].version]
    /\ job' = [job EXCEPT ![p].step = "swap"]
    /\ UNCHANGED <<dirs, record, report, pointer, boundVars, passed, contended, before>>

\* ... and replaces the pointer with it, whoever wrote it last.
Replace(p) ==
    /\ job[p].step = "swap"
    /\ temp[PointerOf(p)] # None
    /\ pointer' = [pointer EXCEPT ![PointerOf(p)] = temp[PointerOf(p)]]
    /\ temp' = [temp EXCEPT ![PointerOf(p)] = None]
    /\ job' = [job EXCEPT ![p] = IF @.kind = "promote"
                                 THEN [NoJob EXCEPT !.kind = "promote", !.step = "clear"]
                                 ELSE NoJob]
    /\ before' = IF job[p].kind = "rollback" \/ contended THEN None
                 ELSE IF job[p].facts # None THEN job[p].facts.displaced
                 ELSE before
    /\ UNCHANGED <<dirs, record, report, boundVars, passed, contended>>

\* The candidate pointer goes, whichever version it names.
ClearCandidate(p) ==
    /\ job[p].step = "clear"
    /\ pointer' = [pointer EXCEPT !["candidate"] = None]
    /\ job' = [job EXCEPT ![p].step = "prune"]
    /\ UNCHANGED <<dirs, record, report, temp, boundVars, passed, contended, before>>

Prune(p) ==
    /\ job[p].step = "prune"
    /\ job' = [job EXCEPT ![p] = IF Prunable = {} THEN NoJob
                                 ELSE [@ EXCEPT !.step = "remove", !.doomed = Prunable]]
    /\ UNCHANGED <<diskVars, boundVars, passed, contended, before>>

\* The oldest first; what is already gone does not matter.
Remove(p) ==
    /\ job[p].step = "remove"
    /\ \E v \in job[p].doomed :
        /\ \A w \in job[p].doomed : v <= w
        /\ dirs' = dirs \ {v}
        /\ record' = [record EXCEPT ![v] = None]
        /\ report' = [report EXCEPT ![v] = None]
        /\ job' = [job EXCEPT ![p] = IF job[p].doomed = {v} THEN NoJob
                                     ELSE [job[p] EXCEPT !.doomed = job[p].doomed \ {v}]]
    /\ UNCHANGED <<pointer, temp, boundVars, passed, contended, before>>

-----------------------------------------------------------------------------
(* The approval check, failures and kills.                                 *)

\* check_candidate.py reads the two versions, and replays both.
Check(p) ==
    /\ job[p] = NoJob
    /\ Serving # None /\ Candidate # None
    /\ checks < MaxChecks
    /\ checks' = checks + 1
    /\ job' = [job EXCEPT ![p] = [NoJob EXCEPT !.kind = "check", !.step = "replay",
                                               !.version = Candidate, !.serving = Serving]]
    /\ UNCHANGED <<diskVars, made, clock, kills, passed, contended, before>>

\* Its verdict: PASS or WARN, or DO_NOT_APPROVE.
WriteApproval(p, approving) ==
    /\ job[p].step = "replay"
    /\ job[p].version \in dirs
    /\ report' = [report EXCEPT ![job[p].version] =
                    [approving |-> approving, serving |-> job[p].serving]]
    /\ passed' = IF approving THEN passed \cup {<<job[p].version, job[p].serving>>} ELSE passed
    /\ job' = [job EXCEPT ![p] = NoJob]
    /\ UNCHANGED <<dirs, record, pointer, temp, boundVars, contended, before>>

\* The bundle or the temporary file a step needs is gone, or the gate refuses what a
\* cold start has trained: an exception ends the process.
Obstructed(p) ==
    \/ job[p].kind = "train" /\ Gate(job[p].version) = "forced"
    \/ job[p].step \in {"saved", "replay", "record"} /\ job[p].version \notin dirs
    \/ job[p].step = "swap" /\ temp[PointerOf(p)] = None

Fail(p) ==
    /\ Obstructed(p)
    /\ job' = [job EXCEPT ![p] = NoJob]
    /\ UNCHANGED <<diskVars, boundVars, passed, contended, before>>

Kill(p) ==
    /\ job[p] # NoJob
    /\ kills < MaxKills
    /\ kills' = kills + 1
    /\ job' = [job EXCEPT ![p] = NoJob]
    /\ UNCHANGED <<diskVars, made, clock, checks, passed, contended, before>>

Step(p) ==
    \/ Train(p) \/ Register(p) \/ PromoteTrained(p)
    \/ Promote(p) \/ Rollback(p) \/ ReadMetadata(p) \/ WriteMetadata(p)
    \/ WriteTemp(p) \/ Replace(p) \/ ClearCandidate(p) \/ Prune(p) \/ Remove(p)
    \/ Check(p) \/ \E approving \in BOOLEAN : WriteApproval(p, approving)
    \/ Fail(p) \/ Kill(p)

Next == \E p \in Process : Step(p)

Spec == Init /\ [][Next]_vars

-----------------------------------------------------------------------------
(* Properties.                                                             *)

\* The version has been through the gate of promote, and if its record says that
\* an approval check admitted it, that check compared it with what it displaced.
Vetted(v) ==
    /\ record[v] # None
    /\ record[v].gate = "approval_check" => <<v, record[v].displaced>> \in passed

\* Nothing serves that has not been through the gate, whatever promotions and
\* rollbacks overlap, whichever is killed half-way, and although they share files.
ServesVetted == Serving # None => Vetted(Serving)

\* A rollback that rewrites metadata another process has written in the meantime
\* never loses that a version was promoted: rollback decides by this record.
RecordsKept ==
    [][\A v \in dirs \cap dirs' : record[v] # None => record'[v] # None]_vars

\* Pruning does not touch the serving version while no other process moves the pointer.
ServingHolds == ~contended /\ pointer["current"] # None => pointer["current"] \in dirs

\* After a promotion, however much is trained, checked and pruned since, and even if
\* it was killed before it finished, a rollback returns to the version it displaced.
RollbackReturns == ~contended /\ before # None /\ Serving # None => RollbackTargets = {before}

\* registry/store.py:27, "Pruning never touches current/candidate".
PruningSparesServing == pointer["current"] # None => pointer["current"] \in dirs
=============================================================================
