------------------------------ MODULE Shipper ------------------------------
(***************************************************************************)
(* The process that copies alerts, their later facts and the downloads     *)
(* into the SIEM (alerting/siem.py): the files it tails, its offsets and   *)
(* their checkpoint, bulk requests that fail, fail in part or are answered *)
(* too late, updates that arrive before their alert, and what the index    *)
(* holds.  The files are written by others at any time.                    *)
(*                                                                         *)
(* A line counts from its newline on, so a half-written one is not there.  *)
(* An offset counts lines.  Nothing in the source shortens these files, so *)
(* the branch for a file shorter than its offset is never taken.           *)
(***************************************************************************)
EXTENDS Integers, Sequences, FiniteSets, FiniteSetsExt, Functions

CONSTANTS
    Alert,       \* ids of alerts
    Ghost,       \* ids whose alert row is in no file any more
    Broken,      \* a line that is no JSON
    Download,    \* a row of an exposure download
    Refused,     \* a row the index takes in no request, whatever documents it has
    NoObject,    \* JSON, but no object
    TooLong,     \* a line of _MAX_LINE bytes or more
    None,
    Batch,       \* _BATCH, rows per request
    OrphanTries, \* _ORPHAN_TRIES
    MaxRows,     \* kind |-> bound on the lines of its file
    MaxLines,    \* bound on the lines of all files
    MaxStopping, \* bound on the lines among them that are refused, no object or too long
    MaxFaults    \* bound on failed requests, kills and lost checkpoints

\* Mutant: the later facts go first, and the alerts write their documents over.
UpdatesFirst == <<"verification", "triage", "alert", "download">>

\* The order in which a round visits the files; one file of each kind.
Kinds == <<"alert", "verification", "triage", "download">>
Kind == {"alert", "verification", "triage", "download"}
Update == {"verification", "triage"}
Stopping == {Refused, NoObject, TooLong}
Row == Alert \cup {Broken, Download} \cup Stopping

ASSUME ShipperAssumption ==
    /\ Ghost \subseteq Alert
    /\ Cardinality({Broken, Download} \cup Stopping) = 5
    /\ Alert \cap ({Broken, Download} \cup Stopping) = {}
    /\ Batch \in Nat \ {0} /\ OrphanTries \in Nat \ {0}
    /\ MaxRows \in [Kind -> Nat] /\ MaxLines \in Nat
    /\ MaxStopping \in Nat /\ MaxFaults \in Nat
    /\ None \notin [Update -> Nat]

VARIABLES
    log,       \* kind |-> lines of the file
    index,     \* alert |-> its document: kind of update |-> the line it shows, 0 none
    copies,    \* download line |-> documents made of it, counted up to MostCopies
    ckpt,      \* kind |-> offset in the checkpoint file
    \* The process.
    pc,        \* down, sleeping, in a round, or with an answer to a bulk request
    turn,      \* the round's place in Kinds
    offsets,   \* kind |-> _offsets
    orphans,   \* kind |-> _orphans
    answer,    \* end of the batch, and its lines that found no alert
    \* History.
    settled,   \* kind |-> lines that reached the index or were given up
    abandoned, \* kind |-> lines given up
    refusals,  \* <<kind, line>> |-> times the index knew no alert for it, up to OrphanTries
    faults

logVars == <<log>>
indexVars == <<index, copies>>
processVars == <<pc, turn, offsets, orphans, answer>>
historyVars == <<settled, abandoned, refusals>>
vars == <<logVars, indexVars, ckpt, processVars, historyVars, faults>>

LongestFile == Max({MaxRows[k] : k \in Kind})
Line == 1 .. LongestFile
Offset == 0 .. LongestFile
Offsets == [Kind -> Offset]
UpdateLine == Update \X Line
MostCopies == MaxFaults + 2

TypeOK ==
    /\ log \in [Kind -> Seq(Row)] /\ \A k \in Kind : Len(log[k]) <= MaxRows[k]
    /\ index \in [Alert -> [Update -> Offset] \cup {None}]
    /\ copies \in [Line -> 0 .. MostCopies]
    /\ ckpt \in Offsets /\ offsets \in Offsets
    /\ pc \in {"down", "asleep", "round", "answered"}
    /\ turn \in 1 .. Len(Kinds)
    /\ orphans \in [Kind -> 0 .. OrphanTries - 1]
    /\ answer \in [end : Offset, missing : SUBSET Line] \cup {None}
    /\ settled \in [Kind -> SUBSET Line] /\ abandoned \in [Kind -> SUBSET Line]
    /\ refusals \in [UpdateLine -> 0 .. OrphanTries]
    /\ faults \in 0 .. MaxFaults

Nothing == [k \in Kind |-> 0]

Init ==
    /\ log = [k \in Kind |-> <<>>]
    /\ index = [a \in Alert |-> None] /\ copies = [l \in Line |-> 0]
    /\ ckpt = Nothing
    /\ pc = "down" /\ turn = 1 /\ offsets = Nothing /\ orphans = Nothing /\ answer = None
    /\ settled = [k \in Kind |-> {}] /\ abandoned = [k \in Kind |-> {}]
    /\ refusals = [l \in UpdateLine |-> 0]
    /\ faults = 0

-----------------------------------------------------------------------------
(* The writers.  An alert is written once; the verifier and the analyst    *)
(* only speak of alerts they read from the file, or read before it was     *)
(* removed.                                                                *)

InFile(a) == \E l \in 1 .. Len(log["alert"]) : log["alert"][l] = a

Stops == {at \in Kind \X Line : at[2] <= Len(log[at[1]]) /\ log[at[1]][at[2]] \in Stopping}

\* A download that is no object is refused like any other: _actions does not look.
Writable(k) ==
    {Broken}
    \cup (IF Cardinality(Stops) < MaxStopping THEN {Refused, TooLong} ELSE {})
    \cup (IF Cardinality(Stops) < MaxStopping /\ k # "download" THEN {NoObject} ELSE {})
    \cup CASE k = "alert" -> {a \in Alert \ Ghost : ~InFile(a)}
           [] k = "download" -> {Download}
           [] OTHER -> {a \in Alert : a \in Ghost \/ InFile(a)}

Lines == SumFunction([k \in Kind |-> Len(log[k])])

Write(k) ==
    /\ Len(log[k]) < MaxRows[k] /\ Lines < MaxLines
    /\ \E row \in Writable(k) :
        /\ log' = [log EXCEPT ![k] = Append(@, row)]
        /\ settled' = IF row = Broken THEN [settled EXCEPT ![k] = @ \cup {Len(log[k]) + 1}]
                                      ELSE settled
    /\ UNCHANGED <<indexVars, ckpt, processVars, abandoned, refusals, faults>>

-----------------------------------------------------------------------------
(* One batch.                                                              *)

Now == Kinds[turn]

\* Mutant: every read starts at the top.
RowsFromTop(k, e) == {l \in 1 .. e : log[k][l] # Broken}

\* Lines of the file of kind k behind the offset, up to e, that are rows.
Rows(k, e) == {l \in offsets[k] + 1 .. e : log[k][l] # Broken}

\* A line of _MAX_LINE bytes or more comes without its newline, and is taken for
\* one that is still being written: nothing behind it is ever read.
Legible(k) ==
    LET long == {l \in 1 .. Len(log[k]) : log[k][l] = TooLong}
    IN  IF long = {} THEN Len(log[k]) ELSE Min(long) - 1

\* Where _read_new stops: with the last row of a full batch, or where it can read
\* no further.
EndOfBatch(k) ==
    LET full == {e \in offsets[k] + 1 .. Legible(k) : Cardinality(Rows(k, e)) = Batch}
    IN  IF full = {} THEN Legible(k) ELSE Min(full)

NewRows(k) == Rows(k, EndOfBatch(k))

\* A document is written over as a whole by its alert, and an update of a kind
\* replaces the one before it: the last line sent of an alert is what it shows.
LastOf(k, lines, a) == Max({0} \cup {l \in lines : log[k][l] = a})

Indexed(k, lines) ==
    [a \in Alert |->
        CASE k = "alert" /\ LastOf(k, lines, a) # 0 -> [u \in Update |-> 0]
          [] k \in Update /\ LastOf(k, lines, a) # 0 -> [index[a] EXCEPT ![k] = LastOf(k, lines, a)]
          [] OTHER -> index[a]]

\* The updates that find no document.
Missing(k, lines) == {l \in lines : k \in Update /\ index[log[k][l]] = None}

-----------------------------------------------------------------------------
(* ship_once, run again and again by run.                                  *)

InBatch(row) == \E l \in NewRows(Now) : log[Now][l] = row

\* The rows of the batch that the index may take.
Takeable == {l \in NewRows(Now) : log[Now][l] # Refused}

\* A later life knows the checkpoint only.
ProcessEnds ==
    /\ pc' = "down"
    /\ turn' = 1 /\ offsets' = Nothing /\ orphans' = Nothing /\ answer' = None

Wake ==
    /\ pc = "asleep"
    /\ pc' = "round" /\ turn' = 1
    /\ UNCHANGED <<logVars, indexVars, ckpt, offsets, orphans, answer, historyVars, faults>>

\* Nothing to send: the offset passes lines that are no rows, in memory only.
NextFile ==
    /\ pc = "round" /\ NewRows(Now) = {}
    /\ offsets' = [offsets EXCEPT ![Now] = EndOfBatch(Now)]
    /\ IF turn < Len(Kinds) THEN turn' = turn + 1 /\ pc' = pc
                            ELSE turn' = turn /\ pc' = "asleep"
    /\ UNCHANGED <<logVars, indexVars, ckpt, orphans, answer, historyVars, faults>>

\* A batch the index applied, but for the rows it refused for other reasons.
Apply(lines) ==
    LET missing == Missing(Now, lines)
        taken == lines \ missing
    IN  /\ index' = Indexed(Now, taken)
        /\ copies' = IF Now = "download"
                     THEN [l \in Line |-> IF l \in taken THEN Min({copies[l] + 1, MostCopies}) ELSE copies[l]]
                     ELSE copies
        /\ settled' = [settled EXCEPT ![Now] = @ \cup taken]
        /\ refusals' = [l \in UpdateLine |->
                            IF l[1] = Now /\ l[2] \in missing THEN Min({refusals[l] + 1, OrphanTries})
                                                            ELSE refusals[l]]

Bulk ==
    /\ pc = "round" /\ NewRows(Now) # {} /\ ~InBatch(NoObject) /\ ~InBatch(Refused)
    /\ Apply(NewRows(Now))
    /\ answer' = [end |-> EndOfBatch(Now), missing |-> Missing(Now, NewRows(Now))]
    /\ pc' = "answered"
    /\ UNCHANGED <<logVars, ckpt, turn, offsets, orphans, abandoned, faults>>

\* Mutant: a row refused for any reason counts as acknowledged.
RefusalsIgnored ==
    /\ pc = "round" /\ InBatch(Refused) /\ ~InBatch(NoObject)
    /\ Apply(Takeable)
    /\ offsets' = [offsets EXCEPT ![Now] = EndOfBatch(Now)] /\ ckpt' = offsets'
    /\ UNCHANGED <<logVars, pc, turn, orphans, answer, abandoned, faults>>

\* A row of the batch is refused for another reason than a missing alert, alone or
\* with the whole request: the round ends, no offset moves, and the next round meets
\* the same batch.
BulkRefused ==
    /\ pc = "round" /\ InBatch(Refused) /\ ~InBatch(NoObject)
    /\ \E applied \in {{}, Takeable} : Apply(applied)
    /\ pc' = "asleep"
    /\ UNCHANGED <<logVars, ckpt, turn, offsets, orphans, answer, abandoned, faults>>

\* _actions asks a list or a number for its fields, and run catches no such error.
RowEndsProcess ==
    /\ pc = "round" /\ InBatch(NoObject)
    /\ ProcessEnds
    /\ UNCHANGED <<logVars, indexVars, ckpt, historyVars, faults>>

\* No answer or one that reports an error, for a reason outside the process: the
\* round ends and the offset stays.  Any part of the batch may have been applied.
BulkFails ==
    /\ pc = "round" /\ NewRows(Now) # {} /\ ~InBatch(NoObject) /\ faults < MaxFaults
    /\ \E applied \in SUBSET Takeable : Apply(applied)
    /\ pc' = "asleep" /\ faults' = faults + 1
    /\ UNCHANGED <<logVars, ckpt, turn, offsets, orphans, answer, abandoned>>

MayRetry == orphans[Now] + 1 < OrphanTries

\* Mutant: the rounds of a waiting update are not counted.
RetriesForEver ==
    /\ pc = "answered"
    /\ answer.missing # {} /\ MayRetry
    /\ ckpt' = offsets
    /\ pc' = "asleep" /\ answer' = None
    /\ UNCHANGED <<logVars, indexVars, turn, offsets, orphans, historyVars, faults>>

\* The batch is sent again in the next round, and the files behind it wait.
Retry ==
    /\ pc = "answered"
    /\ answer.missing # {} /\ MayRetry
    /\ orphans' = [orphans EXCEPT ![Now] = @ + 1]
    /\ ckpt' = offsets
    /\ pc' = "asleep" /\ answer' = None
    /\ UNCHANGED <<logVars, indexVars, turn, offsets, historyVars, faults>>

Settles == answer.missing = {} \/ ~MayRetry

\* The batch is acknowledged, or what is missing of it is given up.
Acknowledge ==
    /\ pc = "answered" /\ Settles
    /\ orphans' = [orphans EXCEPT ![Now] = 0]
    /\ offsets' = [offsets EXCEPT ![Now] = answer.end]
    /\ ckpt' = offsets'
    /\ settled' = [settled EXCEPT ![Now] = @ \cup answer.missing]
    /\ abandoned' = [abandoned EXCEPT ![Now] = @ \cup answer.missing]
    /\ pc' = "round" /\ answer' = None
    /\ UNCHANGED <<logVars, indexVars, turn, refusals, faults>>

\* By the system, or by an error that run does not catch, such as an answer that is
\* no JSON.
Kill ==
    /\ pc # "down" /\ faults < MaxFaults
    /\ ProcessEnds /\ faults' = faults + 1
    /\ UNCHANGED <<logVars, indexVars, ckpt, historyVars>>

\* The checkpoint file is removed or cannot be read.
LoseCheckpoint ==
    /\ pc = "down" /\ faults < MaxFaults /\ ckpt # Nothing
    /\ ckpt' = Nothing /\ faults' = faults + 1
    /\ UNCHANGED <<logVars, indexVars, processVars, historyVars>>

Start ==
    /\ pc = "down"
    /\ offsets' = ckpt /\ pc' = "asleep"
    /\ UNCHANGED <<logVars, indexVars, ckpt, turn, orphans, answer, historyVars, faults>>

Process ==
    \/ Start \/ Wake \/ NextFile
    \/ Bulk \/ BulkRefused \/ RowEndsProcess
    \/ Retry \/ Acknowledge

Next ==
    \/ \E k \in Kind : Write(k)
    \/ Process \/ BulkFails
    \/ Kill \/ LoseCheckpoint

\* The watchdog restarts the process, and its loop goes on after every error it
\* catches.
Spec == Init /\ [][Next]_vars /\ WF_vars(Process)

-----------------------------------------------------------------------------
(* Properties.                                                             *)

Feeds == INSTANCE AtLeastOnce WITH
    File <- Kind,
    written <- [k \in Kind |-> Len(log[k])],
    saved <- ckpt

\* "Nothing is lost between the two" (siem.py:12): for every file, the shipper is
\* an at-least-once reader, over failed and half-applied requests, kills and a
\* lost checkpoint.
Lossless == Feeds!Spec

\* Behind the position it goes on from, the SIEM holds every alert, and its
\* document shows the last word on it: neither a request that is sent again nor one
\* that writes the whole document over leaves an older verdict or none
\* (siem.py:206).
LastWord(k, a) ==
    Max({0} \cup {l \in 1 .. offsets[k] : log[k][l] = a /\ l \notin abandoned[k]})

SiemAgrees ==
    \A l \in 1 .. offsets["alert"] : log["alert"][l] \in Alert =>
        LET a == log["alert"][l]
        IN  index[a] # None /\ \A k \in Update : index[a][k] >= LastWord(k, a)

\* A row of the file that no process gets past: the round or the process ends with
\* the batch it is in.
EndsRounds(k, m) ==
    /\ m <= Len(log[k]) /\ log[k][m] \in {Refused, NoObject}
    /\ \A n \in 1 .. m : log[k][n] # TooLong

Earlier(k) == {j \in Kind : \E x, y \in DOMAIN Kinds : Kinds[x] = j /\ Kinds[y] = k /\ x < y}

\* The lines are few enough apart for one request.
ShareRequest(k, l, m) ==
    /\ l <= Len(log[k]) /\ m <= Len(log[k])
    /\ Cardinality({n \in l .. m \cup m .. l : log[k][n] # Broken}) <= Batch

\* A line waits for ever behind one of _MAX_LINE bytes in its file, behind a row that
\* ends every round in its file or in one that is read before it, or in a request
\* with such a row.
HeldUp(k, l) ==
    \/ \E m \in 1 .. l : m <= Len(log[k]) /\ log[k][m] = TooLong
    \/ \E m \in Line : EndsRounds(k, m) /\ (m < l \/ ShareRequest(k, l, m))
    \/ \E j \in Earlier(k), m \in Line : EndsRounds(j, m)

\* Lines that are neither in the index nor given up, though no such row holds them up.
Waiting ==
    {at \in Kind \X Line :
        at[2] <= Len(log[at[1]]) /\ at[2] \notin settled[at[1]] /\ ~HeldUp(at[1], at[2])}

\* Once the failures from outside end, whatever is written reaches the index or is
\* given up, but for what a line holds up that no round gets past (siem.py:231,
\* siem.py:177).  That they end is assumed: MaxFaults bounds them.  As the lines are
\* bounded too, none waits for ever when again and again none waits.
EverythingSettles == []<>(Waiting = {})

\* A download has more than one document only for a failure that hid the answer to
\* its request or lost the offset, or because its request has a row that is refused
\* and is sent in every round: the shipper sends no row again that was acknowledged
\* (siem.py:247).
CopiesExplained ==
    \A l \in Line :
        \/ copies[l] <= 1 + faults
        \/ \E m \in Line :
             /\ m <= Len(log["download"]) /\ log["download"][m] = Refused
             /\ ShareRequest("download", l, m)

\* "rounds an update waits for its alert to be indexed" (siem.py:30): an update
\* is given up when it was refused in that many rounds.
WaitsForItsAlert ==
    \A k \in Update : \A l \in abandoned[k] : refusals[<<k, l>>] >= OrphanTries
=============================================================================
