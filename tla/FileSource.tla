----------------------------- MODULE FileSource -----------------------------
(***************************************************************************)
(* The tailing reader of the parser's files (ingest/file.py) and its       *)
(* checkpoint: which lines of which file are read, over rotations, kills   *)
(* and restarts.  Every pass opens a stream per file and merges them by    *)
(* the time of their events; the streams are one event ahead of what has   *)
(* left the merge, and the runtime may save the checkpoint at any event.   *)
(*                                                                         *)
(* Offsets count lines, not bytes.  A line is a request or something else  *)
(* (blank, malformed, no request) that never leaves the reader; a line     *)
(* being written is not there yet.  The merge may take any stream: times   *)
(* are left out.  A new file always has a new inode.                       *)
(***************************************************************************)
EXTENDS Integers, Sequences, FiniteSets, FiniteSetsExt

CONSTANTS
    Path,
    None,
    MaxInodes,    \* bound on the files there ever are
    MaxLines,     \* bound on the lines of all files
    MaxCrashes,   \* bound on kills
    MaxFailures   \* bound on files that cannot be opened

ASSUME FileSourceAssumption ==
    /\ MaxInodes \in Nat /\ MaxLines \in Nat
    /\ MaxCrashes \in Nat /\ MaxFailures \in Nat
    /\ None \notin Nat

VARIABLES
    \* The disk.
    files,     \* path |-> inode
    content,   \* inode |-> kinds of its lines
    created,   \* number of files there ever were; the last one has this inode
    ckpt,      \* the checkpoint the runtime saved last
    \* The reader.
    pc,        \* down, in the merge, an event given to the runtime, idle between passes
    offsets,   \* path |-> _offsets
    inodes,    \* path |-> _inodes
    byInode,   \* inode |-> _by_inode
    todo,      \* paths of this pass that have no stream yet
    stream,    \* path |-> its stream
    \* History.
    seen,      \* lines ever given to the runtime
    reached,   \* inode |-> the last of its lines given in this life of the process
    home,      \* path |-> the inode its offset was counted in
    mispaired, \* an offset was kept beside the inode of another file
    crashes, failures

diskVars == <<files, content, created>>
positionVars == <<offsets, inodes, home>>
passVars == <<byInode, todo, stream>>
boundVars == <<crashes, failures>>
vars == <<diskVars, ckpt, pc, positionVars, passVars, seen, reached, mispaired, boundVars>>

Inode == 1 .. MaxInodes
Offset == 0 .. MaxLines
Line == Inode \X (1 .. MaxLines)

\* A stream that has an event ready, or whose event was given away and that has
\* not gone on.  A stream that is not there is None.
Stream == [at: {"head", "given"}, inode: Inode, pos: Offset]

Positions == [offsets: [Path -> Offset \cup {None}], inodes: [Path -> Inode \cup {None}]]

TypeOK ==
    /\ files \in [Path -> Inode \cup {None}]
    /\ content \in [Inode -> Seq({"request", "other"})]
    /\ created \in 0 .. MaxInodes
    /\ ckpt \in Positions
    /\ pc \in {"down", "merge", "given", "idle"}
    /\ [offsets |-> offsets, inodes |-> inodes] \in Positions
    /\ byInode \in [Inode -> Offset \cup {None}]
    /\ todo \in SUBSET Path
    /\ stream \in [Path -> Stream \cup {None}]
    /\ seen \in SUBSET Line /\ reached \in [Inode -> Offset]
    /\ home \in [Path -> Inode \cup {None}]
    /\ mispaired \in BOOLEAN
    /\ crashes \in 0 .. MaxCrashes /\ failures \in 0 .. MaxFailures

Nowhere == [p \in Path |-> None]

Init ==
    /\ files = Nowhere
    /\ content = [i \in Inode |-> <<>>]
    /\ created = 0
    /\ ckpt = [offsets |-> Nowhere, inodes |-> Nowhere]
    /\ pc = "down"
    /\ offsets = Nowhere /\ inodes = Nowhere /\ home = Nowhere
    /\ byInode = [i \in Inode |-> None]
    /\ todo = {} /\ stream = Nowhere
    /\ seen = {} /\ reached = [i \in Inode |-> 0]
    /\ mispaired = FALSE
    /\ crashes = 0 /\ failures = 0

-----------------------------------------------------------------------------
(* The parser and the machine.                                             *)

Written == {line \in Line : line[2] <= Len(content[line[1]])}

WriteLine(p, kind) ==
    /\ files[p] # None
    /\ Cardinality(Written) < MaxLines
    /\ content' = [content EXCEPT ![files[p]] = Append(@, kind)]
    /\ UNCHANGED <<files, created, ckpt, pc, positionVars, passVars, seen, reached,
                   mispaired, boundVars>>

\* The first file under a path, or a rotation: a new file replaces the old one.
Rotate(p) ==
    /\ created < MaxInodes
    /\ created' = created + 1
    /\ files' = [files EXCEPT ![p] = created + 1]
    /\ UNCHANGED <<content, ckpt, pc, positionVars, passVars, seen, reached, mispaired,
                   boundVars>>

\* Between two lives the input is configured otherwise, and a file has another key.
Rekey(p, q) ==
    /\ pc = "down"
    /\ files[p] # None /\ files[q] = None
    /\ files' = [files EXCEPT ![p] = None, ![q] = files[p]]
    /\ UNCHANGED <<content, created, ckpt, pc, positionVars, passVars, seen, reached,
                   mispaired, boundVars>>

Crash ==
    /\ pc # "down"
    /\ crashes < MaxCrashes
    /\ crashes' = crashes + 1
    /\ pc' = "down"
    /\ offsets' = Nowhere /\ inodes' = Nowhere /\ home' = Nowhere
    /\ byInode' = [i \in Inode |-> None]
    /\ todo' = {} /\ stream' = Nowhere
    /\ reached' = [i \in Inode |-> 0]
    /\ UNCHANGED <<diskVars, ckpt, seen, mispaired, failures>>

-----------------------------------------------------------------------------
(* seek and read.                                                          *)

Present == {p \in Path : files[p] # None}

\* The offsets a checkpoint has for an inode, under whatever key.
OffsetsOf(i) ==
    {ckpt.offsets[p] : p \in {q \in Path : ckpt.inodes[q] = i /\ ckpt.offsets[q] # None}}

\* The process starts, seeks to the checkpoint and begins its first pass.
Start ==
    /\ pc = "down"
    /\ pc' = "merge"
    /\ offsets' = ckpt.offsets /\ inodes' = ckpt.inodes /\ home' = ckpt.inodes
    /\ byInode' \in {b \in [Inode -> Offset \cup {None}] : \A i \in Inode :
           IF OffsetsOf(i) = {} THEN b[i] = None ELSE b[i] \in OffsetsOf(i)}
    /\ todo' = Present
    /\ UNCHANGED <<diskVars, ckpt, stream, seen, reached, mispaired, boundVars>>

\* A key without an offset takes the one its inode has in the checkpoint.
Inherits(off, by, p) ==
    /\ off[p] = None
    /\ by[files[p]] # None
    /\ by[files[p]] <= Len(content[files[p]])

\* Where _read_file begins: at the offset, unless the file is another one than
\* it was, or shorter than it was.
Resume(off, ino, by, p) ==
    LET own == IF Inherits(off, by, p) THEN by[files[p]] ELSE off[p] IN
    IF own = None THEN 0
    ELSE IF ino[p] # None /\ ino[p] # files[p] THEN 0
    ELSE IF Len(content[files[p]]) < own THEN 0
    ELSE own

\* The requests of a file after a position.
Ahead(i, pos) == {n \in pos + 1 .. Len(content[i]) : content[i][n] = "request"}

Record(p, i, pos) ==
    /\ offsets' = [offsets EXCEPT ![p] = pos]
    /\ home' = [home EXCEPT ![p] = i]

Advance(p, i, pos) ==
    stream' = [stream EXCEPT ![p] =
        IF Ahead(i, pos) = {} THEN None
        ELSE [at |-> "head", inode |-> i, pos |-> Min(Ahead(i, pos))]]

\* Mutant of ReadOn: the offset moves with the line that is read ahead.
ReadOnRecording(p, i, pos) ==
    /\ Advance(p, i, pos)
    /\ Record(p, i, IF Ahead(i, pos) = {} THEN Len(content[i]) ELSE Min(Ahead(i, pos)))

\* The stream of a file reads on to its next event, or ends with the file.  Of
\* the two, only the end moves the offset.
ReadOn(p, i, pos) ==
    /\ Advance(p, i, pos)
    /\ IF Ahead(i, pos) = {} THEN Record(p, i, Len(content[i]))
                             ELSE UNCHANGED <<offsets, home>>

\* Mutant of Identified: the inode of the first file stays.
IdentifiedOnce(p) ==
    inodes' = [inodes EXCEPT ![p] = IF @ = None THEN files[p] ELSE @]

Identified(p) == inodes' = [inodes EXCEPT ![p] = files[p]]

\* _read_file up to its first event.  The inode is recorded before anything else.
Prime(p) ==
    LET i == files[p] IN
    /\ pc = "merge" /\ p \in todo
    /\ todo' = todo \ {p}
    /\ Identified(p)
    /\ byInode' = IF Inherits(offsets, byInode, p) THEN [byInode EXCEPT ![i] = None]
                  ELSE byInode
    /\ \/ ReadOn(p, i, Resume(offsets, inodes, byInode, p)) /\ UNCHANGED failures
       \/ /\ failures < MaxFailures   \* the file cannot be opened
          /\ Resume(offsets, inodes, byInode, p) # Len(content[i])
          /\ failures' = failures + 1
          /\ UNCHANGED <<stream, offsets, home>>
    /\ UNCHANGED <<diskVars, ckpt, pc, seen, reached, mispaired, crashes>>

\* The merge lets an event out, and its offset is recorded.
Yield(p) ==
    /\ pc = "merge" /\ todo = {}
    /\ stream[p] # None
    /\ LET line == <<stream[p].inode, stream[p].pos>> IN
       /\ Record(p, stream[p].inode, stream[p].pos)
       /\ seen' = seen \cup {line}
       /\ reached' = [reached EXCEPT ![line[1]] = line[2]]
    /\ stream' = [stream EXCEPT ![p] = [@ EXCEPT !.at = "given"]]
    /\ pc' = "given"
    /\ UNCHANGED <<diskVars, ckpt, inodes, byInode, todo, mispaired, boundVars>>

\* The runtime asks for the next event: the stream of the last one goes on.
Resumed(p) ==
    /\ pc = "given"
    /\ stream[p] # None /\ stream[p].at = "given"
    /\ ReadOn(p, stream[p].inode, stream[p].pos)
    /\ pc' = "merge"
    /\ UNCHANGED <<diskVars, ckpt, inodes, byInode, todo, seen, reached, mispaired, boundVars>>

\* Some offset was counted in another file than the inode beside it says.
Mismatch == \E p \in Path : offsets[p] # None /\ home[p] # inodes[p]

EndPass ==
    /\ pc = "merge" /\ todo = {} /\ stream = Nowhere
    /\ pc' = "idle"
    /\ mispaired' = (mispaired \/ Mismatch)
    /\ UNCHANGED <<diskVars, ckpt, positionVars, passVars, seen, reached, boundVars>>

\* Files are looked for anew in every pass.
NextPass ==
    /\ pc = "idle"
    /\ pc' = "merge"
    /\ todo' = Present
    /\ UNCHANGED <<diskVars, ckpt, positionVars, byInode, stream, seen, reached, mispaired,
                   boundVars>>

\* The runtime saves its checkpoint while it holds an event, or when idle.
Save ==
    /\ pc \in {"given", "idle"}
    /\ ckpt' = [offsets |-> offsets, inodes |-> inodes]
    /\ mispaired' = (mispaired \/ Mismatch)
    /\ UNCHANGED <<diskVars, pc, positionVars, passVars, seen, reached, boundVars>>

Next ==
    \/ EndPass
    \/ NextPass
    \/ Save
    \/ Start
    \/ Crash
    \/ \E p \in Path : Prime(p) \/ Yield(p) \/ Resumed(p) \/ Rotate(p)
    \/ \E p \in Path, kind \in {"request", "other"} : WriteLine(p, kind)
    \/ \E p, q \in Path : Rekey(p, q)

Spec == Init /\ [][Next]_vars

-----------------------------------------------------------------------------
(* Properties.                                                             *)

\* The requests of the file under a path up to a position.
Requests(p, pos) == {<<files[p], n>> : n \in Ahead(files[p], 0) \cap 1 .. pos}

RestoredByInode == [i \in Inode |-> IF OffsetsOf(i) = {} THEN None ELSE Max(OffsetsOf(i))]

RestartSkips(p) ==
    Requests(p, Resume(ckpt.offsets, ckpt.inodes, RestoredByInode, p)) \ seen

\* Whatever the process was doing when it was killed, a restart from the
\* checkpoint goes past no request that the runtime was not given, in rotated,
\* renamed and growing files alike; nor does the next pass of a process that
\* lives.  The one exception is an offset that was kept beside the inode of
\* another file.
SkipsNothing ==
    ~mispaired =>
        /\ \A p \in Present : RestartSkips(p) = {}
        /\ pc = "idle" => \A p \in Present :
               Requests(p, Resume(offsets, inodes, byInode, p)) \subseteq seen

\* Within a life, the requests of a file are given in their order and once each,
\* however the passes fall and the files are replaced.
InFileOrder ==
    [][\A p \in Path : stream'[p] # None /\ stream'[p].at = "given" /\ pc = "merge"
                       => stream'[p].pos > reached[stream'[p].inode]]_vars

\* "A checkpoint taken in between must not skip it": the line that the merge has
\* read ahead.
CheckpointSkipsNothing == \A p \in Present : RestartSkips(p) = {}
=============================================================================
