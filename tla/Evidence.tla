------------------------------ MODULE Evidence ------------------------------
(***************************************************************************)
(* What the window builder finds out beside the features of a window       *)
(* (WindowFeatureBuilder of features/window_features.py): everything one   *)
(* address did in a bucket, whatever user-agents it used (_SourceAgg), the *)
(* sensitive files it got, and its buckets of the last hour, which the     *)
(* runtime saves and restores.  One server, one use case.                  *)
(*                                                                         *)
(* A sweep and a flush are sequences of _close with nothing in between.    *)
(* When a sweep comes, and how far the watermark is, is left open: Windows *)
(* has it.  Left out: features, findings, the memory per entity, and the   *)
(* limit on the number of addresses.                                       *)
(***************************************************************************)
EXTENDS CatchAll, AddressMemory, Classify

CONSTANTS
    Address, Agent,
    Bucket,     \* five-minute slices of time
    Segments,   \* path |-> its segments
    Served,     \* paths the profile has seen served
    Answer,     \* successful answers with a body that sites may give
    MaxEvents, MaxStarts,
    MaxDepth    \* bound on the segments of the paths that are compared

ASSUME EvidenceAssumption ==
    /\ Bucket \subseteq Nat
    /\ DOMAIN Segments = Path /\ Served \subseteq Path
    /\ Answer \subseteq [site: Site, path: Path, size: Nat \ {0}]
    /\ None \notin Answer
    /\ {MaxEvents, MaxStarts, MaxDepth} \subseteq Nat

VARIABLES
    running,
    open,      \* window |-> its number of events (0: not open)
    sources,   \* address and bucket |-> aggregate of its open windows
    siteSizes, \* site |-> sizes of its answers
    siteDirs,  \* site and directory |-> its last answers
    memory,    \* address |-> its recent buckets
    saved,     \* the memory on disk
    closing,   \* windows a sweep or a flush has still to close
    flushing,
    \* History.
    answered,  \* answers given to anyone since the start
    got,       \* address and bucket |-> answers its last aggregate has seen
    reports,   \* address and bucket |-> files its windows carried, window by window
    total,     \* address and bucket |-> its events, of all lives of the process
    done,      \* addresses and buckets of which a window was closed
    late,      \* those of done that got an event afterwards
    cut,       \* addresses and buckets a stop or a kill fell into
    events, starts

seen == <<siteSizes, siteDirs>>
bucketHistory == <<total, done, late>>
history == <<answered, got, reports, bucketHistory, cut>>
vars == <<running, open, sources, seen, memory, saved, closing, flushing, history, events, starts>>

Source == Address \X Bucket
Window == Address \X Agent \X Bucket

SourceOf(window) == <<window[1], window[3]>>

RootOf(path) == Root(Segments[path])

\* A sensitive file one address got: seen are the answers of its directory by then.
File == [site: Site, path: Path, size: Nat, seen: SUBSET Sized]

Dir == {Parent[path] : path \in Path}

\* unserved: never-served paths, with the sizes they were answered with.
Aggregate == [count: Nat, windows: Nat, unserved: SUBSET Sized, files: SUBSET File]

NoAggregate == [count |-> 0, windows |-> 0, unserved |-> {}, files |-> {}]

TypeOK ==
    /\ running \in BOOLEAN /\ flushing \in BOOLEAN
    /\ open \in [Window -> 0 .. MaxEvents]
    /\ \A s \in Source :
        /\ sources[s].windows = Cardinality({w \in Window : open[w] > 0 /\ SourceOf(w) = s})
        /\ sources[s].windows = 0 => sources[s] = NoAggregate
    /\ \A site \in Site : Len(siteSizes[site]) <= MaxSiteSizes
    /\ \A place \in Site \X Dir : Len(siteDirs[place]) <= DirAnswers
    /\ {memory, saved} \subseteq [Address -> Seq(Entry)]
    /\ \A a \in Address : Len(memory[a]) <= RecentBuckets
    /\ closing \subseteq {w \in Window : open[w] > 0}

NothingOpen == [w \in Window |-> 0]
NoSources == [s \in Source |-> NoAggregate]
NoSizes == [site \in Site |-> <<>>]
NoDirs == [place \in Site \X Dir |-> <<>>]

Init ==
    /\ running = TRUE
    /\ open = NothingOpen /\ sources = NoSources /\ siteSizes = NoSizes /\ siteDirs = NoDirs
    /\ closing = {} /\ flushing = FALSE
    /\ memory = [a \in Address |-> <<>>] /\ saved = memory
    /\ answered = {} /\ got = [s \in Source |-> {}] /\ reports = [s \in Source |-> <<>>]
    /\ total = [s \in Source |-> 0] /\ done = {} /\ late = {} /\ cut = {}
    /\ events = 0 /\ starts = 1

-----------------------------------------------------------------------------
(* add: one event is folded in.                                            *)

\* _note_unserved_success.
NoteUnserved(agg, answer) ==
    IF answer.path \in Served THEN agg
    ELSE [agg EXCEPT !.unserved = @ \cup {[path |-> answer.path, size |-> answer.size]}]

\* _note_exposure: of each file, the largest body.
NoteExposure(agg, answer, siblings) ==
    LET known == {f \in agg.files : f.site = answer.site /\ f.path = answer.path}
        file  == [site |-> answer.site, path |-> answer.path, size |-> answer.size,
                  seen |-> ToSet(siblings)]
    IN  IF RootOf(answer.path) = None \/ \E f \in known : f.size >= answer.size THEN agg
        ELSE [agg EXCEPT !.files = (@ \ known) \cup {file}]

Counted(agg, isNew) ==
    [agg EXCEPT !.count = @ + 1, !.windows = IF isNew THEN @ + 1 ELSE @]

\* An event without a successful answer.
Miss(w) ==
    /\ sources' = [sources EXCEPT ![SourceOf(w)] = Counted(@, open[w] = 0)]
    /\ UNCHANGED <<siteSizes, siteDirs, answered>>

Hit(w, answer) ==
    LET place    == <<answer.site, Parent[answer.path]>>
        siblings == RememberAnswer(siteDirs[place], answer.path, answer.size)
    IN  /\ siteSizes' = [siteSizes EXCEPT ![answer.site] =
                            RememberSize(@, answer.path, answer.size)]
        /\ siteDirs' = [siteDirs EXCEPT ![place] = siblings]
        /\ sources' = [sources EXCEPT ![SourceOf(w)] =
                NoteExposure(NoteUnserved(Counted(@, open[w] = 0), answer), answer, siblings)]
        /\ answered' = answered \cup {answer}

Add(w, answer) ==
    /\ running /\ ~flushing /\ closing = {} /\ events < MaxEvents
    /\ events' = events + 1
    /\ open' = [open EXCEPT ![w] = @ + 1]
    /\ IF answer = None THEN Miss(w) ELSE Hit(w, answer)
    /\ LET isNew == sources[SourceOf(w)].windows = 0 IN
        /\ got' = [got EXCEPT ![SourceOf(w)] = (IF isNew THEN {} ELSE @) \cup ({answer} \ {None})]
        /\ reports' = [reports EXCEPT ![SourceOf(w)] = IF isNew THEN <<>> ELSE @]
    /\ total' = [total EXCEPT ![SourceOf(w)] = @ + 1]
    /\ late' = late \cup ({SourceOf(w)} \cap done)
    /\ UNCHANGED <<running, memory, saved, closing, flushing, done, cut, starts>>

-----------------------------------------------------------------------------
(* Closing windows.                                                        *)

Opened == {w \in Window : open[w] > 0}

\* _sweep: the windows that end before some time.
Sweep(bucket) ==
    /\ running /\ ~flushing /\ closing = {}
    /\ \E w \in Opened : w[3] > bucket
    /\ \E w \in Opened : w[3] <= bucket
    /\ closing' = {w \in Opened : w[3] <= bucket}
    /\ UNCHANGED <<running, open, sources, seen, memory, saved, flushing, history, events, starts>>

\* flush, when the runtime stops.
Flush ==
    /\ running /\ closing = {} /\ ~flushing
    /\ closing' = Opened /\ flushing' = TRUE
    /\ cut' = cut \cup {SourceOf(w) : w \in Opened}
    /\ UNCHANGED <<running, open, sources, seen, memory, saved, answered, got, reports,
                   bucketHistory, events, starts>>

\* _confirmed_exposures: the site gave that size for two other paths, this address
\* got it for two never-served paths, or the directory answers with such a page.
IsPage(agg, f) ==
    \/ Cardinality(PathsOf(siteSizes[f.site], f.size) \ {f.path}) >= 2
    \/ Cardinality({r \in agg.unserved : r.size = f.size}) >= 2
    \/ Echoed(f.path, f.size, Merged(f.seen, ToSet(siteDirs[<<f.site, Parent[f.path]>>])))

Confirmed(agg) == {f \in agg.files : ~IsPage(agg, f)}

\* A window carries a record of each exposure, with its files.
Records(files) ==
    {[site |-> f.site, root |-> RootOf(f.path), kind |-> Kind(Segments[f.path]),
      files |-> {g \in files : g.site = f.site /\ RootOf(g.path) = RootOf(f.path)}] : f \in files}

\* Mutant of Released: the next window of the address carries the files again.
ReleasedLate(agg) ==
    IF agg.windows = 1 THEN NoAggregate ELSE [agg EXCEPT !.windows = @ - 1]

\* The first window to close takes the files, the last one the aggregate.
Released(agg) ==
    IF agg.windows = 1 THEN NoAggregate ELSE [agg EXCEPT !.windows = @ - 1, !.files = {}]

Close(w) ==
    LET s == SourceOf(w) agg == sources[s] IN
    /\ running /\ w \in closing /\ \A v \in closing : w[3] <= v[3]
    /\ memory' = [memory EXCEPT ![w[1]] = CloseBucket(@, w[3], agg.count, flushing)]
    /\ reports' = [reports EXCEPT ![s] = Append(@, Records(Confirmed(agg)))]
    /\ sources' = [sources EXCEPT ![s] = Released(agg)]
    /\ open' = [open EXCEPT ![w] = 0]
    /\ closing' = closing \ {w}
    /\ done' = done \cup {s}
    /\ UNCHANGED <<running, seen, saved, flushing, answered, got, total, late, cut, events, starts>>

-----------------------------------------------------------------------------
(* The memory of addresses outlives the process.                           *)

\* _save_address_memory, every ten minutes.
Save ==
    /\ running /\ closing = {} /\ saved # memory
    /\ saved' = memory
    /\ UNCHANGED <<running, open, sources, seen, memory, closing, flushing, history, events, starts>>

\* The end of a stop.
Stopped ==
    /\ running /\ flushing /\ closing = {}
    /\ running' = FALSE
    /\ saved' = memory
    /\ UNCHANGED <<open, sources, seen, memory, closing, flushing, history, events, starts>>

Kill ==
    /\ running
    /\ running' = FALSE
    /\ cut' = cut \cup {SourceOf(w) : w \in Opened}
    /\ UNCHANGED <<open, sources, seen, memory, saved, closing, flushing, answered, got, reports,
                   bucketHistory, events, starts>>

\* restore_address_memory.
Reloaded(snapshot) == [a \in DOMAIN snapshot |-> Restored(snapshot[a])]

Start ==
    /\ ~running /\ starts < MaxStarts
    /\ running' = TRUE
    /\ starts' = starts + 1
    /\ open' = NothingOpen /\ sources' = NoSources /\ siteSizes' = NoSizes /\ siteDirs' = NoDirs
    /\ closing' = {} /\ flushing' = FALSE
    /\ memory' = Reloaded(saved)
    /\ answered' = {} /\ got' = [s \in Source |-> {}] /\ reports' = [s \in Source |-> <<>>]
    /\ UNCHANGED <<saved, bucketHistory, cut, events>>

Next ==
    \/ \E w \in Window, answer \in Answer \cup {None} : Add(w, answer)
    \/ \E bucket \in Bucket : Sweep(bucket)
    \/ Flush
    \/ \E w \in Window : Close(w)
    \/ Save \/ Stopped \/ Kill \/ Start

Spec == Init /\ [][Next]_vars

-----------------------------------------------------------------------------
(* Properties.                                                             *)

\* The site has answered with this size for two other paths (JOURNAL D-040, 2).
SitePage(d) ==
    Cardinality({e.path : e \in {e \in answered : e.site = d.site /\ e.size = d.size}} \ {d.path}) >= 2

\* The directory answers with a page that repeats the path (JOURNAL D-041).
DirectoryPage(d) ==
    Echoed(d.path, d.size,
           {[path |-> e.path, size |-> e.size] :
                e \in {e \in answered : e.site = d.site /\ Parent[e.path] = Parent[d.path]}})

\* The address got the size for two never-served paths, of whatever site.
OwnPage(s, d) ==
    Cardinality({e.path : e \in {e \in got[s] : e.size = d.size /\ e.path \notin Served}}) >= 2

\* The sensitive files an address has got, by their largest bodies.
Downloads(s) ==
    {d \in got[s] : RootOf(d.path) # None
        /\ \A e \in got[s] : (e.site = d.site /\ e.path = d.path) => e.size <= d.size}

Carriers(s, d) ==
    {i \in DOMAIN reports[s] :
        \E r \in reports[s][i] : \E f \in r.files : f.site = d.site /\ f.path = d.path}

\* When all windows of an address in a bucket are closed, each sensitive file it got
\* was carried by exactly one of them, however many user-agents it used, or its
\* answer was a page by one of the three rules (window_features.py:390).
DownloadsReported ==
    \A s \in Source : running /\ sources[s] = NoAggregate =>
        \A d \in Downloads(s) :
            /\ Cardinality(Carriers(s, d)) <= 1
            /\ Carriers(s, d) = {} => SitePage(d) \/ DirectoryPage(d) \/ OwnPage(s, d)

\* The root is what one exposure is (exposure.py:200): two files have the same root
\* exactly when they are of one repository, whatever else their names or their
\* directories are, a repository inside a repository included.  A fact of the
\* operators, looked at before the first event.
OneExposureEach ==
    events = 0 =>
        \A p, q \in Sensitive(MaxDepth) : Root(p) = Root(q) <=> SameExposure(p, q)

\* No window carries a file whose size the site has given for two other paths,
\* before or after the download, as long as the sizes of the site could all be kept.
PagesNotReported ==
    [][\A s \in Source : Len(reports'[s]) > Len(reports[s]) =>
        \A f \in UNION {r.files : r \in Last(reports'[s])} :
            SitePage(f) => Cardinality({e.size : e \in {x \in answered : x.site = f.site}}) > MaxSiteSizes
      ]_vars

\* A cadence sample of a bucket that no stop or kill fell into never has more events
\* than the address had in the bucket, with all its user-agents, and it has all of them
\* unless one came after a window of the bucket was closed: such an event opens the
\* bucket again, and close_bucket leaves it out (bot_features.py:328).
SamplesAreWhole ==
    \A a \in Address : \A e \in Samples(memory[a]) :
        LET s == <<a, e.bucket>> IN
        s \notin cut => /\ e.events <= total[s]
                        /\ s \notin late => e.events = total[s]

\* "A response whose size the same site returned for two or more other paths is its
\* answer to everything" (JOURNAL D-040, 2), and D-041 for pages that repeat the path:
\* a file that neither rule takes for a page is reported.
OnlyPagesLeftOut ==
    \A s \in Source : running /\ sources[s] = NoAggregate =>
        \A d \in Downloads(s) : Carriers(s, d) = {} => SitePage(d) \/ DirectoryPage(d)

\* "Record a closed bucket's event count for this address" (bot_features.py:322): a
\* bucket that no stop or kill fell into is recorded with its events, the late ones too.
ClosedBucketsCounted ==
    \A a \in Address : \A e \in Samples(memory[a]) :
        LET s == <<a, e.bucket>> IN
        s \notin cut /\ sources[s] = NoAggregate => e.events = total[s]

\* "``partial`` marks a bucket closed early ...: the rest of that bucket completes it
\* after a restart" (bot_features.py:324-326): a sample has no more events than there were.
CompletedNotInflated ==
    \A a \in Address : \A e \in Samples(memory[a]) : e.events <= events
=============================================================================
