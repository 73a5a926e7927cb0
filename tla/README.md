# A formal model of foss-soc-ml

foss-soc-ml tails the web logs that a parser writes as ECS JSON, folds them into
five-minute windows per client, scores every window with unsupervised models,
and delivers the few alerts that survive suppression, folding and a daily cap.
The numbers that decide whether a window fires are statistics, and stay outside
of this project. What is modelled is everything around them that keeps state:
which windows there are and in which order they arrive, what becomes of an
alert, what survives a restart, and what a reader of the files is promised.

Line numbers below are of `src/src/soc_ml/`.

## The system

| Part | State it keeps | Operations | What makes it correct |
|---|---|---|---|
| File source (`ingest/file.py`) | offset and inode per file, look-ahead of the merge | read, checkpoint, seek, stop | no line skipped or repeated over rotation and restart |
| Window builder (`features/window_features.py`) | open windows, watermark, sweep counter, address memory | add, sweep, flush | each event in one window, windows out in order |
| Runtime (`detection/runtime.py`) | builders, delivery state, output buffers, timers, stop flag | run, tick, handle, checkpoint, flush, shutdown | nothing lost or done twice at a restart; stops when asked |
| Scorer (`detection/scorer.py`) | none | score, suppress, build alert | an exposure is never suppressed |
| Progressive alerting (`fusion/progressive.py`) | episodes, queued of the day, campaigns | decide | only sustained scanners queue, once a day; a finding is never hidden |
| Deduplicator (`detection/dedup.py`) | open alerts per entity and per address | decide | one alert per quiet period |
| Budget (`detection/budget.py`) | count per day | decide | the cap holds |
| Exposure tracker (`features/exposure.py`) | per exposure the alert that raised it | decide | each exposure is raised, and not again too soon |
| Bot gate (`usecases/bot_detection.py`) | streaks | gate, prune | only a sustained streak fires |
| Annotations (`detection/annotations.py`) | bounded LRU | annotate, get | a consumer sees the exporter's current word |
| Exposure recognition (`features/exposure.py`) | none | classify, verify | one exposure has one identity; a confirmed file was public |
| Registry (`registry/store.py`) | bundles, pointers, approvals | promote, rollback, prune | nothing unapproved serves; a rollback target exists |
| Training and approval (`training/`, `scripts/check_candidate.py`) | none but the registry | train, replay, verdict | no model on too little data; no promotion to a version blind to a known attack |
| SIEM shipper (`alerting/siem.py`) | offset per file, retries | ship | every row indexed, none lost at an error, the last word wins |
| Console verifier (`web/alerts.py`) | last verification, rows | verify pending, verify on demand | rate limit; every exposure checked |
| Console views (`web/state.py`, `web/server.py`) | cache, samples | poll, promote, rollback, sample | no stale picture; buttons agree with the registry |
| Sessionizer (`preprocess/sessionize.py`) | open visits | add, expire, flush | each event in one visit, split at gaps only |
| Models, fusion, evaluation, drift, configuration | batch or pure | | |

The runtime is one thread. It calls the source for the next event, every
builder with it, and the scorer and the delivery stages with what the builders
close; after each of these it may checkpoint. The hard behaviour comes from what
this thread interleaves with: the parser appending to and rotating files, a
SIGTERM, a kill between any two statements, and, behind the files it writes,
the shipper and the console in processes of their own. The registry is a
directory that the command line, the console and a cold start all write.

`PROJECT.json` lists every part with its status, and every hazard at its line.

## The modules

```
Alerts -- Progression, Dedup, Budget, ExposureTracker -- Delivery -- MCDelivery
                                                            \-- DeliveryProofs
Windows -- Runtime -- MCRuntime
                 \-- RuntimeProofs
FileSource -- MCFileSource
         \-- FileSourceProofs
CatchAll, AddressMemory, Classify -- Evidence -- MCEvidence
                                           \-- EvidenceProofs
Annotations, BotGate -- Scoring -- MCScoring
                              \-- ScoringProofs
Registry -- MCRegistry
      \-- RegistryProofs
Lifecycle -- Dashboard -- MCDashboard
                     \-- DashboardProofs
AtLeastOnce <= Shipper -- MCShipper
                     \-- ShipperProofs
Verifier -- MCVerifier
       \-- DashboardProofs
Sessions -- MCSessions
       \-- EvidenceProofs
```

A line is EXTENDS or INSTANCE; `<=` is "is implemented by". Lifecycle, Verifier and
Sessions are extended by proof modules beside another component, so the parts of
their specifications bear their names (`LifeSpec`, `VerifierSpec`, `VisitsSpec`).

### From log line to alert

**FileSource** opens up what Runtime takes for one file. Each pass primes a
stream per file (`Prime`), lets one event out at a time (`Yield`) and goes on with
that stream only when the runtime asks again (`Resumed`); the runtime may save
between the two (`Save`). Recorded offsets and inodes are kept apart as in the
code. `home` is history: the inode an offset was really counted in.

**Windows** is the builder: `add` is `Drop`, `Fold` or `FoldAndSweep`. **Runtime**
is the loop over it. `phase` says which of the loop's waits the process is in
and `pc` which step of a tick is next; a kill may fall between any two steps, and
the checkpoint and the flush of one tick are two steps. What the process holds
(windows, batch, delivery memory, the sink's buffer) is gone at a kill; the feed,
the checkpoint file and what the sink flushed stay. Delivery is reduced to what
recovery can tell apart: a handled window either leaves a new alert, to which
the memory then refers, or does not.

**Evidence** is the other half of the builder: what is kept per address and
bucket while several windows of that address are open (`_SourceAgg`), and which of
these windows carries it out. It composes three modules of operators:
**Classify** (which sensitive file a path is, and under which root, with the rules
in the code's order over the tests a name passes), **CatchAll** (the sizes a site
has answered with, and the three rules that tell a page from a file) and
**AddressMemory** (the buckets of the last hour). A sweep chooses what is over and
then closes window after window; a flush closes all as partial; `Save`, `Stopped`,
`Kill` and `Start` are the runtime's use of the memory file.

**Scoring** takes the windows of one sweep through both use cases in dependency
order, which is computed as `dependency_order` does. **BotGate** is the streak table
of `bot_detection`, with `_prune`; **Annotations** the bounded table through which
it tells `web_recon` what it knows of an entity. A window carries what the models
come to: over the gate or not, and one of four words about the entity. `past`
is history: all windows of an entity that were over the gate, whatever the table
forgot since.

**Alerts** says what the delivery stages see of an alert. Time is counted in
windows, and all state is per server, so there is one server. **Progression**,
**Dedup**, **Budget** and **ExposureTracker** hold one stage each: its dictionaries
as functions with `None` where a key is absent, and one action per way its
`decide` returns. `_evict` runs first in every decision, so each action works on
`LiveEpisodes`, `LiveQueued`, `LiveCampaigns` or `Unexpired`, and writes them back
for every key, as the code does.

**Delivery** composes them as `_deliver` and `_deliver_exposure` do. One action
takes one scored window through the whole pipeline and ends in one of the
dispositions the score log records; `log` is that log. The input of an action is
what the scorer says of a window: did it fire, does the use case advise to
suppress it, which sensitive files did it expose. `Progressive` chooses between
the two use cases: web_recon folds by episode, bot_detection by cooldown.
`Lateness` is how far behind the latest window a window may still arrive.

### Behind the files

**Shipper** is the process that copies four append-only files into the SIEM.
`turn` is the round over the files, `answer` what the last bulk request came to
for its lines: all done, or some refused because their alert is not indexed. A
request that fails for a reason outside the process (`BulkFails`) may have been applied
in any part. Three kinds of lines stop the shipper by themselves, and are rows of the
files here: one the index refuses whatever it holds, such as a mapping error (`Refused`),
which raises in every round with its batch (`BulkRefused`); one that is JSON but no
object (`NoObject`), over which `_actions` ends the process (`RowEndsProcess`); and one
of `_MAX_LINE` bytes or more (`TooLong`), which `_read_new` takes for half-written, so
that nothing behind it is `Legible`. A download that is no object is passed on as it is,
and refused. `index` is what the SIEM shows of each alert, `copies` how many documents a
download has.
**AtLeastOnce** is its abstract specification: per file, lines are written, settled
in any order and any number of times, and the durable position moves over settled
lines only, or is lost. `Lossless` in Shipper is that specification under the
mapping written = length of the file, saved = the checkpoint.

**Verifier** is the console's check of exposures: the thread that goes through what
nobody has checked and the request threads that check one alert, each in the
steps that matter (the time read, the rows read, the time noted, up to two
fetches, the row appended), which other threads and a changing site may come
between. `verify` and `_signature` are the operators `Reply`, `ReplyVerdict` and `Recognised`
over what the patterns can tell of a body. An answer that breaks the check with an
error `verify` does not expect is `"broken"`: the verdict is "unreachable" and the other
scheme is not asked.

**Dashboard** is the console's views behind one cache: a request thread polls,
misses, reads pointers, then bundles, then stores, and others store, promote and
invalidate meanwhile. A view that cannot be produced ends its request (`ProduceBreaks`);
a promotion that raises once the pointer has moved leaves the cache as it is
(`PostBreaks`). The runtime's health file and its counters are the other
source; `sampler` is the chart.

### Models and who may serve

**Registry** is the directory of one use case and the processes that write it
with no lock: the command line trains, promotes and rolls back, the console's
request threads promote and roll back, a cold start trains and promotes, and
`check_candidate.py` replays for a long time before it records a verdict. `job` is
what each is doing. A promotion is admitted by the gate, then writes its record,
the temporary file, the pointer, clears the candidate, chooses what to prune and
removes it, one step each; a rollback reads the metadata it will write back. A
step that finds a bundle or the shared temporary file gone fails, as the exception
does in the code.

**Lifecycle** looks at the same operations with each as one step, and at what
Registry leaves out: when training refuses, what a version catches of each filed
incident, what verdict a replay comes to, and what a chain of promotions,
forced promotions and rollbacks then keeps. Dashboard extends it.

**Sessions** is the sessionizer, which nothing in the runtime uses; the two counts
kept beside a visit (`members`, `orphan`) are history.

Modules named `MC...` only define values for TLC. An operator under the words
"Mutant of" is a wrong version of the definition below it, the way a bug might
have it. Nothing uses these; substituted for the right one, each makes a property
fail, which shows that the property depends on that piece of the code.

## What the runs check

All runs are exhaustive for their bounds. Deadlock is not checked where the
bounds stop the model (`MaxAlerts`, `MaxEvents`, `MaxInodes`, `MaxLines`, ...); it is
checked of the shipper and the verifier, which never stop.

**delivery_scans**: scans only, two addresses and two user-agents, up to four
alerts, days of five windows and episodes of two, on time. An episode can then
end, be followed by another the same day, run over midnight and share a campaign.
`SustainedOnly`, `QueuedOncePerDay`, `OneAlertPerCampaign`. The real values (six
windows to the queue, ten minutes, 288 windows a day) differ in size only: every
comparison is between times, and each bound is reached and passed by one.

**delivery_exposures**: three files, one of low impact, two addresses, and
windows up to two late, which is as late as this horizon allows. `TruthfulFlags`,
`ExposureCovered`, `ExposureNotRepeated`, `ExposureFoldsHome`. Three alerts suffice
for an alert that mixes a new, a known and a low-impact exposure after the two
that made the difference.

**delivery_dedup**: the cooldown of the other use case, with four alerts and a
cooldown of one window: `CooldownQuiet`, `FoldsIntoLatest`.

The ordering properties of the first and third run hold for windows that arrive
on time (`Lateness = 0`). They do not hold for late ones: eviction takes the time
of the alert in hand for the present, so a later window makes an earlier one's
episode, daily entry or cooldown disappear and the late window opens another.
`InWindowOrder`, below, says when that happens: only for windows opened by events
that came after the grace. The properties of the second run hold regardless.

**runtime_recovery**: two clients, three events, a stop request, a kill and any
number of restarts; sweeps every other event, and room for two windows, so that
windows close mid-feed, late events open windows again, and an event finds no
room. `MaxBacklog = 1` means the parser is at most one event ahead, which is
enough for a stop to find an event in hand. `EventsAccounted` says where every
event is that the source is past, and that without kills a stop loses at most
one; `ReprocessesNothing` that without kills none is handled twice;
`InWindowOrder` in which order windows reach delivery; `FoldTargetsExist` that
the alerts the memory and the checkpoint refer to exist, unless a kill fell
between the two steps of a tick. `StopsWhenAsked` is liveness, under weak
fairness of the loop's own steps: nothing in the loop blocks, and the only wait
is the poll's sleep. No fairness is assumed of the parser, of stop requests or
of restarts.

**file_source**: two paths, three files with three lines between them, one kill,
one failure to open. `SkipsNothing` says that neither a restart from the
checkpoint, wherever it was saved, nor the next pass of a living process goes past a
request the runtime was not given, unless an offset was kept beside the inode of
another file; `InFileOrder` that within a life each file's requests come once and
in order. Three files are needed for two that are read at once, one of them
rotated; three lines for one line of each.

**evidence**: two addresses with two user-agents, two buckets, three events and two
starts; the answers hold two copies of a secrets file, a probe and a page of one
directory, with sizes that coincide or echo the path, on two sites; a site
keeps two sizes. `DownloadsReported`: when the windows of an address in a bucket
are closed, each sensitive file it got was carried by exactly one, or was a page by
one of three rules. `PagesNotReported`: no window carries a file whose size the
site has given twice elsewhere, as far as sizes are kept. `SamplesAreWhole` compares a
cadence sample with the events the address had in the bucket, counted over all lives of
the process and all its user-agents: unless a stop or kill fell into the bucket the
sample is never more, and it is all of them unless an event came after one of the
bucket's windows was closed. Such a late event opens the bucket again, and
`close_bucket` finds an entry and returns (`ClosedBucketsCounted`, below).
`OneExposureEach` is a fact of `classify` over all paths of three segments in which two rules can compete.

**scoring**: two entities, four times, two windows in a row to fire, windows up to
two late, one restart; the streak table is full at two and the annotation table
has room for one, so that pruning and eviction both happen. `GateExact` compares
the table with the whole history; `ToldInThisSweep` says that `web_recon` never
acts on an annotation of an earlier sweep or of another window than the last.

**shipper**: an alert and an id without one, four lines among two of alerts, two
verifications, a triage and three downloads, in batches of two, and two faults (requests
that fail from outside, kills, a lost checkpoint). One of the lines may be one that no
round gets past: refused for good, no object, or too long. Three downloads put it before,
behind and in another request than others, two lines of alerts before and behind an
alert.

`SiemAgrees`: behind the offsets every alert is there and shows the last word on it.
`Lossless` is the refinement of AtLeastOnce. `CopiesExplained`: a download is there twice
only for a fault, or because it shares a request with a refused row, which may be applied
but for that row in every round. `EverythingSettles` says that every line is acknowledged
or given up in the end, except exactly what a line that is never got past holds up
(`HeldUp`): what is behind a line that is too long, in its file; with a row that ends the
round or the process, what is behind it in its file, what shares a request with it, and
the files that are read after its own. This is under weak fairness of the shipper's
process: its loop goes on after every error it catches, and the watchdog starts it again
after the others (`deploy/soc-ml-watchdog.sh:41-50`). That failures from outside end is
an assumption, the bound `MaxFaults`: a SIEM that is always down receives nothing. An
error that `run` does not catch, such as an answer that is no JSON, counts as a kill. The
property is stated of the set of lines that wait (again and again it is empty), which for
a bounded number of lines says it of each line.

**verifier**: two alerts that share an exposure, the thread and one analyst who
asks twice, one fault, and a site that answers nothing, a page, a file, or something
that breaks the check, differently over https and http, and changes in the middle of a
check. `RepeatsUnansweredOnly`: a second fetch within the interval only by a call that
was decided before the first one's row was in the file. A console that restarts
remembers no times; the model lets the rows of the life before count as old, so a repeat
right after a restart is exempt. `ConfirmedWasPublic`: the verdict held of a state the site was in.
`EveryExposureChecked` under weak fairness of the thread, and of the calls once
begun; not of analysts, alerts or sites.

**sessions**: two entities, two paths, four events up to one late and two ahead, a
gap of one and a cap of two. `EveryEventOnce`: every event is in one visit, and the
counters are the numbers of visits, of late events and of shortened visits there are,
counted by their places. `VisitsSplitAtGaps`. `ShorteningIsSaid`: the requests,
statuses and gaps of a visit are those of its events, in order, from their beginning,
and it is marked truncated exactly when one of them is not whole.

**registry**: two processes, three versions, three promotions, one approval check
and one kill, and nothing kept hot, so that pruning removes whatever is not
protected. Three versions are the least at which one serves, one is what it
displaced and one is left to prune, or at which a verdict is about a version that
no longer serves. `ServesVetted` and `RecordsKept` hold whatever overlaps.
`ServingHolds` and `RollbackReturns` are promised only while no two processes
promote or roll back at once (training and checks may run), but also after a kill.
The processes are interchangeable, and the run uses that symmetry.

**dashboard**: two request threads, three versions of six qualities over two
incidents, six changes of the registry. The views share nothing but the files, so
the state constraint looks at them one at a time: the overview over four ticks
with two alerts or kills; the models page over three changes; the registry alone
over all six. `NoStalePicture`, `ButtonsTellTheRules`, `DeadIsNotLive`,
`IncidentsStayCaught`; the proofs below have none of these bounds.

Each module has a type invariant, and each holds on its run's instance. It is an
invariant of no run: where a proof needs it, it is a theorem.

## Statements that TLC refutes

Some sentences of the repository are not true of its code. Each is a definition in
the module it is about, and no run contains it. To see the behaviour, check it as
the only invariant with the run's `.cfg` and these changes.

| Definition | What the repository says | What the code does | Instance |
|---|---|---|---|
| `Delivery!FoldsIntoQueued` | "Only a **high** episode reaches the queue ...; later fires of that address that day fold into it" (`fusion/progressive.py:18-20`) | an address whose exposure was merely digested (a low-impact kind) counts as queued for the day, and its scans fold into an alert nobody was sent (`detection/runtime.py:475-481`) | MCDeliveryExposures with `Key = {k1}`, `LowImpact = {k1}`, `DailyBudget = 3`, `Lateness = 0`, no symmetry |
| `Delivery!AllowedNotAlerted` | `test_an_allowed_exposure_is_not_alerted` (`tests/test_exposure.py:215`) | a fired window with an allowed and another exposure raises both; the filter is applied to the evidence after the alert was built (`detection/runtime.py:541-556`) | MCDeliveryExposures with `Key = {k1, k2}`, `Allowed = {k1}`, `LowImpact = {}`, `Lateness = 0`, no symmetry |
| `Runtime!LosesNothing` | "a restart resumes exactly where it stopped, reprocessing nothing and losing nothing" (`detection/runtime.py:23-25`) | the stop flag is read with the next event in hand; it is dropped and the checkpoint is behind it (`315-317`) | MCRuntime with `MaxCrashes = 0` |
| `Runtime!NoCheckpointOutrunsItsAlerts` | the comment on a checkpoint that outruns its records (`detection/runtime.py:342-344`) | the checkpoint is durable before the outputs are flushed, and a kill may fall between (`341-345`) | MCRuntime with `MaxStops = 0` |
| `FileSource!CheckpointSkipsNothing` | "a checkpoint taken in between must not skip it" (`ingest/file.py:170-172`) | the new inode of a rotated file is recorded when its stream is primed, its offset when its first event leaves (`194`); a restart from between the two continues the new file at the old offset | MCFileSource with `MaxFailures = 0` |
| `Registry!PruningSparesServing` | "Pruning never touches current/candidate" (`registry/store.py:28`) | the victims are chosen from pointers read once; another process may make one of them serve before it is removed (`344-352`) | MCRegistry with `Hot = 1`, `MaxVersions = 4`, `MaxChecks = 0`, `MaxKills = 0` |
| `Shipper!WaitsForItsAlert` | "rounds an update waits for its alert to be indexed" (`alerting/siem.py:30`) | the count is per file, not per update: an update that was sent in a batch with an older orphan is given up with it | MCShipper with `Ghost <- NoGhosts`, `MaxRows <- UpdateRows`, `MaxStopping = 0`, `MaxFaults = 0` |
| `Verifier!NotExposedNow` | "Not exposed now: the site refuses or no longer has the file" (`features/exposure.py:335`) | a refusal over https ends the check, though the file is served over http | MCVerifier with `Sites <- SplitSites`, `MaxAsks = 1`, `MaxFaults = 0` |
| `Verifier!OncePerInterval` | "One verification per exposure per minute, however often the button is hit" (`web/alerts.py:43`) | the limit yields to a call that finds no row yet | MCVerifier |
| `Scoring!ConsecutiveWindows` | "Six consecutive 5-minute windows" (`usecases/bot_detection.py:17`) | a window that is delivered again counts again | MCScoring |
| `Scoring!ReadInTheSameWindow` | "Consumers read it in the same window" (`detection/runtime.py:264`) | each use case goes through the whole sweep, so the consumer reads what was said of the entity's last window in it | MCScoring |
| `Evidence!OnlyPagesLeftOut` | a size that the *same site* returned for two other paths is its page (JOURNAL D-040, 2) | sizes an address got for paths never served count over all sites (`features/window_features.py:405-406`) | MCEvidence |
| `Evidence!ClosedBucketsCounted` | "Record a closed bucket's event count for this address" (`features/bot_features.py:322`) | an event within the bucket that comes after the sweep closed it opens it again; its count is left out, since an entry that is not partial is taken for another user-agent's (`features/bot_features.py:328-332`) | MCEvidence |
| `Evidence!CompletedNotInflated` | "the rest of that bucket completes it after a restart" (`features/bot_features.py:324-326`) | a flush closes the windows of an address's user-agents one by one, each with the count of the whole address; to a partial entry each adds it again (`features/bot_features.py:328-331`, `features/window_features.py:584`), and what is completed is a sample of more events than there were | MCEvidence with `Address = {x}`, `Answer = {}`, `MaxEvents = 4`, no symmetry |

## What is proved

TLAPS checks the theorems below for every value of the constants. They assume the
named assumptions beside the constants (numbers are natural, `None` is no value
that is stored, a day and a window are not empty) and nothing else, except where a
hypothesis is named. Every inductive invariant was first an invariant of a TLC run
on the instance of its module. `PROJECT.json` lists the theorems; all safety and
action properties of the runs are among them.

### Delivery

`DeliveryProofs` is about any number of addresses, user-agents and exposures, any
horizon, day, gap, budget, lateness and length of the log.

* `TypeCorrect`: `Spec => []TypeOK`. One lemma per stage shows that its `decide`
  keeps its dictionaries typed; `StepType` puts them together, action by action.
* `FlagsTruthful`: `TruthfulFlags`, given `TypeOK`. The argument is that every
  stored reference is either kept or copied from another true one, or is `RefTo`
  the alert that the same step appends to the log; appending leaves older rows
  alone. `RefsIn` states "all stored references are in a set" once, so that each
  rule of `decide` is looked at once.
* `TrackerIsTrue`, `ExposuresCovered`, `ExposuresNotRepeated`, `ExposuresFoldHome`:
  none of the four is inductive alone. A download that folds is covered because
  the tracker's entry is a delivered alert that names the key (`TrackerTrue`), it
  is not repeated because no alert that raised the key alone is newer than the
  entry (the second half of `TrackerTrue`), and it folds home for the same reason.
  `ExposureInv` is the conjunction of the five with `TypeOK`; `ExposuresInvariant`
  proves it once and the theorems read off their part.
* `BudgetHolds`: `BudgetCap`, which counts rows of the log. It needs that a step
  adds at most one delivered row to one day, and that it spends there what it adds
  (`SpendsWhatItDelivers`), with the cardinality lemmas of the library.

Its second half proves the five properties of scans and repeats: `CooldownIsQuiet`,
`RepeatsFoldIntoLatest`, `QueuedOnceADay`, `OneAlertACampaign`, `OnlySustained`. They
have the hypothesis `Lateness = 0`, windows close in the order of their time, because
without it they are false: eviction takes the time of the alert in hand for the
present. `DeliveredInWindowOrder` of `RuntimeProofs` says which windows break the
hypothesis. Under it `Past` holds, nothing recorded is of the future, so what a stage
has forgotten is over. The invariants say what each memory therefore still knows:
`CooldownMemory` that the entry of an address is its latest alert, is as recent as
anything the address did within the cooldown, and outlives the entries of its
entities; `DayMemory` and `CampaignMemory` that whoever reached the queue today, or
within the gap, is on the list; `EpisodeMemory` that the windows an episode counts
are in the log, each within the gap of the next (`Chain`). The last is what makes
`OnlySustained` a statement about the log and not about a counter.

### From log line to window

`RuntimeProofs` is about any feed, window length, grace, sweep interval and room, and
any number of stops and kills. `RuntimeInv` has a part for each property and three
that they share: `Phases` (what the process holds in which phase), `Offsets` (the
checkpoint is never ahead of the loop, nor the loop of the feed) and `Homes` (an
event is in the window of its slot only, and a slot is open or waits, not both).

* `AllEventsAccounted`: every action moves events between the places `Kept` and `lost`
  name, or takes the next one; `Accounts` adds that a stop which the loop has not
  seen yet still has its event to lose.
* `NothingTwice`: with `Homes`, what is handled is apart from what is held; and
  without kills it is behind the position a next life starts from (`Once`).
* `DeliveredInWindowOrder`: `Ahead` says that, while the process reads, all it has
  closed is over, so that an event which comes for a window at or before a closed one
  is behind the watermark by more than the grace, and that the watermark is the time of
  an event of this life. A sweep closes everything that is over at once, so a batch
  has no open window before it. The arithmetic of buckets is in `BucketEnds`,
  `EndsInOrder` and `OverBefore`.
* `RepeatsHaveATarget`: `Targets` covers the two steps within a tick as well.

`FileSourceProofs` is about any paths, files, lines, kills and failures.
`NoRequestIsSkipped` follows `Trusted`: behind each position in memory, in the
checkpoint and in the streams the runtime was given every request. It holds until an
offset is kept beside the inode of another file (`mispaired`), which is the exception
that `SkipsNothing` states. `RequestsInFileOrder`, an action property, has no such
exception; it needs that no file has two paths (`OneOwner`) and that the path knows how
far its file was read in this life (`ReadSoFar`). `FileSourceTypes` are the types.

### What a window carries

The first part of `EvidenceProofs` is about any addresses, user-agents, sites, paths
and answers, any tables of names, and any limits on what is kept.

* `RootsAreExposures` is about paths of any length, not of three segments: two
  sensitive files have one root exactly when both are below one repository directory,
  or they are one file. It is why `Top` must take the outermost.
* `Held` is under everything else: the number in an aggregate is the number of open
  windows of its address, and all of these are closed in one sweep. So the last one
  to go takes the aggregate, and an event that comes then begins a new one.
* `WholeSamples`: the number of an entry, and the count of an open aggregate, is never
  more than the events of its bucket, and is all of them unless one came late (`Whole`).
  `MemoryInv` says so of every aggregate (`Counting`), because a bucket without one, of
  which no window was closed, has had no events yet; and of every entry (`Sound`), which
  took its number from an aggregate. An entry that is no sample yet is of a bucket that a
  stop or kill fell into, and so is every window a flush still closes.
* `NoPageReported`, an action property: while a site has not answered with more sizes
  than are kept, what is remembered of it is all it answered, up to three paths of each
  size (`SitesInv`). Three are enough to find two other than the file's own.
* `DownloadsAreReported`: `Gathered` says that until the first window of an aggregate
  closes, it holds of each file the largest body the address got; `Settled` that
  afterwards one report has it and no other, or one of the rules took it for a page,
  and later answers leave that so: sizes and pages only become more.
* `MemoriesAreBounded` is the type invariant, with every limit on what is kept.

The attempt at `WholeSamples` found a mistake in the model: an event could still be
added, and a sweep begin, after a flush had begun, which the loop's shutdown excludes
(`detection/runtime.py:937-945`). The invariant was not inductive, and TLC's three events
were too few to reach the state. `Add` and `Sweep` have that guard now. The answers of
a directory were remembered with `SelectSeq`, of which the provers know nothing;
at most one of them is of the path, so removing it says the same.

The second part is about Sessions, for any entities, paths, codes, gap, cap and bounds.

* `VisitsAreSplitAtGaps`: by `SessionsInv` the clock of a visit is the latest time of
  its events (`Steady`), and of an entity whose last visit the timer took the stream is
  a gap further than that visit. An event that begins the next visit within the gap is
  then behind the stream, which is the exception the property states.
* `ShorteningIsAlwaysSaid`: `ToldInv` says it of every visit at its place. One lemma,
  `KeepsPushed`, is about a capped sequence and one more value, and serves the three
  sequences; distinct paths are no more than requests, so their set is whole when the
  requests are.
* `EventsAreKeptOnce`: `CountsInv` counts places. An event adds the place behind the
  last event of the visit it is folded into and no other (`EventsAdd`), and handing a
  visit out moves no place (`VisitsHandedOut`).
* `VisitsAreTyped` is the type invariant.

In an earlier form these properties were sums over folds. Counted by places they say
more, since a sum may come out right with two errors, and can be proved.

### What the use cases make of a window

`ScoringProofs` is about any entities, words, sizes of the two tables and of the sweeps,
any lateness and any number of restarts.

* `GateIsExact` compares the streak table, which is pruned, with the whole history
  `past`, which is not. `GateInv` says what the one remembers of the other: a streak
  counts the last windows of its history, each next to the one before, and misses none
  (`Counts`); where there is no streak the history is over, because no window that is
  on time can follow it (`Forgotten`). A window that comes `StaleAfter` late or more
  escapes the argument, and `tardy` names its entity.
* `ToldWithinTheSweep` is `ToldInThisSweep`. The order in which the use cases take turns
  is computed in the model, so it is proved first what `DependencyOrder` returns
  (`OrderIs`). `ToldInv` then follows `bot_detection` through the batch: the entities it
  has written in this sweep are the warmest of the table, with the note of their last
  window. If one of them is evicted, all that stay are of this sweep, so there are more
  of them than the table has room for (`Crowded`, by the pigeonhole principle).

### Behind the files

`ShipperProofs` is about any alerts, batch size, number of tries, rows and faults.
`NothingIsLost` is the refinement: each step of Shipper is a step of `AtLeastOnce`
under the mapping of the module, or a stutter. It rests on `FeedInv`: the memory is
never behind the checkpoint, and what the answer in hand does not settle the shipper
does not go past. `CopiesAreFaults` counts the documents of a download against the
faults (`Copied`: one more than the faults, and none more for a line it will send
again), unless the line shares a request with a refused row. `SiemShowsTheLastWord` needs `AgreeInv`: why no alert is written over a fact
(its file is read to the end before any fact of the round), and what the index shows
behind both positions and behind the answer.

The last part of `DashboardProofs` is about Verifier, the console's other
protocol, for any alerts, exposures, sites, threads, interval and faults. `VerifierInv`
has a part for each thread (`CheckInv`) and one for the file of results (`RowsInv`). `ConfirmedIsPublic` needs `Asks`: while a site is asked, the call remembers
every state the site has been in, so a recognised body was one of these.
`OnlyUnansweredRepeat` needs that the time in memory is no older than any row of the
exposure, and that a check which runs is as old as that time or older (`Marked`).

### Models and who may serve

`RegistryProofs` is about any number of processes and versions, killed at any step.
`GateHolds` is `ServesVetted`. It is not inductive:
what serves next is in a temporary file, in a job that has passed the gate, or is
the version the serving one displaced. `GateInv` says of each of these that the
version has a promotion record as long as its bundle is there. It is kept because
bundles are never made again and records never taken away (`RecordsStay`), even by a
rollback that writes back what it read before another promotion; `RecordsAreKept`
is that fact as a theorem. `ServingIsKept` and `RollbackGoesBack` are about one process
at a time moving the pointer (`contended` is false), while others train, check, prune
or are killed. `HoldInv` follows the process that moves the pointer from the step that
admits it to the removal of what it pruned: the version it will write is there, what
it will remove does not serve and is not what a rollback would return to.

The first part of `DashboardProofs` is about Lifecycle, for any set of incidents, any
qualities and any number of versions, assuming that the threshold is between 1 and 100
windows (it is 20; the cleaning of a corpus never goes below 100).
`ThresholdHolds` is arithmetic, for every size of a corpus. `StaysCaught` is
`IncidentsStayCaught`, by the invariant `LifeInv`: a promotion relies on a report
written many steps before, and `Compared` says what an approving report is worth (the
version it is about catches what the one it names catches), `Made` that neither
of the two can change any more once a report or a pointer speaks of it. The gate
compares the named version with the one that serves; that equation closes the chain.

The second part lifts it to the console, for any number of request threads:
`ConsoleImplementsLifecycle` maps every step of the dashboard to a step of
Lifecycle or a stutter, so `ConsoleStaysCaught` follows. `ChartIsHonest` needs
`Counted`: the counters in the health file and in the last sample, together with
what was charted, never exceed what fired, although each restart sets the counter
back. `PicturesAreFresh`, `ButtonsAreHonoured` and `TheDeadAreShown` come from one
invariant, `PicturesInv`, which follows a picture from where it is first read through
a thread's hands into the cache: `Sound` says it was read after its stamp and
what was true then, `Whole` that the bundles of a complete picture are the
registry's if nothing changed since. The mark of the registry's changes is what
ties a picture to the present state.

### Only model-checked

Liveness (`StopsWhenAsked`, `EverythingSettles`, `EveryExposureChecked`) is outside of the prover's
reach and stays with TLC, and so does what `classify` computes for every path: the
library's induction takes an operator as a parameter, which the provers cannot
instantiate. For the same reason they know nothing of `SelectSeq`, sorting and folds,
and a model that is proved about says the same with a set or a function. Where a proof
only needs the least or the greatest of a set of naturals, lemmas of its module
(`Least`, `MinIs`, `MaxIs`) derive it from the well-foundedness of the naturals.

## What is left out, and why

Scores, percentiles and feature vectors are inputs: TLC has nothing to say of
real numbers, so the models, calibration, fusion, the environment profile, the
drift statistic and the backtest have no module. The severity ceilings, narratives,
counters and context of alerts are reported and decide nothing. Observe and shadow
modes deliver nothing. Bundles' contents, configuration, plugin loading, HTTP,
authentication and the search and texts of the alert page are data and I/O.

Lines are counted instead of bytes, inode numbers are not reused, and `stat` and
`open` of one file are one step: with a file that is replaced between the two the
code reads events twice. The files the shipper tails are never shortened. In the
registry a bundle is saved and removed in one step, so a partial bundle is not
seen; two trainings in one second, which would share a version, do not happen; and
the temporary file of `metadata.json` is not shared. The limits on how many sites,
directories and addresses are remembered are left out of Evidence. The console's
readers look at the last part of a file only, and are modelled as reading all of it.

## Plan

Done: Delivery, Windows and Runtime, FileSource, Registry, Evidence, Scoring, Shipper,
Verifier, Sessions, Lifecycle and Dashboard, with the proofs above.

1. `stat` and `open` of FileSource as two steps, and reuse of inode numbers.
2. The reservoir and the drift check of the runtime, and a checkpoint that is restored in part.
