------------------------------ MODULE Verifier ------------------------------
(***************************************************************************)
(* How the console finds out whether an exposed file is really public      *)
(* (AlertBook.verify_alert, _verify_one, verify_pending and start_verifier *)
(* of web/alerts.py, and verify with _signature of features/exposure.py):  *)
(* a thread that goes through all exposures nobody has checked, requests   *)
(* of analysts that check those of one alert, the rate limit they share,   *)
(* and the file of results.  The runtime appends alerts and sites change   *)
(* at any time.                                                            *)
(*                                                                         *)
(* The clock is coarse: it stands still between reading it and noting it   *)
(* in _last_verify, and moves anywhere else.  Times are kept as ages, up   *)
(* to the interval.  A body is what the patterns of _signature tell of it, *)
(* and a site is let change only while a check of it runs.                 *)
(***************************************************************************)
EXTENDS Integers, Sequences, FiniteSets, SequencesExt

CONSTANTS
    Alert,
    Key,          \* exposures
    ExposuresOf,  \* alert |-> its exposures, in order
    KindOf,       \* exposure |-> its kind of file
    Checkable,    \* exposures of a site under exposure.verify_domains
    Sites,        \* what such a site may answer, by scheme
    Analyst,      \* request threads of the web server
    NoVerdict,
    Interval,     \* _VERIFY_MIN_INTERVAL_S
    MaxAsks, MaxFaults

ASSUME VerifierAssumption ==
    /\ ExposuresOf \in [Alert -> Seq(Key)]
    /\ Checkable \subseteq Key
    /\ "verifier" \notin Analyst
    /\ Interval \in Nat \ {0}
    /\ {MaxAsks, MaxFaults} \subseteq Nat

-----------------------------------------------------------------------------
(* What one answer of a site says.                                         *)

\* The signatures each kind of file is known by.
Signs == [
    vcs |-> {"git HEAD", "git config", "git index", "svn wc.db", "git object", "git pack",
             "git packed-refs", "hg requires"},
    debug |-> {"phpinfo", "server status", "ASP.NET trace", "ELMAH error log", "log file",
               "actuator env"},
    secrets |-> {"private key", "PEM block", "cloud credentials", "KEY=value settings",
                 "JSON credentials", "PHP source", "password hashes"},
    dump |-> {"SQLite database", "gzip archive", "zip archive", "MySQL dump", "MariaDB dump",
              "PostgreSQL dump", "SQL"},
    backup |-> {"zip archive", "gzip archive", "rar archive", "7z archive", "bzip2 archive",
                "xz archive", "tar archive", "server-side source"},
    source |-> {"PHP source", "ASP/JSP source", "script", "Python source"},
    server_config |-> {"IIS web.config", "Apache directives", "ini settings"},
    metadata |-> {".DS_Store", "text metadata"}]

\* Those that are looked for before a body that starts like a web page is refused.
EvidentSigns(kind) ==
    CASE kind = "vcs" -> Signs.vcs
      [] kind = "debug" -> {"phpinfo", "server status", "ASP.NET trace", "ELMAH error log"}
      [] OTHER -> {}

\* Mutant of Recognised: a web page is looked through as any other body.
RecognisedAnywhere(kind, body) ==
    LET found == body.marks \cap Signs[kind]
    IN  IF kind = "secrets" /\ "certificate" \in body.marks THEN "private key" \in found
                                                          ELSE found # {}

\* _signature: is the body known for a file of this kind?  A certificate is public
\* by design, unless a private key is with it.
Recognised(kind, body) ==
    LET found == body.marks \cap (IF body.page THEN EvidentSigns(kind) ELSE Signs[kind])
    IN  IF kind = "secrets" /\ "certificate" \in body.marks THEN "private key" \in found
                                                          ELSE found # {}

\* What a site answers over one scheme: none, something that breaks the check, or its
\* status and its body.
Reply == [status: {"none", "broken", "ok", "redirect", "error"}, page: BOOLEAN, empty: BOOLEAN,
          typed: BOOLEAN, marks: SUBSET (UNION {Signs[k] : k \in DOMAIN Signs} \cup {"certificate"})]

CheckVerdict == {"refused", "unreachable", "redirected", "blocked_now", "confirmed",
                 "not_reproducible", "likely"}

ReplyVerdict(kind, reply) ==
    CASE reply.status = "broken"   -> "unreachable"
      [] reply.status = "redirect" -> "redirected"
      [] reply.status = "error"    -> "blocked_now"
      [] OTHER -> IF Recognised(kind, reply) THEN "confirmed"
                  ELSE IF reply.empty \/ reply.page \/ reply.typed THEN "not_reproducible"
                  ELSE "likely"

ASSUME SitesAnswer == Sites \subseteq [https: Reply, http: Reply]

ASSUME NoVerdictIsNone == NoVerdict \notin CheckVerdict

-----------------------------------------------------------------------------
VARIABLES
    alerts,      \* alerts in the runtime's files, in their order
    site,        \* exposure |-> what its site answers now
    rows,        \* the file of verifications
    lastVerify,  \* _last_verify: exposure, if it was asked for |-> how long ago
    worker,      \* thread |-> the call it is in
    asks, faults

verifierVars == <<alerts, site, rows, lastVerify, worker, asks, faults>>

Worker == Analyst \cup {"verifier"}

\* How long ago, in the clock's units, as far as the rate limit can tell.
Age == 0 .. Interval

\* Of a row, the exposure and how long ago its check began; a check of an earlier
\* process is old.
Row == [key: Key, age: Age]

\* at: where the thread is; todo: the exposures still to be checked, next one first;
\* seen: the length of the file when the check was decided on; answers: what the
\* site has answered to anyone since the check began.
Checking == [at: {"idle", "check", "mark", "https", "http", "append"}, todo: Seq(Key), age: Age,
             seen: Nat, answers: SUBSET Sites, verdict: CheckVerdict \cup {NoVerdict}]

NoCheck == [at |-> "idle", todo |-> <<>>, age |-> 0, seen |-> 0, answers |-> {},
            verdict |-> NoVerdict]

VerifierTypeOK ==
    /\ alerts \in Seq(Alert) /\ IsInjective(alerts)
    /\ site \in [Checkable -> Sites]
    /\ rows \in Seq(Row)
    /\ \E asked \in SUBSET Key : lastVerify \in [asked -> Age]
    /\ worker \in [Worker -> Checking]
    /\ \A w \in Worker : worker[w].at = "idle" <=> worker[w].todo = <<>>
    /\ asks \in 0 .. MaxAsks /\ faults \in 0 .. MaxFaults

VerifierInit ==
    /\ alerts = <<>> /\ rows = <<>>
    /\ site \in [Checkable -> Sites]
    /\ lastVerify = [k \in {} |-> 0]
    /\ worker = [w \in Worker |-> NoCheck]
    /\ asks = 0 /\ faults = 0

-----------------------------------------------------------------------------
(* The world.                                                              *)

Emit(a) ==
    /\ a \notin ToSet(alerts)
    /\ alerts' = Append(alerts, a)
    /\ UNCHANGED <<site, rows, lastVerify, worker, asks, faults>>

Asking(w, k) == worker[w].at \in {"https", "http"} /\ Head(worker[w].todo) = k

SiteChanges(k) ==
    /\ \E w \in Worker : Asking(w, k)
    /\ \E answers \in Sites \ {site[k]} :
        /\ site' = [site EXCEPT ![k] = answers]
        /\ worker' = [w \in Worker |-> IF Asking(w, k)
                                      THEN [worker[w] EXCEPT !.answers = @ \cup {answers}]
                                      ELSE worker[w]]
    /\ UNCHANGED <<alerts, rows, lastVerify, asks, faults>>

Older(age) == IF age = Interval THEN age ELSE age + 1

TimePasses ==
    /\ \A w \in Worker : worker[w].at # "mark"
    /\ lastVerify' = [k \in DOMAIN lastVerify |-> Older(lastVerify[k])]
    /\ rows' = [i \in DOMAIN rows |-> [rows[i] EXCEPT !.age = Older(@)]]
    /\ worker' = [w \in Worker |-> IF worker[w].at \in {"https", "http", "append"}
                                  THEN [worker[w] EXCEPT !.age = Older(@)] ELSE worker[w]]
    /\ UNCHANGED <<alerts, site, asks, faults>>

-----------------------------------------------------------------------------
(* One thread.                                                             *)

RowsOf(k) == {i \in DOMAIN rows : rows[i].key = k}

\* An analyst presses the button.
Ask(w, a) ==
    /\ w \in Analyst /\ worker[w].at = "idle" /\ asks < MaxAsks
    /\ a \in ToSet(alerts) /\ ExposuresOf[a] # <<>>
    /\ worker' = [worker EXCEPT ![w] = [NoCheck EXCEPT !.at = "check", !.todo = ExposuresOf[a]]]
    /\ asks' = asks + 1
    /\ UNCHANGED <<alerts, site, rows, lastVerify, faults>>

\* Every exposure of every alert, newest alert first.
Listed == FlattenSeq([i \in DOMAIN alerts |-> ExposuresOf[Reverse(alerts)[i]]])

\* Mutant of Pending: what an earlier pass has tried is left out, too.
PendingUntried == SelectSeq(Listed, LAMBDA k : RowsOf(k) = {} /\ k \notin DOMAIN lastVerify)

\* The exposures that are in no row.
Pending == SelectSeq(Listed, LAMBDA k : RowsOf(k) = {})

\* verify_pending reads what is checked once, and goes through the rest.
StartPass ==
    /\ worker["verifier"].at = "idle" /\ Pending # <<>>
    /\ worker' = [worker EXCEPT !["verifier"] = [NoCheck EXCEPT !.at = "check", !.todo = Pending]]
    /\ UNCHANGED <<alerts, site, rows, lastVerify, asks, faults>>

Subject(w) == Head(worker[w].todo)

\* The call goes on with what is left to do.
GoOn(w, todo) ==
    worker' = [worker EXCEPT ![w] =
        IF todo = <<>> THEN NoCheck ELSE [NoCheck EXCEPT !.at = "check", !.todo = todo]]

\* The verifier's pass leaves out what it has an answer for.
AfterAnswer(w) ==
    IF w = "verifier" THEN SelectSeq(Tail(worker[w].todo), LAMBDA k : k # Subject(w))
                      ELSE Tail(worker[w].todo)

\* Mutant of Recent: the interval is over one unit early.
RecentShort(k) == k \in DOMAIN lastVerify /\ lastVerify[k] < Interval - 1

Recent(k) == k \in DOMAIN lastVerify /\ lastVerify[k] < Interval

\* Checked less than an interval ago: the last row is the answer.
Answered(w) ==
    /\ worker[w].at = "check" /\ Recent(Subject(w)) /\ RowsOf(Subject(w)) # {}
    /\ GoOn(w, AfterAnswer(w))
    /\ UNCHANGED <<alerts, site, rows, lastVerify, asks, faults>>

\* Without a row, the verifier's thread leaves it at that.
PassOver ==
    /\ worker["verifier"].at = "check"
    /\ Recent(Subject("verifier")) /\ RowsOf(Subject("verifier")) = {}
    /\ GoOn("verifier", Tail(worker["verifier"].todo))
    /\ UNCHANGED <<alerts, site, rows, lastVerify, asks, faults>>

Decide(w) ==
    /\ worker[w].at = "check"
    /\ Recent(Subject(w)) => w # "verifier" /\ RowsOf(Subject(w)) = {}
    /\ worker' = [worker EXCEPT ![w] = [@ EXCEPT !.at = "mark", !.seen = Len(rows)]]
    /\ UNCHANGED <<alerts, site, rows, lastVerify, asks, faults>>

\* _last_verify, and the check begins.  Other sites are not asked.
Mark(w) ==
    /\ worker[w].at = "mark"
    /\ lastVerify' = [k \in DOMAIN lastVerify \cup {Subject(w)} |->
                          IF k = Subject(w) THEN 0 ELSE lastVerify[k]]
    /\ worker' = [worker EXCEPT ![w] = IF Subject(w) \in Checkable
            THEN [@ EXCEPT !.at = "https", !.seen = 0, !.answers = {site[Subject(w)]}]
            ELSE [@ EXCEPT !.at = "append", !.seen = 0, !.verdict = "refused"]]
    /\ UNCHANGED <<alerts, site, rows, asks, faults>>

\* One request, outside of any lock: http is asked when there is no answer over https,
\* but not when what came broke the check.
Fetch(w) ==
    /\ worker[w].at \in {"https", "http"}
    /\ LET reply == site[Subject(w)][worker[w].at] IN
        worker' = [worker EXCEPT ![w] =
            IF reply.status # "none"
            THEN [@ EXCEPT !.at = "append", !.verdict = ReplyVerdict(KindOf[Subject(w)], reply)]
            ELSE IF @.at = "https" THEN [@ EXCEPT !.at = "http"]
            ELSE [@ EXCEPT !.at = "append", !.verdict = "unreachable"]]
    /\ UNCHANGED <<alerts, site, rows, lastVerify, asks, faults>>

AppendRow(w) ==
    /\ worker[w].at = "append"
    /\ rows' = Append(rows, [key |-> Subject(w), age |-> worker[w].age])
    /\ GoOn(w, AfterAnswer(w))
    /\ UNCHANGED <<alerts, site, lastVerify, asks, faults>>

\* The row cannot be written: the call ends with an error.
AppendFails(w) ==
    /\ worker[w].at = "append" /\ faults < MaxFaults
    /\ worker' = [worker EXCEPT ![w] = NoCheck]
    /\ faults' = faults + 1
    /\ UNCHANGED <<alerts, site, rows, lastVerify, asks>>

\* The console is stopped or killed, and started again.
ConsoleRestarts ==
    /\ faults < MaxFaults
    /\ faults' = faults + 1
    /\ worker' = [w \in Worker |-> NoCheck]
    /\ lastVerify' = [k \in {} |-> 0]
    /\ rows' = [i \in DOMAIN rows |-> [rows[i] EXCEPT !.age = Interval]]
    /\ UNCHANGED <<alerts, site, asks>>

Step(w) == Answered(w) \/ Decide(w) \/ Mark(w) \/ Fetch(w) \/ AppendRow(w)

Verifying == StartPass \/ Step("verifier") \/ PassOver

VerifierNext ==
    \/ \E a \in Alert : Emit(a)
    \/ \E k \in Checkable : SiteChanges(k)
    \/ TimePasses
    \/ \E w \in Analyst, a \in Alert : Ask(w, a)
    \/ \E w \in Worker : Step(w) \/ AppendFails(w)
    \/ StartPass \/ PassOver
    \/ ConsoleRestarts

\* The verifier's thread runs once a minute for ever, a request to a site ends with
\* an answer or a timeout, and time goes on.
Fairness ==
    /\ WF_verifierVars(Verifying) /\ WF_verifierVars(TimePasses)
    /\ \A w \in Analyst : WF_verifierVars(Step(w))

VerifierSpec == VerifierInit /\ [][VerifierNext]_verifierVars /\ Fairness

-----------------------------------------------------------------------------
(* Properties.                                                             *)

\* An exposure is asked for again within the interval only by a call that was
\* decided on before the first result was in the file (alerts.py:422): the time in
\* memory and the rows on disk hold the limit together, against any threads.  The time
\* in memory goes with the process: a restart of the console makes every row an old
\* one here, and a repeat right after it is no violation.
RepeatsUnansweredOnly ==
    \A w \in Worker : worker[w].at = "mark" =>
        \A i \in 1 .. worker[w].seen : rows[i].key = Subject(w) => rows[i].age = Interval

\* A confirmed exposure was public while its check ran, whatever the site changed
\* between the two requests (exposure.py:501): it answered with a body that bears a
\* sign of this kind of file, and a web page counts for the kinds that are pages.
ConfirmedWasPublic ==
    \A w \in Worker : worker[w].verdict = "confirmed" =>
        \E answers \in worker[w].answers, scheme \in {"https", "http"} :
            /\ answers[scheme].status = "ok"
            /\ answers[scheme].marks \cap Signs[KindOf[Subject(w)]] # {}
            /\ answers[scheme].page => KindOf[Subject(w)] \in {"vcs", "debug"}

\* Every exposure of an alert is checked in the end, whatever fails in between
\* (alerts.py:464, "the next pass retries").
EveryExposureChecked ==
    \A a \in Alert : \A i \in DOMAIN ExposuresOf[a] :
        a \in ToSet(alerts) ~> RowsOf(ExposuresOf[a][i]) # {}

\* "Not exposed now: the site refuses or no longer has the file" (exposure.py:335):
\* a check that ends with this met a state of the site in which the file was not
\* served over either scheme.
NotExposedNow ==
    \A w \in Worker : worker[w].verdict = "blocked_now" =>
        \E answers \in worker[w].answers : \A scheme \in {"https", "http"} :
            answers[scheme].status = "ok" => ~Recognised(KindOf[Subject(w)], answers[scheme])

\* "One verification per exposure per minute, however often the button is hit"
\* (alerts.py:43).
OncePerInterval ==
    \A i, j \in DOMAIN rows :
        (i # j /\ rows[i].key = rows[j].key) => Interval \in {rows[i].age, rows[j].age}
=============================================================================
