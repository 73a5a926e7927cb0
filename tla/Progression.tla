----------------------------- MODULE Progression -----------------------------
(***************************************************************************)
(* Progressive alerting (fusion/progressive.py): per address, a run of     *)
(* firing windows is an episode; only a sustained episode reaches the      *)
(* queue, and later fires fold into an alert that already represents them. *)
(* Progression.decide is the disjunction of the actions below: the three   *)
(* rules that fold, the campaign rule, and the two ways not to fold.       *)
(*                                                                         *)
(* Left out: the severity ceiling and the narrative of each stage, and the *)
(* medium stage, which differs from the low one in nothing else.           *)
(***************************************************************************)
EXTENDS Alerts

CONSTANTS
    EpisodeGap,   \* EPISODE_GAP: 10 minutes, two windows
    HighWindows   \* windows an episode needs for the queue (_STAGES): 6

ASSUME GapIsNatural == EpisodeGap \in Nat
ASSUME HighIsNatural == HighWindows \in Nat \ {0}

VARIABLES
    episodes,   \* address |-> its running episode
    queued,     \* address |-> the alert that represents it today, with the day
    campaigns   \* user-agent |-> the alert its campaign folds into, with the time

progressionVars == <<episodes, queued, campaigns>>

Episode == [last: Time, windows: Nat \ {0},
            window: Ref \cup {None},   \* represents the current window
            queued: Ref \cup {None}]   \* what this episode put in the queue

Daily == [day: Nat, ref: Ref]

Campaign == [last: Time, ref: Ref]

ASSUME NoneIsNoEntry == None \notin Episode \cup Daily \cup Campaign

ProgressionTypeOK ==
    /\ episodes \in [Addr -> Episode \cup {None}]
    /\ queued \in [Addr -> Daily \cup {None}]
    /\ campaigns \in [UserAgent -> Campaign \cup {None}]

ProgressionInit ==
    /\ episodes = [a \in Addr |-> None]
    /\ queued = [a \in Addr |-> None]
    /\ campaigns = [u \in UserAgent |-> None]

-----------------------------------------------------------------------------
(* _evict: every decision first drops what is over, for every key.         *)

\* Mutant of Within: off by one window.
WithinOneMore(last, now) == now - last <= EpisodeGap + 1

Within(last, now) == now - last <= EpisodeGap

LiveEpisodes(now) ==
    [a \in Addr |-> IF episodes[a] # None /\ Within(episodes[a].last, now)
                    THEN episodes[a] ELSE None]

\* Mutant of LiveQueued: today's entries go with yesterday's.
LiveQueuedTomorrow(now) ==
    [a \in Addr |-> IF queued[a] # None /\ queued[a].day > Day(now)
                    THEN queued[a] ELSE None]

LiveQueued(now) ==
    [a \in Addr |-> IF queued[a] # None /\ queued[a].day >= Day(now)
                    THEN queued[a] ELSE None]

\* Mutant of LiveCampaigns: a campaign ends with the window it began in.
LiveCampaignsOfWindow(now) ==
    [u \in UserAgent |-> IF campaigns[u] # None /\ campaigns[u].last >= now
                         THEN campaigns[u] ELSE None]

LiveCampaigns(now) ==
    [u \in UserAgent |-> IF campaigns[u] # None /\ Within(campaigns[u].last, now)
                         THEN campaigns[u] ELSE None]

\* The address's episode once this alert is counted in it.  A window that is
\* not later than the episode's last one is the same window again.
Advanced(al) ==
    LET e == LiveEpisodes(al.ts)[al.ip] IN
    IF e = None
    THEN [last |-> al.ts, windows |-> 1, window |-> None, queued |-> None]
    ELSE IF al.ts > e.last
    THEN [last |-> al.ts, windows |-> e.windows + 1, window |-> None,
          queued |-> e.queued]
    ELSE e

-----------------------------------------------------------------------------
(* Which stored alert, if any, this one folds into.                        *)

\* Folding never hides a finding: only an alert that has one takes another.
Takes(ref, al) == ref # None /\ (ref.found \/ ~Found(al))

TodayRef(al) ==
    LET q == LiveQueued(al.ts)[al.ip] IN
    IF q # None /\ q.day = Day(al.ts) THEN q.ref ELSE None

CampaignRef(al) ==
    LET c == LiveCampaigns(al.ts)[al.ua] IN IF c # None THEN c.ref ELSE None

ReachesQueue(al) == Found(al) \/ Advanced(al).windows >= HighWindows

ByEpisode(al) == Takes(Advanced(al).queued, al)
ByDay(al) == ~ByEpisode(al) /\ Takes(TodayRef(al), al)
BySource(al) == ~ByEpisode(al) /\ ~ByDay(al) /\ Takes(Advanced(al).window, al)
ByAddress(al) == ByEpisode(al) \/ ByDay(al) \/ BySource(al)
ByCampaign(al) ==
    ~ByAddress(al) /\ ReachesQueue(al) /\ Takes(CampaignRef(al), al)

-----------------------------------------------------------------------------
(* decide, one action per way it returns.                                  *)

\* ProgressionStep.folded_into with into_finding, and folded_by.
FoldedInto(al) ==
    CASE ByEpisode(al) -> Advanced(al).queued
      [] ByDay(al) -> TodayRef(al)
      [] BySource(al) -> Advanced(al).window
      [] ByCampaign(al) -> CampaignRef(al)

FoldedBy(al) ==
    CASE ByEpisode(al) \/ ByDay(al) -> "episode"
      [] BySource(al) -> "source"
      [] ByCampaign(al) -> "campaign"

\* Rules 1 to 3: the address already has an alert for this episode, this day
\* or this window.  Only the episode moves.
FoldByAddress(al) ==
    /\ ByAddress(al)
    /\ episodes' = [LiveEpisodes(al.ts) EXCEPT ![al.ip] = Advanced(al)]
    /\ queued' = LiveQueued(al.ts)
    /\ campaigns' = LiveCampaigns(al.ts)

\* The address is represented by `ref` from now on.
Represent(al, ref) ==
    /\ episodes' = [LiveEpisodes(al.ts) EXCEPT
           ![al.ip] = [Advanced(al) EXCEPT !.window = ref, !.queued = ref]]
    /\ queued' = [LiveQueued(al.ts) EXCEPT
           ![al.ip] = [day |-> Day(al.ts), ref |-> ref]]

\* Rule 4: another address of the same user-agent reached the queue moments ago.
FoldByCampaign(al) ==
    /\ ByCampaign(al)
    /\ Represent(al, CampaignRef(al))
    /\ campaigns' = [LiveCampaigns(al.ts) EXCEPT
           ![al.ua].last = IF al.ts > @ THEN al.ts ELSE @]

\* The alert is queued, and starts a campaign: no campaign that is still on
\* could have taken it, so the guard of the code's assignment always holds.
Queue(al) ==
    /\ ~ByAddress(al) /\ ~ByCampaign(al) /\ ReachesQueue(al)
    /\ Represent(al, RefTo(al))
    /\ campaigns' = [LiveCampaigns(al.ts) EXCEPT
           ![al.ua] = [last |-> al.ts, ref |-> RefTo(al)]]

\* Below the queue: a candidate, which represents its window.
Candidate(al) ==
    /\ ~ByAddress(al) /\ ~ReachesQueue(al)
    /\ episodes' = [LiveEpisodes(al.ts) EXCEPT
           ![al.ip] = [Advanced(al) EXCEPT !.window = RefTo(al)]]
    /\ queued' = LiveQueued(al.ts)
    /\ campaigns' = LiveCampaigns(al.ts)

Fold(al) == FoldByAddress(al) \/ FoldByCampaign(al)

Decide(al) == Fold(al) \/ Queue(al) \/ Candidate(al)
=============================================================================
