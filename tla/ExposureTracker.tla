--------------------------- MODULE ExposureTracker ---------------------------
(***************************************************************************)
(* One alert per exposure, not per downloader (features/exposure.py):      *)
(* ExposureTracker.decide over all the exposures of one alert.  Left out:  *)
(* the number of downloads and the list of clients, which are reported.    *)
(***************************************************************************)
EXTENDS Alerts

CONSTANTS
    LowImpact,     \* keys of a kind that is recorded but never alerted
    RealertAfter   \* REALERT_AFTER: 7 days, in windows

ASSUME LowImpactIsKeys == LowImpact \subseteq Key
ASSUME RealertIsNatural == RealertAfter \in Nat

VARIABLE exposed   \* key |-> the alert that raised it last, and when

Raised == [id: AlertId, at: Time]

ASSUME NoneIsNotRaised == None \notin Raised

TrackerTypeOK == exposed \in [Key -> Raised \cup {None}]

TrackerInit == exposed = [k \in Key |-> None]

Alertable(al) == al.keys \ LowImpact

\* Mutant of Known: an exposure is raised again one window too soon.
KnownTooShort(k, ts) == exposed[k] # None /\ ts - exposed[k].at < RealertAfter - 1

\* Raised already, and not so long ago that it is raised again.
Known(k, ts) == exposed[k] # None /\ ts - exposed[k].at < RealertAfter

NewKeys(al) == {k \in Alertable(al) : ~Known(k, al.ts)}

\* Mutant of Track: an alert that folds replaces the one it folds into.
TrackEvery(al) ==
    exposed' = [k \in Key |-> IF k \in Alertable(al)
                              THEN [id |-> al.id, at |-> al.ts] ELSE exposed[k]]

Track(al) ==
    exposed' = [k \in Key |-> IF k \in NewKeys(al)
                              THEN [id |-> al.id, at |-> al.ts] ELSE exposed[k]]
=============================================================================
