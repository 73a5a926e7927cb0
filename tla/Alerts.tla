------------------------------- MODULE Alerts -------------------------------
(***************************************************************************)
(* What every delivery stage knows of an alert (core/contracts.py).        *)
(*                                                                         *)
(* Time is counted in five-minute windows: an alert is stamped with the    *)
(* end of the window it reports.  All the state of the stages is keyed by  *)
(* server, and servers do not interact, so the model has one server and    *)
(* an entity is an address with a user-agent.                              *)
(***************************************************************************)
EXTENDS Integers

CONSTANTS
    Addr,       \* client addresses
    UserAgent,  \* user-agent hashes
    Key,        \* exposures: "site|root" keys of sensitive files
    None,       \* Python's None
    Horizon,    \* last window of the model (a bound: time itself has none)
    DayLength   \* windows in one day of the deployment

ASSUME DayLengthIsPositive == DayLength \in Nat \ {0}
ASSUME HorizonIsNatural == Horizon \in Nat

Time == 0 .. Horizon

\* An id is a fresh uuid4; here, the alert's place in the order of creation.
AlertId == Nat \ {0}

\* `keys` are the alert's links["exposures"]: what the scan got back.
Alert == [id: AlertId, ip: Addr, ua: UserAgent, ts: Time, keys: SUBSET Key]

Found(alert) == alert.keys # {}

\* The local event-time date that budgets and daily folds are counted in.
Day(ts) == ts \div DayLength

\* A stored alert id with the flag saying whether that alert carried a finding.
Ref == [id: AlertId, found: BOOLEAN]

\* Mutant of RefTo: the flag is not stored, as in rows older than the flag.
RefToUnflagged(alert) == [id |-> alert.id, found |-> FALSE]

RefTo(alert) == [id |-> alert.id, found |-> Found(alert)]

ASSUME NoneIsNoRef == None \notin Ref
=============================================================================
