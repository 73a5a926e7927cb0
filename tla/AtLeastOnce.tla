---------------------------- MODULE AtLeastOnce ----------------------------
(***************************************************************************)
(* What the shipper (alerting/siem.py) promises about the append-only      *)
(* files it copies: every line is settled at least once, and the position  *)
(* it would go on from after a restart never passes a line that is not.  A *)
(* line is settled when its row reached the other side, when no row can be *)
(* made of it, or when it was given up.  Lines are known by their number.  *)
(***************************************************************************)
EXTENDS Integers

CONSTANT File

VARIABLES
    written,   \* file |-> number of its lines
    settled,   \* file |-> lines that need not be sent any more
    saved      \* file |-> durable position: the next life starts behind it

vars == <<written, settled, saved>>

Init ==
    /\ written = [f \in File |-> 0]
    /\ settled = [f \in File |-> {}]
    /\ saved = [f \in File |-> 0]

\* A new line, which may be one that no row can be made of.
Write(f) ==
    /\ written'[f] = written[f] + 1
    /\ settled'[f] \in {settled[f], settled[f] \cup {written[f] + 1}}
    /\ saved'[f] = saved[f]

\* Lines arrive, for the first time or again; nobody need know it yet.
Arrives(f) == settled[f] \subseteq settled'[f] /\ settled'[f] \subseteq settled[f] \cup (1 .. written[f])

Settle(f) == Arrives(f) /\ written'[f] = written[f] /\ saved'[f] = saved[f]

\* The position moves over settled lines only; the lines of the last answer may
\* be settled with the same step.
Save(f) ==
    /\ Arrives(f) /\ written'[f] = written[f]
    /\ saved'[f] \in saved[f] .. written[f]
    /\ 1 .. saved'[f] \subseteq settled'[f]

\* The position is lost, and everything is sent again.
Forget(f) == saved'[f] = 0 /\ written'[f] = written[f] /\ settled'[f] = settled[f]

\* One step of the copier may move the positions of several files.
Next == \A f \in File : Write(f) \/ Settle(f) \/ Save(f) \/ Forget(f)

Spec == Init /\ [][Next]_vars

\* What the position promises: no line behind it is still to be sent.
NothingSkipped == \A f \in File : 1 .. saved[f] \subseteq settled[f]
=============================================================================
