--------------------------- MODULE AddressMemory ----------------------------
(***************************************************************************)
(* What one address did in its last buckets (AddressMemory of              *)
(* features/bot_features.py): one entry for each closed bucket, the        *)
(* newest one last, from which the cadence of the address is computed.     *)
(*                                                                         *)
(* Left out: the hours and days an address was seen in.                    *)
(***************************************************************************)
EXTENDS Integers, Sequences, SequencesExt

CONSTANT RecentBuckets \* _RECENT_BUCKETS

ASSUME AddressMemoryAssumption == RecentBuckets \in Nat \ {0}

\* partial: closed early, by a stop.
Entry == [bucket: Nat, events: Nat, partial: BOOLEAN]

LastIs(recent, bucket) == recent # <<>> /\ Last(recent).bucket = bucket

Trimmed(recent) ==
    IF Len(recent) > RecentBuckets THEN SubSeq(recent, Len(recent) - RecentBuckets + 1, Len(recent))
                                   ELSE recent

\* Mutant of CloseBucket: every window of the bucket adds its events.
CloseBucketAgain(recent, bucket, events, partial) ==
    IF LastIs(recent, bucket)
    THEN Append(Front(recent), [bucket |-> bucket, events |-> Last(recent).events + events,
                                partial |-> partial])
    ELSE Trimmed(Append(recent, [bucket |-> bucket, events |-> events, partial |-> partial]))

\* close_bucket: an entry that was cut short is completed; otherwise another
\* user-agent of the address has closed the bucket.
CloseBucket(recent, bucket, events, partial) ==
    CASE ~LastIs(recent, bucket) ->
            Trimmed(Append(recent, [bucket |-> bucket, events |-> events, partial |-> partial]))
      [] LastIs(recent, bucket) /\ Last(recent).partial ->
            Append(Front(recent), [bucket |-> bucket, events |-> Last(recent).events + events,
                                   partial |-> partial])
      [] OTHER -> recent

\* from_row: what a snapshot holds of an address, cut to what is kept.
Restored(recent) == Trimmed(recent)

\* What rate_cv is computed from.
Samples(recent) == {e \in ToSet(recent) : ~e.partial}
=============================================================================
