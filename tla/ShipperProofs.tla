--------------------------- MODULE ShipperProofs ----------------------------
(***************************************************************************)
(* Theorems of Shipper, for any alerts, batch size, number of retries and  *)
(* bounds: it implements AtLeastOnce, sends no download again that was     *)
(* acknowledged, and leaves the last word on every alert in the index.     *)
(*                                                                         *)
(* FeedInv says where the positions stand, in memory and in the            *)
(* checkpoint, how far a file can be read, and what the answer in hand     *)
(* still owes.  Copied counts the documents of a download against the      *)
(* faults, but for one that can share its request with a refused row.      *)
(* AgreeInv says what the index shows behind both positions, and why no    *)
(* alert can be written over a fact: its file is read as far as it can be  *)
(* before any fact of the round.                                           *)
(***************************************************************************)
EXTENDS Shipper, FiniteSetTheorems, WellFoundedInduction, TLAPS

-----------------------------------------------------------------------------
(* Sets of naturals: a least element, and what Min and Max return.         *)

LEMMA Least ==
    ASSUME NEW T \in SUBSET Nat, T # {}
    PROVE  \E x \in T : \A y \in T : x <= y
<1>1. IsWellFoundedOn({p \in Nat \X Nat : p[1] < p[2]}, Nat)
  BY NatLessThanWellFounded, SMT DEF OpToRel
<1>2. PICK x \in T : \A y \in T : ~(<<y, x>> \in {p \in Nat \X Nat : p[1] < p[2]})
  BY <1>1, WFMin
<1>3. ASSUME NEW y \in T
      PROVE  x <= y
  <2>1. x \in Nat /\ y \in Nat /\ <<y, x>> \in Nat \X Nat
    OBVIOUS
  <2> QED
    BY <1>2, <2>1
<1> QED
  BY <1>3

LEMMA MinIs ==
    ASSUME NEW T \in SUBSET Nat, T # {}
    PROVE  Min(T) \in T /\ \A y \in T : Min(T) <= y
BY Least DEF Min

LEMMA MaxIs ==
    ASSUME NEW T \in SUBSET Nat, T # {}, NEW n \in Nat, \A y \in T : y <= n
    PROVE  Max(T) \in T /\ \A y \in T : y <= Max(T)
<1> DEFINE below == {d \in Nat : n - d \in T}
<1>1. PICK d \in below : \A c \in below : d <= c
  <2>1. \A y \in T : n - y \in below
    OBVIOUS
  <2>2. below \in SUBSET Nat /\ below # {}
    BY <2>1
  <2> HIDE DEF below
  <2> QED
    BY <2>2, Least
<1>2. ASSUME NEW y \in T
      PROVE  n - d >= y
  <2>1. y \in Nat /\ n - y \in below
    OBVIOUS
  <2>2. d <= n - y /\ d \in Nat
    BY <1>1, <2>1
  <2> QED
    BY <2>1, <2>2
<1>3. \E x \in T : \A y \in T : x >= y
  BY <1>1, <1>2
<1> QED
  BY <1>3 DEF Max

-----------------------------------------------------------------------------
(* The invariants.                                                         *)

Answers == [end : Offset, missing : SUBSET Line]

\* No position passes the file, and the memory is never behind the checkpoint.
Positions ==
    \A k \in Kind :
        /\ ckpt[k] <= Len(log[k]) /\ offsets[k] <= Len(log[k])
        /\ pc # "down" => ckpt[k] <= offsets[k]
        /\ settled[k] \subseteq 1 .. Len(log[k])

\* No position passes a line that is still to be sent.
Behind ==
    \A k \in Kind :
        /\ 1 .. ckpt[k] \subseteq settled[k]
        /\ 1 .. offsets[k] \subseteq settled[k]
        /\ \A l \in 1 .. Len(log[k]) : log[k][l] = Broken => l \in settled[k]

\* No position passes a line that is never read.
Readable ==
    /\ \A k \in Kind : ckpt[k] <= Legible(k) /\ offsets[k] <= Legible(k)
    /\ pc = "answered" => answer.end <= Legible(Now)

\* The batch that was answered starts at the offset, and what is not missing of it
\* is in the index.
InHand ==
    pc = "answered" =>
        /\ answer \in Answers
        /\ offsets[Now] < answer.end /\ answer.end <= Len(log[Now])
        /\ answer.missing \subseteq 1 .. answer.end
        /\ 1 .. answer.end \subseteq settled[Now] \cup answer.missing
        /\ answer.missing # {} => Now \in Update

Resting == pc = "down" => turn = 1 /\ offsets = Nothing

FeedInv == TypeOK /\ Positions /\ Behind /\ InHand /\ Resting /\ Readable

-----------------------------------------------------------------------------
(* The operators of the model.                                             *)

LEMMA Longest == LongestFile \in Nat /\ \A k \in Kind : MaxRows[k] <= LongestFile
<1> DEFINE bounds == {MaxRows[k] : k \in Kind}
           sum == MaxRows["alert"] + MaxRows["verification"] + MaxRows["triage"] + MaxRows["download"]
<1>1. MaxRows \in [Kind -> Nat]
  BY ShipperAssumption
<1>2. sum \in Nat /\ \A k \in Kind : MaxRows[k] <= sum
  BY <1>1 DEF Kind
<1>3. bounds \in SUBSET Nat /\ bounds # {} /\ \A y \in bounds : y <= sum
  BY <1>1, <1>2 DEF Kind
<1>4. Max(bounds) \in bounds /\ \A y \in bounds : y <= Max(bounds)
  <2> HIDE DEF bounds, sum
  <2> QED
    BY <1>2, <1>3, MaxIs
<1> QED
  BY <1>1, <1>4 DEF LongestFile

LEMMA NowIsKind ==
    ASSUME turn \in 1 .. Len(Kinds)
    PROVE  Now \in Kind /\ turn \in 1 .. 4 /\ (turn = 1 <=> Now = "alert")
<1>1. Len(Kinds) = 4
  BY DEF Kinds
<1>2. turn = 1 \/ turn = 2 \/ turn = 3 \/ turn = 4
  BY <1>1
<1>3. /\ Kinds[1] = "alert" /\ Kinds[2] = "verification"
      /\ Kinds[3] = "triage" /\ Kinds[4] = "download"
  BY DEF Kinds
<1> QED
  BY <1>2, <1>3 DEF Kind, Now

LEMMA FileLengths ==
    ASSUME TypeOK, NEW k \in Kind
    PROVE  /\ log[k] \in Seq(Row) /\ Len(log[k]) \in Nat /\ Len(log[k]) <= LongestFile
           /\ offsets[k] \in Nat /\ ckpt[k] \in Nat
<1>1. log \in [Kind -> Seq(Row)] /\ Len(log[k]) <= MaxRows[k]
  BY DEF TypeOK
<1>2. log[k] \in Seq(Row) /\ Len(log[k]) \in Nat
  BY <1>1
<1>3. MaxRows[k] \in Nat /\ MaxRows[k] <= LongestFile /\ LongestFile \in Nat
  BY Longest, ShipperAssumption
<1>4. offsets[k] \in Offset /\ ckpt[k] \in Offset
  BY DEF TypeOK, Offsets
<1> QED
  BY <1>1, <1>2, <1>3, <1>4 DEF Offset

\* What can be read of a file.
LEMMA LegibleIs ==
    ASSUME TypeOK, NEW k \in Kind
    PROVE  /\ Legible(k) \in Nat /\ Legible(k) <= Len(log[k])
           /\ \A l \in 1 .. Legible(k) : log[k][l] # TooLong
           /\ Legible(k) = Len(log[k]) \/ log[k][Legible(k) + 1] = TooLong
<1> DEFINE long == {l \in 1 .. Len(log[k]) : log[k][l] = TooLong}
<1>1. Len(log[k]) \in Nat
  BY FileLengths
<1>2. CASE long = {}
  <2>1. Legible(k) = Len(log[k])
    BY <1>2 DEF Legible
  <2> QED
    BY <1>1, <1>2, <2>1
<1>3. CASE long # {}
  <2>1. Legible(k) = Min(long) - 1
    BY <1>3 DEF Legible
  <2>2. Min(long) \in long /\ \A y \in long : Min(long) <= y
    <3>1. long \in SUBSET Nat
      BY <1>1
    <3> HIDE DEF long
    <3> QED
      BY <1>3, <3>1, MinIs
  <2>3. \A l \in 1 .. Min(long) - 1 : l \notin long /\ l \in 1 .. Len(log[k])
    <3>1. Min(long) \in 1 .. Len(log[k])
      BY <2>2
    <3> HIDE DEF long
    <3> QED
      BY <1>1, <2>2, <3>1
  <2>4. /\ Min(long) \in 1 .. Len(log[k])
        /\ \A l \in 1 .. Min(long) - 1 : log[k][l] # TooLong
        /\ log[k][Min(long)] = TooLong
    BY <2>2, <2>3
  <2> HIDE DEF long
  <2> QED
    BY <1>1, <2>1, <2>4
<1> QED
  BY <1>2, <1>3

\* Where a batch ends: behind the offset if it has a row, and else with what can be
\* read.
LEMMA BatchEnds ==
    ASSUME TypeOK, NEW k \in Kind, offsets[k] <= Legible(k)
    PROVE  /\ EndOfBatch(k) \in offsets[k] .. Len(log[k]) /\ EndOfBatch(k) <= Legible(k)
           /\ NewRows(k) = {l \in offsets[k] + 1 .. EndOfBatch(k) : log[k][l] # Broken}
           /\ NewRows(k) = {} => EndOfBatch(k) = Legible(k)
           /\ NewRows(k) # {} => offsets[k] < EndOfBatch(k)
<1> DEFINE full == {e \in offsets[k] + 1 .. Legible(k) : Cardinality(Rows(k, e)) = Batch}
<1>1. /\ Len(log[k]) \in Nat /\ offsets[k] \in Nat
      /\ Legible(k) \in Nat /\ Legible(k) <= Len(log[k])
  BY FileLengths, LegibleIs
<1>2. NewRows(k) = {l \in offsets[k] + 1 .. EndOfBatch(k) : log[k][l] # Broken}
  BY DEF NewRows, Rows
<1>3. CASE full = {}
  <2>1. EndOfBatch(k) = Legible(k)
    BY <1>3 DEF EndOfBatch
  <2> QED
    BY <1>1, <1>2, <2>1
<1>4. CASE full # {}
  <2>1. EndOfBatch(k) = Min(full)
    BY <1>4 DEF EndOfBatch
  <2>2. Min(full) \in full
    <3>1. full \in SUBSET Nat
      BY <1>1
    <3> HIDE DEF full
    <3> QED
      BY <1>4, <3>1, MinIs
  <2>3. EndOfBatch(k) \in offsets[k] + 1 .. Legible(k) /\ Cardinality(NewRows(k)) = Batch
    BY <2>1, <2>2 DEF NewRows
  <2>4. NewRows(k) # {}
    BY <2>3, FS_EmptySet, ShipperAssumption
  <2> QED
    BY <1>1, <1>2, <2>3, <2>4
<1> QED
  BY <1>3, <1>4

\* A request has no more than Batch rows: the first batch with so many has no more.
LEMMA BatchFits ==
    ASSUME TypeOK, NEW k \in Kind, offsets[k] <= Legible(k)
    PROVE  IsFiniteSet(NewRows(k)) /\ Cardinality(NewRows(k)) <= Batch
<1> DEFINE full == {e \in offsets[k] + 1 .. Legible(k) : Cardinality(Rows(k, e)) = Batch}
           over == {e \in offsets[k] .. Legible(k) : Batch <= Cardinality(Rows(k, e))}
<1>1. /\ offsets[k] \in Nat /\ Legible(k) \in Nat /\ Batch \in Nat \ {0}
  BY FileLengths, LegibleIs, ShipperAssumption
<1>2. ASSUME NEW e \in Nat
      PROVE  IsFiniteSet(Rows(k, e)) /\ Cardinality(Rows(k, e)) \in Nat
  <2>1. IsFiniteSet(offsets[k] + 1 .. e)
    <3>1. offsets[k] + 1 \in Int /\ e \in Int
      BY <1>1
    <3> QED
      BY <3>1, FS_Interval, Zenon
  <2>2. Rows(k, e) \subseteq offsets[k] + 1 .. e
    BY DEF Rows
  <2> QED
    BY <2>1, <2>2, FS_Subset, FS_CardinalityType
<1>3. EndOfBatch(k) \in Nat /\ NewRows(k) = Rows(k, EndOfBatch(k))
  BY <1>1, BatchEnds DEF NewRows
<1>4. CASE full # {}
  <2>1. EndOfBatch(k) = Min(full)
    BY <1>4 DEF EndOfBatch
  <2>2. Min(full) \in full
    <3>1. full \in SUBSET Nat
      BY <1>1
    <3> HIDE DEF full
    <3> QED
      BY <1>4, <3>1, MinIs
  <2> QED
    BY <1>1, <1>2, <1>3, <2>1, <2>2
<1>5. CASE full = {}
  <2>1. EndOfBatch(k) = Legible(k)
    BY <1>5 DEF EndOfBatch
  <2>2. ASSUME over # {}
        PROVE  FALSE
    <3>1. PICK e \in over : \A d \in over : e <= d
      <4>1. over \in SUBSET Nat
        BY <1>1
      <4> HIDE DEF over
      <4> QED
        BY <2>2, <4>1, Least
    <3>2. e \in Nat /\ offsets[k] <= e /\ e <= Legible(k) /\ Batch <= Cardinality(Rows(k, e))
      BY <1>1, <3>1
    <3>3. e # offsets[k]
      <4>1. Rows(k, offsets[k]) = {}
        BY <1>1 DEF Rows
      <4>2. Cardinality(Rows(k, offsets[k])) = 0
        BY <4>1, FS_EmptySet
      <4> QED
        BY <1>1, <3>2, <4>2
    <3>4. e - 1 \in Nat /\ e - 1 \in offsets[k] .. Legible(k)
      BY <1>1, <3>2, <3>3
    <3>5. Cardinality(Rows(k, e - 1)) < Batch
      <4>1. e - 1 \notin over
        BY <3>1, <3>2
      <4> QED
        BY <1>1, <1>2, <3>4, <4>1
    <3>6. Cardinality(Rows(k, e)) <= Cardinality(Rows(k, e - 1)) + 1
      <4>1. Rows(k, e) \subseteq Rows(k, e - 1) \cup {e}
        BY <1>1, <3>2, <3>4 DEF Rows
      <4>2. /\ IsFiniteSet(Rows(k, e - 1) \cup {e})
            /\ Cardinality(Rows(k, e - 1) \cup {e}) <= Cardinality(Rows(k, e - 1)) + 1
        <5>1. /\ IsFiniteSet(Rows(k, e - 1)) /\ Cardinality(Rows(k, e - 1)) \in Nat
          BY <1>2, <3>4
        <5>2. /\ IsFiniteSet(Rows(k, e - 1) \cup {e})
              /\ Cardinality(Rows(k, e - 1) \cup {e}) =
                    IF e \in Rows(k, e - 1) THEN Cardinality(Rows(k, e - 1)) ELSE Cardinality(Rows(k, e - 1)) + 1
          BY <5>1, FS_AddElement, Zenon
        <5> QED
          BY <5>1, <5>2
      <4>3. Cardinality(Rows(k, e)) <= Cardinality(Rows(k, e - 1) \cup {e})
        BY <4>1, <4>2, FS_Subset
      <4>4. Cardinality(Rows(k, e - 1) \cup {e}) \in Nat
        BY <4>2, FS_CardinalityType
      <4> QED
        BY <1>2, <3>2, <3>4, <4>2, <4>3, <4>4
    <3>7. Cardinality(Rows(k, e)) = Batch
      BY <1>1, <1>2, <3>2, <3>4, <3>5, <3>6
    <3>8. e \in full
      BY <1>1, <3>2, <3>3, <3>7
    <3> QED
      BY <1>5, <3>8
  <2>3. Cardinality(Rows(k, Legible(k))) < Batch
    <3>1. Legible(k) \notin over
      BY <2>2
    <3>2. Legible(k) \in offsets[k] .. Legible(k)
      BY <1>1
    <3> QED
      BY <1>1, <1>2, <3>1, <3>2
  <2> QED
    BY <1>1, <1>2, <1>3, <2>1, <2>3
<1> QED
  BY <1>4, <1>5

\* The last line of an alert among some lines of its file, or 0.
LEMMA LastIs ==
    ASSUME NEW k \in Kind, NEW lines, lines \subseteq Line, NEW a
    PROVE  /\ LastOf(k, lines, a) \in Offset
           /\ LastOf(k, lines, a) # 0 => LastOf(k, lines, a) \in lines /\ log[k][LastOf(k, lines, a)] = a
           /\ \A l \in lines : log[k][l] = a => l <= LastOf(k, lines, a) /\ LastOf(k, lines, a) # 0
<1> DEFINE found == {0} \cup {l \in lines : log[k][l] = a}
<1>0. \A l \in lines : l \in Nat /\ l # 0 /\ l <= LongestFile
  BY Longest DEF Line
<1>1. found \in SUBSET Nat /\ found # {} /\ \A l \in found : l <= LongestFile
  BY <1>0, Longest
<1>2. Max(found) \in found /\ \A l \in found : l <= Max(found)
  <2> HIDE DEF found
  <2> QED
    BY <1>1, MaxIs, Longest
<1>3. LastOf(k, lines, a) = Max(found)
  BY DEF LastOf
<1> HIDE DEF LastOf
<1>5. LastOf(k, lines, a) \in Nat /\ LastOf(k, lines, a) <= LongestFile
  BY <1>1, <1>2, <1>3
<1>6. LastOf(k, lines, a) # 0 => LastOf(k, lines, a) \in lines /\ log[k][LastOf(k, lines, a)] = a
  BY <1>2, <1>3
<1>7. ASSUME NEW l \in lines, log[k][l] = a
      PROVE  l <= LastOf(k, lines, a) /\ LastOf(k, lines, a) # 0
  BY <1>0, <1>2, <1>3, <1>5, <1>7
<1> QED
  BY <1>5, <1>6, <1>7, Longest DEF Offset

\* The document an alert writes.
Fresh == [u \in Update |-> 0]

LEMMA IndexedIs ==
    ASSUME NEW k \in Kind, NEW lines, NEW a \in Alert
    PROVE  /\ LastOf(k, lines, a) = 0 \/ k \notin Update \cup {"alert"} => Indexed(k, lines)[a] = index[a]
           /\ k \notin Update \cup {"download"} /\ LastOf(k, lines, a) # 0 =>
                Indexed(k, lines)[a] = Fresh
           /\ k \in Update /\ LastOf(k, lines, a) # 0 =>
                Indexed(k, lines)[a] = [index[a] EXCEPT ![k] = LastOf(k, lines, a)]
<1>1. k \notin Update \cup {"download"} => k = "alert"
  BY DEF Kind, Update
<1>2. k = "alert" => k \notin Update
  BY DEF Update
<1> HIDE DEF Update
<1> QED
  BY <1>1, <1>2, Zenon DEF Indexed, Fresh

-----------------------------------------------------------------------------
(* Every step keeps the positions honest.                                  *)

LEMMA FeedInit == Init => FeedInv
<1> SUFFICES ASSUME Init
             PROVE  FeedInv
  OBVIOUS
<1> USE DEF Init
<1>1. TypeOK
  <2>1. log \in [Kind -> Seq(Row)] /\ \A k \in Kind : Len(log[k]) = 0
    OBVIOUS
  <2>2. \A k \in Kind : Len(log[k]) <= MaxRows[k]
    BY <2>1, ShipperAssumption
  <2>3. OrphanTries \in Nat \ {0} /\ MaxFaults \in Nat
    BY ShipperAssumption
  <2>8. copies \in [Line -> 0 .. MostCopies]
    BY <2>3 DEF MostCopies
  <2>4. 0 \in Offset
    BY Longest DEF Offset
  <2>5. turn \in 1 .. Len(Kinds)
    BY DEF Kinds
  <2>6. orphans \in [Kind -> 0 .. OrphanTries - 1] /\ refusals \in [UpdateLine -> 0 .. OrphanTries]
    BY <2>3 DEF Nothing
  <2>7. ckpt \in Offsets /\ offsets \in Offsets
    BY <2>4 DEF Nothing, Offsets
  <2> QED
    BY <2>1, <2>2, <2>3, <2>5, <2>6, <2>7, <2>8 DEF TypeOK
<1>3. Readable
  <2>1. \A k \in Kind : Legible(k) \in Nat
    BY <1>1, LegibleIs
  <2> QED
    BY <2>1 DEF Readable, Nothing
<1>2. Positions /\ Behind /\ InHand /\ Resting
  BY DEF Positions, Behind, InHand, Resting, Nothing
<1> QED
  BY <1>1, <1>2, <1>3 DEF FeedInv

\* What a bulk request leaves behind, whatever part of it was applied.
LEMMA Applied ==
    ASSUME TypeOK, NEW lines \in SUBSET NewRows(Now), Apply(lines), offsets[Now] <= Legible(Now)
    PROVE  /\ Now \in Kind /\ lines \subseteq 1 .. Len(log[Now]) /\ lines \subseteq Line
           /\ lines \subseteq offsets[Now] + 1 .. EndOfBatch(Now)
           /\ index' \in [Alert -> [Update -> Offset] \cup {None}]
           /\ copies' \in [Line -> 0 .. MostCopies]
           /\ refusals' \in [UpdateLine -> 0 .. OrphanTries]
           /\ settled' \in [Kind -> SUBSET Line]
           /\ settled' = [settled EXCEPT ![Now] = @ \cup (lines \ Missing(Now, lines))]
<1>1. Now \in Kind
  BY NowIsKind DEF TypeOK
<1>2. lines \subseteq 1 .. Len(log[Now]) /\ lines \subseteq offsets[Now] + 1 .. EndOfBatch(Now)
  BY <1>1, BatchEnds, FileLengths
<1>3. lines \subseteq Line
  BY <1>1, <1>2, FileLengths, Longest DEF Line
<1>4. settled' = [settled EXCEPT ![Now] = @ \cup (lines \ Missing(Now, lines))]
  BY DEF Apply
<1>5. settled' \in [Kind -> SUBSET Line]
  BY <1>1, <1>3, <1>4 DEF TypeOK
<1>6. copies' \in [Line -> 0 .. MostCopies]
  <2>1. MostCopies \in Nat
    BY ShipperAssumption DEF MostCopies
  <2>2. ASSUME NEW l \in Line
        PROVE  Min({copies[l] + 1, MostCopies}) \in 0 .. MostCopies
    <3>1. {copies[l] + 1, MostCopies} \in SUBSET Nat
      BY <2>1 DEF TypeOK
    <3>2. /\ Min({copies[l] + 1, MostCopies}) \in Nat
          /\ Min({copies[l] + 1, MostCopies}) <= MostCopies
      BY <3>1, MinIs
    <3> QED
      BY <2>1, <3>2
  <2> QED
    BY <2>2 DEF Apply, TypeOK
<1>7. refusals' \in [UpdateLine -> 0 .. OrphanTries]
  <2>1. OrphanTries \in Nat
    BY ShipperAssumption
  <2>2. ASSUME NEW l \in UpdateLine
        PROVE  Min({refusals[l] + 1, OrphanTries}) \in 0 .. OrphanTries
    <3>1. refusals[l] \in Nat
      BY <2>1 DEF TypeOK
    <3>2. {refusals[l] + 1, OrphanTries} \in SUBSET Nat
      BY <2>1, <3>1
    <3>3. /\ Min({refusals[l] + 1, OrphanTries}) \in {refusals[l] + 1, OrphanTries}
          /\ Min({refusals[l] + 1, OrphanTries}) <= OrphanTries
      BY <3>2, MinIs
    <3> QED
      BY <2>1, <3>1, <3>3
  <2> QED
    BY <2>2 DEF Apply, TypeOK
<1>8. index' \in [Alert -> [Update -> Offset] \cup {None}]
  <2> DEFINE taken == lines \ Missing(Now, lines)
  <2>1. index' = Indexed(Now, taken)
    BY DEF Apply
  <2>2. taken \subseteq Line
    BY <1>3
  <2>3. ASSUME NEW a \in Alert
        PROVE  Indexed(Now, taken)[a] \in [Update -> Offset] \cup {None}
    <3> HIDE DEF taken
    <3>1. taken \subseteq Line
      BY <2>2
    <3>2. CASE Now = "alert" /\ LastOf(Now, taken, a) # 0
      <4>1. Indexed(Now, taken)[a] = Fresh
        <5>1. Now \notin Update \cup {"download"} /\ LastOf(Now, taken, a) # 0
          BY <3>2 DEF Update
        <5> QED
          BY <1>1, <5>1, IndexedIs
      <4>2. 0 \in Offset
        BY Longest DEF Offset
      <4> QED
        BY <4>1, <4>2 DEF Fresh
    <3>3. CASE Now \in Update /\ LastOf(Now, taken, a) # 0
      <4>1. Indexed(Now, taken)[a] = [index[a] EXCEPT ![Now] = LastOf(Now, taken, a)]
        BY <1>1, <3>3, IndexedIs
      <4>2. LastOf(Now, taken, a) \in taken /\ log[Now][LastOf(Now, taken, a)] = a
        BY <1>1, <3>1, <3>3, LastIs
      <4>3. index[a] # None
        BY <3>3, <4>2 DEF Missing, taken
      <4>4. index[a] \in [Update -> Offset]
        BY <4>3 DEF TypeOK
      <4>5. LastOf(Now, taken, a) \in Offset
        BY <1>1, <3>1, LastIs
      <4> QED
        BY <4>1, <4>4, <4>5
    <3>4. CASE ~(Now = "alert" /\ LastOf(Now, taken, a) # 0) /\ ~(Now \in Update /\ LastOf(Now, taken, a) # 0)
      <4>1. Indexed(Now, taken)[a] = index[a]
        <5>1. LastOf(Now, taken, a) = 0 \/ Now \notin Update \cup {"alert"}
          BY <1>1, <3>4 DEF Kind, Update
        <5> QED
          BY <1>1, <5>1, IndexedIs
      <4> QED
        BY <4>1 DEF TypeOK
    <3> QED
      BY <3>2, <3>3, <3>4
  <2> HIDE DEF taken
  <2> QED
    BY <2>1, <2>3 DEF Indexed
<1> QED
  BY <1>1, <1>2, <1>3, <1>4, <1>5, <1>6, <1>7, <1>8

\* A position that moves only forward over settled lines.
LEMMA WriteKeeps ==
    ASSUME FeedInv, NEW k \in Kind, Write(k)
    PROVE  TypeOK' /\ Positions' /\ Behind' /\ InHand' /\ Resting'
<1>1. TypeOK /\ Positions /\ Behind /\ InHand /\ Resting /\ Readable
  BY DEF FeedInv
<1>2. UNCHANGED <<index, copies, ckpt, pc, turn, offsets, orphans, answer, abandoned, refusals, faults>>
  BY DEF Write, indexVars, processVars
<1>3. PICK row \in Writable(k) :
        /\ log' = [log EXCEPT ![k] = Append(@, row)]
        /\ settled' = IF row = Broken THEN [settled EXCEPT ![k] = @ \cup {Len(log[k]) + 1}] ELSE settled
  BY DEF Write
<1>4. row \in Row
  BY DEF Writable, Row, Stopping
<1>5. log[k] \in Seq(Row) /\ Len(log[k]) \in Nat
  BY <1>1, FileLengths
<1>6. /\ log' \in [Kind -> Seq(Row)]
      /\ Len(log'[k]) = Len(log[k]) + 1 /\ log'[k][Len(log[k]) + 1] = row
      /\ \A l \in 1 .. Len(log[k]) : log'[k][l] = log[k][l]
      /\ \A j \in Kind : j # k => log'[j] = log[j]
  BY <1>1, <1>3, <1>4, <1>5 DEF TypeOK
<1>7. Len(log[k]) < MaxRows[k] /\ MaxRows[k] \in Nat
  BY ShipperAssumption DEF Write
<1>8. Len(log[k]) + 1 \in Line
  BY <1>5, <1>7, Longest DEF Line
<1>9. /\ settled' \in [Kind -> SUBSET Line]
      /\ settled'[k] = IF row = Broken THEN settled[k] \cup {Len(log[k]) + 1} ELSE settled[k]
      /\ \A j \in Kind : j # k => settled'[j] = settled[j]
  BY <1>1, <1>3, <1>8 DEF TypeOK
<1>10. TypeOK'
  <2>1. ASSUME NEW j \in Kind
        PROVE  Len(log'[j]) <= MaxRows[j]
    <3>1. CASE j = k
      <4>1. Len(log'[k]) <= MaxRows[k]
        BY <1>5, <1>6, <1>7
      <4> QED
        BY <3>1, <4>1
    <3>2. CASE j # k
      BY <1>1, <1>6, <3>2 DEF TypeOK
    <3> QED
      BY <3>1, <3>2
  <2> QED
    BY <1>1, <1>2, <1>6, <1>9, <2>1 DEF TypeOK
<1>11. \A j \in Kind : Len(log[j]) \in Nat /\ Len(log'[j]) \in Nat /\ Len(log[j]) <= Len(log'[j])
  BY <1>1, <1>5, <1>6, FileLengths
<1>12. Positions'
  <2>1. ASSUME NEW j \in Kind
        PROVE  settled'[j] \subseteq 1 .. Len(log'[j])
    <3>1. settled[j] \subseteq 1 .. Len(log[j])
      BY <1>1 DEF Positions
    <3>2. CASE j = k
      <4>1. settled'[k] \subseteq settled[k] \cup {Len(log[k]) + 1}
        BY <1>9
      <4>2. settled[k] \subseteq 1 .. Len(log[k])
        BY <3>1, <3>2
      <4>3. 1 .. Len(log'[k]) = 1 .. Len(log[k]) + 1
        BY <1>6
      <4>4. settled'[k] \subseteq 1 .. Len(log'[k])
        BY <1>5, <4>1, <4>2, <4>3
      <4> QED
        BY <3>2, <4>4
    <3>3. CASE j # k
      BY <1>6, <1>9, <3>1, <3>3
    <3> QED
      BY <3>2, <3>3
  <2>2. \A j \in Kind : offsets[j] \in Nat /\ ckpt[j] \in Nat
    BY <1>1, FileLengths
  <2> QED
    BY <1>1, <1>2, <1>11, <2>1, <2>2 DEF Positions
<1>13. Behind'
  <2>1. ASSUME NEW j \in Kind
        PROVE  /\ settled[j] \subseteq settled'[j]
               /\ \A l \in 1 .. Len(log'[j]) : log'[j][l] = Broken => l \in settled'[j]
    <3>1. settled[j] \subseteq settled'[j]
      BY <1>9
    <3>2. ASSUME NEW l \in 1 .. Len(log'[j]), log'[j][l] = Broken
          PROVE  l \in settled'[j]
      <4>1. CASE j # k
        BY <1>1, <1>6, <1>9, <3>2, <4>1 DEF Behind
      <4>2. CASE j = k /\ l \in 1 .. Len(log[k])
        BY <1>1, <1>6, <1>9, <3>2, <4>2 DEF Behind
      <4>3. CASE j = k /\ l = Len(log[k]) + 1
        BY <1>6, <1>9, <3>2, <4>3
      <4> QED
        BY <1>5, <1>6, <4>1, <4>2, <4>3
    <3> QED
      BY <3>1, <3>2
  <2> QED
    BY <1>1, <1>2, <2>1 DEF Behind
<1>14. InHand'
  <2> SUFFICES ASSUME pc' = "answered"
               PROVE  /\ answer' \in Answers
                      /\ offsets'[Now'] < answer'.end /\ answer'.end <= Len(log'[Now'])
                      /\ answer'.missing \subseteq 1 .. answer'.end
                      /\ 1 .. answer'.end \subseteq settled'[Now'] \cup answer'.missing
                      /\ answer'.missing # {} => Now' \in Update
    BY DEF InHand
  <2>1. Now' = Now /\ Now \in Kind /\ pc = "answered" /\ answer' = answer
    BY <1>1, <1>2, NowIsKind DEF Now, TypeOK
  <2>2. settled[Now] \subseteq settled'[Now]
    BY <1>9, <2>1
  <2>3. answer.end \in Nat /\ answer.end <= Len(log[Now]) /\ answer \in Answers
    BY <1>1, <2>1, Longest DEF InHand, Answers, Offset
  <2>4. answer.end <= Len(log'[Now])
    BY <1>11, <2>1, <2>3
  <2> QED
    BY <1>1, <1>2, <2>1, <2>2, <2>3, <2>4 DEF InHand
<1>15. Resting'
  BY <1>1, <1>2 DEF Resting
<1> QED
  BY <1>10, <1>12, <1>13, <1>14, <1>15

LEMMA RestKeeps ==
    ASSUME FeedInv, Start \/ Wake \/ RowEndsProcess \/ Kill \/ LoseCheckpoint
    PROVE  TypeOK' /\ Positions' /\ Behind' /\ InHand' /\ Resting'
<1>1. TypeOK /\ Positions /\ Behind /\ InHand /\ Resting /\ Readable
  BY DEF FeedInv
<1>2. /\ UNCHANGED <<log, index, copies, settled, abandoned, refusals>>
      /\ faults' \in 0 .. MaxFaults
      /\ pc' # "answered"
      /\ turn' \in 1 .. Len(Kinds)
      /\ offsets' \in {offsets, ckpt, Nothing} /\ ckpt' \in {ckpt, Nothing}
      /\ orphans' \in {orphans, Nothing} /\ answer' \in {answer, None}
      /\ pc' \in {"down", "asleep", "round"}
  <2>1. CASE Start
    BY <1>1, <2>1 DEF Start, logVars, indexVars, historyVars, TypeOK
  <2>2. CASE Wake
    BY <1>1, <2>2 DEF Wake, logVars, indexVars, historyVars, TypeOK, Kinds
  <2>3. CASE Kill
    BY <1>1, <2>3, ShipperAssumption DEF Kill, ProcessEnds, logVars, indexVars, historyVars, TypeOK, Kinds
  <2>5. CASE RowEndsProcess
    BY <1>1, <2>5 DEF RowEndsProcess, ProcessEnds, logVars, indexVars, historyVars, TypeOK, Kinds
  <2>4. CASE LoseCheckpoint
    BY <1>1, <2>4, ShipperAssumption DEF LoseCheckpoint, logVars, indexVars, processVars, historyVars, TypeOK
  <2> QED
    BY <2>1, <2>2, <2>3, <2>4, <2>5
<1>3. Nothing \in Offsets /\ Nothing \in [Kind -> 0 .. OrphanTries - 1]
  BY Longest, ShipperAssumption DEF Nothing, Offsets, Offset
<1>4. TypeOK'
  BY <1>1, <1>2, <1>3 DEF TypeOK
<1>5. \A k \in Kind : Nothing[k] = 0 /\ ckpt[k] \in Nat /\ offsets[k] \in Nat /\ Len(log[k]) \in Nat
  BY <1>1, FileLengths DEF Nothing
<1>6. Positions'
  <2>1. ASSUME NEW k \in Kind, pc' # "down"
        PROVE  ckpt'[k] <= offsets'[k]
    <3>1. CASE Start
      BY <1>5, <3>1 DEF Start
    <3>2. CASE Wake
      BY <1>1, <3>2 DEF Wake, Positions
    <3>3. CASE Kill \/ RowEndsProcess
      BY <2>1, <3>3 DEF Kill, RowEndsProcess, ProcessEnds
    <3>4. CASE LoseCheckpoint
      BY <2>1, <3>4 DEF LoseCheckpoint, processVars
    <3> QED
      BY <3>1, <3>2, <3>3, <3>4
  <2>2. ASSUME NEW k \in Kind
        PROVE  ckpt'[k] <= Len(log[k]) /\ offsets'[k] <= Len(log[k])
    <3>1. ckpt[k] <= Len(log[k]) /\ offsets[k] <= Len(log[k])
      BY <1>1 DEF Positions
    <3> QED
      BY <1>2, <1>5, <3>1
  <2> QED
    BY <1>1, <1>2, <2>1, <2>2 DEF Positions
<1>7. Behind'
  <2>1. ASSUME NEW k \in Kind
        PROVE  1 .. ckpt'[k] \subseteq settled[k] /\ 1 .. offsets'[k] \subseteq settled[k]
    <3>1. 1 .. ckpt[k] \subseteq settled[k] /\ 1 .. offsets[k] \subseteq settled[k]
      BY <1>1 DEF Behind
    <3>2. 1 .. Nothing[k] = {}
      BY <1>5
    <3> QED
      BY <1>2, <3>1, <3>2
  <2> QED
    BY <1>1, <1>2, <2>1 DEF Behind
<1>8. InHand'
  BY <1>2 DEF InHand
<1>9. Resting'
  <2>1. CASE Start \/ Wake
    BY <2>1 DEF Start, Wake, Resting
  <2>2. CASE Kill \/ RowEndsProcess
    BY <2>2 DEF Kill, RowEndsProcess, ProcessEnds, Resting
  <2>3. CASE LoseCheckpoint
    BY <1>1, <2>3 DEF LoseCheckpoint, processVars, Resting
  <2> QED
    BY <2>1, <2>2, <2>3
<1> QED
  BY <1>4, <1>6, <1>7, <1>8, <1>9

LEMMA NextFileKeeps ==
    ASSUME FeedInv, NextFile
    PROVE  TypeOK' /\ Positions' /\ Behind' /\ InHand' /\ Resting'
<1>1. TypeOK /\ Positions /\ Behind /\ InHand /\ Resting /\ Readable
  BY DEF FeedInv
<1>2. /\ UNCHANGED <<log, index, copies, ckpt, orphans, answer, settled, abandoned, refusals, faults>>
      /\ pc = "round" /\ pc' \in {"round", "asleep"} /\ NewRows(Now) = {}
      /\ offsets' = [offsets EXCEPT ![Now] = EndOfBatch(Now)]
  BY DEF NextFile, logVars, indexVars, historyVars
<1>3. Now \in Kind
  BY <1>1, NowIsKind DEF TypeOK
<1>4. /\ offsets[Now] <= EndOfBatch(Now) /\ EndOfBatch(Now) <= Len(log[Now]) /\ EndOfBatch(Now) \in Nat
      /\ \A l \in offsets[Now] + 1 .. EndOfBatch(Now) : log[Now][l] = Broken
      /\ offsets[Now] \in Nat /\ Len(log[Now]) \in Nat /\ Len(log[Now]) <= LongestFile
      /\ ckpt[Now] \in Nat
  <2>1. offsets[Now] <= Legible(Now)
    BY <1>1, <1>3 DEF Readable
  <2> QED
    BY <1>1, <1>2, <1>3, <2>1, BatchEnds, FileLengths
<1>5. EndOfBatch(Now) \in Offset
  BY <1>4, Longest DEF Offset
<1>6. TypeOK'
  <2>1. turn' \in 1 .. Len(Kinds)
    BY <1>1 DEF NextFile, TypeOK, Kinds
  <2>2. offsets' \in Offsets
    BY <1>1, <1>2, <1>3, <1>5 DEF TypeOK, Offsets
  <2> QED
    BY <1>1, <1>2, <2>1, <2>2 DEF TypeOK
<1>7. /\ offsets'[Now] = EndOfBatch(Now)
      /\ \A k \in Kind : k # Now => offsets'[k] = offsets[k]
  BY <1>1, <1>2, <1>3 DEF TypeOK, Offsets
<1>8. Positions'
  <2>1. ASSUME NEW k \in Kind
        PROVE  offsets'[k] <= Len(log[k]) /\ ckpt[k] <= offsets'[k]
    <3>1. ckpt[k] <= offsets[k] /\ offsets[k] <= Len(log[k])
      BY <1>1, <1>2 DEF Positions
    <3>2. CASE k = Now
      <4>1. ckpt[Now] <= EndOfBatch(Now)
        BY <1>4, <3>1, <3>2
      <4> QED
        BY <1>4, <1>7, <3>2, <4>1
    <3>3. CASE k # Now
      BY <1>7, <3>1, <3>3
    <3> QED
      BY <3>2, <3>3
  <2> QED
    BY <1>1, <1>2, <2>1 DEF Positions
<1>9. Behind'
  <2>1. ASSUME NEW l \in 1 .. EndOfBatch(Now)
        PROVE  l \in settled[Now]
    <3>1. CASE l <= offsets[Now]
      BY <1>1, <1>3, <1>4, <3>1 DEF Behind
    <3>2. CASE l > offsets[Now]
      <4>1. l \in offsets[Now] + 1 .. EndOfBatch(Now) /\ l \in 1 .. Len(log[Now])
        BY <1>4, <3>2
      <4> QED
        BY <1>1, <1>3, <1>4, <4>1 DEF Behind
    <3> QED
      BY <1>4, <3>1, <3>2
  <2>2. ASSUME NEW k \in Kind
        PROVE  1 .. offsets'[k] \subseteq settled[k]
    BY <1>1, <1>7, <2>1 DEF Behind
  <2> QED
    BY <1>1, <1>2, <2>2 DEF Behind
<1>10. InHand' /\ Resting'
  BY <1>2 DEF InHand, Resting
<1> QED
  BY <1>6, <1>8, <1>9, <1>10

LEMMA BulkKeeps ==
    ASSUME FeedInv, Bulk \/ BulkRefused \/ BulkFails
    PROVE  TypeOK' /\ Positions' /\ Behind' /\ InHand' /\ Resting'
<1>1. TypeOK /\ Positions /\ Behind /\ InHand /\ Resting /\ Readable
  BY DEF FeedInv
<1>2. Now \in Kind /\ offsets[Now] <= Legible(Now)
  BY <1>1, NowIsKind DEF TypeOK, Readable
<1>3. /\ UNCHANGED <<log, ckpt, turn, offsets, orphans, abandoned>>
      /\ pc = "round" /\ pc' \in {"answered", "asleep"} /\ NewRows(Now) # {}
  BY DEF Bulk, BulkRefused, BulkFails, InBatch, logVars
<1>4. PICK lines \in SUBSET NewRows(Now) : Apply(lines) /\ (Bulk => lines = NewRows(Now))
  <2>1. CASE Bulk
    BY <2>1 DEF Bulk
  <2>2. CASE ~Bulk
    BY <2>2 DEF BulkRefused, BulkFails, Takeable
  <2> QED
    BY <2>1, <2>2
<1> DEFINE taken == lines \ Missing(Now, lines)
<1>5. /\ lines \subseteq 1 .. Len(log[Now]) /\ lines \subseteq Line
      /\ index' \in [Alert -> [Update -> Offset] \cup {None}]
      /\ copies' \in [Line -> 0 .. MostCopies]
      /\ refusals' \in [UpdateLine -> 0 .. OrphanTries]
      /\ settled' \in [Kind -> SUBSET Line]
      /\ settled' = [settled EXCEPT ![Now] = @ \cup taken]
  BY <1>1, <1>2, <1>4, Applied
<1>6. settled'[Now] = settled[Now] \cup taken /\ \A k \in Kind : k # Now => settled'[k] = settled[k]
  BY <1>1, <1>2, <1>5 DEF TypeOK
<1>7. /\ EndOfBatch(Now) \in offsets[Now] .. Len(log[Now]) /\ offsets[Now] < EndOfBatch(Now)
      /\ NewRows(Now) = {l \in offsets[Now] + 1 .. EndOfBatch(Now) : log[Now][l] # Broken}
      /\ offsets[Now] \in Nat /\ Len(log[Now]) \in Nat /\ Len(log[Now]) <= LongestFile
  BY <1>1, <1>2, <1>3, BatchEnds, FileLengths
<1>8. ASSUME Bulk
      PROVE  InHand' /\ answer' \in Answers \cup {None} /\ faults' \in 0 .. MaxFaults
  <2>1. /\ answer' = [end |-> EndOfBatch(Now), missing |-> Missing(Now, NewRows(Now))]
        /\ pc' = "answered" /\ lines = NewRows(Now) /\ UNCHANGED faults
    BY <1>4, <1>8 DEF Bulk
  <2>2. Missing(Now, lines) \subseteq lines /\ (Missing(Now, lines) # {} => Now \in Update)
    BY DEF Missing
  <2>3. answer' \in Answers
    <3>1. EndOfBatch(Now) \in Offset
      BY <1>7, Longest DEF Offset
    <3>2. Missing(Now, lines) \in SUBSET Line
      BY <1>5, <2>2
    <3> QED
      BY <2>1, <3>1, <3>2 DEF Answers
  <2>4. ASSUME NEW l \in 1 .. EndOfBatch(Now)
        PROVE  l \in settled'[Now] \cup Missing(Now, lines)
    <3>1. CASE l <= offsets[Now]
      BY <1>1, <1>2, <1>6, <1>7, <3>1 DEF Behind
    <3>2. CASE l > offsets[Now]
      <4>1. l \in offsets[Now] + 1 .. EndOfBatch(Now) /\ l \in 1 .. Len(log[Now])
        BY <1>7, <3>2
      <4>2. CASE log[Now][l] = Broken
        BY <1>1, <1>2, <1>6, <4>1, <4>2 DEF Behind
      <4>3. CASE log[Now][l] # Broken
        BY <1>6, <1>7, <2>1, <4>1, <4>3
      <4> QED
        BY <4>2, <4>3
    <3> QED
      BY <1>7, <3>1, <3>2
  <2>5. lines \subseteq 1 .. EndOfBatch(Now)
    BY <1>7, <2>1
  <2>6. InHand'
    <3>1. Now' = Now
      BY <1>3 DEF Now
    <3>2. answer'.end = EndOfBatch(Now) /\ answer'.missing = Missing(Now, lines)
      BY <2>1
    <3> HIDE DEF taken
    <3> QED
      BY <1>3, <1>7, <2>2, <2>3, <2>4, <2>5, <3>1, <3>2 DEF InHand
  <2>7. answer' \in Answers \cup {None} /\ faults' \in 0 .. MaxFaults
    BY <1>1, <2>1, <2>3 DEF TypeOK
  <2> QED
    BY <2>6, <2>7
<1>9. ASSUME BulkRefused \/ BulkFails
      PROVE  InHand' /\ answer' \in Answers \cup {None} /\ faults' \in 0 .. MaxFaults
  <2>1. /\ pc' = "asleep" /\ UNCHANGED answer
        /\ faults' = faults \/ (faults' = faults + 1 /\ faults < MaxFaults)
    BY <1>9 DEF BulkRefused, BulkFails
  <2>2. answer' \in Answers \cup {None} /\ faults' \in 0 .. MaxFaults
    BY <1>1, <2>1, ShipperAssumption DEF TypeOK, Answers
  <2> QED
    BY <2>1, <2>2 DEF InHand
<1>10. TypeOK' /\ InHand'
  <2>1. InHand' /\ answer' \in Answers \cup {None} /\ faults' \in 0 .. MaxFaults
    BY <1>8, <1>9
  <2>2. TypeOK'
    BY <1>1, <1>3, <1>5, <2>1 DEF TypeOK, Answers
  <2> QED
    BY <2>1, <2>2
<1>11. \A k \in Kind : settled[k] \subseteq settled'[k] /\ settled'[k] \subseteq 1 .. Len(log[k])
  <2> HIDE DEF taken
  <2>1. taken \subseteq 1 .. Len(log[Now])
    BY <1>5 DEF taken
  <2> QED
    BY <1>1, <1>6, <2>1 DEF Positions
<1>12. Positions'
  BY <1>1, <1>3, <1>11 DEF Positions
<1>13. Behind'
  BY <1>1, <1>3, <1>11 DEF Behind
<1>14. Resting'
  BY <1>3 DEF Resting
<1> QED
  BY <1>10, <1>12, <1>13, <1>14

LEMMA RetryKeeps ==
    ASSUME FeedInv, Retry
    PROVE  TypeOK' /\ Positions' /\ Behind' /\ InHand' /\ Resting'
<1>1. TypeOK /\ Positions /\ Behind /\ InHand /\ Resting /\ Readable
  BY DEF FeedInv
<1>2. /\ UNCHANGED <<log, index, copies, turn, offsets, settled, abandoned, refusals, faults>>
      /\ pc = "answered" /\ pc' = "asleep" /\ ckpt' = offsets /\ answer' = None
      /\ orphans' = [orphans EXCEPT ![Now] = @ + 1] /\ MayRetry
  BY DEF Retry, logVars, indexVars, historyVars
<1>3. Now \in Kind
  BY <1>1, NowIsKind DEF TypeOK
<1>4. orphans' \in [Kind -> 0 .. OrphanTries - 1]
  <2>1. orphans[Now] \in Nat /\ orphans[Now] + 1 \in 0 .. OrphanTries - 1
    BY <1>1, <1>2, <1>3, ShipperAssumption DEF TypeOK, MayRetry
  <2> QED
    BY <1>1, <1>2, <1>3, <2>1 DEF TypeOK
<1>5. TypeOK'
  BY <1>1, <1>2, <1>4 DEF TypeOK
<1>6. \A k \in Kind : offsets[k] \in Nat
  BY <1>1, FileLengths
<1>7. Positions' /\ Behind' /\ InHand' /\ Resting'
  BY <1>1, <1>2, <1>6 DEF Positions, Behind, InHand, Resting
<1> QED
  BY <1>5, <1>7

LEMMA AcknowledgeKeeps ==
    ASSUME FeedInv, Acknowledge
    PROVE  TypeOK' /\ Positions' /\ Behind' /\ InHand' /\ Resting'
<1>1. TypeOK /\ Positions /\ Behind /\ InHand /\ Resting /\ Readable
  BY DEF FeedInv
<1>2. /\ UNCHANGED <<log, index, copies, turn, refusals, faults>>
      /\ pc = "answered" /\ pc' = "round" /\ ckpt' = offsets' /\ answer' = None
      /\ orphans' = [orphans EXCEPT ![Now] = 0]
      /\ offsets' = [offsets EXCEPT ![Now] = answer.end]
      /\ settled' = [settled EXCEPT ![Now] = @ \cup answer.missing]
      /\ abandoned' = [abandoned EXCEPT ![Now] = @ \cup answer.missing]
  BY DEF Acknowledge, logVars, indexVars
<1>3. Now \in Kind
  BY <1>1, NowIsKind DEF TypeOK
<1>4. /\ answer \in Answers /\ answer.end \in Offset /\ answer.missing \in SUBSET Line
      /\ offsets[Now] < answer.end /\ answer.end <= Len(log[Now])
      /\ answer.missing \subseteq 1 .. answer.end
      /\ 1 .. answer.end \subseteq settled[Now] \cup answer.missing
      /\ Len(log[Now]) \in Nat /\ answer.end \in Nat
  BY <1>1, <1>2, <1>3, FileLengths, Longest DEF InHand, Answers, Offset
<1>5. TypeOK'
  <2>1. orphans' \in [Kind -> 0 .. OrphanTries - 1]
    <3>1. 0 \in 0 .. OrphanTries - 1
      BY ShipperAssumption
    <3> QED
      BY <1>1, <1>2, <3>1 DEF TypeOK
  <2>2. offsets' \in Offsets /\ ckpt' \in Offsets
    BY <1>1, <1>2, <1>3, <1>4 DEF TypeOK, Offsets
  <2>3. settled' \in [Kind -> SUBSET Line] /\ abandoned' \in [Kind -> SUBSET Line]
    BY <1>1, <1>2, <1>3, <1>4 DEF TypeOK
  <2> QED
    BY <1>1, <1>2, <2>1, <2>2, <2>3 DEF TypeOK
<1>6. /\ offsets'[Now] = answer.end /\ settled'[Now] = settled[Now] \cup answer.missing
      /\ \A k \in Kind : k # Now => offsets'[k] = offsets[k] /\ settled'[k] = settled[k]
  BY <1>1, <1>2, <1>3 DEF TypeOK, Offsets
<1>7. ASSUME NEW k \in Kind
      PROVE  /\ offsets'[k] <= Len(log[k]) /\ offsets'[k] \in Nat
             /\ settled'[k] \subseteq 1 .. Len(log[k]) /\ settled[k] \subseteq settled'[k]
             /\ 1 .. offsets'[k] \subseteq settled'[k]
  <2>1. CASE k = Now
    <3>1. answer.missing \subseteq 1 .. Len(log[Now])
      BY <1>4
    <3>2. settled'[Now] \subseteq 1 .. Len(log[Now])
      BY <1>1, <1>3, <1>6, <3>1 DEF Positions
    <3>3. 1 .. answer.end \subseteq settled'[Now]
      BY <1>4, <1>6
    <3> QED
      BY <1>4, <1>6, <2>1, <3>2, <3>3
  <2>2. CASE k # Now
    BY <1>1, <1>6, <2>2, FileLengths DEF Positions, Behind
  <2> QED
    BY <2>1, <2>2
<1>8. Positions'
  BY <1>2, <1>7 DEF Positions
<1>9. Behind'
  BY <1>1, <1>2, <1>7 DEF Behind
<1>10. InHand' /\ Resting'
  BY <1>2 DEF InHand, Resting
<1> QED
  BY <1>5, <1>8, <1>9, <1>10

CanBeRead ==
    \A k \in Kind :
        /\ Legible(k) \in Nat
        /\ Legible(k) = Len(log[k]) \/ log[k][Legible(k) + 1] = TooLong

LEMMA LegibleAll == TypeOK => CanBeRead
BY LegibleIs DEF CanBeRead

LEMMA LegibleNext == TypeOK' => CanBeRead'
BY LegibleAll, PTL

\* A file may grow where it is read, and there only.
LEMMA LegibleGrows ==
    ASSUME TypeOK, TypeOK', NEW k \in Kind, Write(k), NEW j \in Kind
    PROVE  Legible(j) <= Legible(j)' /\ Legible(j)' \in Nat
<1>1. PICK row \in Writable(k) : log' = [log EXCEPT ![k] = Append(@, row)]
  BY DEF Write
<1>2. log[j] \in Seq(Row) /\ Len(log[j]) \in Nat /\ row \in Row
  BY FileLengths DEF Writable, Row, Stopping
<1>3. Len(log[j]) <= Len(log'[j]) /\ \A l \in 1 .. Len(log[j]) : log'[j][l] = log[j][l]
  BY <1>1, <1>2 DEF TypeOK
<1>4. /\ Legible(j) \in Nat /\ Legible(j) <= Len(log[j])
      /\ \A l \in 1 .. Legible(j) : log[j][l] # TooLong
  BY LegibleIs
<1>5. /\ Legible(j)' \in Nat
      /\ Legible(j)' = Len(log'[j]) \/ log'[j][Legible(j)' + 1] = TooLong
  <2>1. CanBeRead'
    BY LegibleNext
  <2> QED
    BY <2>1 DEF CanBeRead
<1>6. CASE Legible(j)' = Len(log'[j])
  BY <1>2, <1>3, <1>4, <1>5, <1>6
<1>7. CASE log'[j][Legible(j)' + 1] = TooLong
  <2>1. SUFFICES ASSUME Legible(j)' < Legible(j)
                 PROVE  FALSE
    BY <1>4, <1>5
  <2>2. Legible(j)' + 1 \in 1 .. Legible(j) /\ Legible(j)' + 1 \in 1 .. Len(log[j])
    BY <1>2, <1>4, <1>5, <2>1
  <2> QED
    BY <1>3, <1>4, <1>7, <2>2
<1> QED
  BY <1>5, <1>6, <1>7

\* No step moves a position further than the file can be read.
LEMMA ReadableKeeps ==
    ASSUME FeedInv, Next, TypeOK'
    PROVE  Readable'
<1>1. TypeOK /\ Positions /\ InHand /\ Readable
  BY DEF FeedInv
<1>2. Now \in Kind /\ offsets[Now] <= Legible(Now)
  BY <1>1, NowIsKind DEF TypeOK, Readable
<1>3. \A k \in Kind : /\ Legible(k) \in Nat /\ Legible(k)' \in Nat
                      /\ offsets[k] \in Nat /\ ckpt[k] \in Nat /\ Len(log[k]) \in Nat
  <2>1. CanBeRead'
    BY LegibleNext
  <2>2. \A k \in Kind : Legible(k)' \in Nat
    BY <2>1 DEF CanBeRead
  <2>3. ASSUME NEW k \in Kind
        PROVE  Legible(k) \in Nat /\ offsets[k] \in Nat /\ ckpt[k] \in Nat /\ Len(log[k]) \in Nat
    BY <1>1, LegibleIs, FileLengths
  <2> QED
    BY <2>2, <2>3
<1>4. CASE \E k \in Kind : Write(k)
  <2>1. PICK k \in Kind : Write(k)
    BY <1>4
  <2>2. UNCHANGED <<ckpt, pc, turn, offsets, answer>>
    BY <2>1 DEF Write, processVars
  <2>3. \A j \in Kind : Legible(j) <= Legible(j)'
    BY <1>1, <2>1, LegibleGrows
  <2>4. \A j \in Kind : ckpt[j] <= Legible(j)' /\ offsets[j] <= Legible(j)'
    BY <1>1, <1>3, <2>3 DEF Readable
  <2>6. Now' = Now
    BY <2>2 DEF Now
  <2>5. ASSUME pc = "answered"
        PROVE  \A j \in Kind : j = Now => answer.end <= Legible(j)'
    <3>1. answer.end \in Nat /\ answer.end <= Legible(Now)
      BY <1>1, <2>5, Longest DEF Readable, InHand, Answers, Offset
    <3> QED
      BY <1>2, <1>3, <2>3, <3>1
  <2> QED
    BY <1>2, <2>2, <2>4, <2>5, <2>6 DEF Readable
<1>5. CASE ~\E k \in Kind : Write(k)
  <2>1. UNCHANGED log
    BY <1>5 DEF Next, Process, Start, Wake, NextFile, Bulk, BulkRefused, RowEndsProcess, BulkFails, Retry,
                Acknowledge, Kill, LoseCheckpoint, logVars
  <2>2. \A k \in Kind : Legible(k)' = Legible(k)
    BY <2>1 DEF Legible
  <2>3. ASSUME NEW k \in Kind
        PROVE  ckpt'[k] <= Legible(k) /\ offsets'[k] <= Legible(k)
    <3>0. ckpt[k] <= Legible(k) /\ offsets[k] <= Legible(k) /\ Nothing[k] <= Legible(k)
      BY <1>1, <1>3 DEF Readable, Nothing
    <3>1. CASE NextFile
      <4>1. EndOfBatch(Now) <= Legible(Now)
        BY <1>1, <1>2, BatchEnds
      <4> QED
        BY <1>1, <1>2, <3>0, <3>1, <4>1 DEF NextFile, TypeOK, Offsets
    <3>2. CASE Acknowledge
      <4>1. /\ answer.end <= Legible(Now) /\ ckpt' = offsets'
            /\ offsets' = [offsets EXCEPT ![Now] = answer.end]
        BY <1>1, <3>2 DEF Acknowledge, Readable
      <4> QED
        BY <1>1, <1>2, <3>0, <4>1 DEF TypeOK, Offsets
    <3>3. CASE Start \/ Wake \/ Bulk \/ BulkRefused \/ RowEndsProcess \/ BulkFails \/ Retry
               \/ Kill \/ LoseCheckpoint
      <4>1. offsets' \in {offsets, ckpt, Nothing} /\ ckpt' \in {ckpt, offsets, Nothing}
        BY <3>3 DEF Start, Wake, Bulk, BulkRefused, RowEndsProcess, BulkFails, Retry, Kill, LoseCheckpoint,
                    ProcessEnds, processVars
      <4> QED
        BY <3>0, <4>1
    <3> QED
      BY <1>5, <3>1, <3>2, <3>3 DEF Next, Process
  <2>4. ASSUME pc' = "answered"
        PROVE  answer'.end <= Legible(Now')
    <3>1. Bulk
      BY <1>5, <2>4 DEF Next, Process, Start, Wake, NextFile, BulkRefused, RowEndsProcess, BulkFails, Retry,
                        Acknowledge, Kill, LoseCheckpoint, ProcessEnds, processVars
    <3>2. answer'.end = EndOfBatch(Now) /\ Now' = Now
      BY <3>1 DEF Bulk, Now
    <3> QED
      BY <1>1, <1>2, <3>2, BatchEnds
  <2> QED
    BY <2>1, <2>2, <2>3, <2>4 DEF Readable, Legible, Now
<1> QED
  BY <1>4, <1>5

LEMMA FeedStep ==
    ASSUME FeedInv, [Next]_vars
    PROVE  FeedInv'
<1>1. CASE UNCHANGED vars
  BY <1>1 DEF vars, logVars, indexVars, processVars, historyVars, FeedInv, TypeOK, Positions, Behind,
              InHand, Now, Resting, Readable, Legible
<1>2. ASSUME Next
      PROVE  TypeOK' /\ Positions' /\ Behind' /\ InHand' /\ Resting'
  <2>1. CASE \E k \in Kind : Write(k)
    BY <2>1, WriteKeeps
  <2>2. CASE Start \/ Wake \/ RowEndsProcess \/ Kill \/ LoseCheckpoint
    BY <2>2, RestKeeps
  <2>3. CASE NextFile
    BY <2>3, NextFileKeeps
  <2>4. CASE Bulk \/ BulkRefused \/ BulkFails
    BY <2>4, BulkKeeps
  <2>5. CASE Retry
    BY <2>5, RetryKeeps
  <2>6. CASE Acknowledge
    BY <2>6, AcknowledgeKeeps
  <2> QED
    BY <1>2, <2>1, <2>2, <2>3, <2>4, <2>5, <2>6 DEF Next, Process
<1>3. CASE Next
  BY <1>2, <1>3, ReadableKeeps DEF FeedInv
<1> QED
  BY <1>1, <1>3

LEMMA FeedAlways == Spec => []FeedInv
<1>1. FeedInv /\ [Next]_vars => FeedInv'
  BY FeedStep
<1> QED
  BY <1>1, FeedInit, PTL DEF Spec

\* The files only grow, every offset is one of its file and no update waits for more
\* than _ORPHAN_TRIES rounds, through every interruption of ship_once
\* (siem.py:230-256).
THEOREM ShipperTypes == Spec => []TypeOK
<1>1. FeedInv => TypeOK
  BY DEF FeedInv
<1> QED
  BY <1>1, FeedAlways, PTL

-----------------------------------------------------------------------------
(* The shipper implements AtLeastOnce.                                     *)

LEMMA FeedsInit == Init => Feeds!Init
BY DEF Init, Feeds!Init, Nothing

\* A step of the shipper is a step of the promise, for every file.
LEMMA FeedsStep ==
    ASSUME FeedInv, Next
    PROVE  Feeds!Next
<1> DEFINE Grows(f) == Len(log'[f]) = Len(log[f]) + 1
           Same(f) == Len(log'[f]) = Len(log[f])
<1>1. TypeOK /\ Positions /\ Behind /\ InHand /\ Readable
  BY DEF FeedInv
<1>2. \A f \in Kind : ckpt[f] \in Nat /\ offsets[f] \in Nat /\ Len(log[f]) \in Nat
  BY <1>1, FileLengths
<1> SUFFICES ASSUME NEW f \in Kind
             PROVE  \/ Feeds!Write(f) \/ Feeds!Settle(f) \/ Feeds!Save(f) \/ Feeds!Forget(f)
  BY DEF Feeds!Next
<1>3. ASSUME NEW k \in Kind, Write(k)
      PROVE  Feeds!Write(f) \/ Feeds!Settle(f)
  <2>1. PICK row \in Writable(k) :
          /\ log' = [log EXCEPT ![k] = Append(@, row)]
          /\ settled' = IF row = Broken THEN [settled EXCEPT ![k] = @ \cup {Len(log[k]) + 1}] ELSE settled
    BY <1>3 DEF Write
  <2>2. ckpt' = ckpt
    BY <1>3 DEF Write
  <2>3. CASE f = k
    <3>1. Len(log'[f]) = Len(log[f]) + 1
      <4>1. row \in Row /\ log[k] \in Seq(Row)
        BY <1>1, FileLengths DEF Writable, Row, Stopping
      <4>2. log'[k] = Append(log[k], row)
        BY <1>1, <2>1 DEF TypeOK
      <4> QED
        BY <2>3, <4>1, <4>2
    <3>2. settled'[f] \in {settled[f], settled[f] \cup {Len(log[f]) + 1}}
      BY <1>1, <2>1, <2>3 DEF TypeOK
    <3> QED
      BY <2>2, <3>1, <3>2 DEF Feeds!Write
  <2>4. CASE f # k
    <3>1. log'[f] = log[f] /\ settled'[f] = settled[f]
      BY <1>1, <2>1, <2>4 DEF TypeOK
    <3> QED
      BY <2>2, <3>1 DEF Feeds!Settle, Feeds!Arrives
  <2> QED
    BY <2>3, <2>4
<1>4. ASSUME Start \/ Wake \/ NextFile \/ RowEndsProcess \/ Kill
      PROVE  Feeds!Settle(f)
  <2>1. UNCHANGED <<log, settled, ckpt>>
    BY <1>4 DEF Start, Wake, NextFile, RowEndsProcess, Kill, logVars, historyVars
  <2> QED
    BY <2>1 DEF Feeds!Settle, Feeds!Arrives
<1>5. ASSUME LoseCheckpoint
      PROVE  Feeds!Forget(f)
  BY <1>5 DEF LoseCheckpoint, logVars, historyVars, Nothing, Feeds!Forget
<1>6. ASSUME Bulk \/ BulkRefused \/ BulkFails
      PROVE  Feeds!Settle(f)
  <2>1. Now \in Kind /\ offsets[Now] <= Legible(Now)
    BY <1>1, NowIsKind DEF TypeOK, Readable
  <2>2. PICK lines \in SUBSET NewRows(Now) : Apply(lines)
    <3>1. CASE Bulk
      BY <3>1 DEF Bulk
    <3>2. CASE BulkRefused \/ BulkFails
      BY <3>2 DEF BulkRefused, BulkFails, Takeable
    <3> QED
      BY <1>6, <3>1, <3>2
  <2>3. /\ lines \subseteq 1 .. Len(log[Now])
        /\ settled' = [settled EXCEPT ![Now] = @ \cup (lines \ Missing(Now, lines))]
    BY <1>1, <2>1, <2>2, Applied
  <2>4. settled[f] \subseteq settled'[f] /\ settled'[f] \subseteq settled[f] \cup 1 .. Len(log[f])
    <3>1. CASE f = Now
      BY <1>1, <2>1, <2>3, <3>1 DEF TypeOK
    <3>2. CASE f # Now
      BY <1>1, <2>1, <2>3, <3>2 DEF TypeOK
    <3> QED
      BY <3>1, <3>2
  <2>5. UNCHANGED <<log, ckpt>>
    BY <1>6 DEF Bulk, BulkRefused, BulkFails, logVars
  <2> QED
    BY <2>4, <2>5 DEF Feeds!Settle, Feeds!Arrives
<1>7. ASSUME Retry
      PROVE  Feeds!Save(f)
  <2>1. UNCHANGED <<log, settled>> /\ ckpt' = offsets /\ pc = "answered"
    BY <1>7 DEF Retry, logVars, historyVars
  <2>2. offsets[f] \in ckpt[f] .. Len(log[f]) /\ 1 .. offsets[f] \subseteq settled[f]
    BY <1>1, <1>2, <2>1 DEF Positions, Behind
  <2> QED
    BY <2>1, <2>2 DEF Feeds!Save, Feeds!Arrives
<1>8. ASSUME Acknowledge
      PROVE  Feeds!Save(f)
  <2>1. /\ UNCHANGED log /\ ckpt' = offsets' /\ pc = "answered"
        /\ offsets' = [offsets EXCEPT ![Now] = answer.end]
        /\ settled' = [settled EXCEPT ![Now] = @ \cup answer.missing]
    BY <1>8 DEF Acknowledge, logVars
  <2>2. Now \in Kind
    BY <1>1, NowIsKind DEF TypeOK
  <2>3. /\ offsets[Now] < answer.end /\ answer.end <= Len(log[Now]) /\ answer.end \in Nat
        /\ answer.missing \subseteq 1 .. answer.end
        /\ 1 .. answer.end \subseteq settled[Now] \cup answer.missing
    BY <1>1, <2>1, Longest DEF InHand, Answers, Offset
  <2>4. ckpt[f] <= offsets[f] /\ offsets[f] <= Len(log[f]) /\ 1 .. offsets[f] \subseteq settled[f]
    BY <1>1, <2>1 DEF Positions, Behind
  <2>5. /\ settled[f] \subseteq settled'[f] /\ settled'[f] \subseteq settled[f] \cup 1 .. Len(log[f])
        /\ offsets'[f] \in ckpt[f] .. Len(log[f]) /\ 1 .. offsets'[f] \subseteq settled'[f]
    <3>1. CASE f = Now
      <4>1. offsets'[f] = answer.end /\ settled'[f] = settled[f] \cup answer.missing
        BY <1>1, <2>1, <2>2, <3>1 DEF TypeOK, Offsets
      <4>2. answer.missing \subseteq 1 .. Len(log[f])
        BY <1>2, <2>3, <3>1
      <4>3. answer.end \in ckpt[f] .. Len(log[f])
        BY <1>2, <2>3, <2>4, <3>1
      <4>4. 1 .. answer.end \subseteq settled[f] \cup answer.missing
        BY <2>3, <3>1
      <4> QED
        BY <4>1, <4>2, <4>3, <4>4
    <3>2. CASE f # Now
      <4>1. offsets'[f] = offsets[f] /\ settled'[f] = settled[f]
        BY <1>1, <2>1, <3>2 DEF TypeOK, Offsets
      <4> QED
        BY <1>2, <2>4, <4>1
    <3> QED
      BY <3>1, <3>2
  <2> QED
    BY <2>1, <2>5 DEF Feeds!Save, Feeds!Arrives
<1> QED
  BY <1>3, <1>4, <1>5, <1>6, <1>7, <1>8 DEF Next, Process

LEMMA FeedsStutter == UNCHANGED vars => UNCHANGED Feeds!vars
BY DEF vars, logVars, historyVars, Feeds!vars

\* "Nothing is lost between the two" (siem.py:12): whatever fails, is refused or is
\* killed, each of the files is read at least once, and no position that a later life
\* goes on from passes a line that is still to be sent.
THEOREM NothingIsLost == Spec => Lossless
<1>1. FeedInv /\ [Next]_vars => [Feeds!Next]_(Feeds!vars)
  BY FeedsStep, FeedsStutter
<1> QED
  BY <1>1, FeedAlways, FeedsInit, PTL DEF Spec, Lossless, Feeds!Spec

-----------------------------------------------------------------------------
(* The documents of a download.                                            *)

\* What the checkpoint holds as acknowledged, or the process has the answer for.
Sent(l) ==
    \/ l <= ckpt["download"]
    \/ pc = "answered" /\ Now = "download" /\ l <= answer.end

\* Its request is, or may be, sent in every round for a row that is refused.
WithRefused(l) ==
    \E m \in Line :
        /\ m <= Len(log["download"]) /\ log["download"][m] = Refused
        /\ ShareRequest("download", l, m)

\* Every fault hides one document at most.
Copied ==
    \A l \in Line : WithRefused(l) \/ (copies[l] <= faults + 1 /\ (~Sent(l) => copies[l] <= faults))

LEMMA CopiedInit == Init => Copied
BY DEF Init, Copied

\* A file only grows, and what was written of it stays.
LEMMA LogGrows ==
    ASSUME TypeOK, [Next]_vars, NEW k \in Kind
    PROVE  /\ Len(log[k]) \in Nat /\ Len(log'[k]) \in Nat /\ Len(log[k]) <= Len(log'[k])
           /\ \A l \in 1 .. Len(log[k]) : log'[k][l] = log[k][l]
<1>1. log[k] \in Seq(Row) /\ Len(log[k]) \in Nat
  BY FileLengths
<1>2. CASE \E j \in Kind : Write(j)
  <2>1. PICK j \in Kind : Write(j)
    BY <1>2
  <2>2. PICK row \in Writable(j) : log' = [log EXCEPT ![j] = Append(@, row)]
    BY <2>1 DEF Write
  <2>3. row \in Row
    BY DEF Writable, Row, Stopping
  <2>4. CASE k = j
    <3>1. log'[k] = Append(log[k], row)
      BY <2>2, <2>4 DEF TypeOK
    <3> QED
      BY <1>1, <2>3, <3>1
  <2>5. CASE k # j
    <3>1. log'[k] = log[k]
      BY <2>2, <2>5 DEF TypeOK
    <3> QED
      BY <1>1, <3>1
  <2> QED
    BY <2>4, <2>5
<1>3. CASE ~\E j \in Kind : Write(j)
  <2>1. UNCHANGED log
    BY <1>3 DEF Next, Process, Start, Wake, NextFile, Bulk, BulkRefused, RowEndsProcess, BulkFails, Retry,
                Acknowledge, Kill, LoseCheckpoint, logVars, vars
  <2> QED
    BY <1>1, <2>1
<1> QED
  BY <1>2, <1>3

LEMMA WithRefusedStays ==
    ASSUME TypeOK, [Next]_vars, NEW l \in Line, WithRefused(l)
    PROVE  WithRefused(l)'
<1> DEFINE d == "download"
<1>1. d \in Kind
  BY DEF Kind
<1>2. /\ Len(log[d]) \in Nat /\ Len(log'[d]) \in Nat /\ Len(log[d]) <= Len(log'[d])
      /\ \A n \in 1 .. Len(log[d]) : log'[d][n] = log[d][n]
  BY <1>1, LogGrows
<1>3. PICK m \in Line : /\ m <= Len(log[d]) /\ log[d][m] = Refused /\ l <= Len(log[d])
                       /\ Cardinality({n \in l .. m \cup m .. l : log[d][n] # Broken}) <= Batch
  BY DEF WithRefused, ShareRequest
<1>4. l \in Nat \ {0} /\ m \in Nat \ {0}
  BY Longest DEF Line
<1>5. l .. m \cup m .. l \subseteq 1 .. Len(log[d])
  BY <1>2, <1>3, <1>4
<1>6. {n \in l .. m \cup m .. l : log'[d][n] # Broken} = {n \in l .. m \cup m .. l : log[d][n] # Broken}
  BY <1>2, <1>5
<1>7. m <= Len(log'[d]) /\ log'[d][m] = Refused /\ l <= Len(log'[d])
  BY <1>2, <1>3, <1>4
<1>8. Cardinality({n \in l .. m \cup m .. l : log'[d][n] # Broken}) <= Batch
  BY <1>3, <1>6
<1> QED
  BY <1>7, <1>8 DEF WithRefused, ShareRequest

\* Two rows of a batch fit in one request.
LEMMA InOneRequest ==
    ASSUME TypeOK, NEW k \in Kind, offsets[k] <= Legible(k), NEW l \in NewRows(k), NEW m \in NewRows(k)
    PROVE  ShareRequest(k, l, m)
<1>1. /\ offsets[k] \in Nat /\ EndOfBatch(k) \in Nat /\ EndOfBatch(k) <= Len(log[k]) /\ Len(log[k]) \in Nat
      /\ NewRows(k) = {n \in offsets[k] + 1 .. EndOfBatch(k) : log[k][n] # Broken}
  BY BatchEnds, FileLengths
<1> DEFINE between == {n \in l .. m \cup m .. l : log[k][n] # Broken}
<1>2. /\ l \in offsets[k] + 1 .. EndOfBatch(k) /\ m \in offsets[k] + 1 .. EndOfBatch(k)
      /\ l <= Len(log[k]) /\ m <= Len(log[k])
  BY <1>1
<1>3. between \subseteq NewRows(k)
  <2>1. l .. m \cup m .. l \subseteq offsets[k] + 1 .. EndOfBatch(k)
    BY <1>1, <1>2
  <2> QED
    BY <1>1, <2>1
<1>4. Cardinality(between) <= Batch
  <2>1. IsFiniteSet(NewRows(k)) /\ Cardinality(NewRows(k)) <= Batch
    BY BatchFits
  <2>2. IsFiniteSet(between) /\ Cardinality(between) <= Cardinality(NewRows(k))
    BY <1>3, <2>1, FS_Subset
  <2>3. Cardinality(between) \in Nat /\ Cardinality(NewRows(k)) \in Nat /\ Batch \in Nat
    BY <2>1, <2>2, FS_CardinalityType, ShipperAssumption
  <2> HIDE DEF between
  <2> QED
    BY <2>1, <2>2, <2>3
<1> QED
  BY <1>2, <1>4 DEF ShareRequest

\* A step that makes no document, and forgets of none but for a fault.
LEMMA SentOn ==
    ASSUME FeedInv, Copied, [Next]_vars, UNCHANGED copies, faults' \in Nat, faults <= faults',
           \/ faults < faults'
           \/ \A l \in Line : Sent(l) => Sent(l)'
    PROVE  Copied'
<1>0. TypeOK
  BY DEF FeedInv
<1>1. \A l \in Line : copies[l] \in Nat
  BY <1>0, ShipperAssumption DEF TypeOK, MostCopies
<1>2. faults \in Nat
  BY <1>0, ShipperAssumption DEF TypeOK
<1>3. ASSUME NEW l \in Line
      PROVE  WithRefused(l)' \/ (copies'[l] <= faults' + 1 /\ (~Sent(l)' => copies'[l] <= faults'))
  <2>1. CASE WithRefused(l)
    BY <1>0, <2>1, WithRefusedStays
  <2>2. CASE ~WithRefused(l)
    <3>1. copies[l] <= faults + 1 /\ (~Sent(l) => copies[l] <= faults) /\ copies[l] \in Nat
      BY <1>1, <2>2 DEF Copied
    <3>2. CASE faults < faults'
      BY <1>2, <3>1, <3>2
    <3>3. CASE Sent(l) => Sent(l)'
      BY <1>2, <3>1, <3>3
    <3> QED
      BY <3>2, <3>3
  <2> QED
    BY <2>1, <2>2
<1> QED
  BY <1>3 DEF Copied

\* A request whose answer is had, lost or reports a row that is refused.
LEMMA CopiedApply ==
    ASSUME FeedInv, Copied, Next, Now = "download", pc = "round", UNCHANGED ckpt,
           NEW applied \in SUBSET NewRows(Now), Apply(applied),
           \/ pc' = "answered" /\ Now' = Now /\ answer'.end = EndOfBatch(Now) /\ faults' = faults
           \/ faults' = faults + 1
           \/ faults' = faults /\ InBatch(Refused)
    PROVE  Copied'
<1>1. TypeOK /\ Readable /\ faults \in Nat /\ Now \in Kind
  BY ShipperAssumption, NowIsKind DEF FeedInv, TypeOK
<1>2. offsets[Now] <= Legible(Now)
  BY <1>1 DEF Readable
<1>3. NewRows(Now) = {l \in offsets[Now] + 1 .. EndOfBatch(Now) : log[Now][l] # Broken}
  BY <1>1, <1>2, BatchEnds
<1>4. EndOfBatch(Now) \in Nat /\ offsets[Now] \in Nat /\ EndOfBatch(Now) <= Len(log[Now])
  BY <1>1, <1>2, BatchEnds, FileLengths
<1>5. ASSUME NEW l \in Line
      PROVE  WithRefused(l)' \/ (copies'[l] <= faults' + 1 /\ (~Sent(l)' => copies'[l] <= faults'))
  <2> SUFFICES ASSUME ~WithRefused(l)'
               PROVE  copies'[l] <= faults' + 1 /\ (~Sent(l)' => copies'[l] <= faults')
    OBVIOUS
  <2> DEFINE taken == applied \ Missing(Now, applied)
  <2>1. /\ copies'[l] = IF l \in taken THEN Min({copies[l] + 1, MostCopies}) ELSE copies[l]
    BY DEF Apply
  <2>2. ~WithRefused(l)
    BY <1>1, WithRefusedStays
  <2>3. copies[l] \in Nat /\ copies[l] <= faults + 1 /\ (~Sent(l) => copies[l] <= faults)
    BY <1>1, <2>2, ShipperAssumption DEF Copied, TypeOK, MostCopies
  <2>4. Sent(l) => Sent(l)' \/ faults' = faults + 1
    BY DEF Sent
  <2>5. CASE l \in taken
    <3>1. l \in offsets[Now] + 1 .. EndOfBatch(Now)
      BY <1>3, <2>5
    <3>2. ~Sent(l)
      <4>1. ckpt["download"] <= offsets["download"] /\ ckpt["download"] \in Nat
        BY <1>1, FileLengths DEF FeedInv, Positions
      <4> QED
        BY <1>4, <3>1, <4>1 DEF Sent
    <3>3. copies'[l] \in Nat /\ copies'[l] <= copies[l] + 1
      <4>1. MostCopies \in Nat
        BY ShipperAssumption DEF MostCopies
      <4>2. {copies[l] + 1, MostCopies} \in SUBSET Nat
        BY <2>3, <4>1
      <4>3. Min({copies[l] + 1, MostCopies}) \in Nat /\ Min({copies[l] + 1, MostCopies}) <= copies[l] + 1
        BY <4>2, MinIs
      <4> QED
        BY <2>1, <2>5, <4>3
    <3>4. ~InBatch(Refused)
      <4> SUFFICES ASSUME InBatch(Refused)
                   PROVE  WithRefused(l)
        BY <2>2
      <4>1. PICK m \in NewRows(Now) : log[Now][m] = Refused
        BY DEF InBatch
      <4>2. ShareRequest(Now, l, m)
        BY <1>1, <1>2, <2>5, InOneRequest
      <4>3. m \in Line /\ m <= Len(log[Now])
        <5>1. m \in offsets[Now] + 1 .. EndOfBatch(Now) /\ Len(log[Now]) \in Nat /\ Len(log[Now]) <= LongestFile
          BY <1>1, <1>3, FileLengths
        <5> QED
          BY <1>4, <5>1, Longest DEF Line
      <4> QED
        BY <4>1, <4>2, <4>3 DEF WithRefused
    <3>5. CASE pc' = "answered" /\ Now' = Now /\ answer'.end = EndOfBatch(Now) /\ faults' = faults
      <4>1. Sent(l)'
        BY <1>4, <3>1, <3>5 DEF Sent
      <4> HIDE DEF taken
      <4> QED
        BY <1>1, <2>3, <3>2, <3>3, <3>5, <4>1
    <3>6. CASE faults' = faults + 1
      <4> HIDE DEF taken
      <4> QED
        BY <1>1, <2>3, <3>2, <3>3, <3>6
    <3> QED
      BY <3>4, <3>5, <3>6
  <2>6. CASE l \notin taken
    <3> HIDE DEF taken
    <3>1. copies'[l] = copies[l]
      BY <2>1, <2>6
    <3> QED
      BY <1>1, <2>3, <2>4, <3>1
  <2> QED
    BY <2>5, <2>6
<1> QED
  BY <1>5 DEF Copied

LEMMA CopiedStep ==
    ASSUME FeedInv, Copied, [Next]_vars
    PROVE  Copied'
<1>1. TypeOK /\ Positions /\ Behind /\ InHand /\ Readable /\ faults \in Nat
  BY ShipperAssumption DEF FeedInv, TypeOK
<1>2. Now \in Kind
  BY <1>1, NowIsKind DEF TypeOK
<1>3. CASE UNCHANGED vars
  <2>1. \A l \in Line : Sent(l) => Sent(l)'
    BY <1>3 DEF vars, processVars, Sent, Now
  <2> QED
    BY <1>1, <1>3, <2>1, SentOn DEF vars, indexVars
<1>4. CASE \E k \in Kind : Write(k)
  <2>1. UNCHANGED <<copies, faults, ckpt, pc, turn, answer>>
    BY <1>4 DEF Write, indexVars, processVars
  <2>2. \A l \in Line : Sent(l) => Sent(l)'
    BY <2>1 DEF Sent, Now
  <2> QED
    BY <1>1, <2>1, <2>2, SentOn
<1>5. CASE Start \/ Wake \/ NextFile \/ RowEndsProcess
  <2>1. UNCHANGED <<copies, faults, ckpt>> /\ pc # "answered"
    BY <1>5 DEF Start, Wake, NextFile, RowEndsProcess, indexVars
  <2>2. \A l \in Line : Sent(l) => Sent(l)'
    BY <2>1 DEF Sent
  <2> QED
    BY <1>1, <2>1, <2>2, SentOn
<1>6. CASE Bulk
  <2>1. /\ Apply(NewRows(Now)) /\ UNCHANGED <<turn, ckpt, faults>> /\ pc = "round" /\ pc' = "answered"
        /\ answer' = [end |-> EndOfBatch(Now), missing |-> Missing(Now, NewRows(Now))]
    BY <1>6 DEF Bulk
  <2>2. Now' = Now /\ answer'.end = EndOfBatch(Now)
    BY <2>1 DEF Now
  <2>3. CASE Now # "download"
    <3>1. UNCHANGED copies
      BY <2>1, <2>3 DEF Apply
    <3>2. \A l \in Line : Sent(l) => Sent(l)'
      BY <2>1 DEF Sent
    <3> QED
      BY <1>1, <2>1, <3>1, <3>2, SentOn
  <2>4. CASE Now = "download"
    BY <1>6, <2>1, <2>2, <2>4, CopiedApply DEF Next, Process
  <2> QED
    BY <2>3, <2>4
<1>7. CASE BulkFails \/ BulkRefused
  <2>1. PICK applied \in SUBSET NewRows(Now) : Apply(applied)
    BY <1>7 DEF BulkFails, BulkRefused, Takeable
  <2>2. /\ UNCHANGED <<turn, ckpt>> /\ pc = "round" /\ pc' = "asleep"
        /\ faults' = faults + 1 \/ (faults' = faults /\ InBatch(Refused))
    BY <1>7 DEF BulkFails, BulkRefused
  <2>3. CASE Now # "download"
    <3>1. UNCHANGED copies
      BY <2>1, <2>3 DEF Apply
    <3>2. \A l \in Line : Sent(l) => Sent(l)'
      BY <2>2 DEF Sent
    <3> QED
      BY <1>1, <2>2, <3>1, <3>2, SentOn
  <2>4. CASE Now = "download"
    BY <1>7, <2>1, <2>2, <2>4, CopiedApply DEF Next, Process
  <2> QED
    BY <2>3, <2>4
<1>8. CASE Retry
  <2>1. UNCHANGED <<copies, faults>> /\ ckpt' = offsets /\ pc = "answered" /\ answer.missing # {}
    BY <1>8 DEF Retry, indexVars
  <2>2. Now # "download"
    BY <1>1, <2>1 DEF InHand, Update
  <2>3. ckpt["download"] <= offsets["download"] /\ ckpt["download"] \in Nat /\ offsets["download"] \in Nat
    BY <1>1, <2>1, FileLengths DEF Positions, Kind
  <2>4. \A l \in Line : l \in Nat
    BY Longest DEF Line
  <2>5. \A l \in Line : Sent(l) => Sent(l)'
    BY <2>1, <2>2, <2>3, <2>4 DEF Sent
  <2> QED
    BY <1>1, <2>1, <2>5, SentOn
<1>9. CASE Acknowledge
  <2>1. /\ UNCHANGED <<copies, faults>> /\ pc = "answered" /\ ckpt' = offsets'
        /\ offsets' = [offsets EXCEPT ![Now] = answer.end]
    BY <1>9 DEF Acknowledge, indexVars
  <2>2. offsets[Now] < answer.end /\ answer.end \in Nat
    BY <1>1, <1>2, <2>1, Longest DEF InHand, Answers, Offset
  <2>3. \A l \in Line : l \in Nat
    BY Longest DEF Line
  <2>4. /\ "download" \in Kind /\ ckpt["download"] \in Nat /\ offsets["download"] \in Nat
        /\ ckpt["download"] <= offsets["download"]
    BY <1>1, <2>1, FileLengths DEF Positions, Kind
  <2>5. CASE Now = "download"
    <3>1. ckpt'["download"] = answer.end
      BY <1>1, <2>1, <2>4, <2>5 DEF TypeOK, Offsets
    <3>2. \A l \in Line : Sent(l) => Sent(l)'
      BY <2>1, <2>2, <2>3, <2>4, <2>5, <3>1 DEF Sent
    <3> QED
      BY <1>1, <2>1, <3>2, SentOn
  <2>6. CASE Now # "download"
    <3>1. ckpt'["download"] = offsets["download"]
      BY <1>1, <2>1, <2>4, <2>6 DEF TypeOK, Offsets
    <3>2. \A l \in Line : Sent(l) => Sent(l)'
      BY <2>1, <2>3, <2>4, <2>6, <3>1 DEF Sent
    <3> QED
      BY <1>1, <2>1, <3>2, SentOn
  <2> QED
    BY <2>5, <2>6
<1>10. CASE Kill \/ LoseCheckpoint
  <2>1. UNCHANGED copies /\ faults' = faults + 1
    BY <1>10 DEF Kill, LoseCheckpoint, indexVars
  <2> QED
    BY <1>1, <2>1, SentOn
<1> QED
  BY <1>3, <1>4, <1>5, <1>6, <1>7, <1>8, <1>9, <1>10 DEF Next, Process

\* A download has more than one document only for a failure that hid the answer to
\* its request or lost the offset, or because its request has a row that is refused
\* and is sent in every round: the shipper sends no row again that was acknowledged
\* (siem.py:247).
THEOREM CopiesAreFaults == Spec => []CopiesExplained
<1>1. Copied /\ FeedInv /\ [Next]_vars => Copied'
  BY CopiedStep
<1>2. Copied /\ FeedInv => CopiesExplained
  <2>1. SUFFICES ASSUME Copied, FeedInv, NEW l \in Line, ~WithRefused(l)
                 PROVE  copies[l] <= 1 + faults
    BY DEF CopiesExplained, WithRefused
  <2>2. faults \in Nat
    BY <2>1, ShipperAssumption DEF FeedInv, TypeOK
  <2> QED
    BY <2>1, <2>2 DEF Copied
<1> QED
  BY <1>1, <1>2, CopiedInit, FeedAlways, PTL DEF Spec

-----------------------------------------------------------------------------
(* What the index shows.                                                   *)

AlertAt(l) == log["alert"][l]

\* The writer gives every alert an id of its own.
WrittenOnce ==
    \A l, m \in 1 .. Len(log["alert"]) : AlertAt(l) = AlertAt(m) /\ AlertAt(l) \in Alert => l = m

\* What has a document was read.
FromTheFile == \A a \in Alert : index[a] # None => \E l \in 1 .. Legible("alert") : AlertAt(l) = a

\* The later files are read only when nothing of the alerts is left to send: no
\* alert in the index will have its document written over in this round.
AlertsFirst ==
    turn > 1 => \A l \in 1 .. Len(log["alert"]) :
        AlertAt(l) \in Alert /\ index[AlertAt(l)] # None => l <= offsets["alert"]

\* Behind these positions the alerts have a document, and every fact that was not
\* given up is shown by it, or a later one is.
Agrees(position) ==
    /\ \A l \in 1 .. position["alert"] : AlertAt(l) \in Alert => index[AlertAt(l)] # None
    /\ \A k \in Update : \A m \in 1 .. position[k] : log[k][m] \in Alert /\ m \notin abandoned[k] =>
        /\ \E l \in 1 .. position["alert"] : AlertAt(l) = log[k][m]
        /\ index[log[k][m]] # None /\ m <= index[log[k][m]][k]

\* The batch that was answered, but for what is missing of it, is shown as well.
ShownNext ==
    pc = "answered" =>
        \A l \in offsets[Now] + 1 .. answer.end : log[Now][l] \in Alert /\ l \notin answer.missing =>
            /\ Now \in Update \cup {"alert"} => index[log[Now][l]] # None
            /\ Now \in Update => l <= index[log[Now][l]][Now]

AgreeInv ==
    /\ WrittenOnce /\ FromTheFile /\ AlertsFirst
    /\ Agrees(offsets) /\ Agrees(ckpt) /\ ShownNext

LEMMA AgreeInit == Init => AgreeInv
BY DEF Init, AgreeInv, WrittenOnce, FromTheFile, AlertsFirst, Agrees, ShownNext, Nothing,
       Kind, Update

LEMMA NotAlerts == Broken \notin Alert /\ Download \notin Alert /\ \A row \in Stopping : row \notin Alert
BY ShipperAssumption

LEMMA KindsOf == Update \subseteq Kind \ {"download"} /\ "alert" \in Kind \ {"download"} /\ "alert" \notin Update
BY DEF Update, Kind

\* A document of the index is not None.
LEMMA Documents ==
    ASSUME TypeOK, NEW a \in Alert
    PROVE  /\ index[a] # None => index[a] \in [Update -> Offset] /\ \A u \in Update : index[a][u] \in Nat
           /\ \A d \in [Update -> Offset] : d # None
<1>1. \A n \in Offset : n \in Nat
  BY Longest DEF Offset
<1>2. index[a] # None => index[a] \in [Update -> Offset]
  BY DEF TypeOK
<1>3. ASSUME NEW d \in [Update -> Offset]
      PROVE  d # None
  <2>1. d \in [Update -> Nat]
    BY <1>1
  <2> QED
    BY <2>1, ShipperAssumption
<1> QED
  BY <1>1, <1>2, <1>3

LEMMA AgreeWrite ==
    ASSUME FeedInv, AgreeInv, NEW k \in Kind, Write(k)
    PROVE  AgreeInv'
<1>1. TypeOK /\ Positions /\ InHand
  BY DEF FeedInv
<1>2. UNCHANGED <<index, ckpt, pc, turn, offsets, answer, abandoned>>
  BY DEF Write, indexVars, processVars
<1>3. PICK row \in Writable(k) : log' = [log EXCEPT ![k] = Append(@, row)]
  BY DEF Write
<1>4. log[k] \in Seq(Row) /\ Len(log[k]) \in Nat /\ row \in Row
  BY <1>1, FileLengths DEF Writable, Row, Stopping
<1>5. /\ Len(log'[k]) = Len(log[k]) + 1 /\ log'[k][Len(log[k]) + 1] = row
      /\ \A l \in 1 .. Len(log[k]) : log'[k][l] = log[k][l]
      /\ \A j \in Kind : j # k => log'[j] = log[j]
  BY <1>1, <1>3, <1>4 DEF TypeOK
\* What was written stays.
<1>6. ASSUME NEW j \in Kind
      PROVE  /\ Len(log[j]) \in Nat /\ Len(log'[j]) \in Nat /\ Len(log[j]) <= Len(log'[j])
             /\ \A l \in 1 .. Len(log[j]) : l \in 1 .. Len(log'[j]) /\ log'[j][l] = log[j][l]
             /\ \A l \in 1 .. Len(log'[j]) : l \notin 1 .. Len(log[j]) => j = k /\ l = Len(log[k]) + 1
  <2>1. Len(log[j]) \in Nat
    BY <1>1, FileLengths
  <2>2. CASE j = k
    BY <1>4, <1>5, <2>2
  <2>3. CASE j # k
    BY <1>5, <2>1, <2>3
  <2> QED
    BY <2>2, <2>3
<1>7. k = "alert" /\ row \in Alert => ~InFile(row)
  BY NotAlerts DEF Writable, Stopping
<1>8. Legible("alert") <= Legible("alert")' /\ Legible("alert") \in Nat /\ Legible("alert")' \in Nat
      /\ Legible("alert") <= Len(log["alert"])
  <2>1. TypeOK'
    BY WriteKeeps
  <2> QED
    BY <1>1, <2>1, KindsOf, LegibleGrows, LegibleIs
<1>10. WrittenOnce'
  <2>1. SUFFICES ASSUME NEW l \in 1 .. Len(log'["alert"]), NEW m \in 1 .. Len(log'["alert"]),
                        log'["alert"][l] = log'["alert"][m], log'["alert"][l] \in Alert
                 PROVE  l = m
    BY DEF WrittenOnce, AlertAt
  <2>2. CASE l \in 1 .. Len(log["alert"]) /\ m \in 1 .. Len(log["alert"])
    BY <1>6, <2>1, <2>2, KindsOf DEF AgreeInv, WrittenOnce, AlertAt
  <2>3. ASSUME NEW n \in 1 .. Len(log["alert"]), k = "alert"
        PROVE  log'["alert"][n] = row => row \notin Alert
    BY <1>6, <1>7, <2>3, KindsOf DEF InFile
  <2>4. CASE l \notin 1 .. Len(log["alert"])
    BY <1>5, <1>6, <2>1, <2>3, <2>4, KindsOf
  <2>5. CASE m \notin 1 .. Len(log["alert"])
    BY <1>5, <1>6, <2>1, <2>3, <2>5, KindsOf
  <2> QED
    BY <2>2, <2>4, <2>5
<1>11. FromTheFile'
  <2> SUFFICES ASSUME NEW a \in Alert, index[a] # None
               PROVE  \E l \in 1 .. Legible("alert")' : log'["alert"][l] = a
    BY <1>2 DEF FromTheFile, AlertAt
  <2>1. PICK l \in 1 .. Legible("alert") : log["alert"][l] = a
    BY DEF AgreeInv, FromTheFile, AlertAt
  <2>2. l \in 1 .. Len(log["alert"]) /\ l \in 1 .. Legible("alert")'
    BY <1>6, <1>8, KindsOf
  <2> QED
    BY <1>6, <2>1, <2>2, KindsOf
<1>12. AlertsFirst'
  <2>1. SUFFICES ASSUME turn > 1, NEW l \in 1 .. Len(log'["alert"]),
                        log'["alert"][l] \in Alert, index[log'["alert"][l]] # None
                 PROVE  l <= offsets["alert"]
    BY <1>2 DEF AlertsFirst, AlertAt
  <2>2. CASE l \in 1 .. Len(log["alert"])
    BY <1>6, <2>1, <2>2, KindsOf DEF AgreeInv, AlertsFirst, AlertAt
  <2>3. CASE l \notin 1 .. Len(log["alert"])
    <3>1. k = "alert" /\ row = log'["alert"][l] /\ ~InFile(row)
      BY <1>5, <1>6, <1>7, <2>1, <2>3, KindsOf
    <3>2. PICK n \in 1 .. Legible("alert") : log["alert"][n] = row
      BY <2>1, <3>1 DEF AgreeInv, FromTheFile, AlertAt
    <3>3. n \in 1 .. Len(log["alert"])
      BY <1>6, <1>8, KindsOf
    <3> QED
      BY <3>1, <3>2, <3>3 DEF InFile
  <2> QED
    BY <2>2, <2>3
<1>13. Agrees(offsets)'
  <2>1. \A j \in Kind : \A l \in 1 .. offsets[j] : log'[j][l] = log[j][l]
    BY <1>1, <1>6, FileLengths DEF Positions
  <2> QED
    BY <1>2, <2>1, KindsOf DEF AgreeInv, Agrees, AlertAt
<1>14. Agrees(ckpt)'
  <2>1. \A j \in Kind : \A l \in 1 .. ckpt[j] : log'[j][l] = log[j][l]
    BY <1>1, <1>6, FileLengths DEF Positions
  <2> QED
    BY <1>2, <2>1, KindsOf DEF AgreeInv, Agrees, AlertAt
<1>15. ShownNext'
  <2> SUFFICES ASSUME pc = "answered", NEW l \in offsets[Now] + 1 .. answer.end,
                      log'[Now][l] \in Alert, l \notin answer.missing
               PROVE  /\ Now \in Update \cup {"alert"} => index[log'[Now][l]] # None
                      /\ Now \in Update => l <= index[log'[Now][l]][Now]
    BY <1>2 DEF ShownNext, Now
  <2>1. Now \in Kind /\ offsets[Now] \in Nat /\ answer.end \in Nat /\ answer.end <= Len(log[Now])
    BY <1>1, NowIsKind, FileLengths, Longest DEF TypeOK, InHand, Answers, Offset
  <2>2. l \in 1 .. Len(log[Now])
    BY <1>6, <2>1
  <2>3. log'[Now][l] = log[Now][l]
    BY <1>6, <2>1, <2>2
  <2> QED
    BY <2>3 DEF AgreeInv, ShownNext
<1> QED
  BY <1>10, <1>11, <1>12, <1>13, <1>14, <1>15 DEF AgreeInv

LEMMA AgreeRest ==
    ASSUME FeedInv, AgreeInv, Start \/ Wake \/ RowEndsProcess \/ Kill \/ LoseCheckpoint \/ Retry
    PROVE  AgreeInv'
<1>1. /\ UNCHANGED <<log, index, abandoned>> /\ pc' # "answered"
      /\ offsets' \in {offsets, ckpt, Nothing} /\ ckpt' \in {ckpt, offsets, Nothing}
      /\ turn' = 1 \/ (turn' = turn /\ offsets' = offsets)
  BY DEF Start, Wake, RowEndsProcess, ProcessEnds, Kill, LoseCheckpoint, Retry, logVars, indexVars, processVars, historyVars,
         FeedInv, Resting
<1>2. WrittenOnce' /\ FromTheFile'
  BY <1>1 DEF AgreeInv, WrittenOnce, AlertAt, FromTheFile, Legible
<1>3. AlertsFirst'
  BY <1>1 DEF AgreeInv, AlertsFirst, AlertAt
<1>4. Agrees(Nothing)
  BY KindsOf DEF Agrees, Nothing
<1>5. ASSUME NEW position \in {offsets, ckpt, Nothing}
      PROVE  Agrees(position)
  BY <1>4 DEF AgreeInv
<1>6. Agrees(offsets)' /\ Agrees(ckpt)'
  <2>1. Agrees(offsets') /\ Agrees(ckpt')
    BY <1>1, <1>5
  <2> QED
    BY <1>1, <2>1 DEF Agrees, AlertAt
<1>7. ShownNext'
  BY <1>1 DEF ShownNext
<1> QED
  BY <1>2, <1>3, <1>6, <1>7 DEF AgreeInv

LEMMA AgreeNextFile ==
    ASSUME FeedInv, AgreeInv, NextFile
    PROVE  AgreeInv'
<1>1. TypeOK /\ Positions /\ Readable
  BY DEF FeedInv
<1>2. /\ UNCHANGED <<log, index, ckpt, abandoned>> /\ pc' # "answered" /\ NewRows(Now) = {}
      /\ offsets' = [offsets EXCEPT ![Now] = EndOfBatch(Now)]
  BY DEF NextFile, logVars, indexVars, historyVars
<1>3. Now \in Kind
  BY <1>1, NowIsKind DEF TypeOK
<1>4. /\ EndOfBatch(Now) = Legible(Now) /\ offsets[Now] \in Nat /\ EndOfBatch(Now) \in Nat
      /\ \A l \in offsets[Now] + 1 .. EndOfBatch(Now) : log[Now][l] = Broken
  BY <1>1, <1>2, <1>3, BatchEnds, FileLengths DEF Readable
<1>5. /\ offsets'[Now] = EndOfBatch(Now)
      /\ \A k \in Kind : k # Now => offsets'[k] = offsets[k]
  BY <1>1, <1>2, <1>3 DEF TypeOK, Offsets
<1>6. ASSUME NEW k \in Kind, NEW l \in 1 .. offsets'[k], log[k][l] \in Alert
      PROVE  l \in 1 .. offsets[k]
  <2>1. CASE k = Now
    <3>1. l \in 1 .. EndOfBatch(Now) /\ log[Now][l] # Broken
      BY <1>5, <1>6, <2>1, NotAlerts
    <3>2. l \in 1 .. offsets[Now]
      BY <1>4, <3>1
    <3> QED
      BY <2>1, <3>2
  <2>2. CASE k # Now
    BY <1>5, <1>6, <2>2
  <2> QED
    BY <2>1, <2>2
<1>7. \A k \in Kind : offsets[k] \in Nat /\ offsets'[k] \in Nat /\ offsets[k] <= offsets'[k]
  <2>1. ASSUME NEW k \in Kind
        PROVE  offsets[k] \in Nat /\ offsets'[k] \in Nat /\ offsets[k] <= offsets'[k]
    <3>1. offsets[k] \in Nat /\ offsets[k] <= Legible(k)
      BY <1>1, FileLengths DEF Readable
    <3>2. CASE k = Now
      BY <1>4, <1>5, <3>1, <3>2
    <3>3. CASE k # Now
      BY <1>5, <3>1, <3>3
    <3> QED
      BY <3>2, <3>3
  <2> QED
    BY <2>1
<1>8. WrittenOnce' /\ FromTheFile' /\ Agrees(ckpt)' /\ ShownNext'
  <2>1. Legible("alert")' = Legible("alert")
    BY <1>2 DEF Legible
  <2> QED
    BY <1>2, <2>1 DEF AgreeInv, WrittenOnce, AlertAt, FromTheFile, Agrees, ShownNext
<1>9. AlertsFirst'
  <2> SUFFICES ASSUME turn' > 1, NEW l \in 1 .. Len(log["alert"]),
                      log["alert"][l] \in Alert, index[log["alert"][l]] # None
               PROVE  l <= offsets'["alert"]
    BY <1>2 DEF AlertsFirst, AlertAt
  <2>1. CASE Now = "alert"
    <3>1. offsets'["alert"] = Legible("alert")
      BY <1>4, <1>5, <2>1
    <3>2. PICK n \in 1 .. Legible("alert") : log["alert"][n] = log["alert"][l]
      BY DEF AgreeInv, FromTheFile, AlertAt
    <3>3. Legible("alert") \in Nat /\ Legible("alert") <= Len(log["alert"]) /\ Len(log["alert"]) \in Nat
      BY <1>1, KindsOf, LegibleIs, FileLengths
    <3>4. n = l
      BY <3>2, <3>3 DEF AgreeInv, WrittenOnce, AlertAt
    <3> QED
      BY <3>1, <3>3, <3>4
  <2>2. CASE Now # "alert"
    <3>1. turn > 1
      BY <1>1, <2>2, NowIsKind DEF TypeOK
    <3>2. offsets'["alert"] = offsets["alert"]
      BY <1>5, <2>2, KindsOf
    <3> QED
      BY <3>1, <3>2 DEF AgreeInv, AlertsFirst, AlertAt
  <2> QED
    BY <2>1, <2>2
<1>10. Agrees(offsets)'
  <2>1. ASSUME NEW l \in 1 .. offsets'["alert"], log["alert"][l] \in Alert
        PROVE  index[log["alert"][l]] # None
    <3>1. l \in 1 .. offsets["alert"]
      BY <1>6, <2>1, KindsOf
    <3> QED
      BY <2>1, <3>1 DEF AgreeInv, Agrees, AlertAt
  <2>2. ASSUME NEW k \in Update, NEW m \in 1 .. offsets'[k], log[k][m] \in Alert, m \notin abandoned[k]
        PROVE  /\ \E l \in 1 .. offsets'["alert"] : log["alert"][l] = log[k][m]
               /\ index[log[k][m]] # None /\ m <= index[log[k][m]][k]
    <3>1. m \in 1 .. offsets[k]
      BY <1>6, <2>2, KindsOf
    <3>2. /\ \E l \in 1 .. offsets["alert"] : log["alert"][l] = log[k][m]
          /\ index[log[k][m]] # None /\ m <= index[log[k][m]][k]
      BY <2>2, <3>1 DEF AgreeInv, Agrees, AlertAt
    <3>3. 1 .. offsets["alert"] \subseteq 1 .. offsets'["alert"]
      BY <1>7, KindsOf
    <3> QED
      BY <3>2, <3>3
  <2> QED
    BY <1>2, <2>1, <2>2 DEF Agrees, AlertAt
<1> QED
  BY <1>8, <1>9, <1>10 DEF AgreeInv

LEMMA AgreeAcknowledge ==
    ASSUME FeedInv, AgreeInv, Acknowledge
    PROVE  AgreeInv'
<1>1. TypeOK /\ Positions /\ InHand
  BY DEF FeedInv
<1>2. /\ UNCHANGED <<log, index, turn>> /\ pc = "answered" /\ pc' = "round" /\ ckpt' = offsets'
      /\ offsets' = [offsets EXCEPT ![Now] = answer.end]
      /\ abandoned' = [abandoned EXCEPT ![Now] = @ \cup answer.missing]
  BY DEF Acknowledge, logVars, indexVars
<1>3. Now \in Kind
  BY <1>1, NowIsKind DEF TypeOK
<1>4. /\ answer.missing # {} => Now \in Update
      /\ offsets[Now] < answer.end /\ answer.end <= Len(log[Now])
      /\ answer.end \in Nat /\ offsets[Now] \in Nat /\ Len(log[Now]) \in Nat
  BY <1>1, <1>2, <1>3, FileLengths, Longest DEF InHand, Answers, Offset
<1>5. /\ offsets'[Now] = answer.end /\ abandoned'[Now] = abandoned[Now] \cup answer.missing
      /\ \A k \in Kind : k # Now => offsets'[k] = offsets[k] /\ abandoned'[k] = abandoned[k]
  BY <1>1, <1>2, <1>3 DEF TypeOK, Offsets
<1>6. \A k \in Kind : 1 .. offsets[k] \subseteq 1 .. offsets'[k]
  <2>1. ASSUME NEW k \in Kind
        PROVE  1 .. offsets[k] \subseteq 1 .. offsets'[k]
    <3>1. CASE k = Now
      BY <1>4, <1>5, <3>1
    <3>2. CASE k # Now
      BY <1>5, <3>2
    <3> QED
      BY <3>1, <3>2
  <2> QED
    BY <2>1
<1>7. WrittenOnce' /\ FromTheFile' /\ ShownNext'
  BY <1>2 DEF AgreeInv, WrittenOnce, AlertAt, FromTheFile, Legible, ShownNext
<1>8. AlertsFirst'
  <2> SUFFICES ASSUME turn > 1, NEW l \in 1 .. Len(log["alert"]),
                      log["alert"][l] \in Alert, index[log["alert"][l]] # None
               PROVE  l <= offsets'["alert"]
    BY <1>2 DEF AlertsFirst, AlertAt
  <2>1. offsets'["alert"] = offsets["alert"]
    BY <1>1, <1>5, NowIsKind, KindsOf DEF TypeOK
  <2> QED
    BY <2>1 DEF AgreeInv, AlertsFirst, AlertAt
\* An alert that has a document when a later file is read was read before.
<1>9. ASSUME Now \in Update, NEW a \in Alert, index[a] # None
      PROVE  \E l \in 1 .. offsets["alert"] : log["alert"][l] = a
  <2>1. PICK l \in 1 .. Len(log["alert"]) : log["alert"][l] = a
    <3>1. PICK n \in 1 .. Legible("alert") : log["alert"][n] = a
      BY <1>9 DEF AgreeInv, FromTheFile, AlertAt
    <3>2. Legible("alert") \in Nat /\ Legible("alert") <= Len(log["alert"]) /\ Len(log["alert"]) \in Nat
      BY <1>1, KindsOf, LegibleIs, FileLengths
    <3> QED
      BY <3>1, <3>2
  <2>2. turn > 1
    BY <1>1, <1>9, NowIsKind, KindsOf DEF TypeOK
  <2>3. l <= offsets["alert"] /\ offsets["alert"] \in Nat
    BY <1>1, <1>9, <2>1, <2>2, FileLengths, KindsOf DEF AgreeInv, AlertsFirst, AlertAt
  <2> QED
    BY <2>1, <2>3
<1>10. ASSUME NEW l \in 1 .. offsets'["alert"], log["alert"][l] \in Alert
       PROVE  index[log["alert"][l]] # None
  <2>1. CASE l \in 1 .. offsets["alert"]
    BY <1>10, <2>1 DEF AgreeInv, Agrees, AlertAt
  <2>2. CASE l \notin 1 .. offsets["alert"]
    <3>1. Now = "alert"
      BY <1>5, <1>10, <2>2, KindsOf
    <3>2. l \in offsets[Now] + 1 .. answer.end /\ l \notin answer.missing
      <4>1. l \in 1 .. answer.end /\ l \notin 1 .. offsets[Now]
        BY <1>5, <1>10, <2>2, <3>1
      <4> QED
        BY <1>4, <3>1, <4>1, KindsOf
    <3> QED
      BY <1>2, <1>10, <3>1, <3>2 DEF AgreeInv, ShownNext
  <2> QED
    BY <2>1, <2>2
<1>11. ASSUME NEW k \in Update, NEW m \in 1 .. offsets'[k], log[k][m] \in Alert, m \notin abandoned'[k]
       PROVE  /\ \E l \in 1 .. offsets'["alert"] : log["alert"][l] = log[k][m]
              /\ index[log[k][m]] # None /\ m <= index[log[k][m]][k]
  <2>0. k \in Kind /\ m \notin abandoned[k]
    BY <1>5, <1>11, KindsOf
  <2>1. CASE m \in 1 .. offsets[k]
    BY <1>6, <1>11, <2>0, <2>1, KindsOf DEF AgreeInv, Agrees, AlertAt
  <2>2. CASE m \notin 1 .. offsets[k]
    <3>1. k = Now
      BY <1>5, <1>11, <2>0, <2>2
    <3>2. m \in offsets[Now] + 1 .. answer.end /\ m \notin answer.missing /\ log[Now][m] \in Alert
      <4>1. m \in 1 .. answer.end /\ m \notin 1 .. offsets[Now]
        BY <1>5, <1>11, <2>2, <3>1
      <4> QED
        BY <1>4, <1>5, <1>11, <3>1, <4>1
    <3>3. index[log[Now][m]] # None /\ m <= index[log[Now][m]][Now]
      BY <1>2, <1>11, <3>1, <3>2 DEF AgreeInv, ShownNext
    <3>5. \E l \in 1 .. offsets["alert"] : log["alert"][l] = log[Now][m]
      BY <1>9, <1>11, <3>1, <3>2, <3>3
    <3> QED
      BY <1>6, <3>1, <3>3, <3>5, KindsOf
  <2> QED
    BY <2>1, <2>2
<1>12. Agrees(offsets)' /\ Agrees(ckpt)'
  BY <1>2, <1>10, <1>11 DEF Agrees, AlertAt
<1> QED
  BY <1>7, <1>8, <1>12 DEF AgreeInv

LEMMA AgreeBulk ==
    ASSUME FeedInv, AgreeInv, Bulk \/ BulkRefused \/ BulkFails
    PROVE  AgreeInv'
<1>1. TypeOK /\ Positions /\ Readable /\ TypeOK'
  BY BulkKeeps DEF FeedInv
<1>2. Now \in Kind /\ offsets[Now] <= Legible(Now)
  BY <1>1, NowIsKind DEF TypeOK, Readable
<1>3. /\ UNCHANGED <<log, ckpt, turn, offsets, abandoned>> /\ pc = "round"
  BY DEF Bulk, BulkRefused, BulkFails, logVars
<1>4. PICK lines \in SUBSET NewRows(Now) : Apply(lines) /\ (Bulk => lines = NewRows(Now))
  <2>1. CASE Bulk
    BY <2>1 DEF Bulk
  <2>2. CASE ~Bulk
    BY <2>2 DEF BulkRefused, BulkFails, Takeable
  <2> QED
    BY <2>1, <2>2
<1> DEFINE taken == lines \ Missing(Now, lines)
<1>5. /\ lines \subseteq 1 .. Len(log[Now]) /\ taken \subseteq Line
      /\ lines \subseteq offsets[Now] + 1 .. EndOfBatch(Now)
      /\ EndOfBatch(Now) <= Legible(Now) /\ EndOfBatch(Now) \in Nat
      /\ Legible(Now) \in Nat /\ Legible(Now) <= Len(log[Now]) /\ offsets[Now] \in Nat
  BY <1>1, <1>2, <1>4, Applied, BatchEnds, LegibleIs, FileLengths
<1>6. index' = Indexed(Now, taken)
  BY <1>4 DEF Apply
<1>7. \A l \in taken : /\ l \in 1 .. Legible(Now) /\ l \in 1 .. Len(log[Now]) /\ l > offsets[Now]
                       /\ Now \in Update => index[log[Now][l]] # None
  BY <1>5 DEF Missing
<1> HIDE DEF taken
<1>8. ASSUME NEW a \in Alert
      PROVE  LET last == LastOf(Now, taken, a)
             IN  /\ last \in Nat
                 /\ last # 0 => last \in taken /\ log[Now][last] = a
                 /\ \A l \in taken : log[Now][l] = a => l <= last /\ last # 0
  BY <1>2, <1>5, LastIs, Longest DEF Offset
\* A document stays one, and shows what it has shown, unless its alert is written again.
<1>9. ASSUME NEW a \in Alert, index[a] # None
      PROVE  /\ index'[a] # None
             /\ Now # "alert" \/ LastOf(Now, taken, a) = 0 =>
                    \A u \in Update : \/ index'[a][u] = index[a][u]
                                      \/ u = Now /\ index'[a][u] \in taken
  <2>0. index[a] \in [Update -> Offset]
    BY <1>1, <1>9, Documents
  <2>1. CASE LastOf(Now, taken, a) = 0 \/ Now \notin Update \cup {"alert"}
    <3>1. index'[a] = index[a]
      BY <1>2, <1>6, <2>1, IndexedIs
    <3> QED
      BY <1>9, <3>1
  <2>2. CASE Now = "alert" /\ LastOf(Now, taken, a) # 0
    <3>1. Now \notin Update \cup {"download"} /\ LastOf(Now, taken, a) # 0
      BY <2>2 DEF Update
    <3>2. index'[a] = Fresh
      BY <1>2, <1>6, <3>1, IndexedIs
    <3>3. Fresh \in [Update -> Offset]
      BY Longest DEF Fresh, Offset
    <3>4. index'[a] # None
      BY <1>1, <3>2, <3>3, Documents
    <3> QED
      BY <2>2, <3>4
  <2>3. CASE Now \in Update /\ LastOf(Now, taken, a) # 0
    <3>1. index'[a] = [index[a] EXCEPT ![Now] = LastOf(Now, taken, a)]
      BY <1>2, <1>6, <2>3, IndexedIs
    <3>2. LastOf(Now, taken, a) \in Offset /\ LastOf(Now, taken, a) \in taken
      BY <1>2, <1>5, <2>3, LastIs
    <3>3. index'[a] \in [Update -> Offset]
      BY <2>0, <3>1, <3>2
    <3>4. index'[a] # None
      BY <1>1, <3>3, Documents
    <3>5. \A u \in Update : IF u = Now THEN index'[a][u] \in taken ELSE index'[a][u] = index[a][u]
      BY <2>0, <3>1, <3>2
    <3> QED
      BY <3>4, <3>5
  <2> QED
    BY <2>1, <2>2, <2>3 DEF Update
<1>10. WrittenOnce'
  BY <1>3 DEF AgreeInv, WrittenOnce, AlertAt
<1>11. ASSUME NEW a \in Alert, index'[a] # None, index[a] = None
       PROVE  Now = "alert" /\ LastOf(Now, taken, a) # 0
  <2>1. SUFFICES ASSUME ~(Now = "alert" /\ LastOf(Now, taken, a) # 0)
                 PROVE  index'[a] = index[a]
    BY <1>11
  <2>2. CASE LastOf(Now, taken, a) = 0 \/ Now \notin Update \cup {"alert"}
    BY <1>2, <1>6, <2>2, IndexedIs
  <2>3. CASE Now \in Update /\ LastOf(Now, taken, a) # 0
    BY <1>7, <1>8, <1>11, <2>3
  <2> QED
    BY <2>1, <2>2, <2>3
<1>12. FromTheFile'
  <2> SUFFICES ASSUME NEW a \in Alert, index'[a] # None
               PROVE  \E l \in 1 .. Legible("alert") : log["alert"][l] = a
    BY <1>3 DEF FromTheFile, AlertAt, Legible
  <2>1. CASE index[a] # None
    BY <2>1 DEF AgreeInv, FromTheFile, AlertAt
  <2>2. CASE index[a] = None
    <3>1. Now = "alert" /\ LastOf(Now, taken, a) # 0
      BY <1>11, <2>2
    <3>2. LastOf(Now, taken, a) \in 1 .. Legible(Now) /\ log[Now][LastOf(Now, taken, a)] = a
      BY <1>7, <1>8, <3>1
    <3> QED
      BY <3>1, <3>2
  <2> QED
    BY <2>1, <2>2
<1>13. AlertsFirst'
  <2> SUFFICES ASSUME turn > 1, NEW l \in 1 .. Len(log["alert"]),
                      log["alert"][l] \in Alert, index'[log["alert"][l]] # None
               PROVE  l <= offsets["alert"]
    BY <1>3 DEF AlertsFirst, AlertAt
  <2>2. Now # "alert"
    BY <1>1, NowIsKind DEF TypeOK
  <2>3. index[log["alert"][l]] # None
    BY <1>11, <2>2
  <2> QED
    BY <2>3 DEF AgreeInv, AlertsFirst, AlertAt
\* What is shown behind a position is shown on.
<1>14. ASSUME NEW position, Agrees(position),
              \A k \in Kind : position[k] \in Nat /\ position[k] <= offsets[k]
       PROVE  /\ \A l \in 1 .. position["alert"] : log["alert"][l] \in Alert => index'[log["alert"][l]] # None
              /\ \A k \in Update : \A m \in 1 .. position[k] : log[k][m] \in Alert /\ m \notin abandoned[k] =>
                   /\ \E l \in 1 .. position["alert"] : log["alert"][l] = log[k][m]
                   /\ index'[log[k][m]] # None /\ m <= index'[log[k][m]][k]
  <2>1. \A k \in Kind : offsets[k] \in Nat /\ offsets[k] <= Len(log[k]) /\ Len(log[k]) \in Nat
    BY <1>1, FileLengths DEF Positions
  <2>2. \A k \in Kind : 1 .. position[k] \subseteq 1 .. Len(log[k])
    BY <1>14, <2>1
  <2>3. ASSUME NEW l \in 1 .. position["alert"], log["alert"][l] \in Alert
        PROVE  index'[log["alert"][l]] # None
    <3>2. index[log["alert"][l]] # None
      BY <1>14, <2>3 DEF Agrees, AlertAt
    <3> QED
      BY <1>9, <2>3, <3>2
  <2>4. ASSUME NEW k \in Update, NEW m \in 1 .. position[k], log[k][m] \in Alert, m \notin abandoned[k]
        PROVE  /\ \E l \in 1 .. position["alert"] : log["alert"][l] = log[k][m]
               /\ index'[log[k][m]] # None /\ m <= index'[log[k][m]][k]
    <3>0. k \in Kind /\ m \in 1 .. Len(log[k]) /\ m \in Nat
      BY <2>2, KindsOf
    <3> DEFINE a == log[k][m]
    <3>1. a \in Alert
      BY <2>4
    <3>2. PICK l \in 1 .. position["alert"] : log["alert"][l] = a
      BY <1>14, <2>4 DEF Agrees, AlertAt
    <3>3. index[a] # None /\ m <= index[a][k]
      BY <1>14, <2>4 DEF Agrees
    <3> HIDE DEF a
    <3>4. Now # "alert" \/ LastOf(Now, taken, a) = 0
      <4>1. SUFFICES ASSUME Now = "alert", LastOf(Now, taken, a) # 0
                     PROVE  FALSE
        OBVIOUS
      <4> DEFINE n == LastOf(Now, taken, a)
      <4>2. n \in taken /\ log[Now][n] = a
        BY <1>8, <3>1, <4>1
      <4> HIDE DEF n
      <4>3. /\ n \in 1 .. Len(log["alert"]) /\ n > offsets["alert"]
            /\ log["alert"][n] = a
        BY <1>7, <4>1, <4>2
      <4>4. l \in 1 .. Len(log["alert"]) /\ l <= offsets["alert"]
        BY <1>14, <2>1, <2>2, KindsOf
      <4>5. l = n
        BY <3>1, <3>2, <4>3, <4>4 DEF AgreeInv, WrittenOnce, AlertAt
      <4> QED
        BY <2>1, <4>3, <4>4, <4>5, KindsOf
    <3>5. index'[a] # None /\ (index'[a][k] = index[a][k] \/ (k = Now /\ index'[a][k] \in taken))
      BY <1>9, <3>1, <3>3, <3>4
    <3>6. m <= index'[a][k]
      <4>1. CASE index'[a][k] = index[a][k]
        BY <3>3, <4>1
      <4>2. CASE k = Now /\ index'[a][k] \in taken
        <5>1. index'[a][k] > offsets[k] /\ index'[a][k] \in Nat
          BY <1>7, <2>1, <4>2
        <5>2. m <= offsets[k]
          BY <1>14, <2>1, <3>0
        <5> QED
          BY <2>1, <3>0, <5>1, <5>2
      <4> QED
        BY <3>5, <4>1, <4>2
    <3> QED
      BY <3>2, <3>5, <3>6 DEF a
  <2> QED
    BY <2>3, <2>4
<1>15. Agrees(offsets)'
  <2>1. \A k \in Kind : offsets[k] \in Nat /\ offsets[k] <= offsets[k]
    BY <1>1, FileLengths
  <2>2. Agrees(offsets)
    BY DEF AgreeInv
  <2> QED
    BY <1>3, <1>14, <2>1, <2>2 DEF Agrees, AlertAt
<1>16. Agrees(ckpt)'
  <2>1. \A k \in Kind : ckpt[k] \in Nat /\ ckpt[k] <= offsets[k]
    BY <1>1, <1>3, FileLengths DEF Positions
  <2>2. Agrees(ckpt)
    BY DEF AgreeInv
  <2> QED
    BY <1>3, <1>14, <2>1, <2>2 DEF Agrees, AlertAt
<1>17. ShownNext'
  <2>1. Now' = Now
    BY <1>3 DEF Now
  <2>2. CASE BulkRefused \/ BulkFails
    BY <2>2 DEF BulkRefused, BulkFails, ShownNext
  <2>3. CASE Bulk
    <3>1. /\ answer'.end = EndOfBatch(Now) /\ answer'.missing = Missing(Now, lines)
          /\ lines = NewRows(Now)
      BY <1>4, <2>3 DEF Bulk
    <3>2. SUFFICES ASSUME NEW l \in offsets[Now] + 1 .. EndOfBatch(Now), log[Now][l] \in Alert,
                          l \notin Missing(Now, lines), Now \in Update \cup {"alert"}
                   PROVE  /\ index'[log[Now][l]] # None
                          /\ Now \in Update => l <= index'[log[Now][l]][Now]
      BY <1>3, <2>1, <3>1 DEF ShownNext
    <3> DEFINE a == log[Now][l]
    <3>3. l \in taken
      BY <1>1, <1>2, <3>1, <3>2, BatchEnds, NotAlerts DEF taken
    <3>4. a \in Alert
      BY <3>2
    <3>5. LastOf(Now, taken, a) # 0 /\ l <= LastOf(Now, taken, a) /\ LastOf(Now, taken, a) \in Offset
      BY <1>2, <1>5, <3>3, LastIs
    <3> HIDE DEF a
    <3>6. CASE Now \in Update
      <4>1. index[a] # None
        BY <1>7, <3>3, <3>6 DEF a
      <4>2. index'[a] # None
        BY <1>9, <3>4, <4>1
      <4>3. index'[a] = [index[a] EXCEPT ![Now] = LastOf(Now, taken, a)]
        BY <1>2, <1>6, <3>4, <3>5, <3>6, IndexedIs
      <4>4. index'[a][Now] = LastOf(Now, taken, a)
        BY <1>1, <3>4, <3>6, <4>1, <4>3, Documents
      <4> QED
        BY <3>5, <4>2, <4>4 DEF a
    <3>7. CASE Now = "alert"
      <4>1. Now \notin Update \cup {"download"}
        BY <3>7 DEF Update
      <4>2. index'[a] = Fresh
        BY <1>2, <1>6, <3>4, <3>5, <4>1, IndexedIs
      <4>3. Fresh \in [Update -> Offset]
        BY Longest DEF Fresh, Offset
      <4>4. index'[a] # None
        BY <1>1, <3>4, <4>2, <4>3, Documents
      <4> QED
        BY <4>1, <4>4 DEF a
    <3> QED
      BY <3>2, <3>6, <3>7
  <2> QED
    BY <2>2, <2>3
<1> QED
  BY <1>10, <1>12, <1>13, <1>15, <1>16, <1>17 DEF AgreeInv

LEMMA AgreeStep ==
    ASSUME FeedInv, AgreeInv, [Next]_vars
    PROVE  AgreeInv'
<1>1. CASE UNCHANGED vars
  <2>1. Legible("alert")' = Legible("alert")
    BY <1>1 DEF vars, logVars, Legible
  <2> QED
    BY <1>1, <2>1 DEF vars, logVars, indexVars, processVars, historyVars, AgreeInv, WrittenOnce, AlertAt,
                FromTheFile, AlertsFirst, Agrees, ShownNext, Now
<1>2. CASE \E k \in Kind : Write(k)
  BY <1>2, AgreeWrite
<1>3. CASE Start \/ Wake \/ RowEndsProcess \/ Kill \/ LoseCheckpoint \/ Retry
  BY <1>3, AgreeRest
<1>4. CASE NextFile
  BY <1>4, AgreeNextFile
<1>5. CASE Bulk \/ BulkRefused \/ BulkFails
  BY <1>5, AgreeBulk
<1>6. CASE Acknowledge
  BY <1>6, AgreeAcknowledge
<1> QED
  BY <1>1, <1>2, <1>3, <1>4, <1>5, <1>6 DEF Next, Process

LEMMA Agreement ==
    ASSUME FeedInv, AgreeInv
    PROVE  SiemAgrees
<1>1. TypeOK /\ Positions
  BY DEF FeedInv
<1>2. \A k \in Kind : offsets[k] \in Nat /\ offsets[k] <= Len(log[k]) /\ Len(log[k]) \in Nat
  BY <1>1, FileLengths DEF Positions
<1> SUFFICES ASSUME NEW l \in 1 .. offsets["alert"], log["alert"][l] \in Alert
             PROVE  /\ index[log["alert"][l]] # None
                    /\ \A k \in Update : index[log["alert"][l]][k] >= LastWord(k, log["alert"][l])
  BY DEF SiemAgrees
<1> DEFINE a == log["alert"][l]
<1>3. a \in Alert
  OBVIOUS
<1>4. index[a] # None
  BY DEF AgreeInv, Agrees, AlertAt
<1> HIDE DEF a
<1>6. ASSUME NEW k \in Update
      PROVE  LastWord(k, a) <= index[a][k] /\ LastWord(k, a) \in Nat
  <2> DEFINE words == {0} \cup {m \in 1 .. offsets[k] : log[k][m] = a /\ m \notin abandoned[k]}
  <2>1. words \in SUBSET Nat /\ words # {} /\ index[a][k] \in Nat
    BY <1>1, <1>3, <1>4, Documents
  <2>2. \A m \in words : m <= index[a][k]
    BY <1>3, <2>1 DEF AgreeInv, Agrees
  <2>3. Max(words) \in words
    <3> HIDE DEF words
    <3> QED
      BY <2>1, <2>2, MaxIs
  <2>4. LastWord(k, a) = Max(words)
    BY DEF LastWord
  <2> HIDE DEF words
  <2> QED
    BY <2>1, <2>2, <2>3, <2>4
<1>7. \A k \in Update : index[a][k] \in Nat
  BY <1>1, <1>3, <1>4, Documents
<1> QED
  BY <1>4, <1>6, <1>7 DEF a

\* Behind the position the shipper goes on from, the SIEM holds every alert, and its
\* document shows the last word on it that was not given up: neither a request that
\* is sent again nor one that writes the whole document over leaves an older verdict
\* or none (siem.py:206).
THEOREM SiemShowsTheLastWord == Spec => []SiemAgrees
<1>1. AgreeInv /\ FeedInv /\ [Next]_vars => AgreeInv'
  BY AgreeStep
<1>2. AgreeInv /\ FeedInv => SiemAgrees
  BY Agreement
<1> QED
  BY <1>1, <1>2, AgreeInit, FeedAlways, PTL DEF Spec
=============================================================================
