-------------------------- MODULE FileSourceProofs --------------------------
(***************************************************************************)
(* Theorems of FileSource, for any paths, files and bounds: no request is  *)
(* skipped but for an offset that was kept beside the inode of another     *)
(* file, and within a life no request is given out of order or twice.      *)
(*                                                                         *)
(* Trust says which positions have only requests behind them that the      *)
(* runtime was given: those in memory, in the checkpoint and in the        *)
(* streams.  It holds until an offset is kept beside the wrong inode.      *)
(* OneOwner says that a file belongs to one path, and ReadSoFar that the   *)
(* path knows how far it was read, however often files are replaced; these *)
(* need no such exception.                                                 *)
(***************************************************************************)
EXTENDS FileSource, FiniteSetTheorems, WellFoundedInduction, TLAPS

-----------------------------------------------------------------------------
(* Sets of naturals: a least element, and what Min and Max return.         *)

LEMMA Least ==
    ASSUME NEW T \in SUBSET Nat, T # {}
    PROVE  \E x \in T : \A y \in T : x <= y
<1>1. IsWellFoundedOn({p \in Nat \X Nat : p[1] < p[2]}, Nat)
  BY NatLessThanWellFounded, SMT DEF OpToRel
<1>2. PICK x \in T : \A y \in T : ~(<<y, x>> \in {p \in Nat \X Nat : p[1] < p[2]})
  BY <1>1, WFMin
<1>3. ASSUME NEW y \in T
      PROVE  x <= y
  <2>1. x \in Nat /\ y \in Nat /\ <<y, x>> \in Nat \X Nat
    OBVIOUS
  <2> QED
    BY <1>2, <2>1
<1> QED
  BY <1>3

LEMMA MinIs ==
    ASSUME NEW T \in SUBSET Nat, T # {}
    PROVE  Min(T) \in T /\ \A y \in T : Min(T) <= y
BY Least DEF Min

LEMMA MaxIs ==
    ASSUME NEW T \in SUBSET Nat, T # {}, NEW n \in Nat, \A y \in T : y <= n
    PROVE  Max(T) \in T /\ \A y \in T : y <= Max(T)
<1> DEFINE below == {d \in Nat : n - d \in T}
<1>1. PICK d \in below : \A c \in below : d <= c
  <2>1. \A y \in T : n - y \in below
    OBVIOUS
  <2>2. below \in SUBSET Nat /\ below # {}
    BY <2>1
  <2> HIDE DEF below
  <2> QED
    BY <2>2, Least
<1>2. ASSUME NEW y \in T
      PROVE  n - d >= y
  <2>1. y \in Nat /\ n - y \in below
    OBVIOUS
  <2>2. d <= n - y /\ d \in Nat
    BY <1>1, <2>1
  <2> QED
    BY <2>1, <2>2
<1>3. \E x \in T : \A y \in T : x >= y
  BY <1>1, <1>2
<1> QED
  BY <1>3 DEF Max

-----------------------------------------------------------------------------
(* The invariants.                                                         *)

\* The phases of a pass.
Phases ==
    /\ \A i \in Inode : Len(content[i]) <= MaxLines
    /\ pc \in {"down", "given", "idle"} => todo = {}
    /\ pc = "down" => stream = Nowhere /\ reached = [i \in Inode |-> 0]
    /\ pc = "idle" => stream = Nowhere
    /\ \A p \in todo : files[p] # None
    /\ \A p \in Path : stream[p] # None =>
        /\ stream[p].pos \in 1 .. Len(content[stream[p].inode])
        /\ pc = "merge" => stream[p].at = "head"
    /\ \A p, q \in Path : stream[p] # None /\ stream[p].at = "given"
                          /\ stream[q] # None /\ stream[q].at = "given" => p = q

Shape == TypeOK /\ Phases

\* The requests of a file up to a position were given to the runtime.
Given(i, n) == \A m \in 1 .. n : content[i][m] = "request" => <<i, m>> \in seen

Kept(i, n) == i # None /\ n <= Len(content[i]) /\ Given(i, n)

TrustedStream(p) ==
    /\ Given(stream[p].inode, stream[p].pos - 1)
    /\ stream[p].at = "given" => Given(stream[p].inode, stream[p].pos)

Trusted ==
    /\ \A p \in Path : offsets[p] # None => Kept(home[p], offsets[p])
    /\ \A p \in Path : ckpt.offsets[p] # None => Kept(ckpt.inodes[p], ckpt.offsets[p])
    /\ \A i \in Inode : byInode[i] # None => Kept(i, byInode[i])
    /\ \A p \in Path : stream[p] # None => TrustedStream(p)
    /\ \A p \in Path : (p \in todo \/ pc = "idle") /\ offsets[p] # None => home[p] = inodes[p]

Trust == ~mispaired => Trusted

\* No two paths have the same file, and no file comes back.
OneOwner ==
    /\ \A p, q \in Path : files[p] # None /\ files[p] = files[q] => p = q
    /\ \A p \in Path : files[p] # None => files[p] <= created
    /\ \A i \in Inode : reached[i] > 0 => i <= created
    /\ \A p, q \in Path : stream[p] # None =>
        /\ stream[p].inode <= created
        /\ files[q] = stream[p].inode => p = q
        /\ stream[q] # None /\ stream[q].inode = stream[p].inode => p = q

\* How far the file under a path was read in this life.
ReadSoFar ==
    /\ \A p \in Path : files[p] # None /\ reached[files[p]] > 0 =>
        /\ inodes[p] = files[p] /\ offsets[p] # None
        /\ reached[files[p]] <= offsets[p] /\ offsets[p] <= Len(content[files[p]])
    /\ \A p \in Path : stream[p] # None =>
        /\ files[p] = stream[p].inode => inodes[p] = files[p]
        /\ files[p] # None /\ files[p] # stream[p].inode => reached[files[p]] = 0
        /\ stream[p].at = "head" => reached[stream[p].inode] < stream[p].pos
        /\ stream[p].at = "given" => reached[stream[p].inode] <= stream[p].pos

-----------------------------------------------------------------------------
(* Positions and the operators that move them.                             *)

LEMMA Numbers ==
    /\ MaxInodes \in Nat /\ MaxLines \in Nat /\ MaxCrashes \in Nat /\ MaxFailures \in Nat
    /\ \A i \in Inode : i \in Nat /\ i # None
    /\ \A n \in Offset : n \in Nat /\ n <= MaxLines /\ n # None
    /\ \A n \in Nat : n <= MaxLines => n \in Offset
BY FileSourceAssumption DEF Inode, Offset

\* What the positions are, one by one.
LEMMA Unfolded ==
    ASSUME TypeOK
    PROVE  /\ offsets \in [Path -> Offset \cup {None}] /\ inodes \in [Path -> Inode \cup {None}]
           /\ ckpt.offsets \in [Path -> Offset \cup {None}] /\ ckpt.inodes \in [Path -> Inode \cup {None}]
           /\ ckpt = [offsets |-> ckpt.offsets, inodes |-> ckpt.inodes]
           /\ \A i \in Inode : content[i] \in Seq({"request", "other"}) /\ Len(content[i]) \in Nat
           /\ \A p \in Path : stream[p] # None =>
                /\ stream[p] \in Stream /\ stream[p].inode \in Inode /\ stream[p].pos \in Offset
                /\ stream[p] = [at |-> stream[p].at, inode |-> stream[p].inode, pos |-> stream[p].pos]
<1>1. [offsets |-> offsets, inodes |-> inodes] \in Positions /\ ckpt \in Positions
  BY DEF TypeOK
<1>2. /\ offsets \in [Path -> Offset \cup {None}] /\ inodes \in [Path -> Inode \cup {None}]
      /\ ckpt.offsets \in [Path -> Offset \cup {None}] /\ ckpt.inodes \in [Path -> Inode \cup {None}]
      /\ ckpt = [offsets |-> ckpt.offsets, inodes |-> ckpt.inodes]
  BY <1>1 DEF Positions
<1>3. \A i \in Inode : content[i] \in Seq({"request", "other"}) /\ Len(content[i]) \in Nat
  BY DEF TypeOK
<1>4. ASSUME NEW p \in Path, stream[p] # None
      PROVE  /\ stream[p] \in Stream /\ stream[p].inode \in Inode /\ stream[p].pos \in Offset
             /\ stream[p] = [at |-> stream[p].at, inode |-> stream[p].inode, pos |-> stream[p].pos]
  <2>1. stream[p] \in Stream
    BY <1>4 DEF TypeOK
  <2> QED
    BY <2>1 DEF Stream
<1> QED
  BY <1>2, <1>3, <1>4

LEMMA AheadIs ==
    ASSUME TypeOK, NEW i \in Inode, NEW pos \in Offset
    PROVE  /\ Ahead(i, pos) = {} => \A m \in pos + 1 .. Len(content[i]) : content[i][m] # "request"
           /\ Ahead(i, pos) # {} =>
                /\ Min(Ahead(i, pos)) \in pos + 1 .. Len(content[i])
                /\ content[i][Min(Ahead(i, pos))] = "request"
                /\ \A m \in pos + 1 .. Min(Ahead(i, pos)) - 1 : content[i][m] # "request"
<1>1. pos \in Nat /\ Len(content[i]) \in Nat
  BY Numbers, Unfolded
<1>2. Ahead(i, pos) = {m \in pos + 1 .. Len(content[i]) : content[i][m] = "request"}
  BY DEF Ahead
<1>3. CASE Ahead(i, pos) = {}
  BY <1>2, <1>3
<1>4. CASE Ahead(i, pos) # {}
  <2>1. Ahead(i, pos) \in SUBSET Nat
    BY <1>1, <1>2
  <2>2. Min(Ahead(i, pos)) \in Ahead(i, pos) /\ \A m \in Ahead(i, pos) : Min(Ahead(i, pos)) <= m
    BY <1>4, <2>1, MinIs
  <2>3. Min(Ahead(i, pos)) \in pos + 1 .. Len(content[i]) /\ content[i][Min(Ahead(i, pos))] = "request"
    BY <1>2, <2>2
  <2>4. ASSUME NEW m \in pos + 1 .. Min(Ahead(i, pos)) - 1
        PROVE  content[i][m] # "request"
    <3>1. m \in pos + 1 .. Len(content[i]) /\ ~(Min(Ahead(i, pos)) <= m)
      BY <1>1, <2>3
    <3> QED
      BY <1>2, <2>2, <3>1
  <2> QED
    BY <1>4, <2>3, <2>4
<1> QED
  BY <1>3, <1>4

\* A stream that goes on: to the end, or to a request with only other lines before it.
AtTheEnd(p, i, pos) ==
    /\ stream'[p] = None /\ offsets'[p] = Len(content[i]) /\ home'[p] = i
    /\ \A m \in pos + 1 .. Len(content[i]) : content[i][m] # "request"

AtRequest(p, i, pos) ==
    /\ offsets' = offsets /\ home' = home
    /\ \E n \in pos + 1 .. Len(content[i]) :
         /\ stream'[p] = [at |-> "head", inode |-> i, pos |-> n]
         /\ content[i][n] = "request"
         /\ \A m \in pos + 1 .. n - 1 : content[i][m] # "request"

LEMMA ReadsOn ==
    ASSUME TypeOK, \A j \in Inode : Len(content[j]) <= MaxLines,
           NEW p \in Path, NEW i \in Inode, NEW pos \in Offset, ReadOn(p, i, pos)
    PROVE  /\ offsets' \in [Path -> Offset \cup {None}] /\ home' \in [Path -> Inode \cup {None}]
           /\ stream' \in [Path -> Stream \cup {None}]
           /\ \A q \in Path : q # p =>
                offsets'[q] = offsets[q] /\ home'[q] = home[q] /\ stream'[q] = stream[q]
           /\ AtTheEnd(p, i, pos) \/ AtRequest(p, i, pos)
<1>1. Len(content[i]) \in Offset /\ Len(content[i]) \in Nat /\ pos \in Nat
  BY Numbers, Unfolded
<1>2. /\ offsets \in [Path -> Offset \cup {None}] /\ home \in [Path -> Inode \cup {None}]
      /\ stream \in [Path -> Stream \cup {None}]
  BY Unfolded DEF TypeOK
<1>3. CASE Ahead(i, pos) = {}
  <2>1. /\ stream' = [stream EXCEPT ![p] = None]
        /\ offsets' = [offsets EXCEPT ![p] = Len(content[i])] /\ home' = [home EXCEPT ![p] = i]
    BY <1>3 DEF ReadOn, Advance, Record
  <2> QED
    BY <1>1, <1>2, <1>3, <2>1, AheadIs DEF AtTheEnd
<1>4. CASE Ahead(i, pos) # {}
  <2> DEFINE n == Min(Ahead(i, pos))
             ready == [at |-> "head", inode |-> i, pos |-> n]
  <2>1. stream' = [stream EXCEPT ![p] = ready] /\ offsets' = offsets /\ home' = home
    BY <1>4 DEF ReadOn, Advance
  <2>2. /\ n \in pos + 1 .. Len(content[i]) /\ content[i][n] = "request"
        /\ \A m \in pos + 1 .. n - 1 : content[i][m] # "request"
    BY <1>4, AheadIs
  <2> HIDE DEF n
  <2>3. n \in Offset
    BY <1>1, <2>2, Numbers
  <2>4. ready \in Stream
    BY <2>3 DEF Stream
  <2>5. stream' \in [Path -> Stream \cup {None}] /\ stream'[p] = ready
        /\ \A q \in Path : q # p => stream'[q] = stream[q]
    <3> HIDE DEF ready
    <3> QED
      BY <1>2, <2>1, <2>4
  <2> QED
    BY <1>2, <2>1, <2>2, <2>5 DEF AtRequest
<1> QED
  BY <1>3, <1>4

LEMMA GoesOn ==
    ASSUME NEW p \in Path, NEW i \in Inode, NEW pos \in Offset,
           AtTheEnd(p, i, pos) \/ AtRequest(p, i, pos), stream'[p] # None
    PROVE  stream'[p].inode = i /\ stream'[p].at = "head" /\ stream'[p].pos > pos
<1>1. PICK n \in pos + 1 .. Len(content[i]) : stream'[p] = [at |-> "head", inode |-> i, pos |-> n]
  BY DEF AtTheEnd, AtRequest
<1>2. stream'[p].inode = i /\ stream'[p].at = "head" /\ stream'[p].pos = n
  BY <1>1
<1>3. pos \in Nat
  BY Numbers
<1>4. n > pos
  BY <1>3
<1> QED
  BY <1>2, <1>4

\* Where a file is read from, and on whose word.
LEMMA Resumes ==
    ASSUME TypeOK, NEW off, NEW ino, NEW by, NEW p \in Path, files[p] # None,
           off[p] \in Offset \cup {None}, by[files[p]] \in Offset \cup {None}
    PROVE  /\ files[p] \in Inode
           /\ Resume(off, ino, by, p) \in Offset
           /\ \/ Resume(off, ino, by, p) = 0
              \/ /\ off[p] = None /\ by[files[p]] # None /\ Resume(off, ino, by, p) = by[files[p]]
                 /\ Resume(off, ino, by, p) <= Len(content[files[p]])
              \/ /\ off[p] # None /\ Resume(off, ino, by, p) = off[p]
                 /\ ino[p] # None => ino[p] = files[p]
                 /\ off[p] <= Len(content[files[p]])
           /\ off[p] # None /\ ino[p] = files[p] /\ off[p] <= Len(content[files[p]])
                => Resume(off, ino, by, p) = off[p]
<1>1. files[p] \in Inode
  BY DEF TypeOK
<1>2. Len(content[files[p]]) \in Nat /\ 0 \in Offset
  BY <1>1, Numbers, Unfolded
<1>3. \A n \in Offset : n \in Nat /\ n # None
  BY Numbers
<1> QED
  BY <1>1, <1>2, <1>3 DEF Resume, Inherits

-----------------------------------------------------------------------------
(* Types and phases.                                                       *)

LEMMA ShapeInit == Init => Shape
<1> SUFFICES ASSUME Init
             PROVE  Shape
  OBVIOUS
<1> USE DEF Init
<1>1. 0 \in Offset /\ 0 \in Nat /\ MaxLines \in Nat
  BY Numbers
<1>2. TypeOK
  <2>1. created \in 0 .. MaxInodes /\ crashes \in 0 .. MaxCrashes /\ failures \in 0 .. MaxFailures
    BY Numbers
  <2>2. ckpt \in Positions /\ [offsets |-> offsets, inodes |-> inodes] \in Positions
    BY DEF Positions, Nowhere
  <2>3. /\ files \in [Path -> Inode \cup {None}] /\ home \in [Path -> Inode \cup {None}]
        /\ stream \in [Path -> Stream \cup {None}] /\ byInode \in [Inode -> Offset \cup {None}]
    BY DEF Nowhere
  <2>4. content \in [Inode -> Seq({"request", "other"})] /\ reached \in [Inode -> Offset]
    BY <1>1
  <2> QED
    BY <2>1, <2>2, <2>3, <2>4 DEF TypeOK
<1>3. Phases
  BY <1>1 DEF Phases, Nowhere
<1> QED
  BY <1>2, <1>3 DEF Shape

\* The bound on all lines is one on the lines of each file.
LEMMA RoomIn ==
    ASSUME TypeOK, Phases, NEW i \in Inode, Cardinality(Written) < MaxLines
    PROVE  Len(content[i]) < MaxLines
<1> DEFINE n == Len(content[i])
           mine == {i} \X (1 .. n)
<1>1. n \in Nat /\ n <= MaxLines /\ MaxLines \in Nat
  BY Unfolded, Numbers DEF Phases
<1>2. IsFiniteSet(1 .. n) /\ Cardinality(1 .. n) = n
  <2> HIDE DEF n
  <2>1. IsFiniteSet(1 .. n) /\ Cardinality(1 .. n) = IF 1 > n THEN 0 ELSE n - 1 + 1
    BY <1>1, FS_Interval
  <2> QED
    BY <1>1, <2>1
<1>3. IsFiniteSet({i}) /\ Cardinality({i}) = 1
  BY FS_Singleton
<1>4. Cardinality(mine) = n
  <2>1. Cardinality(mine) = 1 * n
    BY <1>2, <1>3, FS_Product
  <2> QED
    BY <1>1, <2>1
<1>5. mine \subseteq Written
  BY <1>1 DEF Written, Line
<1>6. IsFiniteSet(Written)
  <2>1. IsFiniteSet(Inode) /\ IsFiniteSet(1 .. MaxLines)
    BY Numbers, FS_Interval DEF Inode
  <2>2. IsFiniteSet(Line)
    BY <2>1, FS_Product DEF Line
  <2>3. Written \subseteq Line
    BY DEF Written
  <2> QED
    BY <2>2, <2>3, FS_Subset
<1>7. Cardinality(mine) <= Cardinality(Written)
  BY <1>5, <1>6, FS_Subset
<1>8. Cardinality(Written) \in Nat
  BY <1>6, FS_CardinalityType
<1> HIDE DEF n, mine
<1>9. n < MaxLines
  BY <1>1, <1>4, <1>7, <1>8
<1> QED
  BY <1>9 DEF n

\* A line more, and all lines that were there.
LEMMA Grows ==
    ASSUME TypeOK, Phases, NEW p \in Path, NEW kind \in {"request", "other"}, WriteLine(p, kind)
    PROVE  /\ files[p] \in Inode
           /\ content' \in [Inode -> Seq({"request", "other"})]
           /\ \A i \in Inode : /\ Len(content[i]) \in Nat /\ Len(content'[i]) \in Nat
                               /\ Len(content[i]) <= Len(content'[i]) /\ Len(content'[i]) <= MaxLines
                               /\ \A m \in 1 .. Len(content[i]) : content'[i][m] = content[i][m]
<1>1. files[p] \in Inode /\ content' = [content EXCEPT ![files[p]] = Append(@, kind)]
  BY DEF WriteLine, TypeOK
<1>2. \A i \in Inode : content[i] \in Seq({"request", "other"}) /\ Len(content[i]) \in Nat
  BY Unfolded
<1>3. Len(content[files[p]]) < MaxLines /\ MaxLines \in Nat
  BY <1>1, RoomIn, Numbers DEF WriteLine
<1>4. content' \in [Inode -> Seq({"request", "other"})]
  BY <1>1, <1>2 DEF TypeOK
<1>5. ASSUME NEW i \in Inode
      PROVE  /\ Len(content[i]) \in Nat /\ Len(content'[i]) \in Nat
             /\ Len(content[i]) <= Len(content'[i]) /\ Len(content'[i]) <= MaxLines
             /\ \A m \in 1 .. Len(content[i]) : content'[i][m] = content[i][m]
  <2>1. CASE i = files[p]
    <3> DEFINE old == content[files[p]]
    <3>1. old \in Seq({"request", "other"}) /\ Len(old) \in Nat /\ Len(old) < MaxLines
      BY <1>1, <1>2, <1>3
    <3>2. content'[files[p]] = Append(old, kind)
      BY <1>1 DEF TypeOK
    <3> HIDE DEF old
    <3>3. /\ Len(Append(old, kind)) = Len(old) + 1
          /\ \A m \in 1 .. Len(old) : Append(old, kind)[m] = old[m]
      BY <3>1
    <3>4. /\ Len(content'[files[p]]) = Len(old) + 1
          /\ \A m \in 1 .. Len(old) : content'[files[p]][m] = old[m]
      BY <3>2, <3>3
    <3>5. Len(old) + 1 \in Nat /\ Len(old) + 1 <= MaxLines
      BY <1>3, <3>1
    <3> QED
      BY <2>1, <3>1, <3>4, <3>5 DEF old
  <2>2. CASE i # files[p]
    <3>1. content'[i] = content[i]
      BY <1>1, <2>2 DEF TypeOK
    <3> QED
      BY <1>2, <3>1 DEF Phases
  <2> QED
    BY <2>1, <2>2
<1> QED
  BY <1>1, <1>4, <1>5

LEMMA ShapeStep ==
    ASSUME Shape, [Next]_vars
    PROVE  Shape'
<1>1. TypeOK /\ Phases
  BY DEF Shape
<1> USE DEF diskVars, positionVars, passVars, boundVars
<1>2. CASE UNCHANGED vars
  BY <1>1, <1>2 DEF vars, Shape, TypeOK, Phases
<1>3. ASSUME NEW p \in Path, NEW kind \in {"request", "other"}, WriteLine(p, kind)
      PROVE  Shape'
  <2>1. UNCHANGED <<files, created, ckpt, pc, offsets, inodes, home, byInode, todo, stream, seen, reached,
                    mispaired, crashes, failures>>
    BY <1>3 DEF WriteLine
  <2>2. /\ content' \in [Inode -> Seq({"request", "other"})]
        /\ \A i \in Inode : /\ Len(content[i]) \in Nat /\ Len(content'[i]) \in Nat
                            /\ Len(content[i]) <= Len(content'[i]) /\ Len(content'[i]) <= MaxLines
    BY <1>1, <1>3, Grows
  <2>3. TypeOK'
    BY <1>1, <2>1, <2>2 DEF TypeOK
  <2>4. Phases'
    <3>1. ASSUME NEW q \in Path, stream[q] # None
          PROVE  stream[q].pos \in 1 .. Len(content'[stream[q].inode])
      <4>1. stream[q].inode \in Inode /\ stream[q].pos \in 1 .. Len(content[stream[q].inode])
        BY <1>1, <3>1, Unfolded DEF Phases
      <4> QED
        BY <2>2, <4>1
    <3> QED
      BY <1>1, <2>1, <2>2, <3>1 DEF Phases
  <2> QED
    BY <2>3, <2>4 DEF Shape
<1>4. ASSUME NEW p \in Path, Rotate(p)
      PROVE  Shape'
  <2>1. created' = created + 1 /\ created + 1 \in Inode /\ created + 1 \in 0 .. MaxInodes
    BY <1>1, <1>4, Numbers DEF Rotate, TypeOK, Inode
  <2>2. TypeOK'
    BY <1>1, <1>4, <2>1 DEF Rotate, TypeOK
  <2>3. Phases'
    <3>1. created + 1 # None
      BY <2>1, Numbers
    <3>2. \A q \in Path : files[q] # None => files'[q] # None
      BY <1>1, <1>4, <3>1 DEF Rotate, TypeOK
    <3>3. \A q \in todo' : files'[q] # None
      BY <1>1, <1>4, <3>2 DEF Rotate, Phases, TypeOK
    <3> QED
      BY <1>1, <1>4, <3>3 DEF Rotate, Phases
  <2> QED
    BY <2>2, <2>3 DEF Shape
<1>5. ASSUME NEW p \in Path, NEW q \in Path, Rekey(p, q)
      PROVE  Shape'
  <2>1. TypeOK'
    BY <1>1, <1>5 DEF Rekey, TypeOK
  <2>2. Phases'
    BY <1>1, <1>5 DEF Rekey, Phases
  <2> QED
    BY <2>1, <2>2 DEF Shape
<1>6. CASE Crash
  <2>1. 0 \in Offset /\ crashes + 1 \in 0 .. MaxCrashes
    BY <1>1, <1>6, Numbers DEF Crash, TypeOK
  <2>2. TypeOK'
    BY <1>1, <1>6, <2>1, Unfolded DEF Crash, TypeOK, Positions, Nowhere
  <2>3. Phases'
    BY <1>1, <1>6 DEF Crash, Phases, Nowhere
  <2> QED
    BY <2>2, <2>3 DEF Shape
<1>7. CASE Start
  <2>1. TypeOK'
    BY <1>1, <1>7, Unfolded DEF Start, TypeOK, Positions, Present
  <2>2. Phases'
    <3>1. \A p \in Path : stream'[p] = None
      BY <1>1, <1>7 DEF Start, Phases, Nowhere
    <3>2. UNCHANGED content /\ pc' = "merge" /\ \A p \in todo' : files'[p] # None
      BY <1>7 DEF Start, Present
    <3> QED
      BY <1>1, <3>1, <3>2 DEF Phases
  <2> QED
    BY <2>1, <2>2 DEF Shape
<1>8. ASSUME NEW p \in Path, Prime(p)
      PROVE  Shape'
  <2> DEFINE pos == Resume(offsets, inodes, byInode, p)
  <2>1. /\ pc = "merge" /\ files[p] # None /\ todo' = todo \ {p}
        /\ inodes' = [inodes EXCEPT ![p] = files[p]]
        /\ UNCHANGED <<files, content, created, ckpt, pc, seen, reached, mispaired, crashes>>
        /\ byInode' \in {byInode, [byInode EXCEPT ![files[p]] = None]}
        /\ \/ ReadOn(p, files[p], pos) /\ UNCHANGED failures
           \/ failures < MaxFailures /\ failures' = failures + 1 /\ UNCHANGED <<stream, offsets, home>>
    BY <1>1, <1>8 DEF Prime, Identified, Phases
  <2>2. files[p] \in Inode /\ pos \in Offset
    BY <1>1, <2>1, Resumes, Unfolded DEF TypeOK
  <2> HIDE DEF pos
  <2>3. /\ offsets' \in [Path -> Offset \cup {None}] /\ home' \in [Path -> Inode \cup {None}]
        /\ stream' \in [Path -> Stream \cup {None}]
        /\ failures' \in 0 .. MaxFailures
    <3>1. CASE ReadOn(p, files[p], pos) /\ UNCHANGED failures
      BY <1>1, <2>2, <3>1, ReadsOn DEF Phases, TypeOK
    <3>2. CASE failures < MaxFailures /\ failures' = failures + 1 /\ UNCHANGED <<stream, offsets, home>>
      BY <1>1, <3>2, Numbers, Unfolded DEF TypeOK
    <3> QED
      BY <2>1, <3>1, <3>2
  <2>4. TypeOK'
    <3>1. inodes' \in [Path -> Inode \cup {None}] /\ byInode' \in [Inode -> Offset \cup {None}]
      BY <1>1, <2>1, <2>2, Unfolded DEF TypeOK
    <3>2. [offsets |-> offsets', inodes |-> inodes'] \in Positions
      BY <2>3, <3>1 DEF Positions
    <3> QED
      BY <1>1, <2>1, <2>3, <3>1, <3>2 DEF TypeOK
  <2>5. Phases'
    <3>1. ASSUME NEW q \in Path, stream'[q] # None
          PROVE  stream'[q].pos \in 1 .. Len(content[stream'[q].inode]) /\ stream'[q].at = "head"
      <4>1. CASE stream'[q] = stream[q]
        BY <1>1, <2>1, <3>1, <4>1 DEF Phases
      <4>2. CASE stream'[q] # stream[q]
        <5>1. ReadOn(p, files[p], pos)
          BY <2>1, <4>2
        <5>2. q = p
          BY <1>1, <2>2, <4>2, <5>1, ReadsOn DEF Phases
        <5>3. AtTheEnd(p, files[p], pos) \/ AtRequest(p, files[p], pos)
          BY <1>1, <2>2, <5>1, ReadsOn DEF Phases
        <5>4. PICK n \in pos + 1 .. Len(content[files[p]]) :
                stream'[p] = [at |-> "head", inode |-> files[p], pos |-> n]
          BY <3>1, <5>2, <5>3 DEF AtTheEnd, AtRequest
        <5> QED
          BY <2>2, <5>2, <5>4, Numbers
      <4> QED
        BY <4>1, <4>2
    <3>2. \A q \in todo' : files'[q] # None
      BY <1>1, <2>1 DEF Phases
    <3> QED
      BY <1>1, <2>1, <3>1, <3>2 DEF Phases
  <2> QED
    BY <2>4, <2>5 DEF Shape
<1>9. ASSUME NEW p \in Path, Yield(p)
      PROVE  Shape'
  <2> DEFINE s == stream[p]
  <2>1. /\ pc = "merge" /\ pc' = "given" /\ todo = {} /\ s # None
        /\ offsets' = [offsets EXCEPT ![p] = s.pos] /\ home' = [home EXCEPT ![p] = s.inode]
        /\ seen' = seen \cup {<<s.inode, s.pos>>}
        /\ reached' = [reached EXCEPT ![s.inode] = s.pos]
        /\ stream' = [stream EXCEPT ![p] = [s EXCEPT !.at = "given"]]
        /\ UNCHANGED <<files, content, created, ckpt, inodes, byInode, todo, mispaired, crashes, failures>>
    BY <1>9 DEF Yield, Record
  <2>2. /\ s \in Stream /\ s.inode \in Inode /\ s.pos \in Offset
        /\ s = [at |-> s.at, inode |-> s.inode, pos |-> s.pos]
        /\ s.pos \in 1 .. Len(content[s.inode])
    BY <1>1, <2>1, Unfolded DEF Phases
  <2> HIDE DEF s
  <2>3. <<s.inode, s.pos>> \in Line
    BY <2>2, Numbers, Unfolded, <1>1 DEF Line, Phases
  <2>4. [s EXCEPT !.at = "given"] = [at |-> "given", inode |-> s.inode, pos |-> s.pos]
    BY <2>2
  <2>5. [at |-> "given", inode |-> s.inode, pos |-> s.pos] \in Stream
    BY <2>2 DEF Stream
  <2>6. stream' = [stream EXCEPT ![p] = [at |-> "given", inode |-> s.inode, pos |-> s.pos]]
    BY <2>1, <2>4
  <2>7. stream' \in [Path -> Stream \cup {None}]
    BY <1>1, <2>5, <2>6 DEF TypeOK
  <2>8. TypeOK'
    <3>1. [offsets |-> offsets', inodes |-> inodes'] \in Positions
      BY <1>1, <2>1, <2>2, Unfolded DEF Positions
    <3>2. reached' \in [Inode -> Offset] /\ home' \in [Path -> Inode \cup {None}] /\ seen' \in SUBSET Line
      BY <1>1, <2>1, <2>2, <2>3 DEF TypeOK
    <3> QED
      BY <1>1, <2>1, <2>7, <3>1, <3>2 DEF TypeOK
  <2>9. Phases'
    <3>1. ASSUME NEW q \in Path, stream'[q] # None
          PROVE  stream'[q].pos \in 1 .. Len(content[stream'[q].inode])
      <4>1. CASE q = p
        <5>1. stream'[p] = [at |-> "given", inode |-> s.inode, pos |-> s.pos]
          BY <1>1, <2>6 DEF TypeOK
        <5> QED
          BY <2>2, <4>1, <5>1
      <4>2. CASE q # p
        <5>1. stream'[q] = stream[q]
          BY <1>1, <2>6, <4>2 DEF TypeOK
        <5> QED
          BY <1>1, <3>1, <5>1 DEF Phases
      <4> QED
        BY <4>1, <4>2
    <3>2. ASSUME NEW q \in Path, stream'[q] # None, stream'[q].at = "given"
          PROVE  q = p
      BY <1>1, <2>1, <2>6, <3>2 DEF Phases, TypeOK
    <3> QED
      BY <1>1, <2>1, <3>1, <3>2 DEF Phases
  <2> QED
    BY <2>8, <2>9 DEF Shape
<1>10. ASSUME NEW p \in Path, Resumed(p)
       PROVE  Shape'
  <2> DEFINE s == stream[p]
  <2>1. /\ pc = "given" /\ pc' = "merge" /\ s # None /\ s.at = "given"
        /\ ReadOn(p, s.inode, s.pos)
        /\ UNCHANGED <<files, content, created, ckpt, inodes, byInode, todo, seen, reached, mispaired,
                       crashes, failures>>
    BY <1>10 DEF Resumed
  <2>2. s.inode \in Inode /\ s.pos \in Offset
    BY <1>1, <2>1, Unfolded
  <2> HIDE DEF s
  <2>3. /\ offsets' \in [Path -> Offset \cup {None}] /\ home' \in [Path -> Inode \cup {None}]
        /\ stream' \in [Path -> Stream \cup {None}]
        /\ \A q \in Path : q # p => stream'[q] = stream[q]
        /\ AtTheEnd(p, s.inode, s.pos) \/ AtRequest(p, s.inode, s.pos)
    BY <1>1, <2>1, <2>2, ReadsOn DEF Phases
  <2>4. TypeOK'
    <3>1. [offsets |-> offsets', inodes |-> inodes'] \in Positions
      BY <1>1, <2>1, <2>3, Unfolded DEF Positions
    <3> QED
      BY <1>1, <2>1, <2>3, <3>1 DEF TypeOK
  <2>5. Phases'
    <3>1. ASSUME NEW q \in Path, stream'[q] # None
          PROVE  stream'[q].pos \in 1 .. Len(content[stream'[q].inode]) /\ stream'[q].at = "head"
      <4>1. CASE q = p
        <5>1. PICK n \in s.pos + 1 .. Len(content[s.inode]) :
                stream'[p] = [at |-> "head", inode |-> s.inode, pos |-> n]
          BY <2>3, <3>1, <4>1 DEF AtTheEnd, AtRequest
        <5> QED
          BY <2>2, <4>1, <5>1, Numbers
      <4>2. CASE q # p
        <5>1. stream'[q] = stream[q] /\ stream[q] # None
          BY <2>3, <3>1, <4>2
        <5>2. stream[q].at # "given"
          BY <1>1, <2>1, <4>2, <5>1 DEF Phases, s
        <5>3. stream[q].at = "head"
          BY <1>1, <5>1, <5>2 DEF TypeOK, Stream
        <5> QED
          BY <1>1, <2>1, <5>1, <5>3 DEF Phases
      <4> QED
        BY <4>1, <4>2
    <3> QED
      BY <1>1, <2>1, <3>1 DEF Phases
  <2> QED
    BY <2>4, <2>5 DEF Shape
<1>11. CASE EndPass \/ NextPass \/ Save
  <2>1. TypeOK'
    BY <1>1, <1>11, Unfolded DEF EndPass, NextPass, Save, TypeOK, Positions, Present, Mismatch
  <2>2. Phases'
    BY <1>1, <1>11 DEF EndPass, NextPass, Save, Phases, Nowhere, Present
  <2> QED
    BY <2>1, <2>2 DEF Shape
<1> QED
  BY <1>2, <1>3, <1>4, <1>5, <1>6, <1>7, <1>8, <1>9, <1>10, <1>11 DEF Next


\* FileSource keeps its types: every position is one of a file there is, or none.
THEOREM FileSourceTypes == Spec => []TypeOK
<1>1. Spec => []Shape
  BY ShapeInit, ShapeStep, PTL DEF Spec
<1>2. Shape => TypeOK
  BY DEF Shape
<1> QED
  BY <1>1, <1>2, PTL

-----------------------------------------------------------------------------
(* No request is skipped.                                                  *)

\* What was read stays read, and what was given stays given.
LEMMA Stays ==
    ASSUME Shape, [Next]_vars
    PROVE  /\ \A i \in Inode : /\ Len(content[i]) \in Nat /\ Len(content'[i]) \in Nat
                               /\ Len(content[i]) <= Len(content'[i])
                               /\ \A m \in 1 .. Len(content[i]) : content'[i][m] = content[i][m]
           /\ seen \subseteq seen'
           /\ mispaired => mispaired'
<1>1. TypeOK /\ Phases
  BY DEF Shape
<1> USE DEF diskVars, positionVars, passVars, boundVars
<1>2. ASSUME NEW p \in Path, NEW kind \in {"request", "other"}, WriteLine(p, kind)
      PROVE  /\ \A i \in Inode : /\ Len(content[i]) \in Nat /\ Len(content'[i]) \in Nat
                               /\ Len(content[i]) <= Len(content'[i])
                               /\ \A m \in 1 .. Len(content[i]) : content'[i][m] = content[i][m]
             /\ seen' = seen /\ mispaired' = mispaired
  <2>1. seen' = seen /\ mispaired' = mispaired
    BY <1>2 DEF WriteLine
  <2> QED
    BY <1>1, <1>2, <2>1, Grows
<1>3. CASE \E p \in Path, kind \in {"request", "other"} : WriteLine(p, kind)
  BY <1>2, <1>3
<1>4. CASE content' = content
  <2>1. \A i \in Inode : Len(content[i]) \in Nat
    BY <1>1, Unfolded
  <2>2. seen \subseteq seen'
    BY DEF Next, vars, Rotate, Rekey, WriteLine, Crash, Start, Prime, Yield, Resumed, EndPass, NextPass, Save
  <2>3. mispaired => mispaired'
    BY DEF Next, vars, Rotate, Rekey, WriteLine, Crash, Start, Prime, Yield, Resumed, EndPass, NextPass, Save
  <2> QED
    BY <1>4, <2>1, <2>2, <2>3
<1> QED
  BY <1>3, <1>4 DEF Next, vars, Rotate, Rekey, Crash, Start, Prime, Yield, Resumed, EndPass, NextPass, Save

LEMMA GivenStays ==
    ASSUME Shape, [Next]_vars, NEW i \in Inode, NEW n \in Nat, n <= Len(content[i]), Given(i, n)
    PROVE  Given(i, n)' /\ n <= Len(content'[i])
BY Stays DEF Given

LEMMA KeptStays ==
    ASSUME Shape, [Next]_vars, NEW i \in Inode \cup {None}, NEW n \in Offset, Kept(i, n)
    PROVE  Kept(i, n)'
<1>1. i \in Inode /\ n \in Nat /\ n <= Len(content[i]) /\ Given(i, n)
  BY Numbers DEF Kept
<1> QED
  BY <1>1, GivenStays DEF Kept

\* The position a stream begins at, or the next pass would.
LEMMA PositionTrusted ==
    ASSUME Shape, Trusted, NEW p \in Path, files[p] # None, p \in todo \/ pc = "idle"
    PROVE  Given(files[p], Resume(offsets, inodes, byInode, p))
<1> DEFINE pos == Resume(offsets, inodes, byInode, p)
<1>1. TypeOK
  BY DEF Shape
<1>2. files[p] \in Inode /\ offsets[p] \in Offset \cup {None} /\ byInode[files[p]] \in Offset \cup {None}
  BY <1>1, Unfolded DEF TypeOK
<1>3. \/ pos = 0
      \/ byInode[files[p]] # None /\ pos = byInode[files[p]]
      \/ /\ offsets[p] # None /\ pos = offsets[p]
         /\ inodes[p] # None => inodes[p] = files[p]
  BY <1>1, <1>2, Resumes
<1> HIDE DEF pos
<1>4. ASSUME pos = 0
      PROVE  Given(files[p], pos)
  BY <1>4 DEF Given
<1>5. ASSUME byInode[files[p]] # None, pos = byInode[files[p]]
      PROVE  Given(files[p], pos)
  BY <1>2, <1>5 DEF Trusted, Kept
<1>6. ASSUME offsets[p] # None, pos = offsets[p], inodes[p] # None => inodes[p] = files[p]
      PROVE  Given(files[p], pos)
  <2>1. home[p] = inodes[p] /\ Kept(home[p], offsets[p])
    BY <1>6 DEF Trusted
  <2> QED
    BY <1>6, <2>1 DEF Kept
<1>7. Given(files[p], pos)
  BY <1>3, <1>4, <1>5, <1>6
<1> QED
  BY <1>7 DEF pos

\* A stream that goes on from a trusted position keeps the trust.
LEMMA ReadTrusted ==
    ASSUME Shape, Trusted, UNCHANGED <<content, seen>>,
           NEW p \in Path, NEW i \in Inode, NEW pos \in Offset, ReadOn(p, i, pos), Given(i, pos)
    PROVE  /\ \A q \in Path : offsets'[q] # None => Kept(home[q], offsets[q])'
           /\ \A q \in Path : stream'[q] # None => TrustedStream(q)'
<1>1. TypeOK /\ \A j \in Inode : Len(content[j]) <= MaxLines
  BY DEF Shape, Phases
<1>2. /\ \A q \in Path : q # p =>
           offsets'[q] = offsets[q] /\ home'[q] = home[q] /\ stream'[q] = stream[q]
      /\ AtTheEnd(p, i, pos) \/ AtRequest(p, i, pos)
  BY <1>1, ReadsOn
<1>3. Len(content[i]) \in Nat /\ pos \in Nat /\ i # None
  BY <1>1, Unfolded, Numbers
<1>4. ASSUME NEW q \in Path, offsets'[q] = offsets[q], home'[q] = home[q], offsets'[q] # None
      PROVE  Kept(home[q], offsets[q])'
  BY <1>4 DEF Trusted, Kept, Given
<1>5. ASSUME NEW q \in Path, stream'[q] = stream[q], stream'[q] # None
      PROVE  TrustedStream(q)'
  BY <1>5 DEF Trusted, TrustedStream, Given
<1>6. CASE AtTheEnd(p, i, pos)
  <2>1. Given(i, Len(content[i]))
    BY <1>3, <1>6 DEF Given, AtTheEnd
  <2>2. Kept(home[p], offsets[p])'
    BY <1>3, <1>6, <2>1 DEF AtTheEnd, Kept, Given
  <2>3. stream'[p] = None
    BY <1>6 DEF AtTheEnd
  <2> QED
    BY <1>2, <1>4, <1>5, <2>2, <2>3
<1>7. CASE AtRequest(p, i, pos)
  <2>1. PICK n \in pos + 1 .. Len(content[i]) :
          /\ stream'[p] = [at |-> "head", inode |-> i, pos |-> n]
          /\ \A m \in pos + 1 .. n - 1 : content[i][m] # "request"
    BY <1>7 DEF AtRequest
  <2>2. Given(i, n - 1)
    BY <1>3, <2>1 DEF Given
  <2>3. TrustedStream(p)'
    BY <2>1, <2>2 DEF TrustedStream, Given
  <2>4. offsets' = offsets /\ home' = home
    BY <1>7 DEF AtRequest
  <2> QED
    BY <1>2, <1>4, <1>5, <2>3, <2>4
<1> QED
  BY <1>2, <1>6, <1>7


LEMMA TrustInit == Init => Trust
BY DEF Init, Trust, Trusted, Nowhere

LEMMA TrustStep ==
    ASSUME Shape, Trust, [Next]_vars
    PROVE  Trust'
<1> SUFFICES ASSUME ~mispaired'
             PROVE  Trusted'
  BY DEF Trust
<1>1. TypeOK /\ Phases /\ Trusted
  BY Stays DEF Shape, Trust
<1> USE DEF diskVars, positionVars, passVars, boundVars
<1>2. /\ \A p \in Path : offsets[p] \in Offset \cup {None} /\ home[p] \in Inode \cup {None}
      /\ \A p \in Path : ckpt.offsets[p] \in Offset \cup {None} /\ ckpt.inodes[p] \in Inode \cup {None}
      /\ \A i \in Inode : byInode[i] \in Offset \cup {None}
      /\ \A p \in Path : stream[p] # None =>
           /\ stream[p].inode \in Inode /\ stream[p].pos \in Offset
           /\ stream[p].pos \in 1 .. Len(content[stream[p].inode])
  BY <1>1, Unfolded DEF TypeOK, Phases
\* What a step does not touch.
<1>3. ASSUME NEW p \in Path, offsets'[p] = offsets[p], home'[p] = home[p], offsets'[p] # None
      PROVE  Kept(home[p], offsets[p])'
  <2>1. Kept(home[p], offsets[p])
    BY <1>1, <1>3 DEF Trusted
  <2>2. offsets[p] \in Offset /\ home[p] \in Inode \cup {None}
    BY <1>2, <1>3
  <2> QED
    BY <1>3, <2>1, <2>2, KeptStays DEF Kept, Given
<1>4. ASSUME ckpt' = ckpt, NEW p \in Path, ckpt'.offsets[p] # None
      PROVE  Kept(ckpt.inodes[p], ckpt.offsets[p])'
  <2>1. Kept(ckpt.inodes[p], ckpt.offsets[p])
    BY <1>1, <1>4 DEF Trusted
  <2>2. ckpt.offsets[p] \in Offset /\ ckpt.inodes[p] \in Inode \cup {None}
    BY <1>2, <1>4
  <2> QED
    BY <1>4, <2>1, <2>2, KeptStays DEF Kept, Given
<1>5. ASSUME NEW i \in Inode, byInode'[i] = byInode[i], byInode'[i] # None
      PROVE  Kept(i, byInode[i])'
  <2>1. Kept(i, byInode[i]) /\ byInode[i] \in Offset
    BY <1>1, <1>2, <1>5 DEF Trusted
  <2> QED
    BY <1>5, <2>1, KeptStays DEF Kept, Given
<1>6. ASSUME NEW p \in Path, stream'[p] = stream[p], stream'[p] # None
      PROVE  TrustedStream(p)'
  <2> DEFINE i == stream[p].inode
             n == stream[p].pos
  <2>1. i \in Inode /\ n \in Nat /\ n - 1 \in Nat /\ n <= Len(content[i]) /\ n - 1 <= Len(content[i])
    BY <1>2, <1>6, Stays
  <2>2. Given(i, n - 1) /\ (stream[p].at = "given" => Given(i, n))
    BY <1>1, <1>6 DEF Trusted, TrustedStream
  <2>3. stream'[p].inode = i /\ stream'[p].pos = n /\ stream'[p].at = stream[p].at
    BY <1>6
  <2> HIDE DEF i, n
  <2>4. \A m \in 1 .. n - 1 : content'[i][m] = "request" => <<i, m>> \in seen'
    BY <2>1, <2>2, Stays DEF Given
  <2> QED
    BY <2>1, <2>2, <2>3, <2>4, Stays DEF Given, TrustedStream
\* The steps that touch no position.
<1>7. ASSUME UNCHANGED <<ckpt, pc, offsets, home, inodes, byInode, todo, stream>>
      PROVE  Trusted'
  BY <1>1, <1>3, <1>4, <1>5, <1>6, <1>7 DEF Trusted
<1>8. CASE \/ UNCHANGED vars \/ \E p \in Path : Rotate(p)
           \/ \E p \in Path, kind \in {"request", "other"} : WriteLine(p, kind)
           \/ \E p, q \in Path : Rekey(p, q)
  BY <1>7, <1>8 DEF vars, Rotate, WriteLine, Rekey
<1>9. CASE Crash
  <2>1. \A p \in Path : offsets'[p] = None /\ stream'[p] = None
    BY <1>9 DEF Crash, Nowhere
  <2>2. \A i \in Inode : byInode'[i] = None
    BY <1>9 DEF Crash
  <2>3. ckpt' = ckpt
    BY <1>9 DEF Crash
  <2> QED
    BY <1>4, <2>1, <2>2, <2>3 DEF Trusted
<1>10. CASE Start
  <2>1. /\ offsets' = ckpt.offsets /\ home' = ckpt.inodes /\ inodes' = ckpt.inodes
        /\ ckpt' = ckpt /\ stream' = stream /\ content' = content /\ seen' = seen
    BY <1>10 DEF Start
  <2>2. ASSUME NEW i \in Inode, byInode'[i] # None
        PROVE  Kept(i, byInode[i])'
    <3>1. byInode'[i] \in OffsetsOf(i)
      BY <1>10, <2>2 DEF Start
    <3>2. PICK p \in Path : ckpt.inodes[p] = i /\ ckpt.offsets[p] # None /\ byInode'[i] = ckpt.offsets[p]
      BY <3>1 DEF OffsetsOf
    <3>3. Kept(i, ckpt.offsets[p])
      BY <1>1, <3>2 DEF Trusted
    <3> QED
      BY <2>1, <3>2, <3>3 DEF Kept, Given
  <2> QED
    BY <1>4, <1>6, <2>1, <2>2 DEF Trusted, Kept, Given
<1>11. ASSUME NEW p \in Path, Prime(p)
       PROVE  Trusted'
  <2> DEFINE pos == Resume(offsets, inodes, byInode, p)
  <2>1. /\ pc = "merge" /\ p \in todo /\ files[p] # None /\ todo' = todo \ {p}
        /\ inodes' = [inodes EXCEPT ![p] = files[p]]
        /\ UNCHANGED <<content, ckpt, pc, seen>>
        /\ byInode' \in {byInode, [byInode EXCEPT ![files[p]] = None]}
        /\ ReadOn(p, files[p], pos) \/ UNCHANGED <<stream, offsets, home>>
    BY <1>1, <1>11 DEF Prime, Identified, Phases
  <2>2. files[p] \in Inode /\ pos \in Offset
    BY <1>1, <1>2, <2>1, Resumes DEF TypeOK
  <2>3. Given(files[p], pos)
    BY <1>1, <2>1, PositionTrusted
  <2> HIDE DEF pos
  <2>4. /\ \A q \in Path : offsets'[q] # None => Kept(home[q], offsets[q])'
        /\ \A q \in Path : stream'[q] # None => TrustedStream(q)'
    <3>1. CASE ReadOn(p, files[p], pos)
      BY <1>1, <2>1, <2>2, <2>3, <3>1, ReadTrusted
    <3>2. CASE UNCHANGED <<stream, offsets, home>>
      BY <1>3, <1>6, <3>2
    <3> QED
      BY <2>1, <3>1, <3>2
  <2>5. ASSUME NEW q \in Path, q \in todo', offsets'[q] # None
        PROVE  home'[q] = inodes'[q]
    <3>1. q \in todo /\ q # p
      BY <2>1, <2>5
    <3>2. offsets'[q] = offsets[q] /\ home'[q] = home[q]
      <4>1. CASE ReadOn(p, files[p], pos)
        BY <1>1, <2>2, <3>1, <4>1, ReadsOn DEF Phases
      <4> QED
        BY <2>1, <4>1
    <3>3. inodes'[q] = inodes[q]
      BY <1>1, <2>1, <3>1, Unfolded
    <3> QED
      BY <1>1, <2>5, <3>1, <3>2, <3>3 DEF Trusted
  <2>6. \A i \in Inode : byInode'[i] = byInode[i] \/ byInode'[i] = None
    BY <1>1, <2>1 DEF TypeOK
  <2>7. pc' # "idle" /\ ckpt' = ckpt
    BY <2>1
  <2> QED
    BY <1>4, <1>5, <2>4, <2>5, <2>6, <2>7 DEF Trusted
<1>12. ASSUME NEW p \in Path, Yield(p)
       PROVE  Trusted'
  <2> DEFINE s == stream[p]
  <2>1. /\ s # None /\ pc' = "given" /\ todo' = {}
        /\ offsets' = [offsets EXCEPT ![p] = s.pos] /\ home' = [home EXCEPT ![p] = s.inode]
        /\ seen' = seen \cup {<<s.inode, s.pos>>}
        /\ stream' = [stream EXCEPT ![p] = [s EXCEPT !.at = "given"]]
        /\ UNCHANGED <<content, ckpt, byInode>>
    BY <1>12 DEF Yield, Record
  <2>2. /\ s.inode \in Inode /\ s.pos \in Offset /\ s.pos \in 1 .. Len(content[s.inode])
        /\ s = [at |-> s.at, inode |-> s.inode, pos |-> s.pos]
    BY <1>1, <1>2, <2>1, Unfolded
  <2>3. Given(s.inode, s.pos - 1)
    BY <1>1, <2>1 DEF Trusted, TrustedStream
  <2> HIDE DEF s
  <2>4. s.inode # None /\ s.pos \in Nat /\ s.pos <= Len(content[s.inode])
    BY <2>2, Numbers, Stays
  <2>5. \A m \in 1 .. s.pos : content'[s.inode][m] = "request" => <<s.inode, m>> \in seen'
    BY <2>1, <2>3, <2>4 DEF Given
  <2>6. Kept(home[p], offsets[p])'
    <3>1. home'[p] = s.inode /\ offsets'[p] = s.pos
      BY <1>1, <2>1, Unfolded DEF TypeOK
    <3> QED
      BY <2>1, <2>4, <2>5, <3>1 DEF Kept, Given
  <2>7. TrustedStream(p)'
    <3>1. stream'[p].inode = s.inode /\ stream'[p].pos = s.pos
      BY <1>1, <2>1, <2>2 DEF TypeOK
    <3> QED
      BY <2>4, <2>5, <3>1 DEF TrustedStream, Given
  <2>8. \A q \in Path : q # p =>
          offsets'[q] = offsets[q] /\ home'[q] = home[q] /\ stream'[q] = stream[q]
    BY <1>1, <2>1, Unfolded DEF TypeOK
  <2> QED
    BY <1>3, <1>4, <1>5, <1>6, <2>1, <2>6, <2>7, <2>8 DEF Trusted
<1>13. ASSUME NEW p \in Path, Resumed(p)
       PROVE  Trusted'
  <2> DEFINE s == stream[p]
  <2>1. /\ pc = "given" /\ pc' = "merge" /\ s # None /\ s.at = "given"
        /\ ReadOn(p, s.inode, s.pos)
        /\ UNCHANGED <<content, ckpt, byInode, todo, seen>>
    BY <1>13 DEF Resumed
  <2>2. s.inode \in Inode /\ s.pos \in Offset /\ Given(s.inode, s.pos)
    BY <1>1, <1>2, <2>1 DEF Trusted, TrustedStream
  <2>3. todo' = {}
    BY <1>1, <2>1 DEF Phases
  <2> HIDE DEF s
  <2>4. /\ \A q \in Path : offsets'[q] # None => Kept(home[q], offsets[q])'
        /\ \A q \in Path : stream'[q] # None => TrustedStream(q)'
    BY <1>1, <2>1, <2>2, ReadTrusted
  <2> QED
    BY <1>4, <1>5, <2>1, <2>3, <2>4 DEF Trusted
<1>14. CASE EndPass
  <2>1. \A p \in Path : offsets[p] # None => home[p] = inodes[p]
    BY <1>14 DEF EndPass, Mismatch
  <2>2. UNCHANGED <<ckpt, offsets, home, inodes, byInode, stream>>
    BY <1>14 DEF EndPass
  <2> QED
    BY <1>3, <1>4, <1>5, <1>6, <2>1, <2>2 DEF Trusted
<1>15. CASE NextPass
  <2>1. pc = "idle" /\ UNCHANGED <<ckpt, offsets, home, inodes, byInode, stream>>
    BY <1>15 DEF NextPass
  <2>2. \A p \in Path : offsets[p] # None => home[p] = inodes[p]
    BY <1>1, <2>1 DEF Trusted
  <2> QED
    BY <1>3, <1>4, <1>5, <1>6, <2>1, <2>2 DEF Trusted
<1>16. CASE Save
  <2>1. \A p \in Path : offsets[p] # None => home[p] = inodes[p]
    BY <1>16 DEF Save, Mismatch
  <2>2. /\ ckpt' = [offsets |-> offsets, inodes |-> inodes]
        /\ UNCHANGED <<content, seen, pc, offsets, home, inodes, byInode, stream, todo>>
    BY <1>16 DEF Save
  <2>3. ASSUME NEW p \in Path, ckpt'.offsets[p] # None
        PROVE  Kept(ckpt.inodes[p], ckpt.offsets[p])'
    <3>1. ckpt'.offsets = offsets /\ ckpt'.inodes = inodes
      BY <2>2
    <3>2. Kept(home[p], offsets[p]) /\ home[p] = inodes[p]
      BY <1>1, <2>1, <2>3, <3>1 DEF Trusted
    <3> QED
      BY <2>2, <3>1, <3>2 DEF Kept, Given
  <2> QED
    BY <1>1, <1>3, <1>5, <1>6, <2>2, <2>3 DEF Trusted
<1> QED
  BY <1>8, <1>9, <1>10, <1>11, <1>12, <1>13, <1>14, <1>15, <1>16 DEF Next


\* What was given up to a position is what is skipped by going there.
LEMMA RequestsGiven ==
    ASSUME Shape, NEW p \in Path, files[p] # None, NEW pos \in Offset, Given(files[p], pos)
    PROVE  Requests(p, pos) \subseteq seen
<1>1. Len(content[files[p]]) \in Nat /\ pos \in Nat
  BY Unfolded, Numbers DEF Shape, TypeOK
<1> QED
  BY <1>1 DEF Requests, Ahead, Given

\* A restart goes by the last offset that the checkpoint has for an inode.
LEMMA RestoredIs ==
    ASSUME TypeOK, NEW i \in Inode
    PROVE  /\ RestoredByInode[i] \in Offset \cup {None}
           /\ RestoredByInode[i] # None => RestoredByInode[i] \in OffsetsOf(i)
<1>1. OffsetsOf(i) \subseteq Offset
  BY Unfolded DEF OffsetsOf
<1>2. ASSUME OffsetsOf(i) # {}
      PROVE  Max(OffsetsOf(i)) \in OffsetsOf(i)
  <2>1. OffsetsOf(i) \in SUBSET Nat /\ \A n \in OffsetsOf(i) : n <= MaxLines
    BY <1>1, Numbers
  <2> QED
    BY <1>2, <2>1, Numbers, MaxIs
<1>3. RestoredByInode[i] = IF OffsetsOf(i) = {} THEN None ELSE Max(OffsetsOf(i))
  BY DEF RestoredByInode
<1> QED
  BY <1>1, <1>2, <1>3

LEMMA RestartTrusted ==
    ASSUME Shape, Trusted, NEW p \in Path, files[p] # None
    PROVE  RestartSkips(p) = {}
<1> DEFINE pos == Resume(ckpt.offsets, ckpt.inodes, RestoredByInode, p)
<1>1. TypeOK /\ files[p] \in Inode
  BY DEF Shape, TypeOK
<1>2. /\ ckpt.offsets[p] \in Offset \cup {None}
      /\ RestoredByInode[files[p]] \in Offset \cup {None}
      /\ RestoredByInode[files[p]] # None => RestoredByInode[files[p]] \in OffsetsOf(files[p])
  BY <1>1, Unfolded, RestoredIs
<1>3. /\ pos \in Offset
      /\ \/ pos = 0
         \/ RestoredByInode[files[p]] # None /\ pos = RestoredByInode[files[p]]
         \/ /\ ckpt.offsets[p] # None /\ pos = ckpt.offsets[p]
            /\ ckpt.inodes[p] # None => ckpt.inodes[p] = files[p]
  BY <1>1, <1>2, Resumes
<1>4. RestartSkips(p) = Requests(p, pos) \ seen
  BY DEF RestartSkips
<1> HIDE DEF pos
<1>5. ASSUME pos = 0
      PROVE  Given(files[p], pos)
  BY <1>5 DEF Given
<1>6. ASSUME RestoredByInode[files[p]] # None, pos = RestoredByInode[files[p]]
      PROVE  Given(files[p], pos)
  <2>1. PICK q \in Path : ckpt.inodes[q] = files[p] /\ ckpt.offsets[q] # None /\ pos = ckpt.offsets[q]
    BY <1>2, <1>6 DEF OffsetsOf
  <2> QED
    BY <2>1 DEF Trusted, Kept
<1>7. ASSUME ckpt.offsets[p] # None, pos = ckpt.offsets[p],
             ckpt.inodes[p] # None => ckpt.inodes[p] = files[p]
      PROVE  Given(files[p], pos)
  BY <1>7 DEF Trusted, Kept
<1>8. Given(files[p], pos)
  BY <1>3, <1>5, <1>6, <1>7
<1> QED
  BY <1>3, <1>4, <1>8, RequestsGiven

\* SkipsNothing of FileSource (seek, _read_file and read in ingest/file.py, with
\* the checkpoints of detection/runtime.py): wherever a process is killed, and in
\* each pass of one that lives, no request is gone past that the runtime was not
\* given, unless an offset was kept beside the inode of another file.
THEOREM NoRequestIsSkipped == Spec => []SkipsNothing
<1>1. Shape /\ Trust => SkipsNothing
  <2> SUFFICES ASSUME Shape, Trusted
               PROVE  /\ \A p \in Present : RestartSkips(p) = {}
                      /\ pc = "idle" => \A p \in Present :
                             Requests(p, Resume(offsets, inodes, byInode, p)) \subseteq seen
    BY DEF SkipsNothing, Trust
  <2>1. \A p \in Present : RestartSkips(p) = {}
    BY RestartTrusted DEF Present
  <2>2. ASSUME pc = "idle", NEW p \in Path, files[p] # None
        PROVE  Requests(p, Resume(offsets, inodes, byInode, p)) \subseteq seen
    <3>1. TypeOK /\ files[p] \in Inode
      BY <2>2 DEF Shape, TypeOK
    <3>2. Resume(offsets, inodes, byInode, p) \in Offset
      BY <2>2, <3>1, Resumes, Unfolded DEF TypeOK
    <3> QED
      BY <2>2, <3>2, PositionTrusted, RequestsGiven
  <2> QED
    BY <2>1, <2>2 DEF Present
<1>2. Init => Shape /\ Trust
  BY ShapeInit, TrustInit
<1>3. Shape /\ Trust /\ [Next]_vars => (Shape /\ Trust)'
  BY ShapeStep, TrustStep
<1> QED
  BY <1>1, <1>2, <1>3, PTL DEF Spec


-----------------------------------------------------------------------------
(* No request is given out of order, or twice.                             *)

LEMMA OrderInit == Init => OneOwner /\ ReadSoFar
BY DEF Init, OneOwner, ReadSoFar, Nowhere

LEMMA OwnerStep ==
    ASSUME Shape, OneOwner, [Next]_vars
    PROVE  OneOwner'
<1>1. TypeOK /\ Phases
  BY DEF Shape
<1> USE DEF diskVars, positionVars, passVars, boundVars
<1>2. /\ created \in Nat /\ files \in [Path -> Inode \cup {None}] /\ \A i \in Inode : i \in Nat /\ i # None
      /\ \A p \in Path : stream[p] # None => stream[p].inode \in Inode
      /\ stream \in [Path -> Stream \cup {None}] /\ reached \in [Inode -> Offset]
  BY <1>1, Unfolded, Numbers DEF TypeOK
<1>3. ASSUME UNCHANGED <<files, created, reached, stream>>
      PROVE  OneOwner'
  BY <1>3 DEF OneOwner
<1>4. CASE \/ UNCHANGED vars \/ EndPass \/ NextPass \/ Save \/ Start
           \/ \E p \in Path, kind \in {"request", "other"} : WriteLine(p, kind)
  BY <1>3, <1>4 DEF vars, EndPass, NextPass, Save, Start, WriteLine
<1>5. ASSUME NEW p \in Path, Rotate(p)
      PROVE  OneOwner'
  <2>1. /\ created' = created + 1 /\ files' = [files EXCEPT ![p] = created + 1]
        /\ UNCHANGED <<reached, stream>>
    BY <1>5 DEF Rotate
  <2>2. files'[p] = created + 1 /\ \A q \in Path : q # p => files'[q] = files[q]
    BY <1>2, <2>1
  <2>3. \A q \in Path : q # p /\ files'[q] # None => files'[q] \in Nat /\ files'[q] <= created
    BY <1>2, <2>2 DEF OneOwner
  <2>4. \A q \in Path : stream[q] # None => stream[q].inode \in Nat /\ stream[q].inode <= created
    BY <1>2 DEF OneOwner
  <2>5. \A q, r \in Path : files'[q] # None /\ files'[q] = files'[r] => q = r
    <3> SUFFICES ASSUME NEW q \in Path, NEW r \in Path, files'[q] # None, files'[q] = files'[r]
                 PROVE  q = r
      OBVIOUS
    <3>1. CASE q = p \/ r = p
      BY <1>2, <2>2, <2>3, <3>1
    <3>2. CASE q # p /\ r # p
      BY <2>2, <3>2 DEF OneOwner
    <3> QED
      BY <3>1, <3>2
  <2>6. \A q, r \in Path : stream'[q] # None /\ files'[r] = stream'[q].inode => q = r
    <3> SUFFICES ASSUME NEW q \in Path, NEW r \in Path, stream[q] # None, files'[r] = stream[q].inode
                 PROVE  q = r
      BY <2>1
    <3>1. r # p
      BY <1>2, <2>2, <2>4
    <3> QED
      BY <2>2, <3>1 DEF OneOwner
  <2>7. \A q \in Path : files'[q] # None => files'[q] <= created'
    BY <1>2, <2>1, <2>2, <2>3
  <2>8. \A i \in Inode : reached'[i] > 0 => i <= created'
    BY <1>2, <2>1 DEF OneOwner
  <2>9. \A q \in Path : stream'[q] # None => stream'[q].inode <= created'
    BY <1>2, <2>1, <2>4
  <2> QED
    BY <2>1, <2>5, <2>6, <2>7, <2>8, <2>9 DEF OneOwner
<1>6. ASSUME NEW p \in Path, NEW q \in Path, Rekey(p, q)
      PROVE  OneOwner'
  <2>1. /\ files[p] # None /\ files[q] = None
        /\ files' = [files EXCEPT ![p] = None, ![q] = files[p]]
        /\ UNCHANGED <<created, reached, stream>>
        /\ stream = Nowhere
    BY <1>1, <1>6 DEF Rekey, Phases
  <2>2. /\ files'[p] = None /\ files'[q] = files[p]
        /\ \A r \in Path : r # p /\ r # q => files'[r] = files[r]
    BY <1>2, <2>1
  <2>3. \A r \in Path : stream'[r] = None
    BY <2>1 DEF Nowhere
  <2>4. ASSUME NEW r \in Path, files'[r] # None
        PROVE  \/ r = q /\ files'[r] = files[p]
               \/ r # p /\ r # q /\ files'[r] = files[r]
    BY <2>2, <2>4
  <2>5. \A r, t \in Path : files'[r] # None /\ files'[r] = files'[t] => r = t
    <3> SUFFICES ASSUME NEW r \in Path, NEW t \in Path, files'[r] # None, files'[r] = files'[t]
                 PROVE  r = t
      OBVIOUS
    <3>1. files'[t] # None
      OBVIOUS
    <3> QED
      BY <2>4, <3>1 DEF OneOwner
  <2>6. \A r \in Path : files'[r] # None => files'[r] <= created
    BY <2>1, <2>4 DEF OneOwner
  <2>7. \A i \in Inode : reached'[i] > 0 => i <= created'
    BY <2>1 DEF OneOwner
  <2> QED
    BY <2>1, <2>3, <2>5, <2>6, <2>7 DEF OneOwner
<1>7. CASE Crash
  <2>1. \A i \in Inode : reached'[i] = 0
    BY <1>7 DEF Crash
  <2>2. (\A r \in Path : stream'[r] = None) /\ UNCHANGED <<files, created>>
    BY <1>7 DEF Crash, Nowhere
  <2> QED
    BY <2>1, <2>2 DEF OneOwner
\* A stream is of the file under its path, or goes on in the file it was of.
<1>8. ASSUME NEW p \in Path, UNCHANGED <<files, created, reached>>,
             \A q \in Path : q # p => stream'[q] = stream[q],
             stream'[p] # None =>
               \/ stream'[p].inode = files[p] /\ files[p] # None
               \/ stream[p] # None /\ stream'[p].inode = stream[p].inode
      PROVE  OneOwner'
  <2>1. ASSUME NEW q \in Path, stream'[q] # None
        PROVE  stream'[q].inode <= created /\ \A r \in Path : files[r] = stream'[q].inode => q = r
    <3>1. CASE q = p
      BY <1>8, <2>1, <3>1 DEF OneOwner
    <3>2. CASE q # p
      BY <1>8, <2>1, <3>2 DEF OneOwner
    <3> QED
      BY <3>1, <3>2
  <2>2. ASSUME NEW q \in Path, stream'[q] # None, NEW r \in Path, stream'[r] # None,
               stream'[r].inode = stream'[q].inode, q # r
        PROVE  FALSE
    <3>1. CASE q # p /\ r # p
      BY <1>8, <2>2, <3>1 DEF OneOwner
    <3>2. CASE q = p
      <4>1. stream'[r] = stream[r] /\ stream[r] # None
        BY <1>8, <2>2, <3>2
      <4> QED
        BY <1>8, <2>2, <3>2, <4>1 DEF OneOwner
    <3>3. CASE r = p
      <4>1. stream'[q] = stream[q] /\ stream[q] # None
        BY <1>8, <2>2, <3>3
      <4> QED
        BY <1>8, <2>2, <3>3, <4>1 DEF OneOwner
    <3> QED
      BY <3>1, <3>2, <3>3
  <2> QED
    BY <1>8, <2>1, <2>2 DEF OneOwner
<1>9. ASSUME NEW p \in Path, Prime(p)
      PROVE  OneOwner'
  <2> DEFINE pos == Resume(offsets, inodes, byInode, p)
  <2>1. /\ files[p] # None /\ UNCHANGED <<files, created, reached>>
        /\ ReadOn(p, files[p], pos) \/ UNCHANGED stream
    BY <1>1, <1>9 DEF Prime, Phases
  <2>2. files[p] \in Inode /\ pos \in Offset
    BY <1>1, <1>2, <2>1, Resumes, Unfolded DEF TypeOK
  <2> HIDE DEF pos
  <2>3. CASE ReadOn(p, files[p], pos)
    <3>1. /\ \A q \in Path : q # p => stream'[q] = stream[q]
          /\ AtTheEnd(p, files[p], pos) \/ AtRequest(p, files[p], pos)
      BY <1>1, <2>2, <2>3, ReadsOn DEF Phases
    <3>2. stream'[p] # None => stream'[p].inode = files[p]
      BY <2>2, <3>1, GoesOn
    <3> QED
      BY <1>8, <2>1, <3>1, <3>2
  <2>4. CASE UNCHANGED stream
    BY <1>3, <2>1, <2>4
  <2> QED
    BY <2>1, <2>3, <2>4
<1>10. ASSUME NEW p \in Path, Resumed(p)
       PROVE  OneOwner'
  <2> DEFINE s == stream[p]
  <2>1. /\ s # None /\ UNCHANGED <<files, created, reached>> /\ ReadOn(p, s.inode, s.pos)
    BY <1>10 DEF Resumed
  <2>2. s.inode \in Inode /\ s.pos \in Offset
    BY <1>1, <2>1, Unfolded
  <2>3. /\ \A q \in Path : q # p => stream'[q] = stream[q]
        /\ AtTheEnd(p, s.inode, s.pos) \/ AtRequest(p, s.inode, s.pos)
    BY <1>1, <2>1, <2>2, ReadsOn DEF Phases
  <2>4. stream'[p] # None => stream'[p].inode = s.inode
    BY <2>2, <2>3, GoesOn
  <2> QED
    BY <1>8, <2>1, <2>3, <2>4
<1>11. ASSUME NEW p \in Path, Yield(p)
       PROVE  OneOwner'
  <2> DEFINE s == stream[p]
  <2>1. /\ s # None /\ UNCHANGED <<files, created>>
        /\ reached' = [reached EXCEPT ![s.inode] = s.pos]
        /\ stream' = [stream EXCEPT ![p] = [s EXCEPT !.at = "given"]]
    BY <1>11 DEF Yield
  <2>2. s.inode \in Inode /\ s = [at |-> s.at, inode |-> s.inode, pos |-> s.pos]
    BY <1>1, <2>1, Unfolded
  <2>3. stream'[p].inode = s.inode /\ \A q \in Path : q # p => stream'[q] = stream[q]
    <3> HIDE DEF s
    <3>1. stream'[p] = [s EXCEPT !.at = "given"] /\ \A q \in Path : q # p => stream'[q] = stream[q]
      BY <1>2, <2>1
    <3> QED
      BY <2>2, <3>1
  <2>4. \A q \in Path : stream'[q] # None => stream[q] # None /\ stream'[q].inode = stream[q].inode
    BY <2>1, <2>3
  <2>5. \A i \in Inode : reached'[i] > 0 => i <= created
    <3> SUFFICES ASSUME NEW i \in Inode, reached'[i] > 0
                 PROVE  i <= created
      OBVIOUS
    <3>1. CASE i = s.inode
      BY <2>1, <3>1 DEF OneOwner
    <3>2. CASE i # s.inode
      BY <1>2, <2>1, <3>2 DEF OneOwner
    <3> QED
      BY <3>1, <3>2
  <2> QED
    BY <2>1, <2>4, <2>5 DEF OneOwner
<1> QED
  BY <1>4, <1>5, <1>6, <1>7, <1>9, <1>10, <1>11 DEF Next


LEMMA ReadSoFarStep ==
    ASSUME Shape, OneOwner, ReadSoFar, [Next]_vars
    PROVE  ReadSoFar'
<1>1. TypeOK /\ Phases
  BY DEF Shape
<1> USE DEF diskVars, positionVars, passVars, boundVars
<1>2. /\ created \in Nat /\ files \in [Path -> Inode \cup {None}] /\ \A i \in Inode : i \in Nat /\ i # None
      /\ \A p \in Path : stream[p] # None =>
           /\ stream[p].inode \in Inode /\ stream[p].pos \in Offset
           /\ stream[p].pos \in 1 .. Len(content[stream[p].inode])
      /\ stream \in [Path -> Stream \cup {None}] /\ reached \in [Inode -> Offset]
      /\ offsets \in [Path -> Offset \cup {None}] /\ inodes \in [Path -> Inode \cup {None}]
      /\ \A i \in Inode : reached[i] \in Nat /\ Len(content[i]) \in Nat
      /\ \A n \in Offset : n \in Nat /\ n # None
  BY <1>1, Unfolded, Numbers DEF TypeOK, Phases
<1>3. ASSUME UNCHANGED <<files, content, offsets, inodes, reached, stream>>
      PROVE  ReadSoFar'
  BY <1>3 DEF ReadSoFar
<1>4. CASE UNCHANGED vars \/ EndPass \/ NextPass \/ Save
  BY <1>3, <1>4 DEF vars, EndPass, NextPass, Save
<1>5. ASSUME NEW p \in Path, NEW kind \in {"request", "other"}, WriteLine(p, kind)
      PROVE  ReadSoFar'
  <2>1. UNCHANGED <<files, offsets, inodes, reached, stream>>
    BY <1>5 DEF WriteLine
  <2>2. \A i \in Inode : Len(content'[i]) \in Nat /\ Len(content[i]) <= Len(content'[i])
    BY <1>1, <1>5, Grows
  <2>3. ASSUME NEW q \in Path, files[q] # None, reached[files[q]] > 0
        PROVE  offsets[q] <= Len(content'[files[q]])
    <3>1. offsets[q] <= Len(content[files[q]]) /\ offsets[q] \in Nat /\ files[q] \in Inode
      BY <1>2, <2>3 DEF ReadSoFar
    <3> QED
      BY <1>2, <2>2, <3>1
  <2> QED
    BY <2>1, <2>3 DEF ReadSoFar
\* A process that starts or is killed, and files that change their keys between lives.
<1>6. ASSUME \A i \in Inode : reached'[i] = 0, \A q \in Path : stream'[q] = None,
             files' \in [Path -> Inode \cup {None}]
      PROVE  ReadSoFar'
  BY <1>6 DEF ReadSoFar
<1>7. CASE Crash \/ Start \/ \E p, q \in Path : Rekey(p, q)
  <2>1. CASE Crash
    BY <1>2, <1>6, <2>1 DEF Crash, Nowhere
  <2>2. CASE Start
    BY <1>1, <1>2, <1>6, <2>2 DEF Start, Phases, Nowhere
  <2>3. ASSUME NEW p \in Path, NEW q \in Path, Rekey(p, q)
        PROVE  ReadSoFar'
    <3>1. files' \in [Path -> Inode \cup {None}]
      BY <1>2, <2>3 DEF Rekey
    <3> QED
      BY <1>1, <1>6, <2>3, <3>1 DEF Rekey, Phases, Nowhere
  <2> QED
    BY <1>7, <2>1, <2>2, <2>3
<1>8. ASSUME NEW p \in Path, Rotate(p)
      PROVE  ReadSoFar'
  <2>1. /\ files' = [files EXCEPT ![p] = created + 1] /\ created + 1 \in Inode
        /\ UNCHANGED <<content, offsets, inodes, reached, stream>>
    BY <1>1, <1>8, Numbers DEF Rotate, TypeOK, Inode
  <2>2. files'[p] = created + 1 /\ \A q \in Path : q # p => files'[q] = files[q]
    BY <1>2, <2>1
  <2>3. reached[created + 1] = 0
    <3>1. ~(reached[created + 1] > 0)
      BY <1>2, <2>1 DEF OneOwner
    <3> QED
      BY <1>2, <2>1, <3>1
  <2>4. \A q \in Path : stream[q] # None => stream[q].inode # created + 1
    BY <1>2, <2>1 DEF OneOwner
  <2>5. ASSUME NEW q \in Path, files'[q] # None, reached[files'[q]] > 0
        PROVE  q # p /\ files'[q] = files[q]
    BY <2>2, <2>3, <2>5
  <2>6. ASSUME NEW q \in Path, stream[q] # None
        PROVE  /\ files'[q] = stream[q].inode => inodes[q] = files'[q]
               /\ files'[q] # None /\ files'[q] # stream[q].inode => reached[files'[q]] = 0
    <3>1. CASE q = p
      BY <2>2, <2>3, <2>4, <2>6, <3>1
    <3>2. CASE q # p
      BY <2>2, <2>6, <3>2 DEF ReadSoFar
    <3> QED
      BY <3>1, <3>2
  <2> QED
    BY <2>1, <2>5, <2>6 DEF ReadSoFar
<1>9. ASSUME NEW p \in Path, Prime(p)
      PROVE  ReadSoFar'
  <2> DEFINE i == files[p]
             pos == Resume(offsets, inodes, byInode, p)
  <2>1. /\ i # None /\ UNCHANGED <<files, content, reached>>
        /\ inodes' = [inodes EXCEPT ![p] = i]
        /\ ReadOn(p, i, pos) \/ UNCHANGED <<stream, offsets>>
    BY <1>1, <1>9 DEF Prime, Phases, Identified
  <2>2. i \in Inode /\ pos \in Offset /\ offsets[p] \in Offset \cup {None}
    BY <1>1, <1>2, <2>1, Resumes, Unfolded DEF TypeOK
  <2>3. inodes'[p] = i /\ \A q \in Path : q # p => inodes'[q] = inodes[q]
    BY <1>2, <2>1
  <2>4. reached[i] > 0 => reached[i] <= pos /\ pos <= Len(content[i])
    <3>1. SUFFICES ASSUME reached[i] > 0
                   PROVE  reached[i] <= pos /\ pos <= Len(content[i])
      OBVIOUS
    <3>2. inodes[p] = i /\ offsets[p] # None /\ reached[i] <= offsets[p] /\ offsets[p] <= Len(content[i])
      BY <2>1, <3>1 DEF ReadSoFar
    <3>3. byInode[i] \in Offset \cup {None}
      BY <1>1, <2>2 DEF TypeOK
    <3>4. /\ offsets[p] # None /\ inodes[p] = files[p] /\ offsets[p] <= Len(content[files[p]])
            => pos = offsets[p]
      BY <1>1, <2>1, <2>2, <3>3, Resumes
    <3>5. pos = offsets[p]
      BY <3>2, <3>4
    <3> QED
      BY <3>2, <3>5
  <2> HIDE DEF pos
  <2>5. CASE ReadOn(p, i, pos)
    <3>1. /\ \A q \in Path : q # p => offsets'[q] = offsets[q] /\ stream'[q] = stream[q]
          /\ AtTheEnd(p, i, pos) \/ AtRequest(p, i, pos)
      BY <1>1, <2>2, <2>5, ReadsOn DEF Phases
    <3>2. stream'[p] # None =>
            stream'[p].inode = i /\ stream'[p].at = "head" /\ reached[i] < stream'[p].pos
      <4>1. SUFFICES ASSUME stream'[p] # None
                     PROVE  stream'[p].inode = i /\ stream'[p].at = "head" /\ reached[i] < stream'[p].pos
        OBVIOUS
      <4>2. PICK n \in pos + 1 .. Len(content[i]) : stream'[p] = [at |-> "head", inode |-> i, pos |-> n]
        BY <3>1, <4>1 DEF AtTheEnd, AtRequest
      <4>3. stream'[p].inode = i /\ stream'[p].at = "head" /\ stream'[p].pos = n
        BY <4>2
      <4>4. reached[i] \in Nat /\ pos \in Nat
        BY <1>2, <2>2
      <4> HIDE DEF i
      <4>5. reached[i] < n
        BY <2>4, <4>4
      <4> QED
        BY <4>3, <4>5
    <3>3. reached[i] > 0 =>
            offsets'[p] # None /\ reached[i] <= offsets'[p] /\ offsets'[p] <= Len(content[i])
      <4>1. CASE AtTheEnd(p, i, pos)
        <5>1. offsets'[p] = Len(content[i]) /\ reached[i] \in Nat /\ pos \in Nat /\ Len(content[i]) \in Nat
          BY <1>2, <2>2, <4>1 DEF AtTheEnd
        <5>2. Len(content[i]) # None
          BY <5>1, FileSourceAssumption
        <5> HIDE DEF i
        <5> QED
          BY <2>4, <5>1, <5>2
      <4>2. CASE AtRequest(p, i, pos)
        BY <2>1, <4>2 DEF AtRequest, ReadSoFar
      <4> QED
        BY <3>1, <4>1, <4>2
    <3>4. ASSUME NEW q \in Path, stream'[q] # None
          PROVE  /\ files[q] = stream'[q].inode => inodes'[q] = files[q]
                 /\ files[q] # None /\ files[q] # stream'[q].inode => reached[files[q]] = 0
                 /\ stream'[q].at = "head" => reached[stream'[q].inode] < stream'[q].pos
                 /\ stream'[q].at = "given" => reached[stream'[q].inode] <= stream'[q].pos
      <4>1. CASE q = p
        BY <2>3, <3>2, <3>4, <4>1
      <4>2. CASE q # p
        BY <2>3, <3>1, <3>4, <4>2 DEF ReadSoFar
      <4> QED
        BY <4>1, <4>2
    <3>5. ASSUME NEW q \in Path, files[q] # None, reached[files[q]] > 0
          PROVE  /\ inodes'[q] = files[q] /\ offsets'[q] # None
                 /\ reached[files[q]] <= offsets'[q] /\ offsets'[q] <= Len(content[files[q]])
      <4>1. CASE q = p
        BY <2>3, <3>3, <3>5, <4>1
      <4>2. CASE q # p
        BY <2>3, <3>1, <3>5, <4>2 DEF ReadSoFar
      <4> QED
        BY <4>1, <4>2
    <3> QED
      BY <2>1, <3>4, <3>5 DEF ReadSoFar
  <2>6. CASE UNCHANGED <<stream, offsets>>
    <3>1. \A q \in Path : inodes'[q] = files[q] \/ inodes'[q] = inodes[q]
      BY <2>3
    <3> QED
      BY <2>1, <2>6, <3>1 DEF ReadSoFar
  <2> QED
    BY <2>1, <2>5, <2>6

<1>10. ASSUME NEW p \in Path, Yield(p)
       PROVE  ReadSoFar'
  <2> DEFINE s == stream[p]
             i == stream[p].inode
             n == stream[p].pos
  <2>1. /\ s # None /\ UNCHANGED <<files, content, inodes>>
        /\ offsets' = [offsets EXCEPT ![p] = n]
        /\ reached' = [reached EXCEPT ![i] = n]
        /\ stream' = [stream EXCEPT ![p] = [s EXCEPT !.at = "given"]]
    BY <1>10 DEF Yield, Record
  <2>2. i \in Inode /\ n \in Offset /\ n \in Nat /\ n <= Len(content[i]) /\ n # None
        /\ s = [at |-> s.at, inode |-> i, pos |-> n]
    BY <1>1, <1>2, <2>1, Unfolded
  <2>3. \A q \in Path : stream[q] # None /\ q # p => stream[q].inode # i
    BY <2>1 DEF OneOwner
  <2>4. \A q \in Path : files[q] = i => q = p
    BY <2>1 DEF OneOwner
  <2>5. files[p] = i => inodes[p] = files[p]
    BY <2>1 DEF ReadSoFar
  <2>6. files[p] # None /\ files[p] # i => reached[files[p]] = 0
    BY <2>1 DEF ReadSoFar
  <2> HIDE DEF s, i, n
  <2>7. /\ stream'[p] = [s EXCEPT !.at = "given"] /\ offsets'[p] = n
        /\ \A q \in Path : q # p => stream'[q] = stream[q] /\ offsets'[q] = offsets[q]
    BY <1>2, <2>1
  <2>8. stream'[p].inode = i /\ stream'[p].pos = n /\ stream'[p].at = "given"
    BY <2>2, <2>7
  <2>9. reached'[i] = n /\ \A j \in Inode : j # i => reached'[j] = reached[j]
    BY <1>2, <2>1, <2>2
  <2>10. ASSUME NEW q \in Path, files[q] # None, reached'[files[q]] > 0
         PROVE  /\ inodes[q] = files[q] /\ offsets'[q] # None
                /\ reached'[files[q]] <= offsets'[q] /\ offsets'[q] <= Len(content[files[q]])
    <3>1. CASE files[q] = i
      BY <2>2, <2>4, <2>5, <2>7, <2>9, <3>1
    <3>2. CASE files[q] # i
      <4>1. files[q] \in Inode /\ reached'[files[q]] = reached[files[q]]
        BY <1>2, <2>9, <2>10, <3>2
      <4>2. q # p
        BY <2>6, <2>10, <3>2, <4>1
      <4> QED
        BY <2>7, <2>10, <4>1, <4>2 DEF ReadSoFar
    <3> QED
      BY <3>1, <3>2
  <2>11. ASSUME NEW q \in Path, stream'[q] # None
         PROVE  /\ files[q] = stream'[q].inode => inodes[q] = files[q]
                /\ files[q] # None /\ files[q] # stream'[q].inode => reached'[files[q]] = 0
                /\ stream'[q].at = "head" => reached'[stream'[q].inode] < stream'[q].pos
                /\ stream'[q].at = "given" => reached'[stream'[q].inode] <= stream'[q].pos
    <3>1. CASE q = p
      <4>1. files[p] # None /\ files[p] # i => reached'[files[p]] = 0
        BY <1>2, <2>6, <2>9
      <4> QED
        BY <2>2, <2>5, <2>8, <2>9, <3>1, <4>1
    <3>2. CASE q # p
      <4>1. stream'[q] = stream[q] /\ stream[q] # None
        BY <2>7, <2>11, <3>2
      <4>2. stream[q].inode \in Inode /\ stream[q].inode # i /\ files[q] # i
        BY <1>2, <2>3, <2>4, <3>2, <4>1
      <4>3. reached'[stream[q].inode] = reached[stream[q].inode]
        BY <2>9, <4>2
      <4>4. files[q] # None => reached'[files[q]] = reached[files[q]]
        BY <1>2, <2>9, <4>2
      <4> QED
        BY <4>1, <4>3, <4>4 DEF ReadSoFar
    <3> QED
      BY <3>1, <3>2
  <2> QED
    BY <2>1, <2>10, <2>11 DEF ReadSoFar
<1>11. ASSUME NEW p \in Path, Resumed(p)
       PROVE  ReadSoFar'
  <2> DEFINE i == stream[p].inode
             n == stream[p].pos
  <2>1. /\ stream[p] # None /\ stream[p].at = "given" /\ UNCHANGED <<files, content, inodes, reached>>
        /\ ReadOn(p, i, n)
    BY <1>11 DEF Resumed
  <2>2. /\ i \in Inode /\ n \in Offset /\ n \in Nat /\ n <= Len(content[i])
        /\ reached[i] \in Nat /\ Len(content[i]) \in Nat
    BY <1>2, <2>1
  <2>3. /\ files[p] = i => inodes[p] = files[p]
        /\ files[p] # None /\ files[p] # i => reached[files[p]] = 0
        /\ reached[i] <= n
    BY <2>1 DEF ReadSoFar
  <2> HIDE DEF i, n
  <2>4. /\ \A q \in Path : q # p => offsets'[q] = offsets[q] /\ stream'[q] = stream[q]
        /\ AtTheEnd(p, i, n) \/ AtRequest(p, i, n)
    BY <1>1, <2>1, <2>2, ReadsOn DEF Phases
  <2>5. stream'[p] # None =>
          stream'[p].inode = i /\ stream'[p].at = "head" /\ reached[i] < stream'[p].pos
    <3>1. SUFFICES ASSUME stream'[p] # None
                   PROVE  stream'[p].inode = i /\ stream'[p].at = "head" /\ reached[i] < stream'[p].pos
      OBVIOUS
    <3>2. PICK m \in n + 1 .. Len(content[i]) : stream'[p] = [at |-> "head", inode |-> i, pos |-> m]
      BY <2>4, <3>1 DEF AtTheEnd, AtRequest
    <3>3. stream'[p].inode = i /\ stream'[p].at = "head" /\ stream'[p].pos = m
      BY <3>2
    <3>4. reached[i] < m
      BY <2>2, <2>3
    <3> QED
      BY <3>3, <3>4
  <2>6. ASSUME NEW q \in Path, files[q] # None, reached[files[q]] > 0
        PROVE  /\ inodes[q] = files[q] /\ offsets'[q] # None
               /\ reached[files[q]] <= offsets'[q] /\ offsets'[q] <= Len(content[files[q]])
    <3>1. CASE q # p \/ AtRequest(p, i, n)
      <4>1. offsets'[q] = offsets[q]
        BY <2>4, <3>1 DEF AtRequest
      <4> QED
        BY <2>6, <4>1 DEF ReadSoFar
    <3>2. CASE q = p /\ AtTheEnd(p, i, n)
      <4>1. files[p] = i /\ inodes[p] = files[p]
        BY <2>3, <2>6, <3>2
      <4>2. offsets'[p] = Len(content[i]) /\ Len(content[i]) # None
        BY <2>2, <3>2, Numbers, FileSourceAssumption DEF AtTheEnd
      <4> QED
        BY <2>2, <2>3, <3>2, <4>1, <4>2
    <3> QED
      BY <2>4, <3>1, <3>2
  <2>7. ASSUME NEW q \in Path, stream'[q] # None
        PROVE  /\ files[q] = stream'[q].inode => inodes[q] = files[q]
               /\ files[q] # None /\ files[q] # stream'[q].inode => reached[files[q]] = 0
               /\ stream'[q].at = "head" => reached[stream'[q].inode] < stream'[q].pos
               /\ stream'[q].at = "given" => reached[stream'[q].inode] <= stream'[q].pos
    <3>1. CASE q = p
      BY <2>3, <2>5, <2>7, <3>1
    <3>2. CASE q # p
      BY <2>4, <2>7, <3>2 DEF ReadSoFar
    <3> QED
      BY <3>1, <3>2
  <2> QED
    BY <2>1, <2>6, <2>7 DEF ReadSoFar
<1> QED
  BY <1>4, <1>5, <1>7, <1>8, <1>9, <1>10, <1>11 DEF Next

\* The action property InFileOrder of FileSource (_read_file and read in
\* ingest/file.py): within a life of the process every request of a file is given
\* after the ones before it and once, whatever is renamed, rotated or appended
\* between the passes.
THEOREM RequestsInFileOrder == Spec => InFileOrder
<1> DEFINE Order == Shape /\ OneOwner /\ ReadSoFar
<1>1. Init => Order
  BY ShapeInit, OrderInit
<1>2. Order /\ [Next]_vars => Order'
  BY ShapeStep, OwnerStep, ReadSoFarStep
<1>3. Order /\ [Next]_vars =>
        [\A p \in Path : stream'[p] # None /\ stream'[p].at = "given" /\ pc = "merge"
                         => stream'[p].pos > reached[stream'[p].inode]]_vars
  <2> SUFFICES ASSUME Order, [Next]_vars, vars' # vars, NEW p \in Path,
                      stream'[p] # None, stream'[p].at = "given", pc = "merge"
               PROVE  stream'[p].pos > reached[stream'[p].inode]
    OBVIOUS
  <2> USE DEF diskVars, positionVars, passVars, boundVars
  <2>1. TypeOK /\ Phases
    BY DEF Shape
  <2>2. stream'[p] # stream[p]
    BY <2>1 DEF Phases
  <2>3. PICK q \in Path : Prime(q) \/ Yield(q) \/ Resumed(q)
    BY <2>1, <2>2 DEF Next, vars, EndPass, NextPass, Save, Start, Crash, Rotate, Rekey, WriteLine, Nowhere
  <2>4. CASE Prime(q)
    <3>1. files[q] # None /\ ReadOn(q, files[q], Resume(offsets, inodes, byInode, q))
      BY <2>1, <2>2, <2>4 DEF Prime, Phases
    <3>2. files[q] \in Inode /\ Resume(offsets, inodes, byInode, q) \in Offset
      BY <2>1, <3>1, Resumes, Unfolded DEF TypeOK
    <3>3. /\ p # q => stream'[p] = stream[p]
          /\ \/ AtTheEnd(q, files[q], Resume(offsets, inodes, byInode, q))
             \/ AtRequest(q, files[q], Resume(offsets, inodes, byInode, q))
      BY <2>1, <3>1, <3>2, ReadsOn DEF Phases
    <3> QED
      BY <2>2, <3>2, <3>3, GoesOn
  <2>5. CASE Yield(q)
    <3>1. stream[q] # None /\ stream' = [stream EXCEPT ![q] = [stream[q] EXCEPT !.at = "given"]]
      BY <2>5 DEF Yield
    <3>2. p = q
      BY <2>1, <2>2, <3>1 DEF TypeOK
    <3>3. /\ stream[p] = [at |-> stream[p].at, inode |-> stream[p].inode, pos |-> stream[p].pos]
          /\ stream[p].inode \in Inode /\ stream[p].pos \in Offset
      BY <2>1, <3>1, <3>2, Unfolded
    <3>4. stream'[p].inode = stream[p].inode /\ stream'[p].pos = stream[p].pos
      BY <2>1, <3>1, <3>2, <3>3 DEF TypeOK
    <3>5. reached[stream[p].inode] < stream[p].pos
      BY <2>1, <3>1, <3>2 DEF ReadSoFar, Phases
    <3>6. reached[stream[p].inode] \in Nat /\ stream[p].pos \in Nat
      BY <2>1, <3>3, Numbers DEF TypeOK
    <3> QED
      BY <3>4, <3>5, <3>6
  <2>6. CASE Resumed(q)
    BY <2>6 DEF Resumed
  <2> QED
    BY <2>3, <2>4, <2>5, <2>6
<1> QED
  BY <1>1, <1>2, <1>3, PTL DEF Spec, InFileOrder
=============================================================================
