--------------------------- MODULE EvidenceProofs --------------------------
(***************************************************************************)
(* Theorems of Evidence, for any addresses, sites, paths, answers, buckets *)
(* and limits, and of Sessions, for any entities, paths, codes and gaps.   *)
(*                                                                         *)
(* Evidence: Typed and Held are what every other invariant rests on: an    *)
(* aggregate counts the open windows of its address and goes with the last *)
(* of them, and they are closed together.  On that stand MemoryInv (a      *)
(* closed bucket adds one entry, or completes one a stop cut short),       *)
(* SitesInv (what a site and a directory are remembered to have answered   *)
(* is part of all they answered, and all of it while it is no more than    *)
(* is kept), DownloadsInv (of every file an address got, the aggregate or  *)
(* one closed window carries the largest body) and LimitsInv.              *)
(*                                                                         *)
(* Sessions: a visit's clock is the latest of its events and none of them  *)
(* came after a gap (SessionsInv), its sequences are its events' (ToldInv) *)
(* and the counters are the numbers of what there is (CountsInv).          *)
(***************************************************************************)
EXTENDS Evidence, Sessions, FiniteSetTheorems, SequenceTheorems, WellFoundedInduction, TLAPS

-----------------------------------------------------------------------------
(* Sets of naturals.                                                       *)

LEMMA Least ==
    ASSUME NEW T \in SUBSET Nat, T # {}
    PROVE  \E x \in T : \A y \in T : x <= y
<1>1. IsWellFoundedOn({p \in Nat \X Nat : p[1] < p[2]}, Nat)
  BY NatLessThanWellFounded, SMT DEF OpToRel
<1>2. PICK x \in T : \A y \in T : ~(<<y, x>> \in {p \in Nat \X Nat : p[1] < p[2]})
  BY <1>1, WFMin
<1>3. ASSUME NEW y \in T
      PROVE  x <= y
  <2>1. x \in Nat /\ y \in Nat /\ <<y, x>> \in Nat \X Nat
    OBVIOUS
  <2> QED
    BY <1>2, <2>1
<1> QED
  BY <1>3

LEMMA MinIs ==
    ASSUME NEW T \in SUBSET Nat, T # {}
    PROVE  Min(T) \in T /\ \A y \in T : Min(T) <= y
BY Least DEF Min

-----------------------------------------------------------------------------
(* Exposures.                                                              *)

\* The paths that are taken for sensitive files, of any length.
Exposing == {path \in Seq(DOMAIN Tests) : Kind(path) # None}

\* A file is of kind vcs exactly when it is below a repository directory.
LEMMA VcsIs ==
    ASSUME NEW p \in Exposing
    PROVE  /\ p # <<>> /\ Within(p, "vcs_dir") \in SUBSET (1 .. Len(p) - 1)
           /\ Kind(p) = "vcs" <=> Within(p, "vcs_dir") # {}
<1>1. p # <<>> /\ ~Passes(p[1], "published")
  BY DEF Exposing, Kind
<1>2. Within(p, "vcs_dir") # {} => Kind(p) = "vcs"
  BY <1>1 DEF Kind
<1>3. Within(p, "vcs_dir") = {} => Kind(p) # "vcs"
  BY <1>1, Zenon DEF Exposing, Kind
<1> QED
  BY <1>1, <1>2, <1>3 DEF Within

\* The root of a file below a repository: the path to the outermost one, and a slash.
LEMMA RepositoryRoot ==
    ASSUME NEW p \in Exposing, Within(p, "vcs_dir") # {}
    PROVE  LET t == Top(Within(p, "vcs_dir")) IN
           /\ t \in Within(p, "vcs_dir") /\ \A i \in Within(p, "vcs_dir") : t <= i
           /\ t \in 1 .. Len(p) - 1 /\ Len(p) \in Nat
           /\ Len(SubSeq(p, 1, t)) = t
           /\ \A i \in 1 .. t : SubSeq(p, 1, t)[i] = p[i]
           /\ Root(p) = Append(SubSeq(p, 1, t), "/")
           /\ Len(Root(p)) = t + 1 /\ Root(p)[t + 1] = "/"
           /\ \A i \in 1 .. t : Root(p)[i] = p[i]
<1> DEFINE W == Within(p, "vcs_dir")
           t == Top(W)
<1>1. p \in Seq(DOMAIN Tests) /\ Len(p) \in Nat
  BY DEF Exposing
<1>2. t \in W /\ \A i \in W : t <= i
  <2>1. W \in SUBSET Nat /\ W # {}
    BY <1>1, VcsIs
  <2> HIDE DEF W
  <2> QED
    BY <2>1, MinIs DEF Top
<1>3. t \in 1 .. Len(p) - 1
  BY <1>2, VcsIs
<1> HIDE DEF t
<1>4. /\ SubSeq(p, 1, t) \in Seq(DOMAIN Tests) /\ Len(SubSeq(p, 1, t)) = t
      /\ \A i \in 1 .. t : SubSeq(p, 1, t)[i] = p[i]
  BY <1>1, <1>3
<1>5. Root(p) = Append(SubSeq(p, 1, t), "/")
  BY VcsIs DEF Root, t, Exposing
<1>6. /\ Len(Root(p)) = t + 1 /\ Root(p)[t + 1] = "/"
      /\ \A i \in 1 .. t : Root(p)[i] = p[i]
  <2> DEFINE s == SubSeq(p, 1, t)
  <2>1. s \in Seq(DOMAIN Tests \cup {"/"}) /\ Len(s) = t /\ t \in Nat
    BY <1>3, <1>4
  <2> HIDE DEF s
  <2>2. Len(Append(s, "/")) = t + 1 /\ Append(s, "/")[t + 1] = "/"
        /\ \A i \in 1 .. t : Append(s, "/")[i] = s[i]
    BY <2>1
  <2> QED
    BY <1>4, <1>5, <2>2 DEF s
<1> QED
  BY <1>1, <1>2, <1>3, <1>4, <1>5, <1>6 DEF t

LEMMA SamePrefix ==
    ASSUME NEW T, NEW p \in Seq(T), NEW q \in Seq(T), NEW t \in 0 .. Len(p), t <= Len(q),
           \A i \in 1 .. t : p[i] = q[i]
    PROVE  SubSeq(p, 1, t) = SubSeq(q, 1, t)
<1>1. /\ SubSeq(p, 1, t) \in Seq(T) /\ SubSeq(q, 1, t) \in Seq(T)
      /\ Len(SubSeq(p, 1, t)) = t /\ Len(SubSeq(q, 1, t)) = t
  OBVIOUS
<1>2. \A i \in 1 .. t : SubSeq(p, 1, t)[i] = SubSeq(q, 1, t)[i]
  OBVIOUS
<1> QED
  BY <1>1, <1>2, SeqEqual

LEMMA OneRepository ==
    ASSUME NEW p \in Exposing, NEW q \in Exposing,
           Within(p, "vcs_dir") # {}, Within(q, "vcs_dir") # {}
    PROVE  Root(p) = Root(q) <=> OfOneRepository(p, q)
<1> DEFINE t == Top(Within(p, "vcs_dir"))
           u == Top(Within(q, "vcs_dir"))
<1>1. /\ t \in Within(p, "vcs_dir") /\ \A i \in Within(p, "vcs_dir") : t <= i
      /\ t \in 1 .. Len(p) - 1 /\ Len(p) \in Nat
      /\ Len(SubSeq(p, 1, t)) = t /\ \A i \in 1 .. t : SubSeq(p, 1, t)[i] = p[i]
      /\ Root(p) = Append(SubSeq(p, 1, t), "/")
      /\ Len(Root(p)) = t + 1 /\ \A i \in 1 .. t : Root(p)[i] = p[i]
  BY RepositoryRoot
<1>2. /\ u \in Within(q, "vcs_dir") /\ \A i \in Within(q, "vcs_dir") : u <= i
      /\ u \in 1 .. Len(q) - 1 /\ Len(q) \in Nat
      /\ Len(SubSeq(q, 1, u)) = u /\ \A i \in 1 .. u : SubSeq(q, 1, u)[i] = q[i]
      /\ Root(q) = Append(SubSeq(q, 1, u), "/")
      /\ Len(Root(q)) = u + 1 /\ \A i \in 1 .. u : Root(q)[i] = q[i]
  BY RepositoryRoot
<1>3. p \in Seq(DOMAIN Tests) /\ q \in Seq(DOMAIN Tests)
  BY DEF Exposing
<1> HIDE DEF t, u
<1>4. ASSUME Root(p) = Root(q)
      PROVE  OfOneRepository(p, q)
  <2>1. t = u
    BY <1>1, <1>2, <1>4
  <2>2. \A i \in 1 .. t : p[i] = q[i]
    BY <1>1, <1>2, <1>4, <2>1
  <2>3. SubSeq(p, 1, t) = SubSeq(q, 1, t)
    BY <1>1, <1>2, <1>3, <2>1, <2>2, SamePrefix
  <2> QED
    BY <1>1, <1>2, <2>1, <2>3 DEF OfOneRepository
<1>5. ASSUME OfOneRepository(p, q)
      PROVE  Root(p) = Root(q)
  <2>1. PICK i \in Within(p, "vcs_dir") \cap Within(q, "vcs_dir") : SubSeq(p, 1, i) = SubSeq(q, 1, i)
    BY <1>5 DEF OfOneRepository
  <2>2. i \in 1 .. Len(p) - 1 /\ i \in 1 .. Len(q) - 1
    BY <2>1 DEF Within
  <2>3. \A j \in 1 .. i : p[j] = q[j]
    <3> TAKE j \in 1 .. i
    <3>1. SubSeq(p, 1, i)[j] = p[j]
      BY <1>1, <1>3, <2>2
    <3>2. SubSeq(q, 1, i)[j] = q[j]
      BY <1>2, <1>3, <2>2
    <3> QED
      BY <2>1, <3>1, <3>2
  <2>4. t <= i /\ u <= i
    BY <1>1, <1>2, <2>1
  <2>5. t \in Within(q, "vcs_dir")
    BY <1>1, <2>2, <2>3, <2>4 DEF Within
  <2>6. u \in Within(p, "vcs_dir")
    BY <1>2, <2>2, <2>3, <2>4 DEF Within
  <2>7. t = u
    BY <1>1, <1>2, <2>5, <2>6
  <2>8. SubSeq(p, 1, t) = SubSeq(q, 1, t)
    <3>1. t \in 0 .. Len(p) /\ t <= Len(q) /\ \A j \in 1 .. t : p[j] = q[j]
      BY <1>1, <1>2, <2>2, <2>3, <2>4, <2>7
    <3> QED
      BY <1>3, <3>1, SamePrefix
  <2> QED
    BY <1>1, <1>2, <2>7, <2>8
<1> QED
  BY <1>4, <1>5

\* A file outside of repositories is its own root, and no repository has that root.
LEMMA OwnRoot ==
    ASSUME NEW p \in Exposing, Within(p, "vcs_dir") = {}
    PROVE  /\ Root(p) = p
           /\ \A q \in Exposing : Within(q, "vcs_dir") # {} => Root(q) # Root(p)
<1>1. Root(p) = p
  <2>1. Kind(p) # None /\ Kind(p) # "vcs"
    BY VcsIs DEF Exposing
  <2> QED
    BY <2>1 DEF Root
<1>2. ASSUME NEW q \in Exposing, Within(q, "vcs_dir") # {}, Root(q) = p
      PROVE  FALSE
  <2>1. PICK t \in Nat : Len(Root(q)) = t + 1 /\ Root(q)[t + 1] = "/"
    BY <1>2, RepositoryRoot
  <2>2. p[t + 1] \in DOMAIN Tests
    BY <1>2, <2>1 DEF Exposing
  <2> QED
    BY <1>2, <2>1, <2>2, ClassifyAssumption
<1> QED
  BY <1>1, <1>2

\* OneExposureEach, for paths of any length.
LEMMA RootIsExposure ==
    ASSUME NEW p \in Exposing, NEW q \in Exposing
    PROVE  Root(p) = Root(q) <=> SameExposure(p, q)
<1>1. CASE Within(p, "vcs_dir") # {} /\ Within(q, "vcs_dir") # {}
  <2>1. p = q => OfOneRepository(p, q)
    BY <1>1 DEF OfOneRepository
  <2> QED
    BY <1>1, <2>1, OneRepository DEF SameExposure
<1>2. CASE Within(p, "vcs_dir") = {}
  <2>1. ~OfOneRepository(p, q)
    BY <1>2 DEF OfOneRepository
  <2> QED
    BY <1>2, <2>1, OwnRoot DEF SameExposure
<1>3. CASE Within(q, "vcs_dir") = {}
  <2>1. ~OfOneRepository(p, q)
    BY <1>3 DEF OfOneRepository
  <2> QED
    BY <1>3, <2>1, OwnRoot DEF SameExposure
<1> QED
  BY <1>1, <1>2, <1>3

\* Two files of whatever address have one root exactly when they are of one exposure
\* (exposure.py:200): so an alert, an annotation or a verdict about a root is about one
\* thing.  Nothing is assumed of the names.
THEOREM RootsAreExposures == Spec => []OneExposureEach
<1>1. \A depth \in Nat : Sensitive(depth) \subseteq Exposing
  BY DEF Sensitive, Exposing, SeqOf
<1>2. OneExposureEach
  BY <1>1, RootIsExposure, EvidenceAssumption DEF OneExposureEach
<1> QED
  BY <1>2, PTL

-----------------------------------------------------------------------------
(* Sequences: what is in them after they are cut or appended to.           *)

LEMMA AppendIn ==
    ASSUME NEW T, NEW s \in Seq(T), NEW e \in T
    PROVE  /\ Append(s, e) \in Seq(T) /\ Append(s, e) # <<>>
           /\ ToSet(Append(s, e)) = ToSet(s) \cup {e}
<1>1. /\ Append(s, e) \in Seq(T) /\ Len(Append(s, e)) = Len(s) + 1 /\ Len(s) \in Nat
      /\ DOMAIN Append(s, e) = 1 .. Len(s) + 1 /\ DOMAIN s = 1 .. Len(s)
      /\ Append(s, e)[Len(s) + 1] = e
      /\ \A i \in 1 .. Len(s) : Append(s, e)[i] = s[i]
  OBVIOUS
<1> QED
  BY <1>1 DEF ToSet

LEMMA TailIn ==
    ASSUME NEW T, NEW s \in Seq(T), s # <<>>
    PROVE  /\ Tail(s) \in Seq(T) /\ Len(Tail(s)) = Len(s) - 1
           /\ ToSet(Tail(s)) \subseteq ToSet(s)
<1>1. /\ Tail(s) \in Seq(T) /\ Len(Tail(s)) = Len(s) - 1 /\ Len(s) \in Nat /\ Len(s) >= 1
      /\ DOMAIN Tail(s) = 1 .. Len(s) - 1 /\ DOMAIN s = 1 .. Len(s)
      /\ \A i \in 1 .. Len(s) - 1 : Tail(s)[i] = s[i + 1]
  OBVIOUS
<1> QED
  BY <1>1 DEF ToSet

LEMMA SubSeqIn ==
    ASSUME NEW T, NEW s \in Seq(T), NEW m \in Nat \ {0}, NEW n \in Nat, n <= Len(s)
    PROVE  /\ SubSeq(s, m, n) \in Seq(T)
           /\ ToSet(SubSeq(s, m, n)) \subseteq ToSet(s)
           /\ Len(SubSeq(s, m, n)) = IF m <= n THEN n - m + 1 ELSE 0
<1>1. /\ SubSeq(s, m, n) \in Seq(T) /\ DOMAIN s = 1 .. Len(s) /\ Len(s) \in Nat
      /\ DOMAIN SubSeq(s, m, n) = 1 .. Len(SubSeq(s, m, n))
      /\ Len(SubSeq(s, m, n)) = IF m <= n THEN n - m + 1 ELSE 0
      /\ \A i \in 1 .. Len(SubSeq(s, m, n)) : SubSeq(s, m, n)[i] = s[m + i - 1]
  OBVIOUS
<1> QED
  BY <1>1 DEF ToSet

LEMMA ConcatIn ==
    ASSUME NEW T, NEW s \in Seq(T), NEW t \in Seq(T)
    PROVE  s \o t \in Seq(T) /\ ToSet(s \o t) \subseteq ToSet(s) \cup ToSet(t)
<1>1. /\ s \o t \in Seq(T) /\ DOMAIN s = 1 .. Len(s) /\ Len(s) \in Nat
      /\ DOMAIN t = 1 .. Len(t) /\ Len(t) \in Nat /\ DOMAIN (s \o t) = 1 .. Len(s) + Len(t)
      /\ \A i \in 1 .. Len(s) + Len(t) : (s \o t)[i] = IF i <= Len(s) THEN s[i] ELSE t[i - Len(s)]
  OBVIOUS
<1> QED
  BY <1>1 DEF ToSet

LEMMA RemoveAtIn ==
    ASSUME NEW T, NEW s \in Seq(T), NEW i \in DOMAIN s
    PROVE  RemoveAt(s, i) \in Seq(T) /\ ToSet(RemoveAt(s, i)) \subseteq ToSet(s)
<1>1. Len(s) \in Nat /\ i \in 1 .. Len(s)
  OBVIOUS
<1>2. SubSeq(s, 1, i - 1) \in Seq(T) /\ ToSet(SubSeq(s, 1, i - 1)) \subseteq ToSet(s)
  BY <1>1, SubSeqIn
<1>3. SubSeq(s, i + 1, Len(s)) \in Seq(T) /\ ToSet(SubSeq(s, i + 1, Len(s))) \subseteq ToSet(s)
  BY <1>1, SubSeqIn
<1>4. /\ RemoveAt(s, i) \in Seq(T)
      /\ ToSet(RemoveAt(s, i)) \subseteq ToSet(SubSeq(s, 1, i - 1)) \cup ToSet(SubSeq(s, i + 1, Len(s)))
  BY <1>2, <1>3, ConcatIn DEF RemoveAt
<1> QED
  BY <1>2, <1>3, <1>4

-----------------------------------------------------------------------------
(* The operators of CatchAll and AddressMemory.                            *)

LEMMA RememberAnswerIs ==
    ASSUME NEW answers \in Seq(Sized), NEW path \in Path, NEW size \in Nat
    PROVE  /\ RememberAnswer(answers, path, size) \in Seq(Sized)
           /\ ToSet(RememberAnswer(answers, path, size))
                \subseteq ToSet(answers) \cup {[path |-> path, size |-> size]}
<1> DEFINE known == {i \in DOMAIN answers : answers[i].path = path}
           others == IF known = {} THEN answers ELSE RemoveAt(answers, CHOOSE i \in known : TRUE)
           answer == [path |-> path, size |-> size]
           kept == Append(others, answer)
<1>1. others \in Seq(Sized) /\ ToSet(others) \subseteq ToSet(answers)
  <2>1. CASE known = {}
    BY <2>1
  <2>2. CASE known # {}
    <3>1. (CHOOSE i \in known : TRUE) \in DOMAIN answers
      BY <2>2
    <3> QED
      BY <2>2, <3>1, RemoveAtIn
  <2> QED
    BY <2>1, <2>2
<1>2. answer \in Sized
  BY DEF Sized
<1> HIDE DEF others, answer
<1>3. kept \in Seq(Sized) /\ kept # <<>> /\ ToSet(kept) = ToSet(others) \cup {answer}
  BY <1>1, <1>2, AppendIn
<1>4. RememberAnswer(answers, path, size) = IF Len(kept) > DirAnswers THEN Tail(kept) ELSE kept
  BY DEF RememberAnswer, others, answer
<1> HIDE DEF kept
<1>5. Tail(kept) \in Seq(Sized) /\ ToSet(Tail(kept)) \subseteq ToSet(kept)
  BY <1>3, TailIn
<1> QED
  BY <1>1, <1>3, <1>4, <1>5 DEF answer

LEMMA TrimmedIs ==
    ASSUME NEW recent \in Seq(Entry)
    PROVE  Trimmed(recent) \in Seq(Entry) /\ ToSet(Trimmed(recent)) \subseteq ToSet(recent)
<1>1. Len(recent) \in Nat /\ RecentBuckets \in Nat
  BY AddressMemoryAssumption
<1>2. CASE Len(recent) > RecentBuckets
  <2>1. Len(recent) - RecentBuckets + 1 \in Nat \ {0}
    BY <1>1, <1>2
  <2> QED
    BY <1>1, <1>2, <2>1, SubSeqIn DEF Trimmed
<1> QED
  BY <1>1, <1>2 DEF Trimmed

\* A closed bucket adds an entry of its own, completes a partial one, or changes nothing.
LEMMA CloseBucketIs ==
    ASSUME NEW recent \in Seq(Entry), NEW bucket \in Nat, NEW count \in Nat, NEW partial \in BOOLEAN
    PROVE  LET settled == CloseBucket(recent, bucket, count, partial) IN
           /\ settled \in Seq(Entry)
           /\ \A e \in ToSet(settled) :
                \/ e \in ToSet(recent)
                \/ e = [bucket |-> bucket, events |-> count, partial |-> partial]
                \/ e.bucket = bucket /\ \E f \in ToSet(recent) : f.bucket = bucket /\ f.partial
<1> DEFINE entry == [bucket |-> bucket, events |-> count, partial |-> partial]
           whole == [bucket |-> bucket, events |-> Last(recent).events + count, partial |-> partial]
<1>1. CASE ~LastIs(recent, bucket)
  <2>1. entry \in Entry
    BY DEF Entry
  <2>2. Append(recent, entry) \in Seq(Entry) /\ ToSet(Append(recent, entry)) = ToSet(recent) \cup {entry}
    BY <2>1, AppendIn
  <2>3. CloseBucket(recent, bucket, count, partial) = Trimmed(Append(recent, entry))
    BY <1>1 DEF CloseBucket
  <2> HIDE DEF entry
  <2>4. /\ Trimmed(Append(recent, entry)) \in Seq(Entry)
        /\ ToSet(Trimmed(Append(recent, entry))) \subseteq ToSet(Append(recent, entry))
    BY <2>2, TrimmedIs
  <2> QED
    BY <2>2, <2>3, <2>4 DEF entry
<1>2. CASE LastIs(recent, bucket) /\ Last(recent).partial
  <2>1. /\ recent # <<>> /\ Len(recent) \in Nat /\ Len(recent) >= 1
        /\ Last(recent) = recent[Len(recent)] /\ Last(recent) \in Entry /\ Last(recent) \in ToSet(recent)
        /\ Last(recent).bucket = bucket
    BY <1>2 DEF LastIs, Last, ToSet
  <2>2. whole \in Entry
    BY <2>1 DEF Entry
  <2>3. Front(recent) \in Seq(Entry) /\ ToSet(Front(recent)) \subseteq ToSet(recent)
    BY <2>1, SubSeqIn DEF Front
  <2>4. CloseBucket(recent, bucket, count, partial) = Append(Front(recent), whole)
    BY <1>2 DEF CloseBucket
  <2>5. whole.bucket = bucket
    OBVIOUS
  <2> HIDE DEF whole
  <2>6. /\ Append(Front(recent), whole) \in Seq(Entry)
        /\ ToSet(Append(Front(recent), whole)) = ToSet(Front(recent)) \cup {whole}
    BY <2>2, <2>3, AppendIn
  <2> QED
    BY <1>2, <2>1, <2>3, <2>4, <2>5, <2>6
<1>3. CASE LastIs(recent, bucket) /\ ~Last(recent).partial
  BY <1>3 DEF CloseBucket
<1> QED
  BY <1>1, <1>2, <1>3

\* What a site has answered with.
SizesKept == [size: Nat, paths: SUBSET Path]

LEMMA RememberSizeIs ==
    ASSUME NEW sizes \in Seq(SizesKept), NEW path \in Path, NEW size \in Nat
    PROVE  RememberSize(sizes, path, size) \in Seq(SizesKept)
<1>1. CASE \E i \in DOMAIN sizes : sizes[i].size = size
  <2>1. RememberSize(sizes, path, size) =
          [i \in DOMAIN sizes |-> IF sizes[i].size = size
                                  THEN [sizes[i] EXCEPT !.paths = KeepPaths(@, path)] ELSE sizes[i]]
    BY <1>1 DEF RememberSize
  <2>2. ASSUME NEW i \in DOMAIN sizes
        PROVE  [sizes[i] EXCEPT !.paths = KeepPaths(@, path)] \in SizesKept
    <3>1. sizes[i] \in SizesKept
      OBVIOUS
    <3>2. KeepPaths(sizes[i].paths, path) \in SUBSET Path
      BY <3>1 DEF KeepPaths, SizesKept
    <3> QED
      BY <3>1, <3>2 DEF SizesKept
  <2>3. \A i \in DOMAIN sizes : sizes[i] \in SizesKept
    OBVIOUS
  <2>4. DOMAIN sizes = 1 .. Len(sizes) /\ Len(sizes) \in Nat
    OBVIOUS
  <2>5. [i \in DOMAIN sizes |-> IF sizes[i].size = size
                                THEN [sizes[i] EXCEPT !.paths = KeepPaths(@, path)] ELSE sizes[i]]
          \in [1 .. Len(sizes) -> SizesKept]
    BY <2>2, <2>3, <2>4
  <2>6. RememberSize(sizes, path, size) \in Seq(SizesKept)
    BY <2>1, <2>4, <2>5, IsASeq
  <2> QED
    BY <2>6
<1>2. CASE ~\E i \in DOMAIN sizes : sizes[i].size = size
  <2>1. [size |-> size, paths |-> {path}] \in SizesKept
    BY DEF SizesKept
  <2>2. (IF Len(sizes) >= MaxSiteSizes THEN Tail(sizes) ELSE sizes) \in Seq(SizesKept)
    <3>1. MaxSiteSizes \in Nat \ {0} /\ Len(sizes) \in Nat
      BY CatchAllAssumption
    <3>2. Len(sizes) >= MaxSiteSizes => sizes # <<>>
      BY <3>1
    <3> QED
      BY <3>2, TailIn
  <2> QED
    BY <1>2, <2>1, <2>2, AppendIn DEF RememberSize
<1> QED
  BY <1>1, <1>2

-----------------------------------------------------------------------------
(* Types.                                                                  *)

\* A record of an exposure, as a window carries it.
Record == [site: Site, root: {RootOf(path) : path \in Path},
           kind: {Kind(Segments[path]) : path \in Path}, files: SUBSET File]

Typed ==
    /\ running \in BOOLEAN /\ flushing \in BOOLEAN
    /\ open \in [Window -> Nat] /\ IsFiniteSet(Opened) /\ closing \subseteq Opened
    /\ sources \in [Source -> Aggregate]
    /\ siteSizes \in [Site -> Seq(SizesKept)]
    /\ siteDirs \in [Site \X Dir -> Seq(Sized)]
    /\ memory \in [Address -> Seq(Entry)] /\ saved \in [Address -> Seq(Entry)]
    /\ answered \in SUBSET Answer /\ IsFiniteSet(answered)
    /\ got \in [Source -> SUBSET Answer] /\ \A s \in Source : got[s] \subseteq answered
    /\ reports \in [Source -> Seq(SUBSET Record)]
    /\ total \in [Source -> Nat]

LEMMA WindowIs ==
    ASSUME NEW w \in Window
    PROVE  /\ w[1] \in Address /\ w[3] \in Bucket /\ w[3] \in Nat
           /\ SourceOf(w) \in Source /\ SourceOf(w) = <<w[1], w[3]>>
BY EvidenceAssumption DEF Window, SourceOf, Source

LEMMA AnswerIs ==
    ASSUME NEW answer \in Answer
    PROVE  /\ answer.site \in Site /\ answer.path \in Path /\ answer.size \in Nat
           /\ <<answer.site, Parent[answer.path]>> \in Site \X Dir
           /\ answer = [site |-> answer.site, path |-> answer.path, size |-> answer.size]
BY EvidenceAssumption DEF Dir

LEMMA CountedIs ==
    ASSUME NEW agg \in Aggregate, NEW isNew \in BOOLEAN
    PROVE  /\ Counted(agg, isNew) \in Aggregate
           /\ Counted(agg, isNew).count = agg.count + 1
           /\ Counted(agg, isNew).windows = IF isNew THEN agg.windows + 1 ELSE agg.windows
           /\ Counted(agg, isNew).files = agg.files /\ Counted(agg, isNew).unserved = agg.unserved
<1>1. /\ agg.count + 1 \in Nat
      /\ (IF isNew THEN agg.windows + 1 ELSE agg.windows) \in Nat
  BY DEF Aggregate
<1>2. ASSUME NEW c \in Nat, NEW n \in Nat
      PROVE  LET after == [agg EXCEPT !.count = c, !.windows = n] IN
             /\ after \in Aggregate /\ after.count = c /\ after.windows = n
             /\ after.files = agg.files /\ after.unserved = agg.unserved
  BY DEF Aggregate
<1> QED
  BY <1>1, <1>2 DEF Counted

LEMMA NoteUnservedIs ==
    ASSUME NEW agg \in Aggregate, NEW answer \in Answer
    PROVE  /\ NoteUnserved(agg, answer) \in Aggregate
           /\ NoteUnserved(agg, answer).count = agg.count
           /\ NoteUnserved(agg, answer).windows = agg.windows
           /\ NoteUnserved(agg, answer).files = agg.files
           /\ NoteUnserved(agg, answer).unserved =
                 IF answer.path \in Served THEN agg.unserved
                 ELSE agg.unserved \cup {[path |-> answer.path, size |-> answer.size]}
<1>1. [path |-> answer.path, size |-> answer.size] \in Sized
  BY AnswerIs DEF Sized
<1> QED
  BY <1>1 DEF NoteUnserved, Aggregate

LEMMA NoteExposureIs ==
    ASSUME NEW agg \in Aggregate, NEW answer \in Answer, NEW siblings \in Seq(Sized)
    PROVE  LET known == {f \in agg.files : f.site = answer.site /\ f.path = answer.path}
               file  == [site |-> answer.site, path |-> answer.path, size |-> answer.size,
                         seen |-> ToSet(siblings)]
               noted == NoteExposure(agg, answer, siblings)
           IN  /\ noted \in Aggregate
               /\ noted.count = agg.count /\ noted.windows = agg.windows
               /\ noted.unserved = agg.unserved
               /\ noted.files =
                     IF RootOf(answer.path) = None \/ \E f \in known : f.size >= answer.size
                     THEN agg.files ELSE (agg.files \ known) \cup {file}
<1> DEFINE known == {f \in agg.files : f.site = answer.site /\ f.path = answer.path}
           file  == [site |-> answer.site, path |-> answer.path, size |-> answer.size,
                     seen |-> ToSet(siblings)]
           noted == NoteExposure(agg, answer, siblings)
<1>1. file \in File
  <2>1. ToSet(siblings) \in SUBSET Sized
    BY DEF ToSet
  <2> QED
    BY <2>1, AnswerIs DEF File
<1>2. noted = IF RootOf(answer.path) = None \/ \E f \in known : f.size >= answer.size THEN agg
              ELSE [agg EXCEPT !.files = (@ \ known) \cup {file}]
  BY DEF NoteExposure
<1> HIDE DEF file
<1>3. known \subseteq agg.files
  OBVIOUS
<1> HIDE DEF known, noted
<1>4. /\ noted \in Aggregate
      /\ noted.count = agg.count /\ noted.windows = agg.windows /\ noted.unserved = agg.unserved
      /\ noted.files = IF RootOf(answer.path) = None \/ \E f \in known : f.size >= answer.size
                       THEN agg.files ELSE (agg.files \ known) \cup {file}
  BY <1>1, <1>2, <1>3 DEF Aggregate
<1> QED
  BY <1>4 DEF known, file, noted

LEMMA ReleasedIs ==
    ASSUME NEW agg \in Aggregate, agg.windows > 0
    PROVE  /\ Released(agg) \in Aggregate
           /\ Released(agg).windows = agg.windows - 1
           /\ Released(agg).files = {}
           /\ agg.windows = 1 => Released(agg) = NoAggregate
           /\ Released(agg).count = IF agg.windows = 1 THEN 0 ELSE agg.count
<1>1. CASE agg.windows = 1
  BY <1>1 DEF Released, NoAggregate, Aggregate
<1>2. CASE agg.windows # 1
  <2>1. agg.windows \in Nat /\ agg.windows - 1 \in Nat
    BY DEF Aggregate
  <2>2. Released(agg) = [agg EXCEPT !.windows = agg.windows - 1, !.files = {}]
    BY <1>2 DEF Released
  <2> QED
    BY <1>2, <2>1, <2>2 DEF Aggregate
<1> QED
  BY <1>1, <1>2

LEMMA RecordsIs ==
    ASSUME NEW files \in SUBSET File
    PROVE  Records(files) \in SUBSET Record
<1>1. ASSUME NEW f \in files
      PROVE  f.site \in Site /\ RootOf(f.path) \in {RootOf(path) : path \in Path}
             /\ Kind(Segments[f.path]) \in {Kind(Segments[path]) : path \in Path}
  BY DEF File
<1> QED
  BY <1>1 DEF Records, Record

\* The aggregate after an event, and the answers of its directory.
Siblings(answer) ==
    RememberAnswer(siteDirs[<<answer.site, Parent[answer.path]>>], answer.path, answer.size)

Folded(w, answer) ==
    LET agg == Counted(sources[SourceOf(w)], open[w] = 0) IN
    IF answer = None THEN agg
    ELSE NoteExposure(NoteUnserved(agg, answer), answer, Siblings(answer))

LEMMA FoldedIs ==
    ASSUME Typed, NEW w \in Window, NEW answer \in Answer \cup {None}
    PROVE  /\ Folded(w, answer) \in Aggregate
           /\ Folded(w, answer).count = sources[SourceOf(w)].count + 1
           /\ Folded(w, answer).windows = IF open[w] = 0 THEN sources[SourceOf(w)].windows + 1
                                                         ELSE sources[SourceOf(w)].windows
           /\ answer # None => Siblings(answer) \in Seq(Sized)
<1> DEFINE agg == Counted(sources[SourceOf(w)], open[w] = 0)
<1>1. /\ agg \in Aggregate /\ agg.count = sources[SourceOf(w)].count + 1
      /\ agg.windows = IF open[w] = 0 THEN sources[SourceOf(w)].windows + 1
                                      ELSE sources[SourceOf(w)].windows
  BY WindowIs, CountedIs DEF Typed
<1> HIDE DEF agg
<1>2. CASE answer = None
  BY <1>1, <1>2 DEF Folded, agg
<1>3. CASE answer # None
  <2>1. answer \in Answer
    BY <1>3
  <2>2. Siblings(answer) \in Seq(Sized)
    BY <2>1, AnswerIs, RememberAnswerIs DEF Siblings, Typed
  <2>3. /\ NoteUnserved(agg, answer) \in Aggregate
        /\ NoteUnserved(agg, answer).count = agg.count
        /\ NoteUnserved(agg, answer).windows = agg.windows
    BY <1>1, <2>1, NoteUnservedIs
  <2> DEFINE base == NoteUnserved(agg, answer)
  <2>4. Folded(w, answer) = NoteExposure(base, answer, Siblings(answer))
    BY <1>3 DEF Folded, agg
  <2> HIDE DEF base
  <2>5. ASSUME NEW siblings \in Seq(Sized), NEW b \in Aggregate
        PROVE  /\ NoteExposure(b, answer, siblings) \in Aggregate
               /\ NoteExposure(b, answer, siblings).count = b.count
               /\ NoteExposure(b, answer, siblings).windows = b.windows
    BY <2>1, NoteExposureIs
  <2>6. base \in Aggregate /\ base.count = agg.count /\ base.windows = agg.windows
    BY <2>3 DEF base
  <2> QED
    BY <1>1, <2>2, <2>4, <2>5, <2>6
<1> QED
  BY <1>2, <1>3

LEMMA AddIs ==
    ASSUME Typed, NEW w \in Window, NEW answer \in Answer \cup {None}, Add(w, answer)
    PROVE  /\ sources' = [sources EXCEPT ![SourceOf(w)] = Folded(w, answer)]
           /\ Opened' = Opened \cup {w}
           /\ siteSizes' = IF answer = None THEN siteSizes
                           ELSE [siteSizes EXCEPT ![answer.site] =
                                    RememberSize(@, answer.path, answer.size)]
           /\ siteDirs' = IF answer = None THEN siteDirs
                          ELSE [siteDirs EXCEPT ![<<answer.site, Parent[answer.path]>>] =
                                    Siblings(answer)]
           /\ answered' = answered \cup ({answer} \ {None})
<1>1. Opened' = Opened \cup {w}
  BY DEF Typed, Add, Opened
<1>2. CASE answer = None
  BY <1>1, <1>2 DEF Typed, Add, Miss, Folded
<1>3. CASE answer # None
  BY <1>1, <1>3 DEF Typed, Add, Hit, Folded, Siblings
<1> QED
  BY <1>2, <1>3

LEMMA CloseIs ==
    ASSUME Typed, NEW w \in Window, Close(w)
    PROVE  /\ w \in closing /\ w \in Opened
           /\ Opened' = Opened \ {w} /\ closing' = closing \ {w}
BY DEF Typed, Close, Opened

LEMMA TypedInit == Init => Typed
<1> SUFFICES ASSUME Init
             PROVE  Typed
  OBVIOUS
<1>1. Opened = {} /\ IsFiniteSet(Opened)
  <2>1. Opened = {}
    BY DEF Init, NothingOpen, Opened
  <2> QED
    BY <2>1, FS_EmptySet
<1>2. NoAggregate \in Aggregate
  BY DEF NoAggregate, Aggregate
<1>3. /\ siteSizes \in [Site -> Seq(SizesKept)] /\ siteDirs \in [Site \X Dir -> Seq(Sized)]
      /\ memory \in [Address -> Seq(Entry)] /\ saved \in [Address -> Seq(Entry)]
      /\ reports \in [Source -> Seq(SUBSET Record)]
  BY EmptySeq DEF Init, NoSizes, NoDirs
<1>4. answered \in SUBSET Answer /\ IsFiniteSet(answered)
  BY FS_EmptySet DEF Init
<1> QED
  BY <1>1, <1>2, <1>3, <1>4 DEF Init, Typed, NothingOpen, NoSources

LEMMA TypedAdd ==
    ASSUME Typed, NEW w \in Window, NEW answer \in Answer \cup {None}, Add(w, answer)
    PROVE  Typed'
<1> DEFINE s == SourceOf(w)
<1>1. s \in Source
  BY WindowIs
<1>2. Folded(w, answer) \in Aggregate
  BY FoldedIs
<1>3. open' \in [Window -> Nat] /\ IsFiniteSet(Opened') /\ closing' \subseteq Opened'
      /\ running' \in BOOLEAN /\ flushing' \in BOOLEAN
  <2>1. Opened' = Opened \cup {w}
    BY AddIs
  <2>2. IsFiniteSet(Opened \cup {w})
    BY FS_AddElement DEF Typed
  <2> QED
    BY <2>1, <2>2 DEF Typed, Add
<1>4. sources' \in [Source -> Aggregate]
  <2>1. sources' = [sources EXCEPT ![s] = Folded(w, answer)]
    BY AddIs
  <2> QED
    BY <1>1, <1>2, <2>1 DEF Typed
<1>5. siteSizes' \in [Site -> Seq(SizesKept)]
  <2>1. CASE answer = None
    BY <2>1, AddIs DEF Typed
  <2>2. CASE answer # None
    <3>1. answer \in Answer /\ answer.site \in Site
      BY <2>2, AnswerIs
    <3>2. RememberSize(siteSizes[answer.site], answer.path, answer.size) \in Seq(SizesKept)
      BY <3>1, AnswerIs, RememberSizeIs DEF Typed
    <3>3. siteSizes' = [siteSizes EXCEPT ![answer.site] =
                           RememberSize(siteSizes[answer.site], answer.path, answer.size)]
      BY <2>2, AddIs
    <3> QED
      BY <3>1, <3>2, <3>3 DEF Typed
  <2> QED
    BY <2>1, <2>2
<1>6. siteDirs' \in [Site \X Dir -> Seq(Sized)]
  <2>1. CASE answer = None
    BY <2>1, AddIs DEF Typed
  <2>2. CASE answer # None
    <3>1. answer \in Answer /\ <<answer.site, Parent[answer.path]>> \in Site \X Dir
      BY <2>2, AnswerIs
    <3>2. siteDirs' = [siteDirs EXCEPT ![<<answer.site, Parent[answer.path]>>] = Siblings(answer)]
      BY <2>2, AddIs
    <3>3. Siblings(answer) \in Seq(Sized)
      BY <2>2, FoldedIs
    <3> QED
      BY <3>1, <3>2, <3>3 DEF Typed
  <2> QED
    BY <2>1, <2>2
<1>7. answered' \in SUBSET Answer /\ IsFiniteSet(answered') /\ answered \subseteq answered'
  <2>1. answered' = answered \cup ({answer} \ {None})
    BY AddIs
  <2>2. CASE answer = None
    BY <2>1, <2>2 DEF Typed
  <2>3. CASE answer # None
    <3>1. answered' = answered \cup {answer}
      BY <2>1, <2>3
    <3> QED
      BY <2>3, <3>1, FS_AddElement DEF Typed
  <2> QED
    BY <2>2, <2>3
<1>8. got' \in [Source -> SUBSET Answer] /\ \A t \in Source : got'[t] \subseteq answered'
  <2> DEFINE isNew == sources[s].windows = 0
             now == (IF isNew THEN {} ELSE got[s]) \cup ({answer} \ {None})
  <2>1. got' = [got EXCEPT ![s] = now]
    BY DEF Add
  <2>2. {answer} \ {None} \subseteq answered'
    BY AddIs
  <2>3. got[s] \subseteq answered'
    BY <1>1, <1>7 DEF Typed
  <2>4. now \in SUBSET Answer /\ now \subseteq answered'
    BY <1>7, <2>2, <2>3
  <2> HIDE DEF now
  <2> QED
    BY <1>1, <1>7, <2>1, <2>4 DEF Typed
<1>9. reports' \in [Source -> Seq(SUBSET Record)]
  <2>1. <<>> \in Seq(SUBSET Record)
    OBVIOUS
  <2> QED
    BY <1>1, <2>1 DEF Typed, Add
<1>10. memory' = memory /\ saved' = saved /\ total' \in [Source -> Nat]
  BY <1>1 DEF Typed, Add
<1> QED
  BY <1>3, <1>4, <1>5, <1>6, <1>7, <1>8, <1>9, <1>10 DEF Typed

LEMMA TypedClose ==
    ASSUME Typed, NEW w \in Window, Close(w), sources[SourceOf(w)].windows > 0
    PROVE  Typed'
<1> DEFINE s == SourceOf(w)
<1>1. /\ s \in Source /\ w[1] \in Address /\ w[3] \in Nat
      /\ sources[s] \in Aggregate /\ sources[s].count \in Nat
  BY WindowIs DEF Typed, Aggregate
<1>2. /\ open' \in [Window -> Nat] /\ IsFiniteSet(Opened') /\ closing' \subseteq Opened'
      /\ running' \in BOOLEAN /\ flushing' \in BOOLEAN
  <2>1. Opened' = Opened \ {w} /\ closing' = closing \ {w}
    BY CloseIs
  <2>2. IsFiniteSet(Opened \ {w})
    BY FS_RemoveElement DEF Typed
  <2> QED
    BY <2>1, <2>2 DEF Typed, Close
<1>3. sources' \in [Source -> Aggregate]
  <2>1. sources' = [sources EXCEPT ![s] = Released(sources[s])]
    BY DEF Close
  <2>2. Released(sources[s]) \in Aggregate
    BY <1>1, ReleasedIs
  <2> QED
    BY <1>1, <2>1, <2>2 DEF Typed
<1>4. memory' \in [Address -> Seq(Entry)]
  <2>1. memory' = [memory EXCEPT ![w[1]] =
                       CloseBucket(memory[w[1]], w[3], sources[s].count, flushing)]
    BY DEF Close
  <2>2. CloseBucket(memory[w[1]], w[3], sources[s].count, flushing) \in Seq(Entry)
    BY <1>1, CloseBucketIs DEF Typed
  <2> QED
    BY <1>1, <2>1, <2>2 DEF Typed
<1>5. reports' \in [Source -> Seq(SUBSET Record)]
  <2> DEFINE carried == Records(Confirmed(sources[s]))
  <2>1. Confirmed(sources[s]) \in SUBSET File
    BY <1>1 DEF Confirmed, Aggregate
  <2>2. carried \in SUBSET Record
    BY <2>1, RecordsIs
  <2>3. reports' = [reports EXCEPT ![s] = Append(@, carried)]
    BY DEF Close
  <2> HIDE DEF carried
  <2>4. Append(reports[s], carried) \in Seq(SUBSET Record)
    BY <1>1, <2>2 DEF Typed
  <2> QED
    BY <1>1, <2>3, <2>4 DEF Typed
<1>6. total' = total
  BY DEF Close
<1>7. UNCHANGED <<siteSizes, siteDirs, saved, answered, got>>
  BY DEF Close, seen
<1> QED
  BY <1>2, <1>3, <1>4, <1>5, <1>6, <1>7 DEF Typed

LEMMA TypedStart ==
    ASSUME Typed, Start
    PROVE  Typed'
<1>1. Opened' = {} /\ IsFiniteSet(Opened')
  <2>1. Opened' = {}
    BY DEF Start, NothingOpen, Opened
  <2> QED
    BY <2>1, FS_EmptySet
<1>2. NoAggregate \in Aggregate
  BY DEF NoAggregate, Aggregate
<1>3. sources' \in [Source -> Aggregate] /\ open' \in [Window -> Nat]
  BY <1>2 DEF Start, NoSources, NothingOpen
<1>4. /\ siteSizes' \in [Site -> Seq(SizesKept)] /\ siteDirs' \in [Site \X Dir -> Seq(Sized)]
      /\ reports' \in [Source -> Seq(SUBSET Record)]
  BY EmptySeq DEF Start, NoSizes, NoDirs
<1>5. memory' \in [Address -> Seq(Entry)]
  <2>1. \A a \in Address : Restored(saved[a]) \in Seq(Entry)
    BY TrimmedIs DEF Restored, Typed
  <2>2. memory' = [a \in Address |-> Restored(saved[a])]
    BY DEF Start, Reloaded, Typed
  <2> QED
    BY <2>1, <2>2
<1>6. answered' \in SUBSET Answer /\ IsFiniteSet(answered') /\ got' \in [Source -> SUBSET Answer]
      /\ \A s \in Source : got'[s] \subseteq answered'
  <2>1. answered' = {} /\ got' = [s \in Source |-> {}]
    BY DEF Start
  <2> QED
    BY <2>1, FS_EmptySet
<1> QED
  BY <1>1, <1>3, <1>4, <1>5, <1>6 DEF Start, Typed, bucketHistory

\* Every step is one of the actions.
LEMMA Steps ==
    ASSUME [Next]_vars
    PROVE  \/ \E w \in Window, answer \in Answer \cup {None} : Add(w, answer)
           \/ \E w \in Window : Close(w)
           \/ \E bucket \in Bucket : Sweep(bucket)
           \/ Flush \/ Kill \/ Start
           \/ /\ UNCHANGED <<open, sources, seen, memory, closing, flushing, history>>
              /\ saved' \in {saved, memory} /\ running' \in {running, FALSE}
              /\ running' = running \/ flushing
BY DEF Next, vars, Save, Stopped, seen, history

LEMMA TypedOther ==
    ASSUME Typed,
           UNCHANGED <<open, sources, seen, memory, answered, got, reports, bucketHistory>>,
           saved' \in {saved, memory}, running' \in BOOLEAN, flushing' \in BOOLEAN,
           closing' \subseteq Opened
    PROVE  Typed'
<1>1. Opened' = Opened
  BY DEF Opened
<1> QED
  BY <1>1 DEF Typed, seen, bucketHistory

-----------------------------------------------------------------------------
(* The windows of an aggregate.                                            *)

OpenOf(s) == {w \in Opened : SourceOf(w) = s}

\* An aggregate counts the open windows of its address in the bucket, and they are
\* closed together.
Held ==
    /\ Typed
    /\ \A s \in Source :
        /\ sources[s].windows = Cardinality(OpenOf(s))
        /\ sources[s].windows = 0 => sources[s] = NoAggregate
    /\ \A v \in closing, w \in Opened : SourceOf(w) = SourceOf(v) => w \in closing

LEMMA OpenOfIs ==
    ASSUME Held, NEW s \in Source
    PROVE  /\ IsFiniteSet(OpenOf(s)) /\ sources[s].windows \in Nat
           /\ sources[s].windows = 0 <=> OpenOf(s) = {}
<1>1. IsFiniteSet(OpenOf(s))
  BY FS_Subset DEF OpenOf, Held, Typed
<1>2. sources[s].windows = Cardinality(OpenOf(s)) /\ Cardinality(OpenOf(s)) \in Nat
  BY <1>1, FS_CardinalityType DEF Held
<1> QED
  BY <1>1, <1>2, FS_EmptySet

LEMMA HeldInit == Init => Held
<1> SUFFICES ASSUME Init
             PROVE  Held
  OBVIOUS
<1>1. Typed
  BY TypedInit
<1>2. Opened = {}
  BY DEF Init, NothingOpen, Opened
<1>3. \A s \in Source : OpenOf(s) = {} /\ sources[s] = NoAggregate
  BY <1>2 DEF Init, NoSources, OpenOf
<1>4. Cardinality({}) = 0 /\ NoAggregate.windows = 0
  BY FS_EmptySet DEF NoAggregate
<1>5. closing = {}
  BY DEF Init
<1> QED
  BY <1>1, <1>3, <1>4, <1>5 DEF Held

LEMMA HeldAdd ==
    ASSUME Held, NEW w \in Window, NEW answer \in Answer \cup {None}, Add(w, answer)
    PROVE  Held'
<1> DEFINE s == SourceOf(w)
<1>1. Typed /\ s \in Source
  BY WindowIs DEF Held
<1>2. Typed'
  BY <1>1, TypedAdd
<1>3. /\ sources' = [sources EXCEPT ![s] = Folded(w, answer)]
      /\ Opened' = Opened \cup {w}
  BY <1>1, AddIs
<1>4. /\ Folded(w, answer).windows = IF open[w] = 0 THEN sources[s].windows + 1 ELSE sources[s].windows
  BY <1>1, FoldedIs
<1>5. /\ IsFiniteSet(OpenOf(s)) /\ sources[s].windows \in Nat
      /\ sources[s].windows = 0 <=> OpenOf(s) = {}
      /\ sources[s].windows = Cardinality(OpenOf(s))
  BY <1>1, OpenOfIs DEF Held
<1>6. open[w] = 0 <=> w \notin OpenOf(s)
  BY <1>1 DEF OpenOf, Opened, Typed
<1>7. OpenOf(s)' = OpenOf(s) \cup {w}
  BY <1>3 DEF OpenOf
<1>8. Cardinality(OpenOf(s) \cup {w}) = IF w \in OpenOf(s) THEN Cardinality(OpenOf(s))
                                         ELSE Cardinality(OpenOf(s)) + 1
  BY <1>5, FS_AddElement
<1>9. sources'[s] = Folded(w, answer) /\ \A t \in Source \ {s} : sources'[t] = sources[t]
  BY <1>1, <1>3 DEF Typed
<1>10. sources'[s].windows = Cardinality(OpenOf(s)') /\ sources'[s].windows # 0
  BY <1>4, <1>5, <1>6, <1>7, <1>8, <1>9
<1>11. \A t \in Source \ {s} : OpenOf(t)' = OpenOf(t)
  BY <1>3 DEF OpenOf
<1>12. \A t \in Source :
          /\ sources'[t].windows = Cardinality(OpenOf(t)')
          /\ sources'[t].windows = 0 => sources'[t] = NoAggregate
  BY <1>9, <1>10, <1>11 DEF Held
<1>13. closing' = {}
  BY DEF Add
<1> QED
  BY <1>2, <1>12, <1>13 DEF Held

LEMMA HeldClose ==
    ASSUME Held, NEW w \in Window, Close(w)
    PROVE  /\ Held'
           /\ SourceOf(w) \in Source /\ sources[SourceOf(w)].windows > 0
           /\ sources'[SourceOf(w)].files = {}
           /\ OpenOf(SourceOf(w)) \subseteq closing
           /\ OpenOf(SourceOf(w))' = OpenOf(SourceOf(w)) \ {w}
           /\ \A t \in Source \ {SourceOf(w)} : sources'[t] = sources[t] /\ OpenOf(t)' = OpenOf(t)
<1> DEFINE s == SourceOf(w)
<1>1. Typed /\ s \in Source
  BY WindowIs DEF Held
<1>2. w \in closing /\ w \in Opened /\ Opened' = Opened \ {w} /\ closing' = closing \ {w}
  BY <1>1, CloseIs
<1>3. /\ IsFiniteSet(OpenOf(s)) /\ sources[s].windows \in Nat
      /\ sources[s].windows = 0 <=> OpenOf(s) = {}
      /\ sources[s].windows = Cardinality(OpenOf(s))
  BY <1>1, OpenOfIs DEF Held
<1>4. w \in OpenOf(s)
  BY <1>2 DEF OpenOf
<1>5. sources[s].windows > 0
  BY <1>3, <1>4
<1>6. Typed'
  BY <1>1, <1>5, TypedClose
<1>7. sources' = [sources EXCEPT ![s] = Released(sources[s])]
  BY DEF Close
<1>8. sources'[s] = Released(sources[s]) /\ \A t \in Source \ {s} : sources'[t] = sources[t]
  BY <1>1, <1>7 DEF Typed
<1>9. /\ Released(sources[s]).windows = sources[s].windows - 1 /\ Released(sources[s]).files = {}
      /\ sources[s].windows = 1 => Released(sources[s]) = NoAggregate
  <2>1. sources[s] \in Aggregate
    BY <1>1 DEF Typed
  <2> QED
    BY <1>5, <2>1, ReleasedIs
<1>10. OpenOf(s)' = OpenOf(s) \ {w} /\ \A t \in Source \ {s} : OpenOf(t)' = OpenOf(t)
  BY <1>2 DEF OpenOf
<1>11. Cardinality(OpenOf(s) \ {w}) = Cardinality(OpenOf(s)) - 1
  BY <1>3, <1>4, FS_RemoveElement
<1>12. \A t \in Source :
          /\ sources'[t].windows = Cardinality(OpenOf(t)')
          /\ sources'[t].windows = 0 => sources'[t] = NoAggregate
  <2>1. ASSUME NEW t \in Source \ {s}
        PROVE  /\ sources'[t].windows = Cardinality(OpenOf(t)')
               /\ sources'[t].windows = 0 => sources'[t] = NoAggregate
    BY <1>8, <1>10 DEF Held
  <2>2. sources'[s].windows = Cardinality(OpenOf(s)')
    BY <1>3, <1>8, <1>9, <1>10, <1>11
  <2>3. sources'[s].windows = 0 => sources'[s] = NoAggregate
    BY <1>3, <1>8, <1>9
  <2> QED
    BY <2>1, <2>2, <2>3
<1>13. \A u \in closing', v \in Opened' : SourceOf(v) = SourceOf(u) => v \in closing'
  BY <1>2 DEF Held
<1>14. OpenOf(s) \subseteq closing
  BY <1>2 DEF OpenOf, Held
<1>15. Held'
  BY <1>6, <1>12, <1>13 DEF Held
<1> QED
  BY <1>1, <1>5, <1>8, <1>9, <1>10, <1>14, <1>15

LEMMA HeldStart ==
    ASSUME Held, Start
    PROVE  Held'
<1>1. Typed'
  BY TypedStart DEF Held
<1>2. Opened' = {} /\ closing' = {}
  BY DEF Start, NothingOpen, Opened
<1>3. \A s \in Source : OpenOf(s)' = {} /\ sources'[s] = NoAggregate
  BY <1>2 DEF Start, NoSources, OpenOf
<1>4. Cardinality({}) = 0 /\ NoAggregate.windows = 0
  BY FS_EmptySet DEF NoAggregate
<1> QED
  BY <1>1, <1>2, <1>3, <1>4 DEF Held

LEMMA HeldOther ==
    ASSUME Held,
           UNCHANGED <<open, sources, seen, memory, answered, got, reports, bucketHistory>>,
           saved' \in {saved, memory}, running' \in BOOLEAN, flushing' \in BOOLEAN,
           closing' \subseteq Opened,
           \A v \in closing', w \in Opened : SourceOf(w) = SourceOf(v) => w \in closing'
    PROVE  Held'
<1>1. Opened' = Opened
  BY DEF Opened
<1>2. Typed'
  BY TypedOther DEF Held
<1>3. \A s \in Source : OpenOf(s)' = OpenOf(s)
  BY <1>1 DEF OpenOf
<1> QED
  BY <1>1, <1>2, <1>3 DEF Held

LEMMA SweepIs ==
    ASSUME Held, NEW bucket \in Bucket, Sweep(bucket)
    PROVE  Held' /\ UNCHANGED <<open, sources, seen, memory, saved, flushing, history>>
<1>1. closing' = {w \in Opened : w[3] <= bucket}
  BY DEF Sweep
<1>2. \A v, w \in Window : SourceOf(w) = SourceOf(v) => w[3] = v[3]
  BY DEF SourceOf
<1>3. \A v \in closing', w \in Opened : SourceOf(w) = SourceOf(v) => w \in closing'
  BY <1>1, <1>2 DEF Opened
<1>4. UNCHANGED <<running, open, sources, seen, memory, saved, flushing, history>>
  BY DEF Sweep
<1>5. running' \in BOOLEAN /\ flushing' \in BOOLEAN
  BY <1>4 DEF Held, Typed
<1>6. UNCHANGED <<open, sources, seen, memory, answered, got, reports, bucketHistory>> /\ saved' = saved
  BY <1>4 DEF history
<1>7. closing' \subseteq Opened
  BY <1>1
<1>8. Held'
  BY <1>3, <1>5, <1>6, <1>7, HeldOther
<1> QED
  BY <1>4, <1>8

LEMMA FlushIs ==
    ASSUME Held, Flush
    PROVE  /\ Held' /\ UNCHANGED <<open, sources, seen, memory, saved, answered, got, reports, bucketHistory>>
           /\ cut' = cut \cup {SourceOf(w) : w \in Opened}
<1>1. UNCHANGED <<running, open, sources, seen, memory, saved, answered, got, reports, bucketHistory>>
  BY DEF Flush
<1>2. closing' = Opened /\ flushing' = TRUE /\ cut' = cut \cup {SourceOf(w) : w \in Opened}
  BY DEF Flush
<1>3. running' \in BOOLEAN
  BY <1>1 DEF Held, Typed
<1>4. Held'
  BY <1>1, <1>2, <1>3, HeldOther
<1> QED
  BY <1>1, <1>2, <1>4

LEMMA KillIs ==
    ASSUME Held, Kill
    PROVE  /\ Held'
           /\ UNCHANGED <<open, sources, seen, memory, saved, closing, flushing,
                          answered, got, reports, bucketHistory>>
           /\ cut' = cut \cup {SourceOf(w) : w \in Opened}
<1>1. /\ UNCHANGED <<open, sources, seen, memory, saved, closing, flushing,
                     answered, got, reports, bucketHistory>>
      /\ cut' = cut \cup {SourceOf(w) : w \in Opened} /\ running' = FALSE
  BY DEF Kill
<1>2. flushing' \in BOOLEAN /\ closing' \subseteq Opened
  BY <1>1 DEF Held, Typed
<1>3. \A v \in closing', w \in Opened : SourceOf(w) = SourceOf(v) => w \in closing'
  BY <1>1 DEF Held
<1>4. Held'
  BY <1>1, <1>2, <1>3, HeldOther
<1> QED
  BY <1>1, <1>4

LEMMA QuietIs ==
    ASSUME Held, UNCHANGED <<open, sources, seen, memory, closing, flushing, history>>,
           saved' \in {saved, memory}, running' \in {running, FALSE}
    PROVE  Held'
<1>1. running' \in BOOLEAN /\ flushing' \in BOOLEAN /\ closing' \subseteq Opened
  BY DEF Held, Typed
<1>2. \A v \in closing', w \in Opened : SourceOf(w) = SourceOf(v) => w \in closing'
  BY DEF Held
<1>3. UNCHANGED <<open, sources, seen, memory, answered, got, reports, bucketHistory>>
  BY DEF history
<1> QED
  BY <1>1, <1>2, <1>3, HeldOther

LEMMA HeldNext ==
    ASSUME Held, [Next]_vars
    PROVE  Held'
BY Steps, HeldAdd, HeldClose, SweepIs, FlushIs, KillIs, HeldStart, QuietIs

-----------------------------------------------------------------------------
(* The memory of addresses.                                                *)

\* What an address and a bucket may be remembered with.
Whole(s, number) == number <= total[s] /\ (s \notin late => number = total[s])

\* Of the entries of one address: a partial one is of a bucket that a stop fell into,
\* and any other is of a bucket of which a window was closed, and whole.
Sound(recent, a) ==
    \A e \in ToSet(recent) :
        /\ <<a, e.bucket>> \in Source
        /\ e.partial => <<a, e.bucket>> \in cut
        /\ <<a, e.bucket>> \notin cut => <<a, e.bucket>> \in done /\ Whole(<<a, e.bucket>>, e.events)

\* An aggregate has the events of its address from the first one on, unless a window of
\* the bucket was closed before; where none was, there are no events without it.
Counting(s) ==
    s \notin cut =>
        /\ sources[s].count <= total[s]
        /\ sources[s].windows > 0 => Whole(s, sources[s].count)
        /\ sources[s].windows = 0 /\ s \notin done => total[s] = 0

\* What is closed by a stop, or lost with a kill, is of buckets that it fell into.
MemoryInv ==
    /\ Held
    /\ late \subseteq done
    /\ \A s \in Source : Counting(s)
    /\ \A a \in Address : Sound(memory[a], a) /\ Sound(saved[a], a)
    /\ flushing \/ ~running => \A w \in Opened : SourceOf(w) \in cut

LEMMA MemoryInit == Init => MemoryInv
<1> SUFFICES ASSUME Init
             PROVE  MemoryInv
  OBVIOUS
<1>1. Held
  BY HeldInit
<1>2. ToSet(<<>>) = {}
  BY DEF ToSet
<1>3. \A a \in Address : Sound(memory[a], a) /\ Sound(saved[a], a)
  BY <1>2 DEF Init, Sound
<1>4. \A s \in Source : Counting(s)
  BY DEF Init, Counting, Whole, NoSources, NoAggregate
<1>5. Opened = {} /\ late \subseteq done
  BY DEF Init, Opened, NothingOpen
<1> QED
  BY <1>1, <1>3, <1>4, <1>5 DEF MemoryInv

LEMMA CountingNext ==
    ASSUME MemoryInv, [Next]_vars
    PROVE  late' \subseteq done' /\ \A s \in Source : Counting(s)'
<1>1. Held /\ Typed /\ total \in [Source -> Nat] /\ late \subseteq done
  BY DEF MemoryInv, Held, Typed
<1>2. \A s \in Source : Counting(s) /\ sources[s] \in Aggregate /\ sources[s].windows \in Nat
                        /\ sources[s].count \in Nat
  BY <1>1 DEF MemoryInv, Typed, Aggregate
<1>3. ASSUME NEW w \in Window, NEW answer \in Answer \cup {None}, Add(w, answer)
      PROVE  late' \subseteq done' /\ \A s \in Source : Counting(s)'
  <2> DEFINE t == SourceOf(w)
  <2>1. /\ total' = [total EXCEPT ![t] = total[t] + 1] /\ late' = late \cup ({t} \cap done)
        /\ done' = done /\ cut' = cut
    BY <1>3 DEF Add
  <2>2. sources' = [sources EXCEPT ![t] = Folded(w, answer)]
    BY <1>1, <1>3, AddIs
  <2>3. t \in Source
    BY WindowIs
  <2>4. /\ Folded(w, answer).count = sources[t].count + 1
        /\ open[w] = 0 => Folded(w, answer).windows = sources[t].windows + 1
        /\ open[w] # 0 => Folded(w, answer).windows = sources[t].windows
    BY <1>1, FoldedIs
  <2>5. sources[t].windows = 0 => open[w] = 0 /\ sources[t].count = 0
    <3>1. sources[t].windows = 0 => OpenOf(t) = {} /\ sources[t] = NoAggregate
      BY <1>1, <2>3, OpenOfIs DEF Held
    <3>2. NoAggregate.count = 0 /\ open[w] \in Nat
      BY <1>1 DEF NoAggregate, Typed
    <3> QED
      BY <3>1, <3>2 DEF OpenOf, Opened
  <2>6. ASSUME NEW s \in Source
        PROVE  Counting(s)'
    <3>1. CASE s # t
      <4>1. sources'[s] = sources[s] /\ total'[s] = total[s] /\ (s \in late' <=> s \in late)
        BY <1>1, <2>1, <2>2, <2>3, <3>1 DEF Typed
      <4> QED
        BY <1>2, <2>1, <4>1 DEF Counting, Whole
    <3>2. CASE s = t
      <4>1. sources'[s] = Folded(w, answer) /\ total'[s] = total[s] + 1
        BY <1>1, <2>1, <2>2, <2>3, <3>2 DEF Typed
      <4>2. sources'[s].count = sources[s].count + 1 /\ sources'[s].windows # 0
        BY <1>2, <2>4, <2>5, <3>2, <4>1
      <4>3. ASSUME s \notin cut
            PROVE  /\ sources[s].count <= total[s]
                   /\ s \notin late' => sources[s].count = total[s]
        <5>1. s \notin late' => s \notin late /\ s \notin done
          BY <2>1, <3>2
        <5> QED
          BY <1>2, <2>5, <3>2, <4>3, <5>1 DEF Counting, Whole
      <4> QED
        BY <1>1, <1>2, <2>1, <4>1, <4>2, <4>3 DEF Counting, Whole
    <3> QED
      BY <3>1, <3>2
  <2> QED
    BY <1>1, <2>1, <2>6
<1>4. ASSUME NEW w \in Window, Close(w)
      PROVE  late' \subseteq done' /\ \A s \in Source : Counting(s)'
  <2> DEFINE t == SourceOf(w)
  <2>1. done' = done \cup {t} /\ UNCHANGED <<total, late, cut>>
    BY <1>4 DEF Close
  <2>2. /\ t \in Source /\ sources[t].windows > 0
        /\ \A s \in Source \ {t} : sources'[s] = sources[s]
    BY <1>1, <1>4, HeldClose
  <2>3. sources'[t] = Released(sources[t])
    BY <1>1, <1>4, <2>2 DEF Close, Typed
  <2>4. /\ Released(sources[t]).count \in {0, sources[t].count}
        /\ Released(sources[t]).windows # 0 => Released(sources[t]).count = sources[t].count
    BY <1>2, <2>2, ReleasedIs
  <2>5. ASSUME NEW s \in Source
        PROVE  Counting(s)'
    <3>1. CASE s # t
      BY <1>2, <2>1, <2>2, <3>1 DEF Counting, Whole
    <3>2. CASE s = t
      BY <1>1, <1>2, <2>1, <2>2, <2>3, <2>4, <3>2 DEF Counting, Whole
    <3> QED
      BY <3>1, <3>2
  <2> QED
    BY <1>1, <2>1, <2>5
<1>5. ASSUME UNCHANGED <<sources, bucketHistory>>, cut \subseteq cut'
      PROVE  late' \subseteq done' /\ \A s \in Source : Counting(s)'
  BY <1>1, <1>2, <1>5 DEF Counting, Whole, bucketHistory
<1>6. ASSUME NEW bucket \in Bucket, Sweep(bucket)
      PROVE  late' \subseteq done' /\ \A s \in Source : Counting(s)'
  BY <1>1, <1>5, <1>6, SweepIs DEF history
<1>7. ASSUME Flush \/ Kill
      PROVE  late' \subseteq done' /\ \A s \in Source : Counting(s)'
  BY <1>1, <1>5, <1>7, FlushIs, KillIs
<1>8. ASSUME Start
      PROVE  late' \subseteq done' /\ \A s \in Source : Counting(s)'
  <2>1. UNCHANGED bucketHistory /\ cut' = cut /\ ~running /\ sources' = NoSources
    BY <1>8 DEF Start
  <2>2. ASSUME NEW s \in Source, s \notin cut
        PROVE  sources[s].windows = 0
    <3>1. OpenOf(s) = {}
      BY <2>1, <2>2 DEF MemoryInv, OpenOf
    <3> QED
      BY <1>1, <3>1, OpenOfIs
  <2>3. NoAggregate.windows = 0 /\ NoAggregate.count = 0
    BY DEF NoAggregate
  <2> QED
    BY <1>1, <1>2, <2>1, <2>2, <2>3 DEF Counting, Whole, NoSources, bucketHistory
<1>9. ASSUME UNCHANGED <<open, sources, seen, memory, closing, flushing, history>>
      PROVE  late' \subseteq done' /\ \A s \in Source : Counting(s)'
  BY <1>5, <1>9 DEF history
<1> QED
  BY <1>3, <1>4, <1>6, <1>7, <1>8, <1>9, Steps

LEMMA SoundNext ==
    ASSUME MemoryInv, [Next]_vars
    PROVE  \A a \in Address : Sound(memory[a], a)' /\ Sound(saved[a], a)'
<1>1. Held /\ Typed /\ total \in [Source -> Nat] /\ late \subseteq done
  BY DEF MemoryInv, Held, Typed
<1>2. \A a \in Address : /\ memory[a] \in Seq(Entry) /\ saved[a] \in Seq(Entry)
                         /\ Sound(memory[a], a) /\ Sound(saved[a], a)
  BY <1>1 DEF MemoryInv, Typed
<1>3. ASSUME NEW w \in Window, NEW answer \in Answer \cup {None}, Add(w, answer)
      PROVE  \A a \in Address : Sound(memory[a], a)' /\ Sound(saved[a], a)'
  <2> DEFINE t == SourceOf(w)
  <2>1. /\ UNCHANGED <<memory, saved, cut, done>> /\ total' = [total EXCEPT ![t] = total[t] + 1]
        /\ late' = late \cup ({t} \cap done)
    BY <1>3 DEF Add
  <2>2. \A s \in done \cap Source, n \in Nat : Whole(s, n) => Whole(s, n)'
    <3>1. ASSUME NEW s \in done \cap Source, NEW n \in Nat, Whole(s, n)
          PROVE  Whole(s, n)'
      <4>1. /\ total[s] \in Nat /\ total'[s] \in Nat /\ total[s] <= total'[s]
            /\ s \notin late' => s \notin late /\ total'[s] = total[s]
        BY <1>1, <2>1
      <4> QED
        BY <3>1, <4>1 DEF Whole
    <3> QED
      BY <3>1
  <2>3. \A a \in Address : \A e \in ToSet(memory[a]) \cup ToSet(saved[a]) : e.events \in Nat
    <3>1. \A a \in Address : ToSet(memory[a]) \subseteq Entry /\ ToSet(saved[a]) \subseteq Entry
      BY <1>2 DEF ToSet
    <3> QED
      BY <3>1 DEF Entry
  <2> QED
    BY <1>2, <2>1, <2>2, <2>3 DEF Sound
<1>4. ASSUME NEW w \in Window, Close(w)
      PROVE  \A a \in Address : Sound(memory[a], a)' /\ Sound(saved[a], a)'
  <2> DEFINE s == SourceOf(w)
             count == sources[s].count
  <2>1. /\ memory' = [memory EXCEPT ![w[1]] = CloseBucket(memory[w[1]], w[3], count, flushing)]
        /\ done' = done \cup {s}
        /\ UNCHANGED <<saved, cut, total, late, flushing>> /\ running
    BY <1>4 DEF Close
  <2>2. /\ s \in Source /\ s = <<w[1], w[3]>> /\ w[1] \in Address /\ w[3] \in Nat
        /\ count \in Nat
    BY <1>1, WindowIs DEF Typed, Aggregate
  <2>3. w \in Opened
    BY <1>1, <1>4, CloseIs
  <2>4. s \notin cut => Whole(s, count)
    <3>1. sources[s].windows > 0
      BY <1>1, <1>4, HeldClose
    <3> QED
      BY <2>2, <3>1 DEF MemoryInv, Counting
  <2>5. flushing => s \in cut
    BY <2>3 DEF MemoryInv
  <2> HIDE DEF count
  <2>6. ASSUME NEW a \in Address
        PROVE  Sound(memory[a], a)' /\ Sound(saved[a], a)'
    <3>1. Sound(saved[a], a)'
      BY <1>2, <2>1 DEF Sound, Whole
    <3>2. CASE a # w[1]
      <4>1. memory'[a] = memory[a]
        BY <1>1, <2>1, <3>2 DEF Typed
      <4> QED
        BY <1>2, <2>1, <3>1, <4>1 DEF Sound, Whole
    <3>3. CASE a = w[1]
      <4>1. memory'[a] = CloseBucket(memory[a], w[3], count, flushing)
        BY <1>1, <2>1, <3>3 DEF Typed
      <4>2. flushing \in BOOLEAN /\ memory[a] \in Seq(Entry)
        BY <1>1 DEF Typed
      <4>3. \A e \in ToSet(memory'[a]) :
              \/ e \in ToSet(memory[a])
              \/ e = [bucket |-> w[3], events |-> count, partial |-> flushing]
              \/ e.bucket = w[3] /\ \E f \in ToSet(memory[a]) : f.bucket = w[3] /\ f.partial
        <5> DEFINE recent == memory[a]
                   bucket == w[3]
        <5>1. recent \in Seq(Entry) /\ bucket \in Nat
          BY <2>2, <4>2
        <5> HIDE DEF recent, bucket
        <5>2. \A e \in ToSet(CloseBucket(recent, bucket, count, flushing)) :
                \/ e \in ToSet(recent)
                \/ e = [bucket |-> bucket, events |-> count, partial |-> flushing]
                \/ e.bucket = bucket /\ \E f \in ToSet(recent) : f.bucket = bucket /\ f.partial
          BY <2>2, <4>2, <5>1, CloseBucketIs
        <5> QED
          BY <4>1, <5>2 DEF recent, bucket
      <4>4. ASSUME NEW e \in ToSet(memory'[a])
            PROVE  /\ <<a, e.bucket>> \in Source
                   /\ e.partial => <<a, e.bucket>> \in cut'
                   /\ <<a, e.bucket>> \notin cut' => /\ <<a, e.bucket>> \in done'
                                                     /\ Whole(<<a, e.bucket>>, e.events)'
        <5>1. CASE e \in ToSet(memory[a])
          BY <1>2, <2>1, <5>1 DEF Sound, Whole
        <5>2. CASE e = [bucket |-> w[3], events |-> count, partial |-> flushing]
          <6>1. e.bucket = w[3] /\ e.events = count /\ e.partial = flushing /\ <<a, e.bucket>> = s
            BY <2>2, <3>3, <5>2
          <6>2. s \notin cut => count <= total'[s] /\ (s \notin late' => count = total'[s])
            BY <2>1, <2>4 DEF Whole
          <6> QED
            BY <2>1, <2>2, <2>5, <6>1, <6>2 DEF Whole
        <5>3. CASE e.bucket = w[3] /\ \E f \in ToSet(memory[a]) : f.bucket = w[3] /\ f.partial
          BY <1>2, <2>1, <3>3, <5>3 DEF Sound
        <5> QED
          BY <4>3, <5>1, <5>2, <5>3
      <4> QED
        BY <3>1, <4>4 DEF Sound, Whole
    <3> QED
      BY <3>1, <3>2, <3>3
  <2> QED
    BY <2>6
<1>5. ASSUME UNCHANGED <<memory, bucketHistory>>, saved' \in {saved, memory}, cut \subseteq cut'
      PROVE  \A a \in Address : Sound(memory[a], a)' /\ Sound(saved[a], a)'
  BY <1>2, <1>5 DEF Sound, Whole, bucketHistory
<1>6. ASSUME NEW bucket \in Bucket, Sweep(bucket)
      PROVE  \A a \in Address : Sound(memory[a], a)' /\ Sound(saved[a], a)'
  BY <1>1, <1>5, <1>6, SweepIs DEF history
<1>7. ASSUME Flush \/ Kill
      PROVE  \A a \in Address : Sound(memory[a], a)' /\ Sound(saved[a], a)'
  BY <1>1, <1>5, <1>7, FlushIs, KillIs
<1>8. ASSUME Start
      PROVE  \A a \in Address : Sound(memory[a], a)' /\ Sound(saved[a], a)'
  <2>1. UNCHANGED <<saved, bucketHistory, cut>>
    BY <1>8 DEF Start
  <2>2. ASSUME NEW a \in Address
        PROVE  ToSet(memory'[a]) \subseteq ToSet(saved[a])
    <3>1. memory'[a] = Trimmed(saved[a])
      BY <1>1, <1>8 DEF Start, Reloaded, Restored, Typed
    <3> QED
      BY <1>2, <3>1, TrimmedIs
  <2> QED
    BY <1>2, <2>1, <2>2 DEF Sound, Whole, bucketHistory
<1>9. ASSUME UNCHANGED <<open, sources, seen, memory, closing, flushing, history>>,
             saved' \in {saved, memory}
      PROVE  \A a \in Address : Sound(memory[a], a)' /\ Sound(saved[a], a)'
  BY <1>5, <1>9 DEF history
<1> QED
  BY <1>3, <1>4, <1>6, <1>7, <1>8, <1>9, Steps

LEMMA LostNext ==
    ASSUME MemoryInv, [Next]_vars
    PROVE  (flushing \/ ~running => \A w \in Opened : SourceOf(w) \in cut)'
<1>1. Held /\ Typed
  BY DEF MemoryInv, Held
<1>2. flushing \/ ~running => \A w \in Opened : SourceOf(w) \in cut
  BY DEF MemoryInv
<1>3. ASSUME NEW w \in Window, NEW answer \in Answer \cup {None}, Add(w, answer)
      PROVE  ~flushing' /\ running'
  BY <1>3 DEF Add
<1>4. ASSUME NEW w \in Window, Close(w)
      PROVE  Opened' \subseteq Opened /\ UNCHANGED <<running, flushing, cut>>
  BY <1>1, <1>4, CloseIs DEF Close
<1>5. ASSUME NEW bucket \in Bucket, Sweep(bucket)
      PROVE  Opened' = Opened /\ UNCHANGED <<running, flushing, cut>>
  BY <1>5 DEF Sweep, Opened, history
<1>6. ASSUME Flush \/ Kill
      PROVE  Opened' = Opened /\ \A w \in Opened : SourceOf(w) \in cut'
  <2>1. open' = open /\ cut' = cut \cup {SourceOf(w) : w \in Opened}
    BY <1>1, <1>6, FlushIs, KillIs
  <2> QED
    BY <2>1 DEF Opened
<1>7. ASSUME Start
      PROVE  ~flushing' /\ running'
  BY <1>7 DEF Start
<1>8. ASSUME UNCHANGED <<open, sources, seen, memory, closing, flushing, history>>,
             running' = running \/ flushing
      PROVE  Opened' = Opened /\ cut' = cut /\ (flushing' \/ ~running' => flushing \/ ~running)
  BY <1>8 DEF Opened, history
<1> QED
  BY <1>2, <1>3, <1>4, <1>5, <1>6, <1>7, <1>8, Steps

LEMMA MemoryNext ==
    ASSUME MemoryInv, [Next]_vars
    PROVE  MemoryInv'
<1>1. Held'
  BY HeldNext DEF MemoryInv
<1> QED
  BY <1>1, CountingNext, SoundNext, LostNext DEF MemoryInv

\* However many windows of an address close in a bucket, and whatever is saved, cut
\* short, lost and restored, a bucket that no stop or kill fell into has samples of no
\* more events than the address had in it, and of all of them unless one came after a
\* window of the bucket was closed (bot_features.py:328-332).
THEOREM WholeSamples == Spec => []SamplesAreWhole
<1>1. MemoryInv => SamplesAreWhole
  BY DEF MemoryInv, SamplesAreWhole, Samples, Sound, Whole
<1> QED
  BY <1>1, MemoryInit, MemoryNext, PTL DEF Spec

-----------------------------------------------------------------------------
(* Cardinalities.                                                          *)

LEMMA ImageIs ==
    ASSUME NEW S, IsFiniteSet(S), NEW f
    PROVE  /\ IsFiniteSet({f[x] : x \in S})
           /\ Cardinality({f[x] : x \in S}) <= Cardinality(S)
<1> DEFINE T == {f[x] : x \in S}
           g == [x \in S |-> f[x]]
<1>1. g \in Surjection(S, T)
  BY DEF Surjection
<1> HIDE DEF T, g
<1>2. IsFiniteSet(T) /\ Cardinality(T) <= Cardinality(S)
  BY <1>1, FS_Surjection
<1> QED
  BY <1>2 DEF T

LEMMA PairIs ==
    ASSUME NEW S, IsFiniteSet(S)
    PROVE  Cardinality(S) >= 2 <=> \E x, y \in S : x # y
<1>1. Cardinality(S) \in Nat
  BY FS_CardinalityType
<1>2. ASSUME NEW x \in S, NEW y \in S, x # y
      PROVE  Cardinality(S) >= 2
  <2>1. IsFiniteSet({y}) /\ Cardinality({y}) = 1 /\ IsFiniteSet({x} \cup {y})
    BY FS_Singleton, FS_AddElement
  <2>2. Cardinality({y} \cup {x}) = 2 /\ IsFiniteSet({y} \cup {x})
    BY <1>2, <2>1, FS_AddElement
  <2>3. Cardinality({y} \cup {x}) <= Cardinality(S)
    BY FS_Subset
  <2> QED
    BY <1>1, <2>2, <2>3
<1>3. ASSUME Cardinality(S) >= 2, ~\E x, y \in S : x # y
      PROVE  FALSE
  <2>1. S # {}
    BY <1>3, FS_EmptySet
  <2>2. PICK x \in S : S = {x}
    BY <1>3, <2>1
  <2> QED
    BY <1>3, <2>2, FS_Singleton
<1> QED
  BY <1>2, <1>3

\* More of something.
LEMMA AtLeastIs ==
    ASSUME NEW T, IsFiniteSet(T), NEW S, S \subseteq T, NEW n \in Nat, Cardinality(S) >= n
    PROVE  Cardinality(T) >= n
<1>1. Cardinality(S) <= Cardinality(T) /\ Cardinality(T) \in Nat /\ IsFiniteSet(S)
  BY FS_Subset, FS_CardinalityType
<1>2. Cardinality(S) \in Nat
  BY <1>1, FS_CardinalityType
<1> QED
  BY <1>1, <1>2

\* A sequence without repetitions is no longer than the set it is from.
LEMMA LenIs ==
    ASSUME NEW T, IsFiniteSet(T), NEW n \in Nat, NEW f,
           \A i \in 1 .. n : f[i] \in T,
           \A i, j \in 1 .. n : f[i] = f[j] => i = j
    PROVE  n <= Cardinality(T)
<1> DEFINE g == [i \in 1 .. n |-> f[i]]
<1>1. g \in Injection(1 .. n, T)
  <2>1. g \in [1 .. n -> T]
    OBVIOUS
  <2>2. \A i, j \in 1 .. n : g[i] = g[j] => i = j
    OBVIOUS
  <2> QED
    BY <2>1, <2>2 DEF Injection, IsInjective
<1>2. Cardinality(1 .. n) = n
  BY FS_Interval
<1> HIDE DEF g
<1>3. Cardinality(1 .. n) <= Cardinality(T)
  BY <1>1, FS_Injection
<1> QED
  BY <1>2, <1>3

-----------------------------------------------------------------------------
(* What a site is remembered to have answered.                             *)

AnsweredSizes(site) == {e.size : e \in {x \in answered : x.site = site}}

AnsweredPaths(site, size) == {e.path : e \in {x \in answered : x.site = site /\ x.size = size}}

AnswersIn(site, dir) ==
    {[path |-> e.path, size |-> e.size] : e \in {x \in answered : x.site = site /\ Parent[x.path] = dir}}

Distinct(kept) == \A i, j \in DOMAIN kept : kept[i].size = kept[j].size => i = j

FromAnswers(kept, site) ==
    \A i \in DOMAIN kept : /\ kept[i].size \in AnsweredSizes(site)
                           /\ kept[i].paths \subseteq AnsweredPaths(site, kept[i].size)

\* The size is known for all paths that were answered with it, or for three.
KnownFor(entry, size, paths) ==
    entry.size = size /\ (entry.paths = paths \/ Cardinality(entry.paths) >= 3)

Complete(kept, site) ==
    \A size \in AnsweredSizes(site) :
        \E i \in DOMAIN kept : KnownFor(kept[i], size, AnsweredPaths(site, size))

\* Each size is kept once, with paths that it was given for, with all of them that count
\* until the site has more sizes than are kept; a directory has answers of its own.
SiteInv(site) ==
    /\ Distinct(siteSizes[site]) /\ FromAnswers(siteSizes[site], site)
    /\ Cardinality(AnsweredSizes(site)) > MaxSiteSizes \/ Complete(siteSizes[site], site)
    /\ \A dir \in Dir : ToSet(siteDirs[<<site, dir>>]) \subseteq AnswersIn(site, dir)

LEMMA AnsweredFinite ==
    ASSUME Typed, NEW site \in Site
    PROVE  /\ IsFiniteSet(AnsweredSizes(site)) /\ Cardinality(AnsweredSizes(site)) \in Nat
           /\ \A size : IsFiniteSet(AnsweredPaths(site, size))
           /\ \A dir : IsFiniteSet(AnswersIn(site, dir))
<1>1. ASSUME NEW S \in SUBSET answered
      PROVE  /\ IsFiniteSet({e.size : e \in S}) /\ IsFiniteSet({e.path : e \in S})
             /\ IsFiniteSet({[path |-> e.path, size |-> e.size] : e \in S})
  <2>1. IsFiniteSet(S)
    BY FS_Subset DEF Typed
  <2>2. IsFiniteSet({[a \in answered |-> a.size][e] : e \in S})
    BY <2>1, ImageIs
  <2>3. IsFiniteSet({[a \in answered |-> a.path][e] : e \in S})
    BY <2>1, ImageIs
  <2>4. IsFiniteSet({[a \in answered |-> [path |-> a.path, size |-> a.size]][e] : e \in S})
    BY <2>1, ImageIs
  <2>5. /\ {[a \in answered |-> a.size][e] : e \in S} = {e.size : e \in S}
        /\ {[a \in answered |-> a.path][e] : e \in S} = {e.path : e \in S}
        /\ {[a \in answered |-> [path |-> a.path, size |-> a.size]][e] : e \in S}
             = {[path |-> e.path, size |-> e.size] : e \in S}
    OBVIOUS
  <2> QED
    BY <2>2, <2>3, <2>4, <2>5
<1>2. IsFiniteSet(AnsweredSizes(site))
  <2>1. {e \in answered : e.site = site} \in SUBSET answered
    OBVIOUS
  <2> QED
    BY <1>1, <2>1, Zenon DEF AnsweredSizes
<1>3. ASSUME NEW size
      PROVE  IsFiniteSet(AnsweredPaths(site, size))
  <2>1. {e \in answered : e.site = site /\ e.size = size} \in SUBSET answered
    OBVIOUS
  <2> QED
    BY <1>1, <2>1, Zenon DEF AnsweredPaths
<1>4. ASSUME NEW dir
      PROVE  IsFiniteSet(AnswersIn(site, dir))
  <2>1. {e \in answered : e.site = site /\ Parent[e.path] = dir} \in SUBSET answered
    OBVIOUS
  <2> QED
    BY <1>1, <2>1, Zenon DEF AnswersIn
<1> QED
  BY <1>2, <1>3, <1>4, FS_CardinalityType

\* A size that is kept: its paths are noted until there are three.
LEMMA RememberKnown ==
    ASSUME NEW sizes \in Seq(SizesKept), NEW path, NEW size,
           \E i \in DOMAIN sizes : sizes[i].size = size
    PROVE  LET after == RememberSize(sizes, path, size) IN
           /\ DOMAIN after = DOMAIN sizes
           /\ \A i \in DOMAIN sizes :
                /\ after[i].size = sizes[i].size
                /\ sizes[i].size # size => after[i].paths = sizes[i].paths
                /\ sizes[i].size = size => after[i].paths = KeepPaths(sizes[i].paths, path)
<1>1. \A i \in DOMAIN sizes : sizes[i] \in SizesKept
  BY ElementOfSeq
<1>2. RememberSize(sizes, path, size) =
          [i \in DOMAIN sizes |-> IF sizes[i].size = size
                                  THEN [sizes[i] EXCEPT !.paths = KeepPaths(@, path)] ELSE sizes[i]]
  BY DEF RememberSize
<1>3. ASSUME NEW i \in DOMAIN sizes
      PROVE  LET e == [sizes[i] EXCEPT !.paths = KeepPaths(@, path)] IN
             e.size = sizes[i].size /\ e.paths = KeepPaths(sizes[i].paths, path)
  BY <1>1 DEF SizesKept
<1> QED
  BY <1>2, <1>3

\* A new one is kept, at the cost of the oldest when the site has as many as are kept.
LEMMA RememberNew ==
    ASSUME NEW sizes \in Seq(SizesKept), NEW path \in Path, NEW size \in Nat,
           ~\E i \in DOMAIN sizes : sizes[i].size = size
    PROVE  \E k \in {0, 1} :
             LET after == RememberSize(sizes, path, size)
                 n == Len(sizes) - k
             IN  /\ n \in Nat /\ DOMAIN after = 1 .. n + 1
                 /\ \A i \in 1 .. n : after[i] = sizes[i + k] /\ i + k \in DOMAIN sizes
                 /\ after[n + 1] = [size |-> size, paths |-> {path}]
                 /\ k = 1 => Len(sizes) >= MaxSiteSizes
<1> DEFINE entry == [size |-> size, paths |-> {path}]
           base == IF Len(sizes) >= MaxSiteSizes THEN Tail(sizes) ELSE sizes
<1>1. RememberSize(sizes, path, size) = Append(base, entry)
  BY DEF RememberSize
<1>2. entry \in SizesKept
  BY DEF SizesKept
<1>3. MaxSiteSizes \in Nat \ {0} /\ Len(sizes) \in Nat /\ DOMAIN sizes = 1 .. Len(sizes)
  BY CatchAllAssumption
<1> HIDE DEF entry, base
<1>4. \A s \in Seq(SizesKept) :
        /\ DOMAIN Append(s, entry) = 1 .. Len(s) + 1 /\ Append(s, entry)[Len(s) + 1] = entry
        /\ \A i \in 1 .. Len(s) : Append(s, entry)[i] = s[i]
  BY <1>2
<1>5. CASE Len(sizes) >= MaxSiteSizes
  <2>1. base = Tail(sizes) /\ sizes # <<>>
    BY <1>3, <1>5 DEF base
  <2>2. /\ Tail(sizes) \in Seq(SizesKept) /\ Len(Tail(sizes)) = Len(sizes) - 1
        /\ \A i \in 1 .. Len(sizes) - 1 : Tail(sizes)[i] = sizes[i + 1]
    BY <1>3, <2>1
  <2>3. /\ Len(sizes) - 1 \in Nat
        /\ \A i \in 1 .. Len(sizes) - 1 : i + 1 \in DOMAIN sizes
    BY <1>3, <1>5
  <2> WITNESS 1 \in {0, 1}
  <2> QED
    BY <1>1, <1>4, <1>5, <2>1, <2>2, <2>3 DEF entry
<1>6. CASE ~(Len(sizes) >= MaxSiteSizes)
  <2>1. base = sizes
    BY <1>6 DEF base
  <2> WITNESS 0 \in {0, 1}
  <2> QED
    BY <1>1, <1>3, <1>4, <1>6, <2>1 DEF entry
<1> QED
  BY <1>5, <1>6

LEMMA SiteOther ==
    ASSUME NEW site, SiteInv(site), siteSizes'[site] = siteSizes[site],
           \A dir \in Dir : siteDirs'[<<site, dir>>] = siteDirs[<<site, dir>>],
           {e \in answered' : e.site = site} = {e \in answered : e.site = site}
    PROVE  SiteInv(site)'
<1>1. AnsweredSizes(site)' = AnsweredSizes(site)
  BY DEF AnsweredSizes
<1>2. \A size : {e \in answered' : e.site = site /\ e.size = size} = {e \in answered : e.site = site /\ e.size = size}
  OBVIOUS
<1>3. \A size : {e.path : e \in {x \in answered' : x.site = site /\ x.size = size}} = AnsweredPaths(site, size)
  BY <1>2, Zenon DEF AnsweredPaths
<1>4. \A dir : {e \in answered' : e.site = site /\ Parent[e.path] = dir} = {e \in answered : e.site = site /\ Parent[e.path] = dir}
  OBVIOUS
<1>5. \A dir : {[path |-> e.path, size |-> e.size] : e \in {x \in answered' : x.site = site /\ Parent[x.path] = dir}} = AnswersIn(site, dir)
  BY <1>4, Zenon DEF AnswersIn
<1>6. FromAnswers(siteSizes[site], site)'
  BY <1>1, <1>3 DEF SiteInv, FromAnswers, AnsweredPaths
<1>7. (Cardinality(AnsweredSizes(site)) > MaxSiteSizes \/ Complete(siteSizes[site], site))'
  BY <1>1, <1>3 DEF SiteInv, Complete, AnsweredPaths
<1>8. \A dir \in Dir : ToSet(siteDirs'[<<site, dir>>]) \subseteq AnswersIn(site, dir)'
  BY <1>5 DEF SiteInv, AnswersIn
<1>9. Distinct(siteSizes'[site])
  BY DEF SiteInv
<1> QED
  BY <1>6, <1>7, <1>8, <1>9 DEF SiteInv

\* What an answer adds to what its site has answered.
LEMMA AnsweredMore ==
    ASSUME NEW answer \in Answer, answered' = answered \cup {answer}
    PROVE  /\ AnsweredSizes(answer.site)' = AnsweredSizes(answer.site) \cup {answer.size}
           /\ \A size : size # answer.size =>
                 AnsweredPaths(answer.site, size)' = AnsweredPaths(answer.site, size)
           /\ AnsweredPaths(answer.site, answer.size)' =
                 AnsweredPaths(answer.site, answer.size) \cup {answer.path}
           /\ \A dir : AnswersIn(answer.site, dir) \subseteq AnswersIn(answer.site, dir)'
           /\ [path |-> answer.path, size |-> answer.size] \in AnswersIn(answer.site, Parent[answer.path])'
<1>1. AnsweredSizes(answer.site)' = AnsweredSizes(answer.site) \cup {answer.size}
  BY DEF AnsweredSizes
<1>2. ASSUME NEW size, size # answer.size
      PROVE  AnsweredPaths(answer.site, size)' = AnsweredPaths(answer.site, size)
  BY <1>2 DEF AnsweredPaths
<1>3. AnsweredPaths(answer.site, answer.size)' = AnsweredPaths(answer.site, answer.size) \cup {answer.path}
  BY DEF AnsweredPaths
<1>4. \A dir : AnswersIn(answer.site, dir) \subseteq AnswersIn(answer.site, dir)'
  BY DEF AnswersIn
<1>5. [path |-> answer.path, size |-> answer.size] \in AnswersIn(answer.site, Parent[answer.path])'
  BY DEF AnswersIn
<1> QED
  BY <1>1, <1>2, <1>3, <1>4, <1>5

LEMMA SizesHit ==
    ASSUME Typed, NEW site \in Site, SiteInv(site), NEW path \in Path, NEW size \in Nat,
           siteSizes'[site] = RememberSize(siteSizes[site], path, size),
           IsFiniteSet(AnsweredSizes(site)'), \A z : IsFiniteSet(AnsweredPaths(site, z)),
           AnsweredSizes(site)' = AnsweredSizes(site) \cup {size},
           \A z : z # size => AnsweredPaths(site, z)' = AnsweredPaths(site, z),
           AnsweredPaths(site, size)' = AnsweredPaths(site, size) \cup {path}
    PROVE  /\ Distinct(siteSizes'[site]) /\ FromAnswers(siteSizes[site], site)'
           /\ (Cardinality(AnsweredSizes(site)) > MaxSiteSizes \/ Complete(siteSizes[site], site))'
<1> DEFINE kept == siteSizes[site]
           after == siteSizes'[site]
           sizes == AnsweredSizes(site)
<1>1. kept \in Seq(SizesKept) /\ Len(kept) \in Nat /\ DOMAIN kept = 1 .. Len(kept)
  BY DEF Typed
<1>2. Distinct(kept) /\ FromAnswers(kept, site)
  BY DEF SiteInv
<1>3. MaxSiteSizes \in Nat
  BY CatchAllAssumption
<1>4. Cardinality(sizes) \in Nat /\ Cardinality(sizes') \in Nat /\ IsFiniteSet(sizes)
      /\ (size \notin sizes => Cardinality(sizes') = Cardinality(sizes) + 1)
      /\ Cardinality(sizes) <= Cardinality(sizes')
  <2>1. IsFiniteSet(sizes) /\ IsFiniteSet(sizes')
    BY AnsweredFinite
  <2>2. Cardinality(sizes \cup {size}) = IF size \in sizes THEN Cardinality(sizes) ELSE Cardinality(sizes) + 1
    BY <2>1, FS_AddElement
  <2> QED
    BY <2>1, <2>2, FS_CardinalityType
<1>5. CASE \E i \in DOMAIN kept : kept[i].size = size
  <2>1. /\ DOMAIN after = DOMAIN kept
        /\ \A i \in DOMAIN kept :
             /\ after[i].size = kept[i].size
             /\ kept[i].size # size => after[i].paths = kept[i].paths
             /\ kept[i].size = size => after[i].paths = KeepPaths(kept[i].paths, path)
    <3> DEFINE k == siteSizes[site]
    <3>1. k \in Seq(SizesKept) /\ \E i \in DOMAIN k : k[i].size = size
      BY <1>1, <1>5
    <3>2. after = RememberSize(k, path, size)
      OBVIOUS
    <3> HIDE DEF k
    <3>3. LET a == RememberSize(k, path, size) IN
          /\ DOMAIN a = DOMAIN k
          /\ \A i \in DOMAIN k :
               /\ a[i].size = k[i].size
               /\ k[i].size # size => a[i].paths = k[i].paths
               /\ k[i].size = size => a[i].paths = KeepPaths(k[i].paths, path)
      BY <3>1, RememberKnown
    <3> QED
      BY <3>2, <3>3 DEF k
  <2> HIDE DEF after, kept
  <2>2. Distinct(after)
    BY <1>2, <2>1 DEF Distinct
  <2>3. ASSUME NEW i \in DOMAIN after, NEW z, z = after[i].size
        PROVE  z \in sizes' /\ after[i].paths \subseteq AnsweredPaths(site, z)'
    <3>1. i \in DOMAIN kept /\ kept[i].size \in sizes /\ kept[i].paths \subseteq AnsweredPaths(site, kept[i].size)
      BY <1>2, <2>1 DEF FromAnswers
    <3>2. CASE kept[i].size = size
      BY <2>1, <2>3, <3>1, <3>2 DEF KeepPaths
    <3>3. CASE kept[i].size # size
      BY <2>1, <2>3, <3>1, <3>3
    <3> QED
      BY <3>2, <3>3
  <2>4. ASSUME Cardinality(sizes') <= MaxSiteSizes, NEW z \in sizes'
        PROVE  \E i \in DOMAIN after : KnownFor(after[i], z, AnsweredPaths(site, z)')
    <3>1. z \in sizes
      BY <1>2, <1>5 DEF FromAnswers
    <3>2. Complete(kept, site)
      BY <1>3, <1>4, <2>4 DEF SiteInv, kept
    <3>3. PICK i \in DOMAIN kept : KnownFor(kept[i], z, AnsweredPaths(site, z))
      BY <3>1, <3>2 DEF Complete
    <3>4. CASE z # size
      BY <2>1, <3>3, <3>4 DEF KnownFor
    <3>5. CASE z = size
      <4>1. after[i].paths = KeepPaths(kept[i].paths, path) /\ after[i].size = size
        BY <2>1, <3>3, <3>5 DEF KnownFor
      <4>2. CASE Cardinality(kept[i].paths) < 3
        <5>1. kept[i].paths = AnsweredPaths(site, size)
          <6>1. IsFiniteSet(kept[i].paths)
            BY <1>2, FS_Subset DEF FromAnswers
          <6>2. Cardinality(kept[i].paths) \in Nat
            BY <6>1, FS_CardinalityType
          <6> QED
            BY <3>3, <3>5, <4>2, <6>2 DEF KnownFor
        <5> QED
          BY <2>1, <3>5, <4>1, <4>2, <5>1 DEF KnownFor, KeepPaths
      <4>3. CASE ~(Cardinality(kept[i].paths) < 3)
        <5>1. Cardinality(kept[i].paths) >= 3
          <6>1. IsFiniteSet(kept[i].paths)
            BY <1>2, FS_Subset DEF FromAnswers
          <6>2. Cardinality(kept[i].paths) \in Nat
            BY <6>1, FS_CardinalityType
          <6> QED
            BY <4>3, <6>2
        <5> QED
          BY <2>1, <3>5, <4>1, <4>3, <5>1 DEF KnownFor, KeepPaths
      <4> QED
        BY <4>2, <4>3
    <3> QED
      BY <3>4, <3>5
  <2>5. Cardinality(sizes') > MaxSiteSizes \/ Complete(siteSizes[site], site)'
    BY <1>3, <1>4, <2>4 DEF Complete, after
  <2> QED
    BY <2>2, <2>3, <2>5 DEF FromAnswers, after
<1>6. CASE ~\E i \in DOMAIN kept : kept[i].size = size
  <2>1. \E k \in {0, 1} :
           LET n == Len(kept) - k IN
           /\ n \in Nat /\ DOMAIN after = 1 .. n + 1
           /\ \A i \in 1 .. n : after[i] = kept[i + k] /\ i + k \in DOMAIN kept
           /\ after[n + 1] = [size |-> size, paths |-> {path}]
           /\ k = 1 => Len(kept) >= MaxSiteSizes
    <3> DEFINE s == siteSizes[site]
    <3>1. s \in Seq(SizesKept) /\ ~\E i \in DOMAIN s : s[i].size = size
      BY <1>1, <1>6
    <3>2. after = RememberSize(s, path, size)
      OBVIOUS
    <3> HIDE DEF s
    <3>3. \E k \in {0, 1} :
             LET a == RememberSize(s, path, size)
                 n == Len(s) - k
             IN  /\ n \in Nat /\ DOMAIN a = 1 .. n + 1
                 /\ \A i \in 1 .. n : a[i] = s[i + k] /\ i + k \in DOMAIN s
                 /\ a[n + 1] = [size |-> size, paths |-> {path}]
                 /\ k = 1 => Len(s) >= MaxSiteSizes
      BY <3>1, RememberNew
    <3> QED
      BY <3>2, <3>3 DEF s
  <2> HIDE DEF after, kept
  <2>2. PICK k \in {0, 1}, n \in Nat :
           /\ n = Len(kept) - k /\ DOMAIN after = 1 .. n + 1
           /\ \A i \in 1 .. n : after[i] = kept[i + k] /\ i + k \in DOMAIN kept
           /\ after[n + 1] = [size |-> size, paths |-> {path}]
           /\ k = 1 => Len(kept) >= MaxSiteSizes
    BY <2>1
  <2>3. after[n + 1].size = size /\ after[n + 1].paths = {path}
    BY <2>2
  <2>4. \A i \in 1 .. n : after[i].size = kept[i + k].size /\ after[i].size # size
                          /\ after[i].paths = kept[i + k].paths /\ i + k \in DOMAIN kept
    BY <1>6, <2>2
  <2>5. \A i \in DOMAIN after : i \in 1 .. n \/ i = n + 1
    BY <2>2
  <2>6. Distinct(after)
    <3>1. ASSUME NEW i \in 1 .. n, NEW j \in 1 .. n, after[i].size = after[j].size
          PROVE  i = j
      <4>1. i + k = j + k
        BY <1>2, <2>4, <3>1 DEF Distinct
      <4> QED
        BY <4>1
    <3> QED
      BY <2>3, <2>4, <2>5, <3>1 DEF Distinct
  <2>7. ASSUME NEW i \in DOMAIN after, NEW z, z = after[i].size
        PROVE  z \in sizes' /\ after[i].paths \subseteq AnsweredPaths(site, z)'
    <3>1. CASE i = n + 1
      BY <2>3, <2>7, <3>1
    <3>2. CASE i \in 1 .. n
      BY <1>2, <2>4, <2>7, <3>2 DEF FromAnswers
    <3> QED
      BY <2>5, <3>1, <3>2
  <2>8. ASSUME Cardinality(sizes') <= MaxSiteSizes, NEW z \in sizes'
        PROVE  \E i \in DOMAIN after : KnownFor(after[i], z, AnsweredPaths(site, z)')
    <3>1. Complete(kept, site)
      BY <1>3, <1>4, <2>8 DEF SiteInv, kept
    <3>2. size \notin sizes
      BY <1>6, <3>1 DEF Complete, KnownFor
    <3>3. AnsweredPaths(site, size) = {}
      BY <3>2 DEF AnsweredPaths, AnsweredSizes
    <3>4. Len(kept) <= Cardinality(sizes)
      <4> DEFINE f == [i \in 1 .. Len(kept) |-> kept[i].size]
      <4>1. Len(kept) \in Nat /\ DOMAIN kept = 1 .. Len(kept)
        BY <1>1 DEF kept
      <4>2. \A i \in 1 .. Len(kept) : f[i] \in sizes
        BY <1>2, <4>1 DEF FromAnswers
      <4>3. \A i, j \in 1 .. Len(kept) : f[i] = f[j] => i = j
        BY <1>2, <4>1 DEF Distinct
      <4> HIDE DEF f
      <4> QED
        BY <1>4, <4>1, <4>2, <4>3, LenIs
    <3>5. k = 0 /\ n = Len(kept)
      <4>1. Len(kept) \in Nat
        BY <1>1 DEF kept
      <4> QED
        BY <1>3, <1>4, <2>2, <2>8, <3>2, <3>4, <4>1
    <3>6. CASE z = size
      <4>1. n + 1 \in DOMAIN after
        BY <2>2
      <4>2. AnsweredPaths(site, z)' = {path}
        BY <3>3, <3>6
      <4> QED
        BY <2>3, <3>6, <4>1, <4>2 DEF KnownFor
    <3>7. CASE z # size
      <4>1. PICK i \in DOMAIN kept : KnownFor(kept[i], z, AnsweredPaths(site, z))
        BY <3>1, <3>7 DEF Complete
      <4>2. i \in 1 .. n
        BY <1>1, <3>5, <4>1 DEF kept
      <4>3. after[i] = kept[i] /\ i \in DOMAIN after
        BY <2>2, <3>5, <4>2
      <4>4. KnownFor(after[i], z, AnsweredPaths(site, z)')
        BY <3>7, <4>1, <4>3
      <4> QED
        BY <4>3, <4>4
    <3> QED
      BY <3>6, <3>7
  <2>9. Cardinality(sizes') > MaxSiteSizes \/ Complete(siteSizes[site], site)'
    BY <1>3, <1>4, <2>8 DEF Complete, after
  <2> QED
    BY <2>6, <2>7, <2>9 DEF FromAnswers, after
<1> QED
  BY <1>5, <1>6

SitesInv == Held /\ \A site \in Site : SiteInv(site)

LEMMA SitesInit == Init => SitesInv
<1> SUFFICES ASSUME Init
             PROVE  SitesInv
  OBVIOUS
<1>1. Held
  BY HeldInit
<1>2. ASSUME NEW site \in Site
      PROVE  SiteInv(site)
  <2>1. siteSizes[site] = <<>> /\ \A dir \in Dir : siteDirs[<<site, dir>>] = <<>>
    BY <1>2 DEF Init, NoSizes, NoDirs
  <2>2. AnsweredSizes(site) = {}
    BY DEF Init, AnsweredSizes
  <2>3. ToSet(<<>>) = {} /\ DOMAIN <<>> = {}
    BY DEF ToSet
  <2> QED
    BY <2>1, <2>2, <2>3 DEF SiteInv, Distinct, FromAnswers, Complete
<1> QED
  BY <1>1, <1>2 DEF SitesInv

LEMMA SiteAdd ==
    ASSUME SitesInv, NEW w \in Window, NEW answer \in Answer \cup {None}, Add(w, answer),
           NEW site \in Site
    PROVE  SiteInv(site)'
<1>1. Typed /\ SiteInv(site) /\ Typed'
  BY TypedAdd DEF SitesInv, Held
<1>2. CASE answer = None
  <2>1. siteSizes' = siteSizes /\ siteDirs' = siteDirs /\ answered' = answered
    BY <1>1, <1>2, AddIs
  <2> QED
    BY <1>1, <2>1, SiteOther
<1>3. CASE answer # None
  <2>1. /\ answer \in Answer /\ answer.site \in Site /\ answer.path \in Path /\ answer.size \in Nat
        /\ Parent[answer.path] \in Dir
    BY <1>3, AnswerIs DEF Dir
  <2>2. siteSizes' = [siteSizes EXCEPT ![answer.site] =
                          RememberSize(siteSizes[answer.site], answer.path, answer.size)]
    BY <1>1, <1>3, AddIs
  <2>3. siteDirs' = [siteDirs EXCEPT ![<<answer.site, Parent[answer.path]>>] = Siblings(answer)]
    BY <1>1, <1>3, AddIs
  <2>4. answered' = answered \cup {answer}
    <3>1. answered' = answered \cup ({answer} \ {None})
      BY <1>1, AddIs
    <3> QED
      BY <1>3, <3>1
  <2>5. CASE site # answer.site
    <3>1. siteSizes'[site] = siteSizes[site]
      BY <1>1, <2>2, <2>5 DEF Typed
    <3>2. \A dir \in Dir : siteDirs'[<<site, dir>>] = siteDirs[<<site, dir>>]
      BY <1>1, <2>3, <2>5 DEF Typed
    <3>3. {e \in answered' : e.site = site} = {e \in answered : e.site = site}
      BY <2>4, <2>5
    <3> QED
      BY <1>1, <3>1, <3>2, <3>3, SiteOther
  <2>6. CASE site = answer.site
    <3> DEFINE path == answer.path
               size == answer.size
    <3>1. /\ AnsweredSizes(site)' = AnsweredSizes(site) \cup {size}
          /\ \A z : z # size => AnsweredPaths(site, z)' = AnsweredPaths(site, z)
          /\ AnsweredPaths(site, size)' = AnsweredPaths(site, size) \cup {path}
          /\ \A dir : AnswersIn(site, dir) \subseteq AnswersIn(site, dir)'
          /\ [path |-> path, size |-> size] \in AnswersIn(site, Parent[path])'
      BY <2>1, <2>4, <2>6, AnsweredMore
    <3>2. siteSizes'[site] = RememberSize(siteSizes[site], path, size)
      BY <1>1, <2>2, <2>6 DEF Typed
    <3>3. \A z : IsFiniteSet(AnsweredPaths(site, z))
      BY <1>1, AnsweredFinite
    <3>4. IsFiniteSet(AnsweredSizes(site)')
      <4>1. IsFiniteSet(AnsweredSizes(site))
        BY <1>1, AnsweredFinite
      <4>2. IsFiniteSet(AnsweredSizes(site) \cup {size})
        BY <4>1, FS_AddElement
      <4> QED
        BY <3>1, <4>2
    <3>5. /\ Distinct(siteSizes'[site]) /\ FromAnswers(siteSizes[site], site)'
          /\ (Cardinality(AnsweredSizes(site)) > MaxSiteSizes \/ Complete(siteSizes[site], site))'
      <4> HIDE DEF path, size
      <4>1. path \in Path /\ size \in Nat
        BY <2>1 DEF path, size
      <4> QED
        BY <1>1, <3>1, <3>2, <3>3, <3>4, <4>1, SizesHit
    <3>6. ASSUME NEW dir \in Dir
          PROVE  ToSet(siteDirs'[<<site, dir>>]) \subseteq AnswersIn(site, dir)'
      <4>1. CASE dir # Parent[path]
        <5>1. siteDirs'[<<site, dir>>] = siteDirs[<<site, dir>>]
          BY <1>1, <2>3, <2>6, <4>1 DEF Typed
        <5> QED
          BY <1>1, <3>1, <5>1 DEF SiteInv
      <4>2. CASE dir = Parent[path]
        <5>1. siteDirs'[<<site, dir>>] = RememberAnswer(siteDirs[<<site, dir>>], path, size)
          BY <1>1, <2>1, <2>3, <2>6, <4>2 DEF Typed, Siblings
        <5>2. siteDirs[<<site, dir>>] \in Seq(Sized)
          BY <1>1 DEF Typed
        <5>3. ToSet(siteDirs'[<<site, dir>>])
                 \subseteq ToSet(siteDirs[<<site, dir>>]) \cup {[path |-> path, size |-> size]}
          BY <2>1, <5>1, <5>2, RememberAnswerIs
        <5> QED
          BY <1>1, <3>1, <4>2, <5>3 DEF SiteInv
      <4> QED
        BY <4>1, <4>2
    <3> QED
      BY <3>5, <3>6 DEF SiteInv
  <2> QED
    BY <2>5, <2>6
<1> QED
  BY <1>2, <1>3

LEMMA SitesNext ==
    ASSUME SitesInv, [Next]_vars
    PROVE  SitesInv'
<1>1. Held /\ Held'
  BY HeldNext DEF SitesInv
<1>2. ASSUME UNCHANGED <<siteSizes, siteDirs, answered>>
      PROVE  SitesInv'
  <2>1. \A site \in Site : SiteInv(site)'
    BY <1>2, SiteOther DEF SitesInv
  <2> QED
    BY <1>1, <2>1 DEF SitesInv
<1>3. ASSUME NEW w \in Window, NEW answer \in Answer \cup {None}, Add(w, answer)
      PROVE  SitesInv'
  <2>1. \A site \in Site : SiteInv(site)'
    BY <1>3, SiteAdd
  <2> QED
    BY <1>1, <2>1 DEF SitesInv
<1>4. ASSUME Start
      PROVE  SitesInv'
  <2>1. ASSUME NEW site \in Site
        PROVE  SiteInv(site)'
    <3>1. siteSizes'[site] = <<>> /\ \A dir \in Dir : siteDirs'[<<site, dir>>] = <<>>
      BY <1>4, <2>1 DEF Start, NoSizes, NoDirs
    <3>2. AnsweredSizes(site)' = {}
      BY <1>4 DEF Start, AnsweredSizes
    <3>3. ToSet(<<>>) = {} /\ DOMAIN <<>> = {}
      BY DEF ToSet
    <3> QED
      BY <3>1, <3>2, <3>3 DEF SiteInv, Distinct, FromAnswers, Complete
  <2> QED
    BY <1>1, <2>1 DEF SitesInv
<1>5. (\E w \in Window : Close(w)) \/ (\E bucket \in Bucket : Sweep(bucket)) \/ Flush \/ Kill
        => UNCHANGED <<siteSizes, siteDirs, answered>>
  BY <1>1, SweepIs, FlushIs, KillIs DEF Close, seen, history
<1>6. UNCHANGED <<open, sources, seen, memory, closing, flushing, history>>
        => UNCHANGED <<siteSizes, siteDirs, answered>>
  BY DEF seen, history
<1> QED
  BY <1>2, <1>3, <1>4, <1>5, <1>6, Steps

\* Of a file that a window carries, the site is not remembered to have given the size
\* for two other paths, and what is remembered is all there was.
LEMMA CarriedIsNoPage ==
    ASSUME SitesInv, NEW s \in Source, NEW f \in Confirmed(sources[s]), SitePage(f)
    PROVE  Cardinality({e.size : e \in {x \in answered : x.site = f.site}}) > MaxSiteSizes
<1> DEFINE kept == siteSizes[f.site]
           paths == AnsweredPaths(f.site, f.size)
<1>1. Typed /\ f \in File /\ f.site \in Site /\ f.path \in Path /\ SiteInv(f.site)
  BY DEF SitesInv, Held, Typed, Confirmed, Aggregate, File
<1>2. ~(Cardinality(PathsOf(kept, f.size) \ {f.path}) >= 2)
  BY DEF Confirmed, IsPage
<1>3. Cardinality(paths \ {f.path}) >= 2 /\ IsFiniteSet(paths)
  BY <1>1, AnsweredFinite DEF SitePage, AnsweredPaths
<1>4. f.size \in AnsweredSizes(f.site)
  <2>1. paths # {}
    BY <1>3, FS_EmptySet
  <2> QED
    BY <2>1 DEF AnsweredPaths, AnsweredSizes
<1>5. ASSUME Complete(kept, f.site)
      PROVE  FALSE
  <2>1. PICK i \in DOMAIN kept : KnownFor(kept[i], f.size, paths)
    BY <1>4, <1>5 DEF Complete
  <2>2. kept[i].paths \subseteq PathsOf(kept, f.size)
    BY <2>1 DEF PathsOf, ToSet, KnownFor
  <2>3. PathsOf(kept, f.size) \subseteq paths
    BY <1>1 DEF PathsOf, ToSet, SiteInv, FromAnswers
  <2>4. IsFiniteSet(PathsOf(kept, f.size) \ {f.path}) /\ IsFiniteSet(kept[i].paths)
    <3>1. PathsOf(kept, f.size) \ {f.path} \subseteq paths /\ kept[i].paths \subseteq paths
      BY <2>2, <2>3
    <3> QED
      BY <1>3, <3>1, FS_Subset
  <2>5. CASE kept[i].paths = paths
    <3>1. paths \ {f.path} \subseteq PathsOf(kept, f.size) \ {f.path}
      BY <2>2, <2>5
    <3> QED
      BY <1>2, <1>3, <2>4, <3>1, AtLeastIs
  <2>6. CASE Cardinality(kept[i].paths) >= 3
    <3>1. kept[i].paths \ {f.path} \subseteq PathsOf(kept, f.size) \ {f.path}
      BY <2>2
    <3>2. Cardinality(kept[i].paths \ {f.path}) >= 2
      <4> DEFINE S == kept[i].paths
      <4>1. IsFiniteSet(S) /\ Cardinality(S) >= 3
        BY <2>4, <2>6
      <4> HIDE DEF S
      <4>2. /\ Cardinality(S) \in Nat
            /\ Cardinality(S \ {f.path}) =
                 IF f.path \in S THEN Cardinality(S) - 1 ELSE Cardinality(S)
        BY <4>1, FS_RemoveElement, FS_CardinalityType
      <4>3. Cardinality(S \ {f.path}) >= 2
        BY <4>1, <4>2
      <4> QED
        BY <4>3 DEF S
    <3> QED
      BY <1>2, <2>4, <3>1, <3>2, AtLeastIs
  <2> QED
    BY <2>1, <2>5, <2>6 DEF KnownFor
<1>6. Cardinality(AnsweredSizes(f.site)) > MaxSiteSizes
  BY <1>1, <1>5 DEF SiteInv
<1> QED
  BY <1>6 DEF AnsweredSizes

LEMMA PagesStep ==
    ASSUME SitesInv, [Next]_vars, NEW s \in Source, Len(reports'[s]) > Len(reports[s]),
           NEW f \in UNION {r.files : r \in Last(reports'[s])}, SitePage(f)
    PROVE  Cardinality({e.size : e \in {x \in answered : x.site = f.site}}) > MaxSiteSizes
<1>1. Held /\ Typed
  BY DEF SitesInv, Held
<1>2. reports[s] \in Seq(SUBSET Record) /\ Len(reports[s]) \in Nat
  BY <1>1 DEF Typed
<1>3. ASSUME NEW w \in Window, Close(w)
      PROVE  f \in Confirmed(sources[s])
  <2> DEFINE carried == Records(Confirmed(sources[s]))
  <2>1. reports' = [reports EXCEPT ![SourceOf(w)] = Append(@, Records(Confirmed(sources[SourceOf(w)])))]
    BY <1>3 DEF Close
  <2>2. s = SourceOf(w) /\ reports'[s] = Append(reports[s], carried)
    BY <1>1, <2>1 DEF Typed
  <2>3. Last(reports'[s]) = carried
    <3>1. Confirmed(sources[s]) \in SUBSET File
      BY <1>1 DEF Typed, Confirmed, Aggregate
    <3>2. carried \in SUBSET Record
      BY <3>1, RecordsIs
    <3> HIDE DEF carried
    <3>3. /\ Len(Append(reports[s], carried)) = Len(reports[s]) + 1
          /\ Append(reports[s], carried)[Len(reports[s]) + 1] = carried
      BY <1>2, <3>2
    <3> QED
      BY <2>2, <3>3 DEF Last
  <2>4. \A r \in carried : r.files \subseteq Confirmed(sources[s])
    BY DEF Records
  <2> HIDE DEF carried
  <2> QED
    BY <2>3, <2>4
<1>4. ASSUME NEW w \in Window, NEW answer \in Answer \cup {None}, Add(w, answer)
      PROVE  FALSE
  <2>1. reports'[s] \in {reports[s], <<>>}
    BY <1>1, <1>4 DEF Add, Typed
  <2> QED
    BY <1>2, <2>1
<1>5. ASSUME Start
      PROVE  FALSE
  <2>1. reports'[s] = <<>>
    BY <1>5 DEF Start
  <2> QED
    BY <1>2, <2>1
<1>6. ~UNCHANGED reports
  BY <1>2
<1>7. \E w \in Window : Close(w)
  BY <1>1, <1>4, <1>5, <1>6, Steps, SweepIs, FlushIs, KillIs DEF history
<1> QED
  BY <1>3, <1>7, CarriedIsNoPage

\* No window carries a file whose size the site has given for two other paths, however
\* many paths and sizes it answers with, as long as its sizes are no more than are kept
\* (window_features.py:377-402).
THEOREM NoPageReported == Spec => PagesNotReported
<1>1. SitesInv /\ [Next]_vars =>
        [\A s \in Source : Len(reports'[s]) > Len(reports[s]) =>
           \A f \in UNION {r.files : r \in Last(reports'[s])} :
             SitePage(f) => Cardinality({e.size : e \in {x \in answered : x.site = f.site}}) > MaxSiteSizes]_vars
  BY PagesStep
<1> QED
  BY <1>1, SitesInit, SitesNext, PTL DEF Spec, PagesNotReported

-----------------------------------------------------------------------------
(* Downloads.                                                              *)

\* What an aggregate holds of the answers it has seen: of each sensitive file the
\* largest body, and nothing that was not answered.
Gathered(agg, seenBy) ==
    /\ \A d \in seenBy : RootOf(d.path) # None =>
          \E f \in agg.files : f.site = d.site /\ f.path = d.path /\ f.size >= d.size
    /\ \A f \in agg.files : /\ [site |-> f.site, path |-> f.path, size |-> f.size] \in seenBy
                            /\ f.seen \subseteq AnswersIn(f.site, Parent[f.path])
    /\ \A r \in agg.unserved :
          r.path \notin Served /\ \E e \in seenBy : e.path = r.path /\ e.size = r.size

IsPageToAll(s, d) == SitePage(d) \/ DirectoryPage(d) \/ OwnPage(s, d)

\* The first window to close has told all.
Settled(s) ==
    \A d \in Downloads(s) :
        Carriers(s, d) \subseteq {1} /\ (Carriers(s, d) = {} => IsPageToAll(s, d))

SourceInv(s) ==
    /\ sources[s].windows = 0 /\ reports[s] = <<>> => got[s] = {}
    /\ reports[s] = <<>> => Gathered(sources[s], got[s])
    /\ reports[s] # <<>> => Settled(s) /\ sources[s].files = {} /\ OpenOf(s) \subseteq closing

DownloadsInv == SitesInv /\ \A s \in Source : SourceInv(s)

\* A page that repeats its path is one among more answers too.
LEMMA EchoedMore ==
    ASSUME NEW T, IsFiniteSet(T), NEW S, S \subseteq T, NEW path, NEW size, Echoed(path, size, S)
    PROVE  Echoed(path, size, T)
<1>1. PICK c \in 1 .. MaxEchoes : Cardinality({other \in S : SamePage(path, size, other, c)}) >= 2
  BY DEF Echoed
<1>2. {other \in S : SamePage(path, size, other, c)} \subseteq {other \in T : SamePage(path, size, other, c)}
  OBVIOUS
<1>3. IsFiniteSet({other \in T : SamePage(path, size, other, c)})
  BY FS_Subset
<1>4. Cardinality({other \in T : SamePage(path, size, other, c)}) >= 2
  BY <1>1, <1>2, <1>3, AtLeastIs
<1> QED
  BY <1>4 DEF Echoed

\* More answers leave a page a page.
LEMMA PageStays ==
    ASSUME SitesInv, SitesInv', answered \subseteq answered', NEW s \in Source, got'[s] = got[s],
           NEW d \in Answer, IsPageToAll(s, d)
    PROVE  IsPageToAll(s, d)'
<1>1. Typed /\ Typed' /\ d.site \in Site
  BY AnswerIs DEF SitesInv, Held
<1>2. CASE SitePage(d)
  <2>1. AnsweredPaths(d.site, d.size) \ {d.path} \subseteq AnsweredPaths(d.site, d.size)' \ {d.path}
    BY DEF AnsweredPaths
  <2>2. IsFiniteSet(AnsweredPaths(d.site, d.size)' \ {d.path})
    <3>1. IsFiniteSet(answered')
      BY <1>1 DEF Typed
    <3>2. IsFiniteSet({e \in answered' : e.site = d.site /\ e.size = d.size})
      BY <3>1, FS_Subset
    <3>3. IsFiniteSet({[a \in answered' |-> a.path][e] : e \in {x \in answered' : x.site = d.site /\ x.size = d.size}})
      BY <3>2, ImageIs
    <3>4. {[a \in answered' |-> a.path][e] : e \in {x \in answered' : x.site = d.site /\ x.size = d.size}}
            = AnsweredPaths(d.site, d.size)'
      BY DEF AnsweredPaths
    <3> QED
      BY <3>3, <3>4, FS_RemoveElement
  <2>3. Cardinality(AnsweredPaths(d.site, d.size)' \ {d.path}) >= 2
    BY <1>2, <2>1, <2>2, AtLeastIs DEF SitePage, AnsweredPaths
  <2> QED
    BY <2>3 DEF IsPageToAll, SitePage, AnsweredPaths
<1>3. CASE DirectoryPage(d)
  <2>1. AnswersIn(d.site, Parent[d.path]) \subseteq AnswersIn(d.site, Parent[d.path])'
    BY DEF AnswersIn
  <2>2. IsFiniteSet(AnswersIn(d.site, Parent[d.path])')
    <3>1. IsFiniteSet(answered')
      BY <1>1 DEF Typed
    <3> DEFINE S == {e \in answered' : e.site = d.site /\ Parent[e.path] = Parent[d.path]}
               g == [e \in answered' |-> [path |-> e.path, size |-> e.size]]
    <3>2. IsFiniteSet(S)
      BY <3>1, FS_Subset
    <3>3. AnswersIn(d.site, Parent[d.path])' = {g[e] : e \in S}
      BY DEF AnswersIn
    <3> HIDE DEF S, g
    <3> QED
      BY <3>2, <3>3, ImageIs
  <2>3. Echoed(d.path, d.size, AnswersIn(d.site, Parent[d.path]))
    BY <1>3 DEF DirectoryPage, AnswersIn
  <2>4. Echoed(d.path, d.size, AnswersIn(d.site, Parent[d.path])')
    BY <2>1, <2>2, <2>3, EchoedMore
  <2> QED
    BY <2>4 DEF IsPageToAll, DirectoryPage, AnswersIn
<1>4. CASE OwnPage(s, d)
  BY <1>4 DEF OwnPage, IsPageToAll
<1> QED
  BY <1>2, <1>3, <1>4 DEF IsPageToAll

\* What was a page to the builder was one.
LEMMA PageIs ==
    ASSUME SitesInv, NEW s \in Source, Gathered(sources[s], got[s]),
           NEW f \in sources[s].files, IsPage(sources[s], f),
           NEW d \in got[s], d.site = f.site, d.path = f.path, d.size = f.size
    PROVE  IsPageToAll(s, d)
<1>1. /\ Typed /\ sources[s] \in Aggregate /\ got[s] \subseteq answered /\ d \in Answer
      /\ d.site \in Site /\ Parent[d.path] \in Dir /\ SiteInv(d.site)
  <2>1. Typed
    BY DEF SitesInv, Held
  <2>2. d \in Answer
    BY <2>1 DEF Typed
  <2>3. d.site \in Site /\ d.path \in Path
    BY <2>2, AnswerIs
  <2> QED
    BY <2>1, <2>2, <2>3 DEF SitesInv, Typed, Dir
<1>2. CASE Cardinality(PathsOf(siteSizes[f.site], f.size) \ {f.path}) >= 2
  <2>1. PathsOf(siteSizes[d.site], d.size) \subseteq AnsweredPaths(d.site, d.size)
    BY <1>1 DEF PathsOf, ToSet, SiteInv, FromAnswers
  <2>2. IsFiniteSet(AnsweredPaths(d.site, d.size) \ {d.path})
    BY <1>1, AnsweredFinite, FS_RemoveElement
  <2>3. Cardinality(AnsweredPaths(d.site, d.size) \ {d.path}) >= 2
    <3>1. PathsOf(siteSizes[d.site], d.size) \ {d.path} \subseteq AnsweredPaths(d.site, d.size) \ {d.path}
      BY <2>1
    <3> QED
      BY <1>2, <2>2, <3>1, AtLeastIs
  <2> QED
    BY <2>3 DEF IsPageToAll, SitePage, AnsweredPaths
<1>3. CASE Cardinality({r \in sources[s].unserved : r.size = f.size}) >= 2
  <2> DEFINE U == {r \in sources[s].unserved : r.size = f.size}
             E == {e \in got[s] : e.size = d.size /\ e.path \notin Served}
             P == {e.path : e \in E}
             g == [e \in answered |-> [path |-> e.path, size |-> e.size]]
             h == [e \in answered |-> e.path]
  <2>1. IsFiniteSet(E) /\ E \subseteq answered
    <3>1. E \subseteq answered
      BY <1>1
    <3> QED
      BY <1>1, <3>1, FS_Subset DEF Typed
  <2>2. \A r \in U : r = [path |-> r.path, size |-> r.size] /\ \E e \in E : e.path = r.path /\ e.size = r.size
    BY <1>1 DEF Gathered, Aggregate, Sized
  <2>3. U \subseteq {g[e] : e \in E}
    <3>1. ASSUME NEW r \in U
          PROVE  \E e \in E : r = g[e]
      <4>1. PICK e \in E : e.path = r.path /\ e.size = r.size
        BY <2>2
      <4> QED
        BY <2>1, <2>2, <4>1
    <3> QED
      BY <3>1
  <2>4. P = {h[e] : e \in E}
    BY <2>1
  <2>5. IsFiniteSet({g[e] : e \in E}) /\ IsFiniteSet({h[e] : e \in E})
    <3> HIDE DEF E, g, h
    <3> QED
      BY <2>1, ImageIs
  <2>6. IsFiniteSet(U) /\ IsFiniteSet(P)
    BY <2>3, <2>4, <2>5, FS_Subset
  <2>7. PICK r1 \in U, r2 \in U : r1 # r2
    BY <1>3, <2>6, PairIs
  <2>8. r1.path # r2.path /\ r1.path \in P /\ r2.path \in P
    BY <2>2, <2>7
  <2> HIDE DEF P
  <2>9. Cardinality(P) >= 2
    BY <2>6, <2>8, PairIs
  <2> QED
    BY <2>9 DEF IsPageToAll, OwnPage, P
<1>4. CASE Echoed(f.path, f.size, Merged(f.seen, ToSet(siteDirs[<<f.site, Parent[f.path]>>])))
  <2>1. Merged(f.seen, ToSet(siteDirs[<<f.site, Parent[f.path]>>])) \subseteq AnswersIn(d.site, Parent[d.path])
    BY <1>1 DEF Merged, Gathered, SiteInv
  <2>2. IsFiniteSet(AnswersIn(d.site, Parent[d.path]))
    BY <1>1, AnsweredFinite
  <2>3. Echoed(d.path, d.size, AnswersIn(d.site, Parent[d.path]))
    BY <1>4, <2>1, <2>2, EchoedMore
  <2> QED
    BY <2>3 DEF IsPageToAll, DirectoryPage, AnswersIn
<1> QED
  BY <1>2, <1>3, <1>4 DEF IsPage

\* An aggregate that others' answers do not touch stays what it is.
LEMMA SourceStays ==
    ASSUME DownloadsInv, SitesInv', NEW s \in Source, answered \subseteq answered',
           sources'[s] = sources[s], got'[s] = got[s], reports'[s] = reports[s],
           OpenOf(s) \subseteq closing => OpenOf(s)' \subseteq closing'
    PROVE  SourceInv(s)'
<1>1. SitesInv /\ SourceInv(s)
  BY DEF DownloadsInv
<1>2. got[s] \subseteq Answer
  BY <1>1 DEF SitesInv, Held, Typed
<1>3. ASSUME Gathered(sources[s], got[s])
      PROVE  Gathered(sources[s], got[s])'
  <2>1. \A site, dir : AnswersIn(site, dir) \subseteq AnswersIn(site, dir)'
    BY DEF AnswersIn
  <2>2. \A f \in sources'[s].files : f.seen \subseteq AnswersIn(f.site, Parent[f.path])'
    BY <1>3, <2>1 DEF Gathered
  <2> QED
    BY <1>3, <2>2 DEF Gathered
<1>4. ASSUME Settled(s)
      PROVE  Settled(s)'
  <2>1. Downloads(s)' = Downloads(s)
    BY DEF Downloads
  <2>2. \A d : Carriers(s, d)' = Carriers(s, d)
    BY DEF Carriers
  <2>3. \A d \in Downloads(s) : d \in Answer
    BY <1>2 DEF Downloads
  <2>4. \A d \in Downloads(s) : IsPageToAll(s, d) => IsPageToAll(s, d)'
    BY <1>1, <2>3, PageStays
  <2> QED
    BY <1>4, <2>1, <2>2, <2>4 DEF Settled
<1> QED
  BY <1>1, <1>3, <1>4 DEF SourceInv

\* An answer is gathered by the aggregate of its address.
LEMMA GatheredMore ==
    ASSUME Typed, NEW agg \in Aggregate, NEW seenBy \in SUBSET Answer, NEW answer \in Answer,
           Gathered(agg, seenBy), NEW siblings \in Seq(Sized), answered \subseteq answered',
           ToSet(siblings) \subseteq AnswersIn(answer.site, Parent[answer.path])'
    PROVE  LET now == NoteExposure(NoteUnserved(agg, answer), answer, siblings) IN
           /\ \A d \in seenBy \cup {answer} : RootOf(d.path) # None =>
                \E f \in now.files : f.site = d.site /\ f.path = d.path /\ f.size >= d.size
           /\ \A f \in now.files :
                /\ [site |-> f.site, path |-> f.path, size |-> f.size] \in seenBy \cup {answer}
                /\ f.seen \subseteq AnswersIn(f.site, Parent[f.path])'
           /\ \A r \in now.unserved :
                /\ r.path \notin Served
                /\ \E e \in seenBy \cup {answer} : e.path = r.path /\ e.size = r.size
<1> DEFINE base == NoteUnserved(agg, answer)
           now == NoteExposure(base, answer, siblings)
           known == {f \in agg.files : f.site = answer.site /\ f.path = answer.path}
           file == [site |-> answer.site, path |-> answer.path, size |-> answer.size,
                    seen |-> ToSet(siblings)]
<1>1. /\ base \in Aggregate /\ base.files = agg.files
      /\ base.unserved = IF answer.path \in Served THEN agg.unserved
                         ELSE agg.unserved \cup {[path |-> answer.path, size |-> answer.size]}
  BY NoteUnservedIs
<1> HIDE DEF base
<1>2. /\ now.unserved = base.unserved
      /\ now.files = IF RootOf(answer.path) = None \/ \E f \in known : f.size >= answer.size
                     THEN agg.files ELSE (agg.files \ known) \cup {file}
  <2>1. ASSUME NEW b \in Aggregate
        PROVE  LET of == {f \in b.files : f.site = answer.site /\ f.path = answer.path}
                   noted == NoteExposure(b, answer, siblings)
               IN  /\ noted.unserved = b.unserved
                   /\ noted.files =
                         IF RootOf(answer.path) = None \/ \E f \in of : f.size >= answer.size
                         THEN b.files ELSE (b.files \ of) \cup {file}
    BY NoteExposureIs
  <2> QED
    BY <1>1, <2>1
<1>3. \A site, dir : AnswersIn(site, dir) \subseteq AnswersIn(site, dir)'
  BY DEF AnswersIn
<1>4. \A f \in agg.files : f.size \in Nat
  BY DEF Aggregate, File
<1>5. answer = [site |-> answer.site, path |-> answer.path, size |-> answer.size] /\ answer.size \in Nat
  BY AnswerIs
<1>6. file.site = answer.site /\ file.path = answer.path /\ file.size = answer.size
      /\ file.seen = ToSet(siblings)
  OBVIOUS
<1> HIDE DEF now, file
<1>7. ASSUME NEW d \in seenBy \cup {answer}, RootOf(d.path) # None
      PROVE  \E f \in now.files : f.site = d.site /\ f.path = d.path /\ f.size >= d.size
  <2>1. CASE d = answer
    <3>1. CASE \E f \in known : f.size >= answer.size
      BY <1>2, <2>1, <3>1
    <3>2. CASE ~\E f \in known : f.size >= answer.size
      <4>1. file \in now.files
        BY <1>2, <1>7, <2>1, <3>2
      <4> QED
        BY <1>5, <1>6, <2>1, <4>1
    <3> QED
      BY <3>1, <3>2
  <2>2. CASE d \in seenBy
    <3>1. PICK f \in agg.files : f.site = d.site /\ f.path = d.path /\ f.size >= d.size
      BY <1>7, <2>2 DEF Gathered
    <3>2. CASE f \in now.files
      BY <3>1, <3>2
    <3>3. CASE f \notin now.files
      <4>1. f \in known /\ ~(f.size >= answer.size) /\ file \in now.files
        BY <1>2, <3>3
      <4>2. d.size \in Nat
        BY <2>2, AnswerIs
      <4>3. file.size >= d.size
        BY <1>4, <1>5, <1>6, <3>1, <4>1, <4>2
      <4> QED
        BY <1>6, <3>1, <4>1, <4>3
    <3> QED
      BY <3>2, <3>3
  <2> QED
    BY <2>1, <2>2
<1>8. ASSUME NEW f \in now.files
      PROVE  /\ [site |-> f.site, path |-> f.path, size |-> f.size] \in seenBy \cup {answer}
             /\ f.seen \subseteq AnswersIn(f.site, Parent[f.path])'
  <2>1. f \in agg.files \/ f = file
    BY <1>2
  <2>2. CASE f \in agg.files
    BY <1>3, <2>2 DEF Gathered
  <2>3. CASE f = file
    BY <1>5, <1>6, <2>3
  <2> QED
    BY <2>1, <2>2, <2>3
<1>9. ASSUME NEW r \in now.unserved
      PROVE  r.path \notin Served /\ \E e \in seenBy \cup {answer} : e.path = r.path /\ e.size = r.size
  <2>1. CASE r \in agg.unserved
    BY <2>1 DEF Gathered
  <2>2. CASE r \notin agg.unserved
    BY <1>1, <1>2, <2>2
  <2> QED
    BY <2>1, <2>2
<1>10. /\ \A d \in seenBy \cup {answer} : RootOf(d.path) # None =>
             \E f \in now.files : f.site = d.site /\ f.path = d.path /\ f.size >= d.size
       /\ \A f \in now.files :
             /\ [site |-> f.site, path |-> f.path, size |-> f.size] \in seenBy \cup {answer}
             /\ f.seen \subseteq AnswersIn(f.site, Parent[f.path])'
       /\ \A r \in now.unserved :
             r.path \notin Served /\ \E e \in seenBy \cup {answer} : e.path = r.path /\ e.size = r.size
  BY <1>7, <1>8, <1>9
<1> QED
  BY <1>10 DEF now, base

LEMMA DownloadsAdd ==
    ASSUME DownloadsInv, NEW w \in Window, NEW answer \in Answer \cup {None}, Add(w, answer)
    PROVE  DownloadsInv'
<1> DEFINE s == SourceOf(w)
           isNew == sources[s].windows = 0
           seenBy == IF isNew THEN {} ELSE got[s]
           agg == Counted(sources[s], open[w] = 0)
<1>1. SitesInv /\ Held /\ Typed /\ s \in Source
  BY WindowIs DEF DownloadsInv, SitesInv, Held
<1>2. SitesInv' /\ Held' /\ Typed'
  <2>1. [Next]_vars
    BY DEF Next
  <2> QED
    BY <1>1, <2>1, SitesNext DEF SitesInv, Held
<1>3. /\ sources' = [sources EXCEPT ![s] = Folded(w, answer)]
      /\ Opened' = Opened \cup {w} /\ answered \subseteq answered'
  BY <1>1, AddIs
<1>4. /\ got' = [got EXCEPT ![s] = seenBy \cup ({answer} \ {None})]
      /\ reports' = [reports EXCEPT ![s] = IF isNew THEN <<>> ELSE @]
      /\ closing = {} /\ closing' = {}
  BY DEF Add
<1>5. sources'[s] = Folded(w, answer) /\ got'[s] = seenBy \cup ({answer} \ {None})
  BY <1>1, <1>3, <1>4 DEF Typed
<1>6. ASSUME NEW t \in Source \ {s}
      PROVE  SourceInv(t)'
  <2>1. sources'[t] = sources[t] /\ got'[t] = got[t] /\ reports'[t] = reports[t]
    BY <1>1, <1>3, <1>4 DEF Typed
  <2>2. OpenOf(t)' = OpenOf(t)
    BY <1>3 DEF OpenOf
  <2> QED
    BY <1>2, <1>3, <1>4, <2>1, <2>2, SourceStays
<1>7. reports'[s] = <<>> /\ (reports[s] # <<>> => isNew)
  <2>1. reports[s] # <<>> => OpenOf(s) = {}
    BY <1>1, <1>4 DEF DownloadsInv, SourceInv
  <2>2. isNew <=> OpenOf(s) = {}
    BY <1>1, OpenOfIs
  <2> QED
    BY <1>1, <1>4, <2>1, <2>2 DEF Typed
<1>8. sources'[s].windows # 0
  <2>1. w \in OpenOf(s)' /\ IsFiniteSet(OpenOf(s)') /\ sources'[s].windows = Cardinality(OpenOf(s)')
    <3>1. OpenOf(s)' = OpenOf(s) \cup {w} /\ IsFiniteSet(OpenOf(s))
      BY <1>1, <1>3, OpenOfIs DEF OpenOf
    <3> QED
      BY <1>1, <1>2, <3>1, FS_AddElement DEF Held
  <2> QED
    BY <2>1, FS_EmptySet
<1>9. /\ agg \in Aggregate /\ agg.files = sources[s].files /\ agg.unserved = sources[s].unserved
  BY <1>1, CountedIs DEF Typed
<1>10. Gathered(agg, seenBy) /\ seenBy \in SUBSET Answer
  <2>1. CASE isNew
    <3>1. sources[s] = NoAggregate
      BY <1>1, <2>1 DEF Held
    <3>2. agg.files = {} /\ agg.unserved = {}
      BY <1>9, <3>1 DEF NoAggregate
    <3> HIDE DEF agg
    <3> QED
      BY <2>1, <3>2 DEF Gathered
  <2>2. CASE ~isNew
    <3>1. Gathered(sources[s], got[s])
      BY <1>1, <1>7, <2>2 DEF DownloadsInv, SourceInv
    <3> HIDE DEF agg
    <3> QED
      BY <1>1, <1>9, <2>2, <3>1 DEF Gathered, Typed
  <2> QED
    BY <2>1, <2>2
<1>11. Gathered(sources[s], got[s])'
  <2>1. CASE answer = None
    <3>1. sources'[s] = agg /\ got'[s] = seenBy
      BY <1>5, <2>1 DEF Folded
    <3>2. answered' = answered
      BY <1>1, <2>1, AddIs
    <3>3. \A site, dir : AnswersIn(site, dir)' = AnswersIn(site, dir)
      BY <3>2 DEF AnswersIn
    <3> HIDE DEF agg, seenBy, s
    <3> QED
      BY <1>10, <3>1, <3>3 DEF Gathered
  <2>2. CASE answer # None
    <3>1. answer \in Answer /\ answer.site \in Site /\ Parent[answer.path] \in Dir
      BY <2>2, AnswerIs DEF Dir
    <3>2. sources'[s] = NoteExposure(NoteUnserved(agg, answer), answer, Siblings(answer))
          /\ got'[s] = seenBy \cup {answer}
      BY <1>5, <2>2 DEF Folded
    <3>3. Siblings(answer) \in Seq(Sized)
      BY <1>1, <2>2, FoldedIs
    <3>4. ToSet(Siblings(answer)) \subseteq AnswersIn(answer.site, Parent[answer.path])'
      <4>1. siteDirs' = [siteDirs EXCEPT ![<<answer.site, Parent[answer.path]>>] = Siblings(answer)]
        BY <1>1, <2>2, AddIs
      <4>2. siteDirs'[<<answer.site, Parent[answer.path]>>] = Siblings(answer)
        BY <1>1, <3>1, <4>1 DEF Typed
      <4> QED
        BY <1>2, <3>1, <4>2 DEF SitesInv, SiteInv
    <3> HIDE DEF agg, seenBy, s
    <3>5. LET now == NoteExposure(NoteUnserved(agg, answer), answer, Siblings(answer)) IN
          /\ \A d \in seenBy \cup {answer} : RootOf(d.path) # None =>
               \E f \in now.files : f.site = d.site /\ f.path = d.path /\ f.size >= d.size
          /\ \A f \in now.files :
               /\ [site |-> f.site, path |-> f.path, size |-> f.size] \in seenBy \cup {answer}
               /\ f.seen \subseteq AnswersIn(f.site, Parent[f.path])'
          /\ \A r \in now.unserved :
               /\ r.path \notin Served
               /\ \E e \in seenBy \cup {answer} : e.path = r.path /\ e.size = r.size
      BY <1>1, <1>3, <1>9, <1>10, <3>1, <3>3, <3>4, GatheredMore
    <3> QED
      BY <3>2, <3>5 DEF Gathered
  <2> QED
    BY <2>1, <2>2
<1>12. SourceInv(s)'
  BY <1>7, <1>8, <1>11 DEF SourceInv
<1> QED
  BY <1>2, <1>6, <1>12 DEF DownloadsInv

\* The first window of an aggregate to close tells of every download, or it was a page.
LEMMA FirstClosed ==
    ASSUME SitesInv, SitesInv', NEW s \in Source, Gathered(sources[s], got[s]),
           reports'[s] = <<Records(Confirmed(sources[s]))>>, got'[s] = got[s], answered' = answered
    PROVE  Settled(s)'
<1> DEFINE carried == Records(Confirmed(sources[s]))
<1>1. got[s] \subseteq Answer
  BY DEF SitesInv, Held, Typed
<1>2. Downloads(s)' = Downloads(s) /\ Downloads(s) \subseteq got[s]
  BY DEF Downloads
<1>3. DOMAIN reports'[s] = {1} /\ reports'[s][1] = carried
  OBVIOUS
<1>4. ASSUME NEW d \in Downloads(s), Carriers(s, d)' = {}
      PROVE  IsPageToAll(s, d)'
  <2>1. d \in got[s] /\ d \in Answer /\ RootOf(d.path) # None /\ d.size \in Nat
    BY <1>1, <1>2, AnswerIs DEF Downloads
  <2>2. PICK f \in sources[s].files : f.site = d.site /\ f.path = d.path /\ f.size >= d.size
    BY <2>1 DEF Gathered
  <2>3. f.size = d.size
    <3>1. [site |-> f.site, path |-> f.path, size |-> f.size] \in got[s]
      BY DEF Gathered
    <3>2. f.size <= d.size
      BY <2>2, <3>1 DEF Downloads
    <3>3. f.size \in Nat
      BY DEF SitesInv, Held, Typed, Aggregate, File
    <3> QED
      BY <2>1, <2>2, <3>2, <3>3
  <2>4. f \notin Confirmed(sources[s])
    <3>1. SUFFICES ASSUME f \in Confirmed(sources[s])
                   PROVE  FALSE
      OBVIOUS
    <3> DEFINE files == Confirmed(sources[s])
               r == [site |-> f.site, root |-> RootOf(f.path), kind |-> Kind(Segments[f.path]),
                     files |-> {g \in files : g.site = f.site /\ RootOf(g.path) = RootOf(f.path)}]
    <3>2. r \in carried /\ f \in r.files
      BY <3>1 DEF Records
    <3> HIDE DEF r
    <3>3. 1 \in Carriers(s, d)'
      BY <1>3, <2>2, <3>2 DEF Carriers
    <3> QED
      BY <1>4, <3>3
  <2>5. IsPage(sources[s], f)
    BY <2>4 DEF Confirmed
  <2>6. IsPageToAll(s, d)
    BY <2>1, <2>2, <2>3, <2>5, PageIs
  <2> QED
    BY <2>1, <2>6, PageStays
<1>5. \A d : Carriers(s, d)' \subseteq {1}
  BY <1>3 DEF Carriers
<1> QED
  BY <1>2, <1>4, <1>5 DEF Settled

\* The others carry nothing.
LEMMA LaterClosed ==
    ASSUME SitesInv, SitesInv', NEW s \in Source, Settled(s), sources[s].files = {},
           reports'[s] = Append(reports[s], Records(Confirmed(sources[s]))),
           got'[s] = got[s], answered' = answered
    PROVE  Settled(s)'
<1>1. Records(Confirmed(sources[s])) = {}
  BY DEF Confirmed, Records
<1>2. reports[s] \in Seq(SUBSET Record) /\ got[s] \subseteq Answer
  BY DEF SitesInv, Held, Typed
<1>3. /\ DOMAIN reports'[s] = 1 .. Len(reports[s]) + 1 /\ reports'[s][Len(reports[s]) + 1] = {}
      /\ DOMAIN reports[s] = 1 .. Len(reports[s]) /\ Len(reports[s]) \in Nat
      /\ \A i \in DOMAIN reports[s] : reports'[s][i] = reports[s][i]
  BY <1>1, <1>2
<1>4. \A d : Carriers(s, d)' = Carriers(s, d)
  BY <1>3 DEF Carriers
<1>5. Downloads(s)' = Downloads(s) /\ \A d \in Downloads(s) : d \in Answer
  BY <1>2 DEF Downloads
<1>6. \A d \in Downloads(s) : IsPageToAll(s, d) => IsPageToAll(s, d)'
  BY <1>5, PageStays
<1> QED
  BY <1>4, <1>5, <1>6 DEF Settled

LEMMA DownloadsClose ==
    ASSUME DownloadsInv, NEW w \in Window, Close(w)
    PROVE  DownloadsInv'
<1> DEFINE s == SourceOf(w)
           carried == Records(Confirmed(sources[s]))
<1>1. SitesInv /\ Held /\ Typed
  BY DEF DownloadsInv, SitesInv, Held
<1>2. SitesInv' /\ Held'
  <2>1. [Next]_vars
    BY DEF Next
  <2> QED
    BY <1>1, <2>1, SitesNext DEF SitesInv
<1>3. /\ s \in Source /\ sources'[s].files = {} /\ OpenOf(s) \subseteq closing
      /\ OpenOf(s)' = OpenOf(s) \ {w}
      /\ \A t \in Source \ {s} : sources'[t] = sources[t] /\ OpenOf(t)' = OpenOf(t)
  BY <1>1, HeldClose
<1>4. /\ reports' = [reports EXCEPT ![s] = Append(@, carried)]
      /\ closing' = closing \ {w} /\ answered' = answered /\ got' = got
  BY DEF Close
<1> HIDE DEF carried
<1>5. reports'[s] = Append(reports[s], carried) /\ reports[s] \in Seq(SUBSET Record)
  BY <1>1, <1>3, <1>4 DEF Typed
<1>6. reports'[s] # <<>>
  <2>1. carried \in SUBSET Record
    <3>1. Confirmed(sources[s]) \in SUBSET File
      BY <1>1, <1>3 DEF Typed, Confirmed, Aggregate
    <3> QED
      BY <3>1, RecordsIs DEF carried
  <2> QED
    BY <1>5, <2>1, AppendIn
<1>7. Settled(s)'
  <2>1. CASE reports[s] = <<>>
    <3>1. reports'[s] = <<Records(Confirmed(sources[s]))>>
      BY <1>5, <2>1 DEF carried
    <3> QED
      BY <1>1, <1>2, <1>3, <1>4, <2>1, <3>1, FirstClosed DEF DownloadsInv, SourceInv
  <2>2. CASE reports[s] # <<>>
    <3>1. reports'[s] = Append(reports[s], Records(Confirmed(sources[s])))
      BY <1>5 DEF carried
    <3> QED
      BY <1>1, <1>2, <1>3, <1>4, <2>2, <3>1, LaterClosed DEF DownloadsInv, SourceInv
  <2> QED
    BY <2>1, <2>2
<1>8. SourceInv(s)'
  BY <1>3, <1>4, <1>6, <1>7 DEF SourceInv
<1>9. ASSUME NEW t \in Source \ {s}
      PROVE  SourceInv(t)'
  <2>1. reports'[t] = reports[t]
    BY <1>1, <1>4 DEF Typed
  <2>2. OpenOf(t) \subseteq closing => OpenOf(t)' \subseteq closing'
    BY <1>3, <1>4 DEF OpenOf
  <2> QED
    BY <1>2, <1>3, <1>4, <2>1, <2>2, SourceStays
<1> QED
  BY <1>2, <1>8, <1>9 DEF DownloadsInv

LEMMA DownloadsInit == Init => DownloadsInv
<1> SUFFICES ASSUME Init
             PROVE  DownloadsInv
  OBVIOUS
<1>1. SitesInv
  BY SitesInit
<1>2. ASSUME NEW s \in Source
      PROVE  SourceInv(s)
  <2>1. sources[s] = NoAggregate /\ got[s] = {} /\ reports[s] = <<>>
    BY <1>2 DEF Init, NoSources
  <2> QED
    BY <2>1 DEF SourceInv, Gathered, NoAggregate
<1> QED
  BY <1>1, <1>2 DEF DownloadsInv

LEMMA DownloadsNext ==
    ASSUME DownloadsInv, [Next]_vars
    PROVE  DownloadsInv'
<1>1. SitesInv /\ SitesInv' /\ Held
  BY SitesNext DEF DownloadsInv, SitesInv
<1>2. ASSUME Start
      PROVE  DownloadsInv'
  <2>1. ASSUME NEW s \in Source
        PROVE  SourceInv(s)'
    <3>1. sources'[s] = NoAggregate /\ got'[s] = {} /\ reports'[s] = <<>>
      BY <1>2, <2>1 DEF Start, NoSources
    <3> QED
      BY <3>1 DEF SourceInv, Gathered, NoAggregate
  <2> QED
    BY <1>1, <2>1 DEF DownloadsInv
<1>3. ASSUME UNCHANGED <<open, sources, answered, got, reports>>, closing' = closing \/ closing = {}
      PROVE  DownloadsInv'
  <2>1. \A s : OpenOf(s)' = OpenOf(s)
    BY <1>3 DEF OpenOf, Opened
  <2>2. \A s \in Source : OpenOf(s) \subseteq closing => OpenOf(s)' \subseteq closing'
    BY <1>3, <2>1
  <2>3. \A s \in Source : SourceInv(s)'
    BY <1>1, <1>3, <2>2, SourceStays
  <2> QED
    BY <1>1, <2>3 DEF DownloadsInv
<1>4. ASSUME NEW bucket \in Bucket, Sweep(bucket)
      PROVE  DownloadsInv'
  <2>1. UNCHANGED <<open, sources, answered, got, reports>> /\ closing = {}
    BY <1>4 DEF Sweep, history
  <2> QED
    BY <1>3, <2>1
<1>5. ASSUME Flush
      PROVE  DownloadsInv'
  <2>1. UNCHANGED <<open, sources, answered, got, reports>> /\ closing = {}
    BY <1>5 DEF Flush
  <2> QED
    BY <1>3, <2>1
<1>6. ASSUME Kill
      PROVE  DownloadsInv'
  <2>1. UNCHANGED <<open, sources, answered, got, reports, closing>>
    BY <1>6 DEF Kill
  <2> QED
    BY <1>3, <2>1
<1>7. ASSUME UNCHANGED <<open, sources, seen, memory, closing, flushing, history>>
      PROVE  DownloadsInv'
  <2>1. UNCHANGED <<open, sources, answered, got, reports, closing>>
    BY <1>7 DEF history
  <2> QED
    BY <1>3, <2>1
<1> QED
  BY <1>2, <1>4, <1>5, <1>6, <1>7, DownloadsAdd, DownloadsClose, Steps

\* When the windows of an address in a bucket are closed, each sensitive file it got was
\* carried by one of them and by no other, or its answer was a page: whatever number of
\* addresses, user-agents and sites interleave, and whenever the rules judged
\* (window_features.py:336-402).
THEOREM DownloadsAreReported == Spec => []DownloadsReported
<1>1. DownloadsInv => DownloadsReported
  <2> SUFFICES ASSUME DownloadsInv, NEW s \in Source, sources[s] = NoAggregate, NEW d \in Downloads(s)
               PROVE  /\ Cardinality(Carriers(s, d)) <= 1
                      /\ Carriers(s, d) = {} => SitePage(d) \/ DirectoryPage(d) \/ OwnPage(s, d)
    BY DEF DownloadsReported
  <2>1. sources[s].windows = 0
    BY DEF NoAggregate
  <2>2. got[s] # {}
    BY DEF Downloads
  <2>3. Settled(s)
    BY <2>1, <2>2 DEF DownloadsInv, SourceInv
  <2>4. Carriers(s, d) \subseteq {1} /\ (Carriers(s, d) = {} => IsPageToAll(s, d))
    BY <2>3 DEF Settled
  <2>5. Cardinality(Carriers(s, d)) <= 1
    <3>1. IsFiniteSet({1}) /\ Cardinality({1}) = 1
      BY FS_Singleton
    <3> QED
      BY <2>4, <3>1, FS_Subset
  <2> QED
    BY <2>4, <2>5 DEF IsPageToAll
<1> QED
  BY <1>1, DownloadsInit, DownloadsNext, PTL DEF Spec

-----------------------------------------------------------------------------
(* What is kept is bounded.                                                *)

LEMMA RemoveAtFits ==
    ASSUME NEW T, NEW s \in Seq(T), NEW i \in DOMAIN s
    PROVE  RemoveAt(s, i) \in Seq(T) /\ Len(RemoveAt(s, i)) = Len(s) - 1
<1>1. Len(s) \in Nat /\ i \in 1 .. Len(s)
  OBVIOUS
<1>2. SubSeq(s, 1, i - 1) \in Seq(T) /\ Len(SubSeq(s, 1, i - 1)) = i - 1
  BY <1>1
<1>3. SubSeq(s, i + 1, Len(s)) \in Seq(T) /\ Len(SubSeq(s, i + 1, Len(s))) = Len(s) - i
  BY <1>1
<1>4. \A t, u \in Seq(T) : t \o u \in Seq(T) /\ Len(t \o u) = Len(t) + Len(u)
  OBVIOUS
<1>5. /\ RemoveAt(s, i) \in Seq(T)
      /\ Len(RemoveAt(s, i)) = Len(SubSeq(s, 1, i - 1)) + Len(SubSeq(s, i + 1, Len(s)))
  BY <1>2, <1>3, <1>4 DEF RemoveAt
<1>6. Len(RemoveAt(s, i)) = (i - 1) + (Len(s) - i)
  BY <1>2, <1>3, <1>5
<1>7. \A a, b \in Int : (a - 1) + (b - a) = b - 1
  OBVIOUS
<1>8. i \in Int /\ Len(s) \in Int
  BY <1>1
<1>9. (i - 1) + (Len(s) - i) = Len(s) - 1
  BY <1>7, <1>8
<1> QED
  BY <1>5, <1>6, <1>9

LEMMA RememberAnswerFits ==
    ASSUME NEW answers \in Seq(Sized), Len(answers) <= DirAnswers, NEW path \in Path, NEW size \in Nat
    PROVE  Len(RememberAnswer(answers, path, size)) <= DirAnswers
<1> DEFINE known == {i \in DOMAIN answers : answers[i].path = path}
           others == IF known = {} THEN answers ELSE RemoveAt(answers, CHOOSE i \in known : TRUE)
           answer == [path |-> path, size |-> size]
           kept == Append(others, answer)
<1>1. others \in Seq(Sized) /\ Len(others) <= DirAnswers /\ DirAnswers \in Nat
  <2>1. Len(answers) \in Nat /\ DirAnswers \in Nat
    BY CatchAllAssumption
  <2>2. CASE known = {}
    BY <2>1, <2>2
  <2>3. CASE known # {}
    <3>1. (CHOOSE i \in known : TRUE) \in DOMAIN answers
      BY <2>3
    <3> QED
      BY <2>1, <2>3, <3>1, RemoveAtFits
  <2> QED
    BY <2>2, <2>3, <2>1
<1>2. answer \in Sized
  BY DEF Sized
<1>3. RememberAnswer(answers, path, size) = IF Len(kept) > DirAnswers THEN Tail(kept) ELSE kept
  BY DEF RememberAnswer
<1> HIDE DEF others, answer
<1>4. kept \in Seq(Sized) /\ Len(kept) = Len(others) + 1
  BY <1>1, <1>2
<1> HIDE DEF kept
<1>5. kept # <<>> => Len(Tail(kept)) = Len(kept) - 1
  BY <1>4, TailIn
<1>6. Len(kept) > DirAnswers => kept # <<>>
  BY <1>1, <1>4
<1> QED
  BY <1>1, <1>3, <1>4, <1>5, <1>6

LEMMA RememberSizeFits ==
    ASSUME NEW sizes \in Seq(SizesKept), Len(sizes) <= MaxSiteSizes, NEW path \in Path, NEW size \in Nat
    PROVE  Len(RememberSize(sizes, path, size)) <= MaxSiteSizes
<1>1. Len(sizes) \in Nat /\ DOMAIN sizes = 1 .. Len(sizes) /\ MaxSiteSizes \in Nat \ {0}
  BY CatchAllAssumption
<1>2. CASE \E i \in DOMAIN sizes : sizes[i].size = size
  <2>1. RememberSize(sizes, path, size) =
          [i \in DOMAIN sizes |-> IF sizes[i].size = size
                                  THEN [sizes[i] EXCEPT !.paths = KeepPaths(@, path)] ELSE sizes[i]]
    BY <1>2 DEF RememberSize
  <2>2. DOMAIN RememberSize(sizes, path, size) = 1 .. Len(sizes)
    BY <1>1, <2>1
  <2>3. RememberSize(sizes, path, size) \in Seq(SizesKept)
    BY RememberSizeIs
  <2> QED
    BY <1>1, <2>2, <2>3
<1>3. CASE ~\E i \in DOMAIN sizes : sizes[i].size = size
  <2> DEFINE room == IF Len(sizes) >= MaxSiteSizes THEN Tail(sizes) ELSE sizes
             entry == [size |-> size, paths |-> {path}]
  <2>1. entry \in SizesKept
    BY DEF SizesKept
  <2>2. room \in Seq(SizesKept) /\ Len(room) + 1 <= MaxSiteSizes
    <3>1. Len(sizes) >= MaxSiteSizes => sizes # <<>>
      BY <1>1
    <3> QED
      BY <1>1, <3>1, TailIn
  <2>3. RememberSize(sizes, path, size) = Append(room, entry)
    BY <1>3 DEF RememberSize
  <2> HIDE DEF room, entry
  <2>4. Len(Append(room, entry)) = Len(room) + 1
    BY <2>1, <2>2
  <2> QED
    BY <2>2, <2>3, <2>4
<1> QED
  BY <1>2, <1>3

LEMMA TrimmedFits ==
    ASSUME NEW recent \in Seq(Entry)
    PROVE  Len(Trimmed(recent)) <= RecentBuckets
<1>1. Len(recent) \in Nat /\ RecentBuckets \in Nat
  BY AddressMemoryAssumption
<1>2. CASE Len(recent) > RecentBuckets
  <2>1. /\ Len(recent) - RecentBuckets + 1 \in 1 .. Len(recent) + 1
        /\ Trimmed(recent) = SubSeq(recent, Len(recent) - RecentBuckets + 1, Len(recent))
    BY <1>1, <1>2 DEF Trimmed
  <2>2. Len(SubSeq(recent, Len(recent) - RecentBuckets + 1, Len(recent))) = RecentBuckets
    BY <1>1, <1>2, <2>1
  <2> QED
    BY <1>1, <2>1, <2>2
<1>3. CASE ~(Len(recent) > RecentBuckets)
  BY <1>1, <1>3 DEF Trimmed
<1> QED
  BY <1>2, <1>3

LEMMA CloseBucketFits ==
    ASSUME NEW recent \in Seq(Entry), Len(recent) <= RecentBuckets,
           NEW bucket \in Nat, NEW count \in Nat, NEW partial \in BOOLEAN
    PROVE  Len(CloseBucket(recent, bucket, count, partial)) <= RecentBuckets
<1>1. CASE ~LastIs(recent, bucket)
  <2>1. [bucket |-> bucket, events |-> count, partial |-> partial] \in Entry
    BY DEF Entry
  <2>2. Append(recent, [bucket |-> bucket, events |-> count, partial |-> partial]) \in Seq(Entry)
    BY <2>1
  <2> QED
    BY <1>1, <2>2, TrimmedFits DEF CloseBucket
<1>2. CASE LastIs(recent, bucket) /\ Last(recent).partial
  <2>1. /\ recent # <<>> /\ Len(recent) \in Nat /\ Len(recent) >= 1
        /\ Last(recent) = recent[Len(recent)] /\ Last(recent) \in Entry
    BY <1>2 DEF LastIs, Last
  <2>2. [bucket |-> bucket, events |-> Last(recent).events + count, partial |-> partial] \in Entry
    BY <2>1 DEF Entry
  <2>3. Front(recent) \in Seq(Entry) /\ Len(Front(recent)) = Len(recent) - 1
    <3>1. Front(recent) = SubSeq(recent, 1, Len(recent) - 1) /\ Len(recent) - 1 \in Nat
      BY <2>1 DEF Front
    <3>2. SubSeq(recent, 1, Len(recent) - 1) \in Seq(Entry)
      BY <2>1, <3>1, SubSeqIn
    <3>3. Len(SubSeq(recent, 1, Len(recent) - 1)) = Len(recent) - 1
      <4>1. PICK n \in Nat : n = Len(recent) - 1
        BY <3>1
      <4>2. Len(SubSeq(recent, 1, n)) = n
        BY <2>1, <4>1, SubSeqIn
      <4> QED
        BY <4>1, <4>2
    <3> QED
      BY <3>1, <3>2, <3>3
  <2>4. CloseBucket(recent, bucket, count, partial) =
          Append(Front(recent), [bucket |-> bucket, events |-> Last(recent).events + count, partial |-> partial])
    BY <1>2 DEF CloseBucket
  <2> QED
    BY <2>1, <2>2, <2>3, <2>4
<1>3. CASE LastIs(recent, bucket) /\ ~Last(recent).partial
  BY <1>3 DEF CloseBucket
<1> QED
  BY <1>1, <1>2, <1>3

LimitsInv ==
    /\ Held
    /\ events \in 0 .. MaxEvents /\ \A w \in Window : open[w] <= events
    /\ \A site \in Site : Len(siteSizes[site]) <= MaxSiteSizes
    /\ \A place \in Site \X Dir : Len(siteDirs[place]) <= DirAnswers
    /\ \A a \in Address : Len(memory[a]) <= RecentBuckets

LEMMA LimitsInit == Init => LimitsInv
<1> SUFFICES ASSUME Init
             PROVE  LimitsInv
  OBVIOUS
<1>1. Held
  BY HeldInit
<1>2. {MaxSiteSizes, DirAnswers, RecentBuckets, MaxEvents} \subseteq Nat /\ Len(<<>>) = 0
  BY CatchAllAssumption, AddressMemoryAssumption, EvidenceAssumption
<1>3. \A w \in Window : open[w] = 0
  BY DEF Init, NothingOpen
<1>4. \A site \in Site : siteSizes[site] = <<>>
  BY DEF Init, NoSizes
<1>5. \A place \in Site \X Dir : siteDirs[place] = <<>>
  BY DEF Init, NoDirs
<1>6. events = 0 /\ \A a \in Address : memory[a] = <<>>
  BY DEF Init
<1> QED
  BY <1>1, <1>2, <1>3, <1>4, <1>5, <1>6 DEF LimitsInv

LEMMA LimitsAdd ==
    ASSUME LimitsInv, NEW w \in Window, NEW answer \in Answer \cup {None}, Add(w, answer)
    PROVE  LimitsInv'
<1>1. Held /\ Typed /\ Held'
  BY HeldAdd DEF LimitsInv, Held
<1>2. events' \in 0 .. MaxEvents /\ \A v \in Window : open'[v] <= events'
  <2>1. /\ events \in 0 .. MaxEvents /\ events < MaxEvents /\ events' = events + 1 /\ MaxEvents \in Nat
        /\ open' = [open EXCEPT ![w] = open[w] + 1] /\ open \in [Window -> Nat]
        /\ \A v \in Window : open[v] <= events
    BY <1>1, EvidenceAssumption DEF LimitsInv, Add, Typed
  <2>2. \A v \in Window : open'[v] = IF v = w THEN open[v] + 1 ELSE open[v]
    BY <2>1
  <2>3. \A v \in Window : open[v] \in Nat
    BY <2>1
  <2> QED
    BY <2>1, <2>2, <2>3
<1>3. \A site \in Site : Len(siteSizes'[site]) <= MaxSiteSizes
  <2>1. CASE answer = None
    BY <1>1, <2>1, AddIs DEF LimitsInv
  <2>2. CASE answer # None
    <3>1. answer \in Answer /\ answer.site \in Site /\ answer.path \in Path /\ answer.size \in Nat
      BY <2>2, AnswerIs
    <3>2. siteSizes[answer.site] \in Seq(SizesKept) /\ siteSizes \in [Site -> Seq(SizesKept)]
      BY <1>1, <3>1 DEF Typed
    <3>3. Len(RememberSize(siteSizes[answer.site], answer.path, answer.size)) <= MaxSiteSizes
      BY <3>1, <3>2, RememberSizeFits DEF LimitsInv
    <3>4. siteSizes' = [siteSizes EXCEPT ![answer.site] =
                           RememberSize(siteSizes[answer.site], answer.path, answer.size)]
      BY <1>1, <2>2, AddIs
    <3> QED
      BY <3>1, <3>2, <3>3, <3>4 DEF LimitsInv
  <2> QED
    BY <2>1, <2>2
<1>4. \A place \in Site \X Dir : Len(siteDirs'[place]) <= DirAnswers
  <2>1. CASE answer = None
    BY <1>1, <2>1, AddIs DEF LimitsInv
  <2>2. CASE answer # None
    <3>1. PICK at : at = <<answer.site, Parent[answer.path]>>
      OBVIOUS
    <3>2. answer \in Answer /\ at \in Site \X Dir /\ answer.path \in Path /\ answer.size \in Nat
      BY <2>2, <3>1, AnswerIs
    <3>3. siteDirs[at] \in Seq(Sized) /\ siteDirs \in [Site \X Dir -> Seq(Sized)]
      BY <1>1, <3>2 DEF Typed
    <3>4. Len(Siblings(answer)) <= DirAnswers
      BY <3>1, <3>2, <3>3, RememberAnswerFits DEF LimitsInv, Siblings
    <3>5. siteDirs' = [siteDirs EXCEPT ![at] = Siblings(answer)]
      BY <1>1, <2>2, <3>1, AddIs
    <3> QED
      BY <3>2, <3>3, <3>4, <3>5 DEF LimitsInv
  <2> QED
    BY <2>1, <2>2
<1>5. memory' = memory
  BY DEF Add
<1> QED
  BY <1>1, <1>2, <1>3, <1>4, <1>5 DEF LimitsInv

LEMMA LimitsClose ==
    ASSUME LimitsInv, NEW w \in Window, Close(w)
    PROVE  LimitsInv'
<1>1. Held /\ Typed /\ Held' /\ SourceOf(w) \in Source
  BY HeldClose DEF LimitsInv, Held
<1>2. w[1] \in Address /\ w[3] \in Nat /\ sources[SourceOf(w)].count \in Nat /\ flushing \in BOOLEAN
  BY <1>1, WindowIs DEF Typed, Aggregate
<1>3. \A a \in Address : Len(memory'[a]) <= RecentBuckets
  <2>1. memory[w[1]] \in Seq(Entry) /\ memory \in [Address -> Seq(Entry)]
    BY <1>1, <1>2 DEF Typed
  <2>2. Len(CloseBucket(memory[w[1]], w[3], sources[SourceOf(w)].count, flushing)) <= RecentBuckets
    BY <1>2, <2>1, CloseBucketFits DEF LimitsInv
  <2>3. memory' = [memory EXCEPT ![w[1]] =
                      CloseBucket(memory[w[1]], w[3], sources[SourceOf(w)].count, flushing)]
    BY DEF Close
  <2> QED
    BY <1>2, <2>1, <2>2, <2>3 DEF LimitsInv
<1>4. \A v \in Window : open'[v] <= events
  <2>1. /\ open' = [open EXCEPT ![w] = 0] /\ open \in [Window -> Nat]
        /\ events \in Nat /\ \A v \in Window : open[v] <= events
    BY <1>1, EvidenceAssumption DEF Close, Typed, LimitsInv
  <2> QED
    BY <2>1
<1>5. UNCHANGED <<siteSizes, siteDirs, events>>
  BY DEF Close, seen
<1> QED
  BY <1>1, <1>3, <1>4, <1>5 DEF LimitsInv

LEMMA LimitsStart ==
    ASSUME LimitsInv, Start
    PROVE  LimitsInv'
<1>1. Held'
  BY HeldStart DEF LimitsInv
<1>2. {MaxSiteSizes, DirAnswers} \subseteq Nat /\ Len(<<>>) = 0
  BY CatchAllAssumption
<1>3. \A w \in Window : open'[w] = 0
  BY DEF Start, NothingOpen
<1>4. \A site \in Site : siteSizes'[site] = <<>>
  BY DEF Start, NoSizes
<1>5. \A place \in Site \X Dir : siteDirs'[place] = <<>>
  BY DEF Start, NoDirs
<1>6. events' = events
  BY DEF Start
<1>7. \A a \in Address : Len(memory'[a]) <= RecentBuckets
  <2>1. saved \in [Address -> Seq(Entry)]
    BY DEF LimitsInv, Held, Typed
  <2>2. memory' = [a \in Address |-> Restored(saved[a])]
    BY <2>1 DEF Start, Reloaded
  <2> QED
    BY <2>1, <2>2, TrimmedFits DEF Restored
<1>8. events \in 0 .. MaxEvents
  BY DEF LimitsInv
<1> QED
  BY <1>1, <1>2, <1>3, <1>4, <1>5, <1>6, <1>7, <1>8 DEF LimitsInv

LEMMA LimitsNext ==
    ASSUME LimitsInv, [Next]_vars
    PROVE  LimitsInv'
<1>1. Held /\ Held'
  BY HeldNext DEF LimitsInv
<1>2. CASE UNCHANGED <<open, siteSizes, siteDirs, memory, events>>
  BY <1>1, <1>2 DEF LimitsInv
<1>3. \A bucket \in Bucket : Sweep(bucket) => UNCHANGED <<open, siteSizes, siteDirs, memory, events>>
  BY DEF Sweep, seen
<1>4. Flush \/ Kill \/ Save \/ Stopped \/ UNCHANGED vars
        => UNCHANGED <<open, siteSizes, siteDirs, memory, events>>
  BY DEF Flush, Kill, Save, Stopped, seen, vars
<1> QED
  BY <1>2, <1>3, <1>4, LimitsAdd, LimitsClose, LimitsStart DEF Next

\* What is kept stays within its limits, whatever addresses, sites and paths there are:
\* of a site its last sizes, of a directory its last answers, of an address its last
\* buckets (window_features.py:350, 386, bot_features.py:334), and an aggregate lives
\* exactly as long as a window of its address.
THEOREM MemoriesAreBounded == Spec => []TypeOK
<1>1. LimitsInv => TypeOK
  <2> SUFFICES ASSUME LimitsInv
               PROVE  TypeOK
    OBVIOUS
  <2>1. Held /\ Typed
    BY DEF LimitsInv, Held
  <2>2. open \in [Window -> 0 .. MaxEvents]
    <3>1. open \in [Window -> Nat] /\ MaxEvents \in Nat /\ events \in 0 .. MaxEvents
      BY <2>1, EvidenceAssumption DEF Typed, LimitsInv
    <3>2. \A w \in Window : open[w] \in 0 .. MaxEvents
      BY <3>1 DEF LimitsInv
    <3> QED
      BY <3>1, <3>2
  <2>3. \A s \in Source :
          /\ sources[s].windows = Cardinality({w \in Window : open[w] > 0 /\ SourceOf(w) = s})
          /\ sources[s].windows = 0 => sources[s] = NoAggregate
    <3>1. \A s : {w \in Window : open[w] > 0 /\ SourceOf(w) = s} = OpenOf(s)
      BY DEF OpenOf, Opened
    <3> QED
      BY <2>1, <3>1 DEF Held
  <2>4. /\ running \in BOOLEAN /\ flushing \in BOOLEAN
        /\ {memory, saved} \subseteq [Address -> Seq(Entry)]
        /\ closing \subseteq {w \in Window : open[w] > 0}
    BY <2>1 DEF Typed, Opened
  <2> QED
    BY <2>2, <2>3, <2>4 DEF LimitsInv, TypeOK
<1> QED
  BY <1>1, LimitsInit, LimitsNext, PTL DEF Spec

-----------------------------------------------------------------------------
(* Sessions.                                                               *)

\* The times of the first events of a visit, and the latest of them.
TimesOf(session, n) == {session.members[j].at : j \in 1 .. n}

IsClock(t, session, n) == t \in TimesOf(session, n) /\ \A u \in TimesOf(session, n) : u <= t

\* A visit knows the latest time of its events, and none of them came after a gap.
Steady(session) ==
    /\ session \in Session /\ Len(session.members) >= 1
    /\ IsClock(session.lastSeenAt, session, Len(session.members))
    /\ \A i \in 2 .. Len(session.members) :
          session.members[i].at - ClockAfter(session, i - 1) <= IdleGap

Apart(before, after) == after.startedAt - before.lastSeenAt > IdleGap \/ after.orphan

\* The visits of an entity: of one that has none open, the last one was ended by the
\* timer, and the stream is a gap further.
EntityInv(e) ==
    /\ \A i \in DOMAIN closed[e] : Steady(closed[e][i])
    /\ visits[e] # Nothing => Steady(visits[e])
    /\ \A i \in 2 .. Len(closed[e]) : Apart(closed[e][i - 1], closed[e][i])
    /\ closed[e] # <<>> /\ visits[e] # Nothing => Apart(closed[e][Len(closed[e])], visits[e])
    /\ closed[e] # <<>> /\ visits[e] = Nothing /\ ~ended =>
          clock - closed[e][Len(closed[e])].lastSeenAt > IdleGap

SessionsInv ==
    /\ visits \in [Entity -> Session \cup {Nothing}] /\ closed \in [Entity -> Seq(Session)]
    /\ clock \in Int
    /\ \A e \in Entity : EntityInv(e)

-----------------------------------------------------------------------------
LEMMA LatestOf ==
    ASSUME NEW m \in Int, NEW n \in Int
    PROVE  Max({m, n}) = IF n > m THEN n ELSE m
<1>1. \A T : \A t \in T : (T \subseteq Int /\ \A u \in T : u <= t) => Max(T) = t
  <2> SUFFICES ASSUME NEW T, NEW t \in T, T \subseteq Int, \A u \in T : u <= t
               PROVE  Max(T) = t
    OBVIOUS
  <2>1. t \in T /\ \A y \in T : t >= y
    OBVIOUS
  <2>2. \A x \in T : (\A y \in T : x >= y) => x = t
    BY <2>1
  <2> QED
    BY <2>1, <2>2 DEF Max
<1>2. CASE n > m
  BY <1>1, <1>2
<1>3. CASE ~(n > m)
  BY <1>1, <1>3
<1> QED
  BY <1>2, <1>3

LEMMA ClockIs ==
    ASSUME NEW session \in Session, NEW n \in 1 .. Len(session.members), NEW t,
           IsClock(t, session, n)
    PROVE  ClockAfter(session, n) = t /\ t \in Int
<1>1. TimesOf(session, n) \subseteq Int
  <2>1. session.members \in Seq(Event)
    BY DEF Session
  <2>2. \A j \in 1 .. n : session.members[j] \in Event
    BY <2>1
  <2> QED
    BY <2>2 DEF TimesOf, Event
<1>2. t \in TimesOf(session, n) /\ \A y \in TimesOf(session, n) : t >= y
  BY <1>1 DEF IsClock
<1>3. \A x \in TimesOf(session, n) : (\A y \in TimesOf(session, n) : x >= y) => x = t
  BY <1>1, <1>2
<1>4. Max(TimesOf(session, n)) = t
  BY <1>2, <1>3 DEF Max
<1> QED
  BY <1>1, <1>2, <1>4 DEF ClockAfter, TimesOf

\* An event that is folded in.
LEMMA StartedIs ==
    ASSUME NEW e \in Entity, NEW event \in Event
    PROVE  /\ Started(e, event) \in Session /\ Started(e, event).members = <<>>
           /\ Started(e, event).startedAt = event.at /\ Started(e, event).lastSeenAt = event.at
           /\ Started(e, event).orphan = (event.at < clock)
BY DEF Started, Session, Event

LEMMA PushedIs ==
    ASSUME NEW T, NEW sequence \in Seq(T), NEW value \in T \cup {Nothing}
    PROVE  Pushed(sequence, value) \in Seq(T)
BY DEF Pushed

LEMMA AppendedIs ==
    ASSUME NEW session \in Session, NEW event \in Event
    PROVE  LET after == Appended(session, event) IN
           /\ after \in Session /\ after.members = Append(session.members, event)
           /\ after.startedAt = session.startedAt /\ after.orphan = session.orphan
           /\ after.lastSeenAt = Seen(session, event) /\ Seen(session, event) \in Int
<1>1. /\ session.lastSeenAt \in Int /\ event.at \in Int /\ session.eventCount \in Nat
      /\ session.interArrivals \in Seq(Nat) /\ session.uniquePaths \in SUBSET VisitPath
      /\ session.paths \in Seq(VisitPath) /\ session.codes \in Seq(Code) /\ session.truncated \in BOOLEAN
      /\ session.exitPath \in VisitPath \cup {Nothing} /\ session.members \in Seq(Event)
      /\ event.path \in VisitPath \cup {Nothing} /\ event.code \in Code \cup {Nothing}
  BY DEF Session, Event
<1>2. Delta(session, event) \in Nat \cup {Nothing}
  BY <1>1 DEF Delta
<1> DEFINE gaps == Pushed(session.interArrivals, Delta(session, event))
           last == Seen(session, event)
           exit == IF event.path = Nothing THEN session.exitPath ELSE event.path
           unique == IF event.path # Nothing /\ Cardinality(session.uniquePaths) < MaxSequence
                     THEN session.uniquePaths \cup {event.path} ELSE session.uniquePaths
           paths == Pushed(session.paths, event.path)
           codes == Pushed(session.codes, event.code)
           cutOff == \/ session.truncated
                     \/ Overflows(session.interArrivals, Delta(session, event))
                     \/ Overflows(session.paths, event.path)
                     \/ Overflows(session.codes, event.code)
           members == Append(session.members, event)
<1>3. gaps \in Seq(Nat) /\ paths \in Seq(VisitPath) /\ codes \in Seq(Code)
  BY <1>1, <1>2, PushedIs
<1>4. last \in Int
  BY <1>1, LatestOf DEF Seen
<1>5. exit \in VisitPath \cup {Nothing} /\ unique \in SUBSET VisitPath
  BY <1>1
<1>6. cutOff \in BOOLEAN /\ members \in Seq(Event)
  BY <1>1 DEF Overflows
<1>7. Appended(session, event) =
        [session EXCEPT !.interArrivals = gaps, !.lastSeenAt = last, !.eventCount = session.eventCount + 1,
                        !.exitPath = exit, !.uniquePaths = unique, !.paths = paths, !.codes = codes,
                        !.truncated = cutOff, !.members = members]
  BY DEF Appended
<1> HIDE DEF gaps, last, exit, unique, paths, codes, cutOff, members
<1>8. Appended(session, event) \in Session
  <2>1. session = [entity |-> session.entity, startedAt |-> session.startedAt,
                   lastSeenAt |-> session.lastSeenAt, eventCount |-> session.eventCount,
                   uniquePaths |-> session.uniquePaths, paths |-> session.paths, codes |-> session.codes,
                   interArrivals |-> session.interArrivals, entryPath |-> session.entryPath,
                   exitPath |-> session.exitPath, truncated |-> session.truncated,
                   members |-> session.members, orphan |-> session.orphan]
        /\ session.entity \in Entity /\ session.startedAt \in Int
        /\ session.entryPath \in VisitPath \cup {Nothing} /\ session.orphan \in BOOLEAN
    BY DEF Session
  <2>2. session.eventCount + 1 \in Nat
    BY <1>1
  <2>3. Appended(session, event) =
          [entity |-> session.entity, startedAt |-> session.startedAt, lastSeenAt |-> last,
           eventCount |-> session.eventCount + 1, uniquePaths |-> unique, paths |-> paths,
           codes |-> codes, interArrivals |-> gaps, entryPath |-> session.entryPath,
           exitPath |-> exit, truncated |-> cutOff, members |-> members, orphan |-> session.orphan]
    BY <1>7, <2>1
  <2> QED
    BY <1>3, <1>4, <1>5, <1>6, <2>1, <2>2, <2>3 DEF Session
<1>9. /\ Appended(session, event).members = members /\ Appended(session, event).lastSeenAt = last
      /\ Appended(session, event).startedAt = session.startedAt
      /\ Appended(session, event).orphan = session.orphan
  BY <1>7 DEF Session
<1> QED
  BY <1>4, <1>8, <1>9 DEF members, last

\* The first event of a visit, and any later one that no gap is before.
LEMMA SteadyFirst ==
    ASSUME NEW e \in Entity, NEW event \in Event
    PROVE  LET after == Appended(Started(e, event), event) IN
           /\ Steady(after) /\ after.startedAt = event.at
           /\ after.orphan = (event.at < clock)
<1> DEFINE session == Started(e, event)
           after == Appended(session, event)
<1>1. /\ session \in Session /\ session.members = <<>> /\ session.startedAt = event.at
      /\ session.lastSeenAt = event.at /\ session.orphan = (event.at < clock)
  BY StartedIs
<1> HIDE DEF session
<1>2. /\ after \in Session /\ after.members = Append(session.members, event)
      /\ after.startedAt = session.startedAt /\ after.orphan = session.orphan
      /\ after.lastSeenAt = Seen(session, event)
  BY <1>1, AppendedIs
<1> HIDE DEF after
<1>3. event.at \in Int /\ IdleGap \in Nat
  BY SessionsAssumption DEF Event
<1>4. after.lastSeenAt = event.at
  BY <1>1, <1>2, <1>3, LatestOf DEF Seen
<1>5. Len(after.members) = 1 /\ after.members[1] = event
  BY <1>1, <1>2
<1>6. TimesOf(after, 1) = {event.at}
  BY <1>5 DEF TimesOf
<1>7. Steady(after)
  BY <1>2, <1>3, <1>4, <1>5, <1>6 DEF Steady, IsClock
<1> QED
  BY <1>1, <1>2, <1>7 DEF after, session

LEMMA SteadyNext ==
    ASSUME NEW session \in Session, NEW event \in Event, Steady(session), ~Ends(session, event.at)
    PROVE  LET after == Appended(session, event) IN
           /\ Steady(after) /\ after.startedAt = session.startedAt /\ after.orphan = session.orphan
<1> DEFINE after == Appended(session, event)
           n == Len(session.members)
<1>1. /\ after \in Session /\ after.members = Append(session.members, event)
      /\ after.startedAt = session.startedAt /\ after.orphan = session.orphan
      /\ after.lastSeenAt = Seen(session, event)
  BY AppendedIs
<1> HIDE DEF after
<1>2. session.members \in Seq(Event) /\ n \in Nat /\ n >= 1 /\ session.lastSeenAt \in Int
      /\ event.at \in Int /\ IdleGap \in Nat
  BY SessionsAssumption DEF Session, Event, Steady
<1>3. /\ Len(after.members) = n + 1 /\ after.members[n + 1] = event
      /\ \A j \in 1 .. n : after.members[j] = session.members[j]
  BY <1>1, <1>2
<1> HIDE DEF n
<1>4. \A i \in 1 .. n : TimesOf(after, i) = TimesOf(session, i)
  BY <1>2, <1>3 DEF TimesOf
<1>5. TimesOf(after, n + 1) = TimesOf(session, n) \cup {event.at}
  BY <1>2, <1>3 DEF TimesOf
<1>6. IsClock(session.lastSeenAt, session, n)
  BY DEF Steady, n
<1>7. after.lastSeenAt = IF event.at > session.lastSeenAt THEN event.at ELSE session.lastSeenAt
  BY <1>1, <1>2, LatestOf DEF Seen
<1>8. IsClock(after.lastSeenAt, after, n + 1)
  <2>1. \A u \in TimesOf(session, n) : u \in Int /\ u <= session.lastSeenAt
    <3>1. \A j \in 1 .. n : session.members[j] \in Event
      BY <1>2 DEF n
    <3> QED
      BY <1>6, <3>1 DEF TimesOf, IsClock, Event
  <2>2. session.lastSeenAt \in TimesOf(session, n)
    BY <1>6 DEF IsClock
  <2> QED
    BY <1>2, <1>5, <1>7, <2>1, <2>2 DEF IsClock
<1>9. ASSUME NEW i \in 2 .. n + 1
      PROVE  after.members[i].at - ClockAfter(after, i - 1) <= IdleGap
  <2>1. ClockAfter(after, i - 1) = ClockAfter(session, i - 1)
    <3>1. i - 1 \in 1 .. n
      BY <1>2
    <3> QED
      BY <1>4, <3>1 DEF ClockAfter, TimesOf
  <2>2. CASE i \in 2 .. n
    BY <1>3, <2>1, <2>2 DEF Steady, n
  <2>3. CASE i = n + 1
    <3>1. ClockAfter(session, n) = session.lastSeenAt
      BY <1>2, <1>6, ClockIs DEF n
    <3>2. event.at - session.lastSeenAt <= IdleGap
      BY <1>2 DEF Ends
    <3>3. i - 1 = n
      BY <1>2, <2>3
    <3> QED
      BY <1>3, <2>1, <2>3, <3>1, <3>2, <3>3
  <2> QED
    BY <1>2, <2>2, <2>3
<1>10. Steady(after)
  BY <1>1, <1>2, <1>3, <1>8, <1>9 DEF Steady
<1> QED
  BY <1>1, <1>10 DEF after

-----------------------------------------------------------------------------
LEMMA SessionsInit == VisitsInit => SessionsInv
<1> SUFFICES ASSUME VisitsInit
             PROVE  SessionsInv
  OBVIOUS
<1>1. <<>> \in Seq(Session) /\ Len(<<>>) = 0 /\ DOMAIN <<>> = {}
  OBVIOUS
<1> QED
  BY <1>1 DEF VisitsInit, SessionsInv, EntityInv

LEMMA LaterIsFurther ==
    ASSUME NEW before \in Int, NEW now \in Int, NEW later \in Int, NEW gap \in Int,
           now - before > gap, later >= now
    PROVE  later - before > gap
OBVIOUS

\* What nobody adds to stays as it is while the stream goes on.
LEMMA EntityStays ==
    ASSUME SessionsInv, NEW e \in Entity, visits'[e] = visits[e], closed'[e] = closed[e],
           clock' \in Int, clock' >= clock, ended => ended'
    PROVE  EntityInv(e)'
<1>1. EntityInv(e) /\ clock \in Int /\ IdleGap \in Nat /\ closed[e] \in Seq(Session)
  BY SessionsAssumption DEF SessionsInv
<1>2. closed[e] # <<>> /\ visits[e] = Nothing /\ ~ended' =>
        clock' - closed[e][Len(closed[e])].lastSeenAt > IdleGap
  <2> SUFFICES ASSUME closed[e] # <<>>, visits[e] = Nothing, ~ended'
               PROVE  clock' - closed[e][Len(closed[e])].lastSeenAt > IdleGap
    OBVIOUS
  <2> DEFINE lastTime == closed[e][Len(closed[e])].lastSeenAt
  <2>1. clock - lastTime > IdleGap
    BY <1>1 DEF EntityInv
  <2>2. closed[e][Len(closed[e])] \in Session
    BY <1>1
  <2>3. lastTime \in Int
    BY <2>2 DEF Session
  <2> HIDE DEF lastTime
  <2>4. clock' - lastTime > IdleGap
    <3>1. clock \in Int /\ IdleGap \in Int /\ clock' \in Int /\ clock' >= clock
      BY <1>1
    <3> QED
      BY <2>1, <2>3, <3>1, LaterIsFurther
  <2> QED
    BY <2>4 DEF lastTime
<1> QED
  BY <1>1, <1>2 DEF EntityInv

\* An entity's last visit is handed out.
LEMMA EntityCloses ==
    ASSUME SessionsInv, NEW e \in Entity, visits[e] # Nothing,
           closed'[e] = Append(closed[e], visits[e]),
           visits'[e] # Nothing => Steady(visits'[e]) /\ Apart(visits[e], visits'[e]),
           visits'[e] = Nothing /\ ~ended' => clock' - visits[e].lastSeenAt > IdleGap
    PROVE  EntityInv(e)'
<1> DEFINE n == Len(closed[e])
<1>1. EntityInv(e) /\ closed[e] \in Seq(Session) /\ n \in Nat /\ visits[e] \in Session
  BY DEF SessionsInv
<1>2. /\ DOMAIN closed'[e] = 1 .. n + 1 /\ Len(closed'[e]) = n + 1 /\ closed'[e][n + 1] = visits[e]
      /\ \A i \in 1 .. n : closed'[e][i] = closed[e][i]
  BY <1>1
<1>3. DOMAIN closed[e] = 1 .. n
  BY <1>1
<1> HIDE DEF n
<1>4. \A i \in DOMAIN closed'[e] : Steady(closed'[e][i])
  BY <1>1, <1>2, <1>3 DEF EntityInv
<1>5. ASSUME NEW i \in 2 .. n + 1
      PROVE  Apart(closed'[e][i - 1], closed'[e][i])
  <2>1. CASE i \in 2 .. n
    <3>1. i \in 1 .. n /\ i - 1 \in 1 .. n
      BY <1>1, <2>1
    <3>2. closed'[e][i] = closed[e][i] /\ closed'[e][i - 1] = closed[e][i - 1]
      BY <1>2, <3>1
    <3>3. Apart(closed[e][i - 1], closed[e][i])
      BY <1>1, <2>1 DEF EntityInv, n
    <3> QED
      BY <3>2, <3>3
  <2>2. CASE i = n + 1
    <3>1. n >= 1 /\ i - 1 = n /\ closed[e] # <<>>
      BY <1>1, <2>2 DEF n
    <3>2. Apart(closed[e][n], visits[e])
      BY <1>1, <3>1 DEF EntityInv, n
    <3> QED
      <4>1. n \in 1 .. n
        BY <1>1, <3>1
      <4>2. closed'[e][i] = visits[e] /\ closed'[e][i - 1] = closed[e][n]
        BY <1>2, <2>2, <3>1, <4>1
      <4> QED
        BY <3>2, <4>2
  <2>3. i \in 2 .. n \/ i = n + 1
    BY <1>1
  <2> QED
    BY <2>1, <2>2, <2>3
<1>6. closed'[e][Len(closed'[e])] = visits[e]
  BY <1>2
<1> QED
  BY <1>2, <1>4, <1>5, <1>6 DEF EntityInv

LEMMA SessionsAdd ==
    ASSUME SessionsInv, NEW e \in Entity, NEW event \in Event, AddEvent(e, event)
    PROVE  SessionsInv'
<1> DEFINE over == visits[e] # Nothing /\ Ends(visits[e], event.at)
           session == IF visits[e] = Nothing \/ over THEN Started(e, event) ELSE visits[e]
           after == Appended(session, event)
<1>1. /\ visits \in [Entity -> Session \cup {Nothing}] /\ closed \in [Entity -> Seq(Session)]
      /\ clock \in Int /\ EntityInv(e) /\ event.at \in Int /\ IdleGap \in Nat
  BY SessionsAssumption DEF SessionsInv, Event
<1>2. clock' \in Int /\ clock' >= clock /\ ended' = ended /\ ~ended
  <2>1. clock' = Max({clock, event.at}) /\ ended' = ended /\ ~ended
    BY DEF AddEvent
  <2>2. Max({clock, event.at}) = IF event.at > clock THEN event.at ELSE clock
    BY <1>1, LatestOf
  <2> QED
    BY <1>1, <2>1, <2>2
<1>3. /\ visits' = [visits EXCEPT ![e] = after]
      /\ closed' = IF over THEN [closed EXCEPT ![e] = Append(@, visits[e])] ELSE closed
  BY DEF AddEvent
<1>4. Steady(after)
      /\ IF visits[e] = Nothing \/ over THEN after.startedAt = event.at /\ after.orphan = (event.at < clock)
         ELSE after.startedAt = visits[e].startedAt /\ after.orphan = visits[e].orphan
  <2>1. CASE visits[e] = Nothing \/ over
    <3>1. session = Started(e, event)
      BY <2>1
    <3> QED
      BY <2>1, <3>1, SteadyFirst
  <2>2. CASE ~(visits[e] = Nothing \/ over)
    <3>1. session = visits[e] /\ visits[e] \in Session /\ Steady(visits[e]) /\ ~Ends(visits[e], event.at)
      BY <1>1, <2>2 DEF EntityInv
    <3> QED
      BY <2>2, <3>1, SteadyNext
  <2> QED
    BY <2>1, <2>2
<1>5. after \in Session /\ after # Nothing
  BY <1>4, NothingIsNoSession DEF Steady
<1> HIDE DEF after
<1>6. visits' \in [Entity -> Session \cup {Nothing}] /\ visits'[e] = after
  BY <1>1, <1>3, <1>5
<1>7. closed' \in [Entity -> Seq(Session)]
  <2>1. CASE over
    <3>1. Append(closed[e], visits[e]) \in Seq(Session)
      BY <1>1, <2>1
    <3> QED
      BY <1>1, <1>3, <2>1, <3>1
  <2> QED
    BY <1>1, <1>3, <2>1
<1>8. ASSUME NEW d \in Entity \ {e}
      PROVE  EntityInv(d)'
  <2>1. visits'[d] = visits[d] /\ closed'[d] = closed[d]
    BY <1>1, <1>3
  <2> QED
    BY <1>2, <2>1, EntityStays
<1>9. EntityInv(e)'
  <2>1. CASE over
    <3>1. closed'[e] = Append(closed[e], visits[e]) /\ visits[e] # Nothing /\ visits[e] \in Session
      BY <1>1, <1>3, <2>1
    <3>2. Apart(visits[e], after)
      BY <1>4, <2>1 DEF Apart, Ends
    <3> QED
      BY <1>4, <1>5, <1>6, <3>1, <3>2, EntityCloses
  <2>2. CASE ~over
    <3>1. closed'[e] = closed[e]
      BY <1>3, <2>2
    <3>2. ASSUME closed[e] # <<>>
          PROVE  Apart(closed[e][Len(closed[e])], after)
      <4>1. CASE visits[e] = Nothing
        <5>1. closed[e][Len(closed[e])] \in Session
          BY <1>1, <3>2
        <5>2. clock - closed[e][Len(closed[e])].lastSeenAt > IdleGap
          BY <1>1, <1>2, <3>2, <4>1 DEF EntityInv
        <5>3. closed[e][Len(closed[e])].lastSeenAt \in Int
          BY <5>1 DEF Session
        <5>4. after.startedAt = event.at /\ after.orphan = (event.at < clock)
          BY <1>4, <4>1
        <5>5. CASE event.at < clock
          BY <5>4, <5>5 DEF Apart
        <5>6. CASE ~(event.at < clock)
          <6>1. event.at >= clock
            BY <1>1, <5>6
          <6>2. event.at - closed[e][Len(closed[e])].lastSeenAt > IdleGap
            BY <1>1, <5>2, <5>3, <6>1, LaterIsFurther
          <6> QED
            BY <5>4, <6>2 DEF Apart
        <5> QED
          BY <5>5, <5>6
      <4>2. CASE visits[e] # Nothing
        <5>1. Apart(closed[e][Len(closed[e])], visits[e])
          BY <1>1, <3>2, <4>2 DEF EntityInv
        <5> QED
          BY <1>4, <2>2, <4>2, <5>1 DEF Apart
      <4> QED
        BY <4>1, <4>2
    <3> QED
      BY <1>1, <1>4, <1>5, <1>6, <3>1, <3>2 DEF EntityInv
  <2> QED
    BY <2>1, <2>2
<1> QED
  BY <1>2, <1>6, <1>7, <1>8, <1>9 DEF SessionsInv

\* The visits that are handed out are over, or the stream is.
LEMMA SessionsHandOut ==
    ASSUME SessionsInv, NEW entities \in SUBSET Live, HandOut(entities), ended => ended',
           ended' \/ entities = Due
    PROVE  SessionsInv'
<1>1. /\ visits \in [Entity -> Session \cup {Nothing}] /\ closed \in [Entity -> Seq(Session)]
      /\ clock \in Int /\ clock' = clock /\ entities \subseteq Entity
      /\ \A e \in entities : visits[e] \in Session
  BY DEF SessionsInv, HandOut, Live
<1>2. \A e \in Entity : /\ visits'[e] = IF e \in entities THEN Nothing ELSE visits[e]
                        /\ closed'[e] = IF e \in entities THEN Append(closed[e], visits[e]) ELSE closed[e]
  BY DEF HandOut
<1>3. visits' \in [Entity -> Session \cup {Nothing}]
  BY <1>1 DEF HandOut
<1>4. closed' \in [Entity -> Seq(Session)]
  <2>1. \A e \in entities : Append(closed[e], visits[e]) \in Seq(Session)
    BY <1>1
  <2> QED
    BY <1>1, <2>1 DEF HandOut
<1>5. ASSUME NEW e \in Entity
      PROVE  EntityInv(e)'
  <2>1. CASE e \in entities
    <3>1. visits[e] # Nothing /\ closed'[e] = Append(closed[e], visits[e]) /\ visits'[e] = Nothing
      BY <1>2, <2>1 DEF Live
    <3>2. ~ended' => clock' - visits[e].lastSeenAt > IdleGap
      BY <1>1, <2>1 DEF Due, Ends
    <3> QED
      BY <3>1, <3>2, EntityCloses
  <2>2. CASE e \notin entities
    <3>1. visits'[e] = visits[e] /\ closed'[e] = closed[e] /\ clock' >= clock
      BY <1>1, <1>2, <2>2
    <3> QED
      BY <1>1, <3>1, EntityStays
  <2> QED
    BY <2>1, <2>2
<1> QED
  BY <1>1, <1>3, <1>4, <1>5 DEF SessionsInv

LEMMA SessionsNext ==
    ASSUME SessionsInv, [VisitsNext]_visitVars
    PROVE  SessionsInv'
<1>1. ASSUME NEW e \in Entity, NEW at \in (clock - Lateness)..(clock + MaxJump),
             NEW path \in VisitPath \cup {Nothing}, NEW code \in Code \cup {Nothing},
             AddEvent(e, [at |-> at, path |-> path, code |-> code])
      PROVE  SessionsInv'
  <2>1. [at |-> at, path |-> path, code |-> code] \in Event
    BY DEF Event
  <2> QED
    BY <1>1, <2>1, SessionsAdd
<1>2. ASSUME Expire
      PROVE  SessionsInv'
  <2>1. HandOut(Due) /\ ended' = ended /\ Due \in SUBSET Live
    BY <1>2 DEF Expire, Due
  <2> QED
    BY <2>1, SessionsHandOut
<1>3. ASSUME FlushVisits
      PROVE  SessionsInv'
  <2>1. HandOut(Live) /\ ended'
    BY <1>3 DEF FlushVisits
  <2> QED
    BY <2>1, SessionsHandOut
<1>4. ASSUME UNCHANGED visitVars
      PROVE  SessionsInv'
  BY <1>4 DEF visitVars, SessionsInv, EntityInv
<1> QED
  BY <1>1, <1>2, <1>3, <1>4 DEF VisitsNext

\* An idle gap ends a visit and nothing else does before the end of the stream: no event
\* of a visit came after one, and two visits of an entity are a gap apart, or the later
\* one was begun by an event behind the stream (sessionize.py:80-88).
THEOREM VisitsAreSplitAtGaps == VisitsSpec => []VisitsSplitAtGaps
<1>1. SessionsInv => VisitsSplitAtGaps
  <2> SUFFICES ASSUME SessionsInv, NEW e \in Entity
               PROVE  /\ \A v \in Range(Visits(e)) : \A i \in 2..Len(v.members) :
                            v.members[i].at - ClockAfter(v, i - 1) <= IdleGap
                      /\ \A i \in 2..Len(Visits(e)) :
                            \/ Visits(e)[i].startedAt - Visits(e)[i - 1].lastSeenAt > IdleGap
                            \/ Visits(e)[i].orphan
    BY DEF VisitsSplitAtGaps
  <2> DEFINE n == Len(closed[e])
  <2>1. EntityInv(e) /\ closed[e] \in Seq(Session) /\ n \in Nat /\ visits[e] \in Session \cup {Nothing}
        /\ DOMAIN closed[e] = 1 .. n
    BY DEF SessionsInv
  <2>2. CASE visits[e] = Nothing
    <3>1. Visits(e) = closed[e]
      BY <2>1, <2>2, ConcatEmptySeq DEF Visits
    <3> QED
      BY <2>1, <3>1 DEF EntityInv, Steady, Apart, Range
  <2>3. CASE visits[e] # Nothing
    <3>1. /\ DOMAIN Visits(e) = 1 .. n + 1 /\ Len(Visits(e)) = n + 1 /\ Visits(e)[n + 1] = visits[e]
          /\ \A i \in 1 .. n : Visits(e)[i] = closed[e][i]
      <4>1. Visits(e) = closed[e] \o <<visits[e]>> /\ <<visits[e]>> \in Seq(Session)
        BY <2>1, <2>3 DEF Visits
      <4> QED
        BY <2>1, <4>1
    <3> HIDE DEF n
    <3>2. ASSUME NEW i \in 1 .. n + 1
          PROVE  Steady(Visits(e)[i])
      <4>1. Steady(visits[e]) /\ \A j \in 1 .. n : Steady(closed[e][j])
        BY <2>1, <2>3 DEF EntityInv
      <4>2. CASE i \in 1 .. n
        BY <3>1, <4>1, <4>2
      <4>3. CASE i = n + 1
        BY <3>1, <4>1, <4>3
      <4> QED
        BY <2>1, <4>2, <4>3
    <3>3. ASSUME NEW i \in 2 .. n + 1
          PROVE  Apart(Visits(e)[i - 1], Visits(e)[i])
      <4>1. CASE i \in 2 .. n
        BY <2>1, <3>1, <4>1 DEF EntityInv, n
      <4>2. CASE i = n + 1
        <5>1. n >= 1 /\ i - 1 = n /\ closed[e] # <<>>
          BY <2>1, <4>2 DEF n
        <5>2. Apart(closed[e][n], visits[e])
          BY <2>1, <2>3, <5>1 DEF EntityInv, n
        <5> QED
          BY <3>1, <4>2, <5>1, <5>2
      <4> QED
        BY <2>1, <4>1, <4>2
    <3>4. \A v \in Range(Visits(e)) : Steady(v)
      BY <3>1, <3>2 DEF Range
    <3> QED
      BY <3>1, <3>3, <3>4 DEF Steady, Apart
  <2> QED
    BY <2>2, <2>3
<1>2. VisitsInit => SessionsInv
  BY SessionsInit
<1>3. SessionsInv /\ [VisitsNext]_visitVars => SessionsInv'
  BY SessionsNext
<1> QED
  BY <1>1, <1>2, <1>3, PTL DEF VisitsSpec

-----------------------------------------------------------------------------
(* What the sequences of a visit hold.                                     *)

LEMMA NoPlacesCounted == IsFiniteSet({}) /\ Cardinality({}) = 0
BY FS_EmptySet

LEMMA CountIs ==
    ASSUME NEW T, IsFiniteSet(T)
    PROVE  Cardinality(T) \in Nat /\ (Cardinality(T) = 0 <=> T = {})
BY FS_CardinalityType, FS_EmptySet

LEMMA OneMore ==
    ASSUME NEW T, IsFiniteSet(T), NEW x
    PROVE  /\ IsFiniteSet(T \cup {x})
           /\ Cardinality(T \cup {x}) = IF x \in T THEN Cardinality(T) ELSE Cardinality(T) + 1
BY FS_AddElement

LEMMA PartOf ==
    ASSUME NEW T, IsFiniteSet(T), NEW U \in SUBSET T
    PROVE  /\ IsFiniteSet(U) /\ Cardinality(U) <= Cardinality(T)
           /\ IsFiniteSet(T \ U) /\ Cardinality(T \ U) = Cardinality(T) - Cardinality(U)
<1>1. IsFiniteSet(U) /\ Cardinality(U) <= Cardinality(T) /\ IsFiniteSet(T \ U)
  BY FS_Subset
<1>2. Cardinality((T \ U) \cup U) = Cardinality(T \ U) + Cardinality(U) - Cardinality((T \ U) \cap U)
  BY <1>1, FS_Union
<1>3. (T \ U) \cup U = T /\ (T \ U) \cap U = {}
  OBVIOUS
<1>4. Cardinality((T \ U) \cap U) = 0
  BY <1>3, FS_EmptySet
<1>5. Cardinality(T) \in Nat /\ Cardinality(U) \in Nat /\ Cardinality(T \ U) \in Nat
  BY <1>1, FS_CardinalityType
<1>6. Cardinality(T) = Cardinality(T \ U) + Cardinality(U) - Cardinality((T \ U) \cap U)
  BY <1>2, <1>3
<1> QED
  BY <1>1, <1>4, <1>5, <1>6

LEMMA NoMoreValues ==
    ASSUME NEW T, IsFiniteSet(T), NEW f
    PROVE  IsFiniteSet({f[x] : x \in T}) /\ Cardinality({f[x] : x \in T}) <= Cardinality(T)
<1> DEFINE U == {f[x] : x \in T}
           g == [x \in T |-> f[x]]
<1>1. g \in Surjection(T, U)
  BY DEF Surjection
<1> HIDE DEF U, g
<1>2. IsFiniteSet(U) /\ Cardinality(U) <= Cardinality(T)
  BY <1>1, FS_Surjection
<1> QED
  BY <1>2 DEF U

LEMMA LeastOf ==
    ASSUME NEW m \in Int, NEW n \in Int
    PROVE  Min({m, n}) = IF n < m THEN n ELSE m
<1>1. \A T : \A t \in T : (T \subseteq Int /\ \A u \in T : t <= u) => Min(T) = t
  <2> SUFFICES ASSUME NEW T, NEW t \in T, T \subseteq Int, \A u \in T : t <= u
               PROVE  Min(T) = t
    OBVIOUS
  <2>1. t \in T /\ \A y \in T : t <= y
    OBVIOUS
  <2>2. \A x \in T : (\A y \in T : x <= y) => x = t
    BY <2>1
  <2> QED
    BY <2>1, <2>2 DEF Min
<1>2. CASE n < m
  BY <1>1, <1>2
<1>3. CASE ~(n < m)
  BY <1>1, <1>3
<1> QED
  BY <1>2, <1>3

\* A value that is pushed behind those a sequence keeps, or none.
LEMMA KeepsPushed ==
    ASSUME NEW n \in Nat, NEW T, NEW sequence \in Seq(T), NEW value,
           NEW values, DOMAIN values \subseteq 1 .. n, Keeps(sequence, values),
           NEW more, DOMAIN more = IF value = Nothing THEN DOMAIN values ELSE DOMAIN values \cup {n + 1},
           \A i \in DOMAIN values : more[i] = values[i], value # Nothing => more[n + 1] = value
    PROVE  /\ Keeps(Pushed(sequence, value), more)
           /\ Cardinality(DOMAIN more) > MaxSequence
                <=> Cardinality(DOMAIN values) > MaxSequence \/ Overflows(sequence, value)
<1> DEFINE chosen == DOMAIN values
           c == Cardinality(chosen)
           Place(i) == Cardinality({j \in chosen : j <= i})
<1>1. IsFiniteSet(chosen) /\ c \in Nat /\ MaxSequence \in Nat /\ MaxSequence >= 1
  <2>1. IsFiniteSet(1 .. n)
    BY FS_Interval
  <2>2. IsFiniteSet(chosen)
    BY <2>1, FS_Subset
  <2> QED
    BY <2>2, CountIs, SessionsAssumption
<1>2. Len(sequence) = IF MaxSequence < c THEN MaxSequence ELSE c
  <2>1. Len(sequence) = Min({c, MaxSequence})
    BY DEF Keeps
  <2>2. Min({c, MaxSequence}) = IF MaxSequence < c THEN MaxSequence ELSE c
    BY <1>1, LeastOf
  <2> QED
    BY <2>1, <2>2
<1>3. ASSUME NEW i \in chosen
      PROVE  /\ Place(i) \in Nat /\ Place(i) >= 1 /\ Place(i) <= c
             /\ Place(i) <= MaxSequence => sequence[Place(i)] = values[i]
  <2>1. {j \in chosen : j <= i} \in SUBSET chosen /\ i \in {j \in chosen : j <= i}
    BY <1>1
  <2>2. IsFiniteSet({j \in chosen : j <= i}) /\ Place(i) <= c
    BY <1>1, <2>1, PartOf
  <2>3. Place(i) \in Nat /\ Place(i) # 0
    BY <2>1, <2>2, CountIs
  <2>4. Place(i) <= MaxSequence => sequence[Place(i)] = values[i]
    BY DEF Keeps
  <2> QED
    BY <2>2, <2>3, <2>4
<1>4. CASE value = Nothing
  <2>1. DOMAIN more = chosen
    BY <1>4
  <2>2. Pushed(sequence, value) = sequence /\ ~Overflows(sequence, value)
    BY <1>4 DEF Pushed, Overflows
  <2>3. Keeps(sequence, more)
    BY <2>1 DEF Keeps
  <2> QED
    BY <2>1, <2>2, <2>3
<1>5. CASE value # Nothing
  <2>1. DOMAIN more = chosen \cup {n + 1} /\ n + 1 \notin chosen
    BY <1>5
  <2>2. Cardinality(DOMAIN more) = c + 1
    BY <1>1, <2>1, OneMore
  <2>3. ASSUME NEW i \in chosen
        PROVE  {j \in DOMAIN more : j <= i} = {j \in chosen : j <= i}
    BY <2>1
  <2>4. {j \in DOMAIN more : j <= n + 1} = DOMAIN more
    BY <2>1
  <2>5. Overflows(sequence, value) <=> c >= MaxSequence
    BY <1>1, <1>2, <1>5 DEF Overflows
  <2>6. Pushed(sequence, value) = IF c >= MaxSequence THEN sequence ELSE Append(sequence, value)
    BY <1>1, <1>2, <1>5 DEF Pushed
  <2>7. Min({Cardinality(DOMAIN more), MaxSequence}) = IF c + 1 <= MaxSequence THEN c + 1 ELSE MaxSequence
    <3> HIDE DEF c
    <3>1. c \in Int /\ c + 1 \in Int /\ MaxSequence \in Int
      BY <1>1
    <3>2. Min({c + 1, MaxSequence}) = IF MaxSequence < c + 1 THEN MaxSequence ELSE c + 1
      BY <3>1, LeastOf
    <3>3. c + 1 <= MaxSequence <=> ~(MaxSequence < c + 1)
      BY <3>1
    <3>4. Cardinality(DOMAIN more) = c + 1
      BY <2>2
    <3>5. CASE c + 1 <= MaxSequence
      BY <3>2, <3>3, <3>4, <3>5
    <3>6. CASE ~(c + 1 <= MaxSequence)
      BY <3>2, <3>3, <3>4, <3>6
    <3> QED
      BY <3>5, <3>6
  <2>8. ASSUME NEW i \in DOMAIN more,
               Cardinality({j \in DOMAIN more : j <= i}) <= MaxSequence
        PROVE  Pushed(sequence, value)[Cardinality({j \in DOMAIN more : j <= i})] = more[i]
    <3>1. CASE i \in chosen
      <4>1. Cardinality({j \in DOMAIN more : j <= i}) = Place(i)
        BY <2>3, <3>1
      <4>2. sequence[Place(i)] = more[i] /\ Place(i) \in 1 .. c
        BY <1>1, <1>3, <2>8, <3>1, <4>1
      <4> HIDE DEF Place, chosen, c
      <4>3. CASE c >= MaxSequence
        BY <2>6, <4>1, <4>2, <4>3
      <4>4. CASE ~(c >= MaxSequence)
        <5>1. Len(sequence) = c
          BY <1>1, <1>2, <4>4
        <5>2. Append(sequence, value)[Place(i)] = sequence[Place(i)]
          BY <4>2, <5>1
        <5> QED
          BY <2>6, <4>1, <4>2, <4>4, <5>2
      <4> QED
        BY <4>3, <4>4
    <3>2. CASE i = n + 1
      <4>1. Cardinality({j \in DOMAIN more : j <= i}) = c + 1
        BY <2>2, <2>4, <3>2
      <4> HIDE DEF Place, chosen, c
      <4>2. c + 1 <= MaxSequence /\ Len(sequence) = c
        BY <1>1, <1>2, <2>8, <4>1
      <4>3. Pushed(sequence, value) = Append(sequence, value)
        BY <1>1, <2>6, <4>2
      <4>4. Append(sequence, value)[c + 1] = value
        BY <4>2
      <4> QED
        BY <1>5, <3>2, <4>1, <4>3, <4>4
    <3> QED
      BY <2>1, <3>1, <3>2
  <2>9. Len(Pushed(sequence, value)) = IF c >= MaxSequence THEN Len(sequence) ELSE Len(sequence) + 1
    BY <2>6
  <2>10. Len(Pushed(sequence, value)) = Min({Cardinality(DOMAIN more), MaxSequence})
    <3> HIDE DEF Place, chosen, c
    <3> QED
      BY <1>1, <1>2, <2>7, <2>9
  <2>11. Keeps(Pushed(sequence, value), more)
    BY <2>8, <2>10 DEF Keeps
  <2> QED
    BY <1>1, <2>2, <2>5, <2>11
<1> QED
  BY <1>4, <1>5

\* What is said of a visit.
Told(v) ==
    /\ v.eventCount = Len(v.members)
    /\ Keeps(v.paths, Requests(v)) /\ Keeps(v.codes, Statuses(v)) /\ Keeps(v.interArrivals, Gaps(v))
    /\ v.truncated <=> \E chosen \in {Asking(v), Answered(v), InOrder(v)} :
                          Cardinality(chosen) > MaxSequence
    /\ v.uniquePaths \subseteq Range(Requests(v))
    /\ ~v.truncated => v.uniquePaths = Range(Requests(v))

\* An event that is folded in is late when the visit's clock says so.
LEMMA LateMore ==
    ASSUME NEW session \in Session, NEW event \in Event, NEW after \in Session,
           after.members = Append(session.members, event),
           session.members = <<>> => session.lastSeenAt = event.at,
           session.members # <<>> => IsClock(session.lastSeenAt, session, Len(session.members))
    PROVE  /\ Late(session) \subseteq 2 .. Len(session.members)
           /\ Late(after) = IF event.at < session.lastSeenAt
                            THEN Late(session) \cup {Len(session.members) + 1} ELSE Late(session)
           /\ \A i \in 2 .. Len(session.members) : ClockAfter(after, i - 1) = ClockAfter(session, i - 1)
           /\ session.members # <<>> => ClockAfter(after, Len(session.members)) = session.lastSeenAt
<1> DEFINE n == Len(session.members)
<1>1. /\ session.members \in Seq(Event) /\ n \in Nat /\ event.at \in Int /\ session.lastSeenAt \in Int
      /\ n = 0 <=> session.members = <<>>
  BY DEF Session, Event
<1>2. /\ Len(after.members) = n + 1 /\ after.members[n + 1] = event
      /\ \A j \in 1 .. n : after.members[j] = session.members[j]
  BY <1>1
<1> HIDE DEF n
<1>3. \A i \in 1 .. n : ClockAfter(after, i) = ClockAfter(session, i)
  <2> SUFFICES ASSUME NEW i \in 1 .. n
               PROVE  {after.members[j].at : j \in 1 .. i} = {session.members[j].at : j \in 1 .. i}
    BY DEF ClockAfter
  <2>1. \A j \in 1 .. i : j \in 1 .. n
    BY <1>1
  <2> QED
    BY <1>2, <2>1
<1>4. \A i \in 2 .. n : i - 1 \in 1 .. n
  BY <1>1
<1>5. n >= 1 => ClockAfter(after, n) = session.lastSeenAt
  <2> SUFFICES ASSUME n >= 1
               PROVE  ClockAfter(after, n) = session.lastSeenAt
    OBVIOUS
  <2>1. n \in 1 .. n /\ IsClock(session.lastSeenAt, session, n)
    BY <1>1 DEF n
  <2>2. ClockAfter(session, n) = session.lastSeenAt
    BY <2>1, ClockIs DEF n
  <2> QED
    BY <1>3, <2>1, <2>2
<1>6. Late(session) = {i \in 2 .. n : session.members[i].at < ClockAfter(session, i - 1)}
  BY DEF Late, n
<1>7. Late(after) = {i \in 2 .. n + 1 : after.members[i].at < ClockAfter(after, i - 1)}
  BY <1>2 DEF Late
<1>8. \A i \in 2 .. n : i \in Late(after) <=> i \in Late(session)
  <2> SUFFICES ASSUME NEW i \in 2 .. n
               PROVE  i \in Late(after) <=> i \in Late(session)
    OBVIOUS
  <2>1. i \in 1 .. n /\ i \in 2 .. n + 1
    BY <1>1
  <2>2. after.members[i] = session.members[i] /\ ClockAfter(after, i - 1) = ClockAfter(session, i - 1)
    BY <1>2, <1>3, <1>4, <2>1
  <2> QED
    BY <1>6, <1>7, <2>1, <2>2
<1>9. n + 1 \in Late(after) <=> event.at < session.lastSeenAt
  <2>1. CASE n = 0
    <3>1. session.lastSeenAt = event.at
      BY <1>1, <2>1
    <3>2. n + 1 \notin 2 .. n + 1
      BY <2>1
    <3> QED
      BY <1>1, <1>7, <3>1, <3>2
  <2>2. CASE n >= 1
    <3>1. ASSUME NEW k \in 2 .. n + 1, k = n + 1
          PROVE  k \in Late(after) <=> event.at < session.lastSeenAt
      <4>1. k - 1 = n
        BY <1>1, <3>1
      <4>2. after.members[k] = event /\ ClockAfter(after, k - 1) = session.lastSeenAt
        BY <1>2, <1>5, <2>2, <3>1, <4>1
      <4>3. k \in Late(after) <=> after.members[k].at < ClockAfter(after, k - 1)
        BY <1>7
      <4> QED
        BY <4>2, <4>3
    <3>2. n + 1 \in 2 .. n + 1
      BY <1>1, <2>2
    <3> QED
      BY <3>1, <3>2
  <2> QED
    BY <1>1, <2>1, <2>2
<1>10. 2 .. n + 1 \subseteq (2 .. n) \cup {n + 1}
  BY <1>1
<1>11. Late(after) \subseteq (2 .. n) \cup {n + 1} /\ Late(session) \subseteq 2 .. n
  BY <1>6, <1>7, <1>10
<1>12. Late(after) = IF event.at < session.lastSeenAt THEN Late(session) \cup {n + 1} ELSE Late(session)
  <2>1. \A i \in Late(after) : i \in Late(session) \/ i = n + 1
    BY <1>8, <1>11
  <2>2. \A i \in Late(session) : i \in Late(after)
    BY <1>8, <1>11
  <2>3. CASE event.at < session.lastSeenAt
    BY <1>9, <2>1, <2>2, <2>3
  <2>4. CASE ~(event.at < session.lastSeenAt)
    <3>1. n + 1 \notin Late(after)
      BY <1>9, <2>4
    <3>2. \A i : i \in Late(after) <=> i \in Late(session)
      BY <2>1, <2>2, <3>1
    <3>3. Late(after) = Late(session)
      BY <3>2
    <3> QED
      BY <2>4, <3>3
  <2> QED
    BY <2>3, <2>4
<1> QED
  BY <1>1, <1>3, <1>4, <1>5, <1>11, <1>12 DEF n

LEMMA AppendedHas ==
    ASSUME NEW session \in Session, NEW event \in Event
    PROVE  LET after == Appended(session, event) IN
           /\ after.eventCount = session.eventCount + 1
           /\ after.paths = Pushed(session.paths, event.path)
           /\ after.codes = Pushed(session.codes, event.code)
           /\ after.interArrivals = Pushed(session.interArrivals, Delta(session, event))
           /\ after.uniquePaths = IF event.path # Nothing /\ Cardinality(session.uniquePaths) < MaxSequence
                                  THEN session.uniquePaths \cup {event.path} ELSE session.uniquePaths
           /\ after.truncated = (\/ session.truncated
                                 \/ Overflows(session.interArrivals, Delta(session, event))
                                 \/ Overflows(session.paths, event.path)
                                 \/ Overflows(session.codes, event.code))
BY DEF Appended, Session

\* What has a value, after one event more.
LEMMA RequestsMore ==
    ASSUME NEW session \in Session, NEW event \in Event, NEW after,
           after.members = Append(session.members, event)
    PROVE  LET n == Len(session.members) IN
           /\ Asking(session) \subseteq 1 .. n
           /\ Asking(after) = IF event.path = Nothing THEN Asking(session) ELSE Asking(session) \cup {n + 1}
           /\ \A i \in Asking(session) : Requests(after)[i] = Requests(session)[i]
           /\ event.path # Nothing => Requests(after)[n + 1] = event.path
<1> DEFINE n == Len(session.members)
<1>1. session.members \in Seq(Event) /\ n \in Nat /\ DOMAIN session.members = 1 .. n
  BY DEF Session
<1>2. /\ DOMAIN after.members = (1 .. n) \cup {n + 1} /\ after.members[n + 1] = event
      /\ \A j \in 1 .. n : after.members[j] = session.members[j]
  BY <1>1
<1> HIDE DEF n
<1>3. Asking(session) \subseteq 1 .. n
  BY <1>1 DEF Asking
<1>4. Asking(after) = IF event.path = Nothing THEN Asking(session) ELSE Asking(session) \cup {n + 1}
  BY <1>1, <1>2 DEF Asking
<1>5. \A i \in Asking(session) : Requests(after)[i] = Requests(session)[i]
  BY <1>2, <1>3, <1>4 DEF Requests
<1>6. event.path # Nothing => Requests(after)[n + 1] = event.path
  BY <1>2, <1>4 DEF Requests
<1> QED
  BY <1>3, <1>4, <1>5, <1>6 DEF n

LEMMA StatusesMore ==
    ASSUME NEW session \in Session, NEW event \in Event, NEW after,
           after.members = Append(session.members, event)
    PROVE  LET n == Len(session.members) IN
           /\ Answered(session) \subseteq 1 .. n
           /\ Answered(after) = IF event.code = Nothing THEN Answered(session) ELSE Answered(session) \cup {n + 1}
           /\ \A i \in Answered(session) : Statuses(after)[i] = Statuses(session)[i]
           /\ event.code # Nothing => Statuses(after)[n + 1] = event.code
<1> DEFINE n == Len(session.members)
<1>1. session.members \in Seq(Event) /\ n \in Nat /\ DOMAIN session.members = 1 .. n
  BY DEF Session
<1>2. /\ DOMAIN after.members = (1 .. n) \cup {n + 1} /\ after.members[n + 1] = event
      /\ \A j \in 1 .. n : after.members[j] = session.members[j]
  BY <1>1
<1> HIDE DEF n
<1>3. Answered(session) \subseteq 1 .. n
  BY <1>1 DEF Answered
<1>4. Answered(after) = IF event.code = Nothing THEN Answered(session) ELSE Answered(session) \cup {n + 1}
  BY <1>1, <1>2 DEF Answered
<1>5. \A i \in Answered(session) : Statuses(after)[i] = Statuses(session)[i]
  BY <1>2, <1>3, <1>4 DEF Statuses
<1>6. event.code # Nothing => Statuses(after)[n + 1] = event.code
  BY <1>2, <1>4 DEF Statuses
<1> QED
  BY <1>3, <1>4, <1>5, <1>6 DEF n

LEMMA GapsMore ==
    ASSUME NEW session \in Session, NEW event \in Event, NEW after \in Session,
           after.members = Append(session.members, event),
           session.eventCount = Len(session.members),
           session.members = <<>> => session.lastSeenAt = event.at,
           session.members # <<>> => IsClock(session.lastSeenAt, session, Len(session.members))
    PROVE  LET n == Len(session.members)
               delta == Delta(session, event) IN
           /\ InOrder(session) \subseteq 1 .. n
           /\ InOrder(after) = IF delta = Nothing THEN InOrder(session) ELSE InOrder(session) \cup {n + 1}
           /\ \A i \in InOrder(session) : Gaps(after)[i] = Gaps(session)[i]
           /\ delta # Nothing => Gaps(after)[n + 1] = delta
<1> DEFINE n == Len(session.members)
           delta == Delta(session, event)
<1>1. /\ session.members \in Seq(Event) /\ n \in Nat /\ (n = 0 <=> session.members = <<>>)
      /\ event.at \in Int /\ session.lastSeenAt \in Int /\ session.eventCount = n
  BY DEF Session, Event
<1>2. /\ Len(after.members) = n + 1 /\ after.members[n + 1] = event
      /\ \A j \in 1 .. n : after.members[j] = session.members[j]
  BY <1>1
<1>3. /\ Late(session) \subseteq 2 .. n
      /\ Late(after) = IF event.at < session.lastSeenAt THEN Late(session) \cup {n + 1} ELSE Late(session)
      /\ \A i \in 2 .. n : ClockAfter(after, i - 1) = ClockAfter(session, i - 1)
      /\ n # 0 => ClockAfter(after, n) = session.lastSeenAt
  BY <1>1, LateMore
<1>4. delta = Nothing <=> event.at < session.lastSeenAt \/ n = 0
  <2>1. CASE event.at < session.lastSeenAt \/ n = 0
    BY <1>1, <2>1 DEF Delta
  <2>2. CASE ~(event.at < session.lastSeenAt \/ n = 0)
    <3>1. delta = event.at - session.lastSeenAt /\ delta \in Nat
      BY <1>1, <2>2 DEF Delta
    <3> QED
      BY <2>2, <3>1, SessionsAssumption
  <2> QED
    BY <2>1, <2>2
<1>5. delta # Nothing => delta = event.at - session.lastSeenAt
  BY DEF Delta
<1>6. InOrder(session) = (2 .. n) \ Late(session) /\ InOrder(after) = (2 .. n + 1) \ Late(after)
  BY <1>2 DEF InOrder
<1> HIDE DEF n, delta
<1>7. n + 1 \in 2 .. n + 1 <=> n # 0
  BY <1>1
<1>8. \A i : i \in 2 .. n + 1 <=> (i \in 2 .. n \/ (i = n + 1 /\ n # 0))
  BY <1>1
<1>9. n + 1 \notin 2 .. n
  BY <1>1
<1>10. InOrder(after) = IF delta = Nothing THEN InOrder(session) ELSE InOrder(session) \cup {n + 1}
  <2>1. CASE n = 0
    BY <1>3, <1>4, <1>6, <1>8, <2>1
  <2>2. CASE n # 0 /\ event.at < session.lastSeenAt
    <3>1. \A i : i \in InOrder(after) <=> i \in InOrder(session)
      BY <1>3, <1>6, <1>8, <1>9, <2>2
    <3> QED
      BY <1>4, <2>2, <3>1
  <2>3. CASE n # 0 /\ ~(event.at < session.lastSeenAt)
    <3>1. \A i : i \in InOrder(after) <=> (i \in InOrder(session) \/ i = n + 1)
      BY <1>3, <1>6, <1>8, <1>9, <2>3
    <3> QED
      BY <1>4, <2>3, <3>1
  <2> QED
    BY <2>1, <2>2, <2>3
<1>11. InOrder(session) \subseteq 2 .. n /\ InOrder(session) \subseteq 1 .. n
  BY <1>1, <1>6
<1>12. \A i \in InOrder(session) : Gaps(after)[i] = Gaps(session)[i]
  BY <1>2, <1>3, <1>10, <1>11 DEF Gaps
<1>13. ASSUME delta # Nothing
       PROVE  Gaps(after)[n + 1] = delta
  <2>1. ASSUME NEW k, k = n + 1
        PROVE  Gaps(after)[k] = delta
    <3>1. k \in InOrder(after) /\ k - 1 = n /\ after.members[k] = event
      BY <1>1, <1>2, <1>10, <1>13, <2>1
    <3>2. Gaps(after)[k] = event.at - ClockAfter(after, k - 1)
      BY <3>1 DEF Gaps
    <3> QED
      BY <1>3, <1>4, <1>5, <1>13, <3>1, <3>2
  <2> QED
    BY <2>1
<1> QED
  BY <1>10, <1>11, <1>12, <1>13 DEF n, delta

LEMMA ToldMore ==
    ASSUME NEW session \in Session, NEW event \in Event, Told(session),
           session.members = <<>> => session.lastSeenAt = event.at,
           session.members # <<>> => IsClock(session.lastSeenAt, session, Len(session.members))
    PROVE  Told(Appended(session, event))
<1> DEFINE after == Appended(session, event)
           n == Len(session.members)
           delta == Delta(session, event)
<1>1. after \in Session /\ after.members = Append(session.members, event)
  BY AppendedIs
<1>2. /\ after.eventCount = session.eventCount + 1
      /\ after.paths = Pushed(session.paths, event.path)
      /\ after.codes = Pushed(session.codes, event.code)
      /\ after.interArrivals = Pushed(session.interArrivals, delta)
      /\ after.uniquePaths = IF event.path # Nothing /\ Cardinality(session.uniquePaths) < MaxSequence
                             THEN session.uniquePaths \cup {event.path} ELSE session.uniquePaths
      /\ after.truncated = (\/ session.truncated
                            \/ Overflows(session.interArrivals, delta)
                            \/ Overflows(session.paths, event.path)
                            \/ Overflows(session.codes, event.code))
  BY AppendedHas
<1>3. /\ session.paths \in Seq(VisitPath) /\ session.codes \in Seq(Code) /\ session.interArrivals \in Seq(Nat)
      /\ session.members \in Seq(Event) /\ n \in Nat /\ session.eventCount = n
      /\ event.path \in VisitPath \cup {Nothing}
  BY DEF Session, Event, Told
<1>4. /\ Asking(session) \subseteq 1 .. n
      /\ Asking(after) = IF event.path = Nothing THEN Asking(session) ELSE Asking(session) \cup {n + 1}
      /\ \A i \in Asking(session) : Requests(after)[i] = Requests(session)[i]
      /\ event.path # Nothing => Requests(after)[n + 1] = event.path
  BY <1>1, RequestsMore
<1>5. /\ Answered(session) \subseteq 1 .. n
      /\ Answered(after) = IF event.code = Nothing THEN Answered(session) ELSE Answered(session) \cup {n + 1}
      /\ \A i \in Answered(session) : Statuses(after)[i] = Statuses(session)[i]
      /\ event.code # Nothing => Statuses(after)[n + 1] = event.code
  BY <1>1, StatusesMore
<1>6. /\ InOrder(session) \subseteq 1 .. n
      /\ InOrder(after) = IF delta = Nothing THEN InOrder(session) ELSE InOrder(session) \cup {n + 1}
      /\ \A i \in InOrder(session) : Gaps(after)[i] = Gaps(session)[i]
      /\ delta # Nothing => Gaps(after)[n + 1] = delta
  BY <1>1, <1>3, GapsMore
<1>7. Len(after.members) = n + 1
  BY <1>1, <1>3
<1> HIDE DEF after, n, delta
<1>8. /\ DOMAIN Requests(session) = Asking(session) /\ DOMAIN Requests(after) = Asking(after)
      /\ DOMAIN Statuses(session) = Answered(session) /\ DOMAIN Statuses(after) = Answered(after)
      /\ DOMAIN Gaps(session) = InOrder(session) /\ DOMAIN Gaps(after) = InOrder(after)
  BY DEF Requests, Statuses, Gaps
<1>9. /\ Keeps(after.paths, Requests(after))
      /\ Cardinality(Asking(after)) > MaxSequence
           <=> Cardinality(Asking(session)) > MaxSequence \/ Overflows(session.paths, event.path)
  <2>1. Keeps(session.paths, Requests(session))
    BY DEF Told
  <2>2. /\ DOMAIN Requests(session) \subseteq 1 .. n
        /\ DOMAIN Requests(after) = IF event.path = Nothing THEN DOMAIN Requests(session) ELSE DOMAIN Requests(session) \cup {n + 1}
        /\ \A i \in DOMAIN Requests(session) : Requests(after)[i] = Requests(session)[i]
        /\ event.path # Nothing => Requests(after)[n + 1] = event.path
    BY <1>4, <1>8
  <2>3. session.paths \in Seq(VisitPath) /\ n \in Nat
    BY <1>3
  <2>4. /\ Keeps(Pushed(session.paths, event.path), Requests(after))
        /\ Cardinality(DOMAIN Requests(after)) > MaxSequence
             <=> Cardinality(DOMAIN Requests(session)) > MaxSequence \/ Overflows(session.paths, event.path)
    BY <2>1, <2>2, <2>3, KeepsPushed
  <2> QED
    BY <1>2, <1>8, <2>4
<1>10. /\ Keeps(after.codes, Statuses(after))
       /\ Cardinality(Answered(after)) > MaxSequence
            <=> Cardinality(Answered(session)) > MaxSequence \/ Overflows(session.codes, event.code)
  <2>1. Keeps(session.codes, Statuses(session))
    BY DEF Told
  <2>2. /\ DOMAIN Statuses(session) \subseteq 1 .. n
        /\ DOMAIN Statuses(after) = IF event.code = Nothing THEN DOMAIN Statuses(session) ELSE DOMAIN Statuses(session) \cup {n + 1}
        /\ \A i \in DOMAIN Statuses(session) : Statuses(after)[i] = Statuses(session)[i]
        /\ event.code # Nothing => Statuses(after)[n + 1] = event.code
    BY <1>5, <1>8
  <2>3. session.codes \in Seq(Code) /\ n \in Nat
    BY <1>3
  <2>4. /\ Keeps(Pushed(session.codes, event.code), Statuses(after))
        /\ Cardinality(DOMAIN Statuses(after)) > MaxSequence
             <=> Cardinality(DOMAIN Statuses(session)) > MaxSequence \/ Overflows(session.codes, event.code)
    BY <2>1, <2>2, <2>3, KeepsPushed
  <2> QED
    BY <1>2, <1>8, <2>4
<1>11. /\ Keeps(after.interArrivals, Gaps(after))
       /\ Cardinality(InOrder(after)) > MaxSequence
            <=> Cardinality(InOrder(session)) > MaxSequence \/ Overflows(session.interArrivals, delta)
  <2>1. Keeps(session.interArrivals, Gaps(session))
    BY DEF Told
  <2>2. /\ DOMAIN Gaps(session) \subseteq 1 .. n
        /\ DOMAIN Gaps(after) = IF delta = Nothing THEN DOMAIN Gaps(session) ELSE DOMAIN Gaps(session) \cup {n + 1}
        /\ \A i \in DOMAIN Gaps(session) : Gaps(after)[i] = Gaps(session)[i]
        /\ delta # Nothing => Gaps(after)[n + 1] = delta
    BY <1>6, <1>8
  <2>3. session.interArrivals \in Seq(Nat) /\ n \in Nat
    BY <1>3
  <2>4. /\ Keeps(Pushed(session.interArrivals, delta), Gaps(after))
        /\ Cardinality(DOMAIN Gaps(after)) > MaxSequence
             <=> Cardinality(DOMAIN Gaps(session)) > MaxSequence \/ Overflows(session.interArrivals, delta)
    BY <2>1, <2>2, <2>3, KeepsPushed
  <2> QED
    BY <1>2, <1>8, <2>4
<1>12. after.truncated <=> \E chosen \in {Asking(after), Answered(after), InOrder(after)} :
                              Cardinality(chosen) > MaxSequence
  <2>1. session.truncated <=> \/ Cardinality(Asking(session)) > MaxSequence
                              \/ Cardinality(Answered(session)) > MaxSequence
                              \/ Cardinality(InOrder(session)) > MaxSequence
    BY DEF Told
  <2>2. (\E chosen \in {Asking(after), Answered(after), InOrder(after)} : Cardinality(chosen) > MaxSequence)
           <=> \/ Cardinality(Asking(after)) > MaxSequence
               \/ Cardinality(Answered(after)) > MaxSequence
               \/ Cardinality(InOrder(after)) > MaxSequence
    OBVIOUS
  <2>3. after.truncated <=> (\/ session.truncated
                             \/ Overflows(session.interArrivals, delta)
                             \/ Overflows(session.paths, event.path)
                             \/ Overflows(session.codes, event.code))
    BY <1>2
  <2> QED
    BY <1>9, <1>10, <1>11, <2>1, <2>2, <2>3
<1>13. Range(Requests(after)) = IF event.path = Nothing THEN Range(Requests(session))
                                ELSE Range(Requests(session)) \cup {event.path}
  BY <1>4, <1>8 DEF Range
<1>14. /\ after.uniquePaths \subseteq Range(Requests(after))
       /\ ~after.truncated => after.uniquePaths = Range(Requests(after))
  <2>1. /\ session.uniquePaths \subseteq Range(Requests(session))
        /\ ~session.truncated => session.uniquePaths = Range(Requests(session))
    BY DEF Told
  <2>2. after.uniquePaths \subseteq Range(Requests(after))
    BY <1>2, <1>13, <2>1
  <2>3. ASSUME ~after.truncated
        PROVE  after.uniquePaths = Range(Requests(after))
    <3>1. ~session.truncated /\ ~Overflows(session.paths, event.path)
      BY <1>2, <2>3
    <3>2. session.uniquePaths = Range(Requests(session))
      BY <2>1, <3>1
    <3>3. CASE event.path = Nothing
      BY <1>2, <1>13, <3>2, <3>3
    <3>4. CASE event.path # Nothing
      <4>1. IsFiniteSet(Asking(session))
        <5>1. IsFiniteSet(1 .. n)
          BY <1>3, FS_Interval
        <5> QED
          BY <1>4, <5>1, FS_Subset
      <4>2. Cardinality(Asking(session)) \in Nat /\ MaxSequence \in Nat
        BY <4>1, CountIs, SessionsAssumption
      <4>3. Len(session.paths) < MaxSequence
        BY <1>3, <3>1, <3>4, <4>2 DEF Overflows
      <4>4. Len(session.paths) = Min({Cardinality(Asking(session)), MaxSequence})
        BY <1>8 DEF Told, Keeps
      <4>5. Cardinality(Asking(session)) < MaxSequence
        BY <4>2, <4>3, <4>4, LeastOf
      <4>6. Range(Requests(session)) = {Requests(session)[i] : i \in Asking(session)}
        BY <1>8 DEF Range
      <4>7. /\ IsFiniteSet(Range(Requests(session)))
            /\ Cardinality(Range(Requests(session))) <= Cardinality(Asking(session))
        BY <4>1, <4>6, NoMoreValues
      <4>8. Cardinality(session.uniquePaths) < MaxSequence
        <5>1. Cardinality(Range(Requests(session))) \in Nat
          BY <4>7, CountIs
        <5> QED
          BY <3>2, <4>2, <4>5, <4>7, <5>1
      <4> QED
        BY <1>2, <1>13, <3>2, <3>4, <4>8
    <3> QED
      BY <3>3, <3>4
  <2> QED
    BY <2>2, <2>3
<1> QED
  BY <1>2, <1>3, <1>7, <1>9, <1>10, <1>11, <1>12, <1>14 DEF Told, after

-----------------------------------------------------------------------------
(* The visits and their places.                                            *)

LEMMA ConcatIs ==
    ASSUME NEW T, NEW s \in Seq(T), NEW x \in T
    PROVE  s \o <<>> = s /\ s \o <<x>> = Append(s, x)
<1>1. s \o <<>> = s
  BY ConcatEmptySeq
<1>2. <<x>> \in Seq(T) /\ Len(<<x>>) = 1 /\ <<x>>[1] = x
  OBVIOUS
<1>3. s \o <<x>> \in Seq(T) /\ Append(s, x) \in Seq(T) /\ Len(s \o <<x>>) = Len(Append(s, x))
  BY <1>2
<1>4. ASSUME NEW i \in 1 .. Len(s) + 1
      PROVE  (s \o <<x>>)[i] = Append(s, x)[i]
  BY <1>2
<1> QED
  BY <1>1, <1>3, <1>4, SeqEqual

LEMMA PlacesIs ==
    /\ \A p : p \in AllVisits <=> \E d \in Entity : \E i \in DOMAIN Visits(d) : p = <<d, i>>
    /\ \A p : p \in AllVisits' <=> \E d \in Entity : \E i \in DOMAIN Visits(d)' : p = <<d, i>>
BY DEF AllVisits

LEMMA VisitsStay ==
    ASSUME UNCHANGED <<visits, closed>>
    PROVE  AllVisits' = AllVisits /\ \A v \in AllVisits : VisitAt(v)' = VisitAt(v)
<1>1. \A d : Visits(d)' = Visits(d)
  BY DEF Visits
<1> QED
  BY <1>1 DEF AllVisits, VisitAt

\* Handing visits out moves none of them.
LEMMA VisitsHandedOut ==
    ASSUME SessionsInv, NEW entities \in SUBSET Live, HandOut(entities)
    PROVE  AllVisits' = AllVisits /\ \A v \in AllVisits : VisitAt(v)' = VisitAt(v)
<1>1. ASSUME NEW e \in Entity
      PROVE  Visits(e)' = Visits(e)
  <2>1. /\ visits'[e] = IF e \in entities THEN Nothing ELSE visits[e]
        /\ closed'[e] = IF e \in entities THEN Append(closed[e], visits[e]) ELSE closed[e]
    BY DEF HandOut
  <2>2. closed[e] \in Seq(Session) /\ visits[e] \in Session \cup {Nothing}
    BY DEF SessionsInv
  <2>3. CASE e \in entities
    <3>1. visits[e] # Nothing /\ visits[e] \in Session
      BY <2>2, <2>3 DEF Live
    <3>2. Append(closed[e], visits[e]) \in Seq(Session)
      BY <2>2, <3>1
    <3>3. Visits(e)' = Append(closed[e], visits[e])
      BY <2>1, <2>3, <3>1, <3>2, ConcatIs DEF Visits
    <3>4. Visits(e) = Append(closed[e], visits[e])
      BY <2>2, <3>1, ConcatIs DEF Visits
    <3> QED
      BY <3>3, <3>4
  <2>4. CASE e \notin entities
    BY <2>1, <2>4 DEF Visits
  <2> QED
    BY <2>3, <2>4
<1>2. \A p : p \in AllVisits' <=> p \in AllVisits
  BY <1>1, PlacesIs
<1>3. ASSUME NEW v \in AllVisits
      PROVE  VisitAt(v)' = VisitAt(v)
  <2>1. PICK d \in Entity : \E i \in DOMAIN Visits(d) : v = <<d, i>>
    BY PlacesIs
  <2>2. v[1] = d
    BY <2>1
  <2> QED
    BY <1>1, <2>2 DEF VisitAt
<1> QED
  BY <1>2, <1>3

\* An event begins a visit at a new place, or is folded into one at its old place.
AddsTo(place, session, e, event) ==
    /\ AllVisits' = AllVisits \cup {place}
    /\ VisitAt(place)' = Appended(session, event)
    /\ \A v \in AllVisits \ {place} : VisitAt(v)' = VisitAt(v)
    /\ stats' = CountedEvent(visits[e] # Nothing /\ Ends(visits[e], event.at), session, Appended(session, event))
    /\ visits'[e] = Appended(session, event)
    /\ IF visits[e] = Nothing \/ Ends(visits[e], event.at)
       THEN place \notin AllVisits /\ session = Started(e, event)
       ELSE place \in AllVisits /\ session = visits[e] /\ VisitAt(place) = session

LEMMA VisitsAdd ==
    ASSUME SessionsInv, SessionsInv', NEW e \in Entity, NEW event \in Event, AddEvent(e, event)
    PROVE  \E place : \E session \in Session : AddsTo(place, session, e, event)
<1> DEFINE over == visits[e] # Nothing /\ Ends(visits[e], event.at)
           begins == visits[e] = Nothing \/ over
<1>1. PICK session : session = IF begins THEN Started(e, event) ELSE visits[e]
  OBVIOUS
<1>2. PICK after : after = Appended(session, event)
  OBVIOUS
<1>3. /\ visits \in [Entity -> Session \cup {Nothing}] /\ closed \in [Entity -> Seq(Session)]
      /\ closed[e] \in Seq(Session) /\ visits[e] \in Session \cup {Nothing}
  BY DEF SessionsInv
<1>4. session \in Session /\ after \in Session /\ after # Nothing
  <2>1. session \in Session
    BY <1>1, <1>3, StartedIs
  <2> QED
    BY <1>2, <2>1, AppendedIs, NothingIsNoSession
<1>5. /\ visits' = [visits EXCEPT ![e] = after]
      /\ closed' = IF over THEN [closed EXCEPT ![e] = Append(@, visits[e])] ELSE closed
      /\ stats' = CountedEvent(over, session, after)
  BY <1>1, <1>2 DEF AddEvent
<1>6. visits'[e] = after /\ closed'[e] = IF over THEN Append(closed[e], visits[e]) ELSE closed[e]
  BY <1>3, <1>5
<1>7. ASSUME NEW d \in Entity \ {e}
      PROVE  Visits(d)' = Visits(d)
  <2>1. visits'[d] = visits[d] /\ closed'[d] = closed[d]
    BY <1>3, <1>5
  <2> QED
    BY <2>1 DEF Visits
<1> HIDE DEF over, begins
<1>8. closed'[e] \in Seq(Session)
  BY DEF SessionsInv
<1>9. Visits(e)' = Append(closed'[e], after)
  BY <1>4, <1>6, <1>8, ConcatIs DEF Visits
<1>10. Visits(e) = IF visits[e] = Nothing THEN closed[e] ELSE Append(closed[e], visits[e])
  BY <1>3, ConcatIs DEF Visits
<1>11. PICK k : k = Len(closed'[e]) + 1
  OBVIOUS
<1>12. /\ k \in Nat /\ DOMAIN closed'[e] = 1 .. k - 1 /\ DOMAIN Visits(e)' = (1 .. k - 1) \cup {k} /\ k \notin 1 .. k - 1
       /\ Visits(e)'[k] = after /\ \A i \in 1 .. k - 1 : Visits(e)'[i] = closed'[e][i]
  BY <1>4, <1>8, <1>9, <1>11
<1>13. CASE begins
  <2>1. Visits(e) = closed'[e]
    BY <1>6, <1>10, <1>13 DEF begins, over
  <2>2. DOMAIN Visits(e)' = DOMAIN Visits(e) \cup {k} /\ k \notin DOMAIN Visits(e)
    BY <1>12, <2>1
  <2>3. \A p : p \in AllVisits' <=> p \in AllVisits \/ p = <<e, k>>
    BY <1>7, <2>2, PlacesIs
  <2>4. <<e, k>> \notin AllVisits
    BY <2>2, PlacesIs
  <2>5. VisitAt(<<e, k>>)' = after
    BY <1>12 DEF VisitAt
  <2>6. ASSUME NEW v \in AllVisits \ {<<e, k>>}
        PROVE  VisitAt(v)' = VisitAt(v)
    <3>1. PICK d \in Entity : \E i \in DOMAIN Visits(d) : v = <<d, i>>
      BY PlacesIs
    <3>2. PICK i \in DOMAIN Visits(d) : v = <<d, i>>
      BY <3>1
    <3>3. CASE d = e
      BY <1>12, <2>1, <3>2, <3>3 DEF VisitAt
    <3>4. CASE d # e
      BY <1>7, <3>2, <3>4 DEF VisitAt
    <3> QED
      BY <3>3, <3>4
  <2>7. /\ AllVisits' = AllVisits \cup {<<e, k>>} /\ VisitAt(<<e, k>>)' = Appended(session, event)
        /\ stats' = CountedEvent(over, session, Appended(session, event))
        /\ visits'[e] = Appended(session, event) /\ session = Started(e, event)
    BY <1>1, <1>2, <1>5, <1>6, <1>13, <2>3, <2>5
  <2> QED
    <3>1. AddsTo(<<e, k>>, session, e, event)
      BY <1>13, <2>4, <2>6, <2>7 DEF AddsTo, begins, over
    <3> QED
      BY <1>4, <3>1
<1>14. CASE ~begins
  <2>1. /\ closed'[e] = closed[e] /\ Visits(e) = Append(closed[e], visits[e])
        /\ session = visits[e] /\ session \in Session
    BY <1>1, <1>4, <1>6, <1>10, <1>14 DEF begins, over
  <2>2. /\ DOMAIN Visits(e) = (1 .. k - 1) \cup {k} /\ Visits(e)[k] = session
        /\ \A i \in 1 .. k - 1 : Visits(e)[i] = closed[e][i]
    BY <1>3, <1>11, <2>1
  <2>3. \A p : p \in AllVisits' <=> p \in AllVisits
    BY <1>7, <1>12, <2>2, PlacesIs
  <2>4. <<e, k>> \in AllVisits
    BY <2>2, PlacesIs
  <2>5. VisitAt(<<e, k>>)' = after /\ VisitAt(<<e, k>>) = session
    BY <1>12, <2>2 DEF VisitAt
  <2>6. ASSUME NEW v \in AllVisits \ {<<e, k>>}
        PROVE  VisitAt(v)' = VisitAt(v)
    <3>1. PICK d \in Entity : \E i \in DOMAIN Visits(d) : v = <<d, i>>
      BY PlacesIs
    <3>2. PICK i \in DOMAIN Visits(d) : v = <<d, i>>
      BY <3>1
    <3>3. CASE d = e
      <4>1. i \in 1 .. k - 1
        BY <2>2, <3>2, <3>3
      <4> QED
        BY <1>12, <2>1, <2>2, <3>2, <3>3, <4>1 DEF VisitAt
    <3>4. CASE d # e
      BY <1>7, <3>2, <3>4 DEF VisitAt
    <3> QED
      BY <3>3, <3>4
  <2>7. /\ AllVisits' = AllVisits \cup {<<e, k>>} /\ VisitAt(<<e, k>>)' = Appended(session, event)
        /\ stats' = CountedEvent(over, session, Appended(session, event))
        /\ visits'[e] = Appended(session, event)
    BY <1>2, <1>5, <1>6, <2>3, <2>4, <2>5
  <2> QED
    <3>1. AddsTo(<<e, k>>, session, e, event)
      BY <1>14, <2>1, <2>4, <2>5, <2>6, <2>7 DEF AddsTo, begins, over
    <3> QED
      BY <1>4, <3>1
<1> QED
  BY <1>13, <1>14

\* What a step is.
LEMMA VisitSteps ==
    ASSUME [VisitsNext]_visitVars
    PROVE  \/ \E e \in Entity, event \in Event : AddEvent(e, event)
           \/ \E entities \in SUBSET Live : HandOut(entities)
           \/ UNCHANGED visitVars
<1>1. ASSUME NEW e \in Entity, NEW at \in (clock - Lateness)..(clock + MaxJump),
             NEW path \in VisitPath \cup {Nothing}, NEW code \in Code \cup {Nothing},
             AddEvent(e, [at |-> at, path |-> path, code |-> code])
      PROVE  \E event \in Event : AddEvent(e, event)
  <2>1. [at |-> at, path |-> path, code |-> code] \in Event
    BY DEF Event
  <2> QED
    BY <1>1, <2>1
<1>2. Expire => HandOut(Due) /\ Due \in SUBSET Live
  BY DEF Expire, Due
<1>3. FlushVisits => HandOut(Live)
  BY DEF FlushVisits
<1> QED
  BY <1>1, <1>2, <1>3 DEF VisitsNext

-----------------------------------------------------------------------------
(* What is said of all visits.                                             *)

ToldInv == \A v \in AllVisits : Told(VisitAt(v))

LEMMA PlacedIn ==
    ASSUME SessionsInv, NEW v \in AllVisits
    PROVE  VisitAt(v) \in Session
<1>1. PICK d \in Entity : \E i \in DOMAIN Visits(d) : v = <<d, i>>
  BY PlacesIs
<1>2. PICK i \in DOMAIN Visits(d) : v = <<d, i>>
  BY <1>1
<1>3. closed[d] \in Seq(Session) /\ visits[d] \in Session \cup {Nothing}
  BY DEF SessionsInv
<1>4. Visits(d) \in Seq(Session)
  <2>1. CASE visits[d] = Nothing
    BY <1>3, <2>1, ConcatIs DEF Visits
  <2>2. CASE visits[d] # Nothing
    <3>1. Visits(d) = Append(closed[d], visits[d]) /\ visits[d] \in Session
      BY <1>3, <2>2, ConcatIs DEF Visits
    <3> QED
      BY <1>3, <3>1
  <2> QED
    BY <2>1, <2>2
<1> QED
  BY <1>2, <1>4 DEF VisitAt

\* The visit an event is folded into: it has no event yet, or its clock is the latest of them.
LEMMA FoldedInto ==
    ASSUME SessionsInv, ToldInv, NEW e \in Entity, NEW event \in Event, NEW place, NEW session \in Session,
           AddsTo(place, session, e, event)
    PROVE  /\ Told(session)
           /\ session.members = <<>> => session.lastSeenAt = event.at
           /\ session.members # <<>> => IsClock(session.lastSeenAt, session, Len(session.members))
           /\ session.members = <<>> <=> visits[e] = Nothing \/ Ends(visits[e], event.at)
           /\ session.members = <<>> => ~session.truncated
<1>1. CASE visits[e] = Nothing \/ Ends(visits[e], event.at)
  <2>1. session = Started(e, event)
    BY <1>1 DEF AddsTo
  <2>2. /\ session.members = <<>> /\ session.lastSeenAt = event.at /\ ~session.truncated
        /\ session.eventCount = 0 /\ session.paths = <<>> /\ session.codes = <<>>
        /\ session.interArrivals = <<>> /\ session.uniquePaths = {}
    BY <2>1 DEF Started
  <2>3. Asking(session) = {} /\ Answered(session) = {} /\ InOrder(session) = {}
    BY <2>2 DEF Asking, Answered, InOrder
  <2>4. DOMAIN Requests(session) = {} /\ DOMAIN Statuses(session) = {} /\ DOMAIN Gaps(session) = {}
    BY <2>3 DEF Requests, Statuses, Gaps
  <2>5. Len(<<>>) = 0 /\ MaxSequence \in Nat /\ MaxSequence > 0
    BY SessionsAssumption
  <2>6. Min({0, MaxSequence}) = 0
    BY <2>5, LeastOf
  <2>7. \A values : DOMAIN values = {} => Keeps(<<>>, values)
    BY <2>5, <2>6, NoPlacesCounted DEF Keeps
  <2>8. Range(Requests(session)) = {}
    BY <2>4 DEF Range
  <2>9. ~\E chosen \in {Asking(session), Answered(session), InOrder(session)} :
            Cardinality(chosen) > MaxSequence
    BY <2>3, <2>5, NoPlacesCounted
  <2>10. Told(session)
    BY <2>2, <2>4, <2>5, <2>7, <2>8, <2>9 DEF Told
  <2> QED
    BY <1>1, <2>2, <2>10
<1>2. CASE ~(visits[e] = Nothing \/ Ends(visits[e], event.at))
  <2>1. place \in AllVisits /\ session = visits[e] /\ VisitAt(place) = session
    BY <1>2 DEF AddsTo
  <2>2. Steady(session)
    BY <1>2, <2>1 DEF SessionsInv, EntityInv
  <2>3. Told(session)
    BY <2>1 DEF ToldInv
  <2>4. session.members # <<>> /\ IsClock(session.lastSeenAt, session, Len(session.members))
    BY <2>2 DEF Steady
  <2> QED
    BY <1>2, <2>3, <2>4
<1> QED
  BY <1>1, <1>2

LEMMA ToldNext ==
    ASSUME SessionsInv, SessionsInv', ToldInv, [VisitsNext]_visitVars
    PROVE  ToldInv'
<1>1. ASSUME NEW e \in Entity, NEW event \in Event, AddEvent(e, event)
      PROVE  ToldInv'
  <2>1. PICK place : \E session \in Session : AddsTo(place, session, e, event)
    BY <1>1, VisitsAdd
  <2>2. PICK session \in Session : AddsTo(place, session, e, event)
    BY <2>1
  <2>3. Told(Appended(session, event))
    BY <2>2, FoldedInto, ToldMore
  <2>4. ASSUME NEW v \in AllVisits'
        PROVE  Told(VisitAt(v)')
    <3>1. CASE v = place
      BY <2>2, <2>3, <3>1 DEF AddsTo
    <3>2. CASE v # place
      <4>1. v \in AllVisits \ {place}
        BY <2>2, <3>2 DEF AddsTo
      <4>2. VisitAt(v)' = VisitAt(v)
        BY <2>2, <4>1 DEF AddsTo
      <4> QED
        BY <4>1, <4>2 DEF ToldInv
    <3> QED
      BY <3>1, <3>2
  <2> QED
    BY <2>4 DEF ToldInv
<1>2. ASSUME NEW entities \in SUBSET Live, HandOut(entities)
      PROVE  ToldInv'
  BY <1>2, VisitsHandedOut DEF ToldInv
<1>3. ASSUME UNCHANGED visitVars
      PROVE  ToldInv'
  BY <1>3, VisitsStay DEF visitVars, ToldInv
<1> QED
  BY <1>1, <1>2, <1>3, VisitSteps

-----------------------------------------------------------------------------
(* The counters.                                                           *)

CountsInv ==
    /\ IsFiniteSet(AllVisits) /\ IsFiniteSet(AllEvents) /\ IsFiniteSet(Live) /\ fed \in Nat
    /\ stats \in [opened: Nat, closedByGap: Nat, closedByFlush: Nat, outOfOrder: Nat, truncated: Nat]
    /\ EveryEventOnce

LEMMA EventsIs ==
    /\ \A p : p \in AllEvents <=>
          \E v \in AllVisits : \E i \in DOMAIN VisitAt(v).members : p = <<v, i>>
    /\ \A p : p \in AllEvents' <=>
          \E v \in AllVisits' : \E i \in DOMAIN VisitAt(v)'.members : p = <<v, i>>
BY DEF AllEvents

LEMMA LateIs ==
    /\ \A p : p \in LateEvents <=>
          \E v \in AllVisits : \E i \in Late(VisitAt(v)) : p = <<v, i>>
    /\ \A p : p \in LateEvents' <=>
          \E v \in AllVisits' : \E i \in Late(VisitAt(v)') : p = <<v, i>>
BY DEF LateEvents

LEMMA LateEventsAre ==
    ASSUME SessionsInv
    PROVE  LateEvents \subseteq AllEvents
<1> SUFFICES ASSUME NEW v \in AllVisits, NEW i \in Late(VisitAt(v))
             PROVE  i \in DOMAIN VisitAt(v).members
  BY EventsIs, LateIs
<1>1. VisitAt(v).members \in Seq(Event)
  BY PlacedIn DEF Session
<1> QED
  BY <1>1 DEF Late

\* The visits are where they were, and so is all they hold.
LEMMA PlacesStay ==
    ASSUME AllVisits' = AllVisits, \A v \in AllVisits : VisitAt(v)' = VisitAt(v)
    PROVE  /\ AllEvents' = AllEvents /\ LateEvents' = LateEvents
           /\ {v \in AllVisits : VisitAt(v).truncated}' = {v \in AllVisits : VisitAt(v).truncated}
<1>1. \A p : p \in AllEvents' <=> p \in AllEvents
  BY EventsIs
<1>2. \A p : p \in LateEvents' <=> p \in LateEvents
  BY LateIs
<1>3. {v \in AllVisits : VisitAt(v).truncated}' = {v \in AllVisits : VisitAt(v).truncated}
  OBVIOUS
<1> QED
  BY <1>1, <1>2, <1>3

\* There is one event more, and it is late when the clock of its visit says so.
LEMMA EventsAdd ==
    ASSUME SessionsInv, ToldInv, NEW e \in Entity, NEW event \in Event, NEW place, NEW session \in Session,
           AddsTo(place, session, e, event)
    PROVE  LET spot == <<place, Len(session.members) + 1>> IN
           /\ spot \notin AllEvents /\ AllEvents' = AllEvents \cup {spot}
           /\ LateEvents' = IF event.at < session.lastSeenAt THEN LateEvents \cup {spot} ELSE LateEvents
<1> DEFINE after == Appended(session, event)
           n == Len(session.members)
<1>1. session.members \in Seq(Event) /\ n \in Nat /\ DOMAIN session.members = 1 .. n
  BY DEF Session
<1>2. /\ AllVisits' = AllVisits \cup {place} /\ VisitAt(place)' = after
      /\ \A v \in AllVisits \ {place} : VisitAt(v)' = VisitAt(v)
  BY DEF AddsTo
<1>3. \/ place \notin AllVisits /\ n = 0
      \/ place \in AllVisits /\ VisitAt(place) = session
  <2>1. CASE visits[e] = Nothing \/ Ends(visits[e], event.at)
    <3>1. session.members = <<>> /\ place \notin AllVisits
      BY <2>1, FoldedInto DEF AddsTo
    <3> QED
      BY <3>1
  <2>2. CASE ~(visits[e] = Nothing \/ Ends(visits[e], event.at))
    BY <2>2 DEF AddsTo
  <2> QED
    BY <2>1, <2>2
<1>4. after \in Session /\ after.members = Append(session.members, event)
  BY AppendedIs
<1>5. Late(after) = IF event.at < session.lastSeenAt THEN Late(session) \cup {n + 1} ELSE Late(session)
  BY <1>4, FoldedInto, LateMore
<1>6. Late(session) \subseteq 2 .. n
  BY <1>4, FoldedInto, LateMore
<1>7. DOMAIN after.members = (1 .. n) \cup {n + 1} /\ n + 1 \notin 1 .. n
  BY <1>1, <1>4
<1> HIDE DEF after, n
<1>8. \A i : <<place, i>> \in AllEvents <=> i \in 1 .. n
  <2>1. CASE place \notin AllVisits /\ n = 0
    <3>1. \A i : <<place, i>> \notin AllEvents
      BY <2>1, EventsIs
    <3>2. \A i : i \notin 1 .. n
      BY <2>1
    <3> QED
      BY <3>1, <3>2
  <2>2. CASE place \in AllVisits /\ VisitAt(place) = session
    BY <1>1, <2>2, EventsIs
  <2> QED
    BY <1>3, <2>1, <2>2
<1>9. \A i : <<place, i>> \in LateEvents <=> i \in Late(session)
  <2>1. CASE place \notin AllVisits /\ n = 0
    <3>1. \A i : <<place, i>> \notin LateEvents
      BY <2>1, LateIs
    <3>2. Late(session) = {}
      BY <1>6, <2>1
    <3> QED
      BY <3>1, <3>2
  <2>2. CASE place \in AllVisits /\ VisitAt(place) = session
    BY <2>2, LateIs
  <2> QED
    BY <1>3, <2>1, <2>2
<1>10. \A i : <<place, i>> \in AllEvents' <=> i \in DOMAIN after.members
  BY <1>2, EventsIs
<1>11. \A i : <<place, i>> \in LateEvents' <=> i \in Late(after)
  BY <1>2, LateIs
<1>12. ASSUME NEW p, \A i : p # <<place, i>>
       PROVE  (p \in AllEvents' <=> p \in AllEvents) /\ (p \in LateEvents' <=> p \in LateEvents)
  <2>1. p \in AllEvents' <=> p \in AllEvents
    BY <1>2, <1>12, EventsIs
  <2>2. p \in LateEvents' <=> p \in LateEvents
    BY <1>2, <1>12, LateIs
  <2> QED
    BY <2>1, <2>2
<1>13. <<place, n + 1>> \notin AllEvents
  BY <1>7, <1>8
<1>14. ASSUME NEW p
       PROVE  p \in AllEvents' <=> p \in AllEvents \/ p = <<place, n + 1>>
  <2>1. CASE \A i : p # <<place, i>>
    BY <1>12, <2>1
  <2>2. CASE ~\A i : p # <<place, i>>
    <3>1. PICK i : p = <<place, i>>
      BY <2>2
    <3>2. p \in AllEvents' <=> i \in 1 .. n \/ i = n + 1
      BY <1>7, <1>10, <3>1
    <3>3. p \in AllEvents <=> i \in 1 .. n
      BY <1>8, <3>1
    <3>4. p = <<place, n + 1>> <=> i = n + 1
      BY <3>1
    <3> QED
      BY <3>2, <3>3, <3>4
  <2> QED
    BY <2>1, <2>2
<1>15. AllEvents' = AllEvents \cup {<<place, n + 1>>}
  BY <1>14
<1>16. ASSUME NEW p
       PROVE  p \in LateEvents' <=> p \in LateEvents \/ (p = <<place, n + 1>> /\ event.at < session.lastSeenAt)
  <2>1. CASE \A i : p # <<place, i>>
    BY <1>12, <2>1
  <2>2. CASE ~\A i : p # <<place, i>>
    <3>1. PICK i : p = <<place, i>>
      BY <2>2
    <3>2. p \in LateEvents' <=> i \in Late(session) \/ (i = n + 1 /\ event.at < session.lastSeenAt)
      BY <1>5, <1>11, <3>1
    <3>3. p \in LateEvents <=> i \in Late(session)
      BY <1>9, <3>1
    <3>4. p = <<place, n + 1>> <=> i = n + 1
      BY <3>1
    <3> QED
      BY <3>2, <3>3, <3>4
  <2> QED
    BY <2>1, <2>2
<1>17. LateEvents' = IF event.at < session.lastSeenAt THEN LateEvents \cup {<<place, n + 1>>} ELSE LateEvents
  <2>1. CASE event.at < session.lastSeenAt
    BY <1>16, <2>1
  <2>2. CASE ~(event.at < session.lastSeenAt)
    <3>1. \A p : p \in LateEvents' <=> p \in LateEvents
      BY <1>16, <2>2
    <3> QED
      BY <2>2, <3>1
  <2> QED
    BY <2>1, <2>2
<1> QED
  BY <1>13, <1>15, <1>17 DEF n

LEMMA CountersAre ==
    ASSUME NEW over \in BOOLEAN, NEW session, NEW after,
           stats \in [opened: Nat, closedByGap: Nat, closedByFlush: Nat, outOfOrder: Nat, truncated: Nat],
           stats' = CountedEvent(over, session, after)
    PROVE  /\ stats' \in [opened: Nat, closedByGap: Nat, closedByFlush: Nat, outOfOrder: Nat, truncated: Nat]
           /\ stats'.opened = IF session.eventCount = 0 THEN stats.opened + 1 ELSE stats.opened
           /\ stats'.closedByGap = IF over THEN stats.closedByGap + 1 ELSE stats.closedByGap
           /\ stats'.closedByFlush = stats.closedByFlush
           /\ stats'.outOfOrder = IF Last(after.members).at < session.lastSeenAt
                                  THEN stats.outOfOrder + 1 ELSE stats.outOfOrder
           /\ stats'.truncated = IF after.truncated /\ ~session.truncated
                                 THEN stats.truncated + 1 ELSE stats.truncated
<1>1. PICK a \in Nat, b \in Nat, c \in Nat, d \in Nat, f \in Nat :
         stats = [opened |-> a, closedByGap |-> b, closedByFlush |-> c, outOfOrder |-> d, truncated |-> f]
  <2>1. /\ stats.opened \in Nat /\ stats.closedByGap \in Nat /\ stats.closedByFlush \in Nat
        /\ stats.outOfOrder \in Nat /\ stats.truncated \in Nat
    OBVIOUS
  <2>2. stats = [opened |-> stats.opened, closedByGap |-> stats.closedByGap,
                 closedByFlush |-> stats.closedByFlush, outOfOrder |-> stats.outOfOrder,
                 truncated |-> stats.truncated]
    OBVIOUS
  <2> QED
    BY <2>1, <2>2
<1>2. stats' = [opened |-> IF session.eventCount = 0 THEN a + 1 ELSE a,
                closedByGap |-> IF over THEN b + 1 ELSE b,
                closedByFlush |-> c,
                outOfOrder |-> IF Last(after.members).at < session.lastSeenAt THEN d + 1 ELSE d,
                truncated |-> IF after.truncated /\ ~session.truncated THEN f + 1 ELSE f]
  BY <1>1 DEF CountedEvent
<1> QED
  BY <1>1, <1>2

LEMMA CountsAdd ==
    ASSUME SessionsInv, SessionsInv', ToldInv, ToldInv', CountsInv,
           NEW e \in Entity, NEW event \in Event, AddEvent(e, event)
    PROVE  CountsInv'
<1> DEFINE over == visits[e] # Nothing /\ Ends(visits[e], event.at)
<1>1. PICK place : \E session \in Session : AddsTo(place, session, e, event)
  BY VisitsAdd
<1>2. PICK session \in Session : AddsTo(place, session, e, event)
  BY <1>1
<1>3. PICK after : after = Appended(session, event)
  OBVIOUS
<1>4. /\ AllVisits' = AllVisits \cup {place} /\ VisitAt(place)' = after
      /\ \A v \in AllVisits \ {place} : VisitAt(v)' = VisitAt(v)
      /\ stats' = CountedEvent(over, session, after) /\ visits'[e] = after
  BY <1>2, <1>3 DEF AddsTo
<1>5. IF visits[e] = Nothing \/ over THEN place \notin AllVisits
      ELSE place \in AllVisits /\ VisitAt(place) = session
  BY <1>2 DEF AddsTo
<1>6. /\ after \in Session /\ after.members = Append(session.members, event)
      /\ session.members \in Seq(Event) /\ after # Nothing
  <2>1. after \in Session /\ after.members = Append(session.members, event)
    BY <1>3, AppendedIs
  <2>2. after # Nothing
    BY <2>1, NothingIsNoSession
  <2> QED
    BY <2>1, <2>2 DEF Session
<1>7. PICK spot : spot = <<place, Len(session.members) + 1>>
  OBVIOUS
<1>8. /\ spot \notin AllEvents /\ AllEvents' = AllEvents \cup {spot}
      /\ LateEvents' = IF event.at < session.lastSeenAt THEN LateEvents \cup {spot} ELSE LateEvents
  BY <1>2, <1>7, EventsAdd
<1>9. /\ Told(session) /\ (session.members = <<>> => ~session.truncated)
      /\ session.members = <<>> <=> visits[e] = Nothing \/ over
  BY <1>2, FoldedInto
<1>10. session.eventCount = 0 <=> visits[e] = Nothing \/ over
  <2>1. session.eventCount = 0 <=> session.members = <<>>
    BY <1>6, <1>9 DEF Told
  <2> QED
    BY <1>9, <2>1
<1>11. Last(after.members) = event
  BY <1>6 DEF Last
<1>12. /\ visits \in [Entity -> Session \cup {Nothing}] /\ DOMAIN visits' = Entity
       /\ \A d \in Entity \ {e} : visits'[d] = visits[d]
  <2>1. visits \in [Entity -> Session \cup {Nothing}] /\ visits' \in [Entity -> Session \cup {Nothing}]
    BY DEF SessionsInv
  <2>2. \A d \in Entity \ {e} : visits'[d] = visits[d]
    BY <2>1 DEF AddEvent
  <2> QED
    BY <2>1, <2>2
<1>13. Live' = Live \cup {e} /\ (e \in Live <=> visits[e] # Nothing)
  <2>1. \A d : d \in Live' <=> d \in Live \/ d = e
    BY <1>4, <1>6, <1>12 DEF Live
  <2> QED
    BY <2>1 DEF Live
<1>14. /\ IsFiniteSet(AllVisits) /\ IsFiniteSet(AllEvents) /\ IsFiniteSet(Live) /\ fed \in Nat
       /\ stats \in [opened: Nat, closedByGap: Nat, closedByFlush: Nat, outOfOrder: Nat, truncated: Nat]
       /\ EveryEventOnce
  BY DEF CountsInv
<1>15. /\ stats' \in [opened: Nat, closedByGap: Nat, closedByFlush: Nat, outOfOrder: Nat, truncated: Nat]
       /\ stats'.opened = IF visits[e] = Nothing \/ over THEN stats.opened + 1 ELSE stats.opened
       /\ stats'.closedByGap = IF over THEN stats.closedByGap + 1 ELSE stats.closedByGap
       /\ stats'.closedByFlush = stats.closedByFlush
       /\ stats'.outOfOrder = IF event.at < session.lastSeenAt
                              THEN stats.outOfOrder + 1 ELSE stats.outOfOrder
       /\ stats'.truncated = IF after.truncated /\ ~session.truncated
                             THEN stats.truncated + 1 ELSE stats.truncated
  <2>1. over \in BOOLEAN
    OBVIOUS
  <2> HIDE DEF over
  <2> QED
    BY <1>4, <1>10, <1>11, <1>14, <2>1, CountersAre
<1>16. fed' = fed + 1
  BY DEF AddEvent
<1> HIDE DEF over
<1>17. /\ IsFiniteSet(AllVisits') /\ IsFiniteSet(AllEvents') /\ IsFiniteSet(Live')
       /\ Cardinality(AllVisits') = IF visits[e] = Nothing \/ over THEN Cardinality(AllVisits) + 1
                                    ELSE Cardinality(AllVisits)
       /\ Cardinality(AllEvents') = Cardinality(AllEvents) + 1
       /\ Cardinality(Live') = IF visits[e] = Nothing THEN Cardinality(Live) + 1 ELSE Cardinality(Live)
  <2>1. IsFiniteSet(AllVisits') /\ Cardinality(AllVisits') = IF place \in AllVisits THEN Cardinality(AllVisits)
                                                            ELSE Cardinality(AllVisits) + 1
    BY <1>4, <1>14, OneMore
  <2>2. place \in AllVisits <=> ~(visits[e] = Nothing \/ over)
    BY <1>5
  <2>3. IsFiniteSet(AllEvents') /\ Cardinality(AllEvents') = Cardinality(AllEvents) + 1
    BY <1>8, <1>14, OneMore
  <2>4. IsFiniteSet(Live') /\ Cardinality(Live') = IF e \in Live THEN Cardinality(Live) ELSE Cardinality(Live) + 1
    BY <1>13, <1>14, OneMore
  <2> QED
    BY <1>13, <2>1, <2>2, <2>3, <2>4
<1>18. Cardinality(LateEvents') = IF event.at < session.lastSeenAt THEN Cardinality(LateEvents) + 1
                                  ELSE Cardinality(LateEvents)
  <2>1. LateEvents \subseteq AllEvents
    BY LateEventsAre
  <2>2. IsFiniteSet(LateEvents) /\ spot \notin LateEvents
    BY <1>8, <1>14, <2>1, PartOf
  <2>3. Cardinality(LateEvents \cup {spot}) = Cardinality(LateEvents) + 1
    BY <2>2, OneMore
  <2> QED
    BY <1>8, <2>3
<1>19. Cardinality({v \in AllVisits : VisitAt(v).truncated}') =
         IF after.truncated /\ ~session.truncated THEN Cardinality({v \in AllVisits : VisitAt(v).truncated}) + 1
         ELSE Cardinality({v \in AllVisits : VisitAt(v).truncated})
  <2> DEFINE cutOff == {v \in AllVisits : VisitAt(v).truncated}
  <2>1. \A v : v \in cutOff' <=> (v \in AllVisits /\ v # place /\ VisitAt(v).truncated)
                                   \/ (v = place /\ after.truncated)
    BY <1>4
  <2>2. session.truncated => after.truncated
    BY <1>3, AppendedHas
  <2>3. place \in cutOff <=> session.truncated
    BY <1>5, <1>9
  <2>4. \A v : v \in cutOff' <=> v \in cutOff \/ (v = place /\ after.truncated)
    BY <2>1, <2>2, <2>3
  <2>5. IsFiniteSet(cutOff)
    BY <1>14, PartOf
  <2> HIDE DEF cutOff
  <2>6. CASE after.truncated
    <3>1. cutOff' = cutOff \cup {place}
      BY <2>4, <2>6
    <3>2. Cardinality(cutOff') = IF place \in cutOff THEN Cardinality(cutOff) ELSE Cardinality(cutOff) + 1
      BY <2>5, <3>1, OneMore
    <3> QED
      BY <2>3, <2>6, <3>2 DEF cutOff
  <2>7. CASE ~after.truncated
    <3>1. cutOff' = cutOff
      BY <2>4, <2>7
    <3> QED
      BY <2>7, <3>1 DEF cutOff
  <2> QED
    BY <2>6, <2>7
<1>20. /\ Cardinality(AllVisits) \in Nat /\ Cardinality(Live) \in Nat /\ Cardinality(AllVisits') \in Nat
       /\ Cardinality(Live') \in Nat
  BY <1>14, <1>17, CountIs
<1>21. EveryEventOnce'
  <2>1. Cardinality(AllEvents') = fed'
    BY <1>14, <1>16, <1>17 DEF EveryEventOnce
  <2>2. \A v \in AllVisits' : VisitAt(v)'.eventCount = Len(VisitAt(v)'.members)
    BY DEF ToldInv, Told
  <2>3. stats'.opened = Cardinality(AllVisits')
    BY <1>14, <1>15, <1>17 DEF EveryEventOnce
  <2>4. stats'.closedByGap + stats'.closedByFlush = Cardinality(AllVisits') - Cardinality(Live')
    <3>1. stats.closedByGap + stats.closedByFlush = Cardinality(AllVisits) - Cardinality(Live)
      BY <1>14 DEF EveryEventOnce
    <3>2. stats.closedByGap \in Nat /\ stats.closedByFlush \in Nat
      BY <1>14
    <3>3. over => visits[e] # Nothing
      BY DEF over
    <3> QED
      BY <1>15, <1>17, <1>20, <3>1, <3>2, <3>3
  <2>5. stats'.outOfOrder = Cardinality(LateEvents')
    BY <1>14, <1>15, <1>18 DEF EveryEventOnce
  <2>6. stats'.truncated = Cardinality({v \in AllVisits : VisitAt(v).truncated}')
    BY <1>14, <1>15, <1>19 DEF EveryEventOnce
  <2> QED
    BY <2>1, <2>2, <2>3, <2>4, <2>5, <2>6 DEF EveryEventOnce
<1> QED
  BY <1>14, <1>15, <1>16, <1>17, <1>21 DEF CountsInv

\* The visits that are handed out are counted as they leave.
LEMMA CountsHandOut ==
    ASSUME SessionsInv, CountsInv, NEW entities \in SUBSET Live, HandOut(entities),
           \/ stats' = [stats EXCEPT !.closedByGap = @ + Cardinality(entities)]
           \/ stats' = [stats EXCEPT !.closedByFlush = @ + Cardinality(entities)]
    PROVE  CountsInv'
<1>1. AllVisits' = AllVisits /\ \A v \in AllVisits : VisitAt(v)' = VisitAt(v)
  BY VisitsHandedOut
<1>2. /\ AllEvents' = AllEvents /\ LateEvents' = LateEvents
      /\ {v \in AllVisits : VisitAt(v).truncated}' = {v \in AllVisits : VisitAt(v).truncated}
  BY <1>1, PlacesStay
<1>3. fed' = fed
  BY DEF HandOut
<1>4. Live' = Live \ entities
  <2>1. \A d : d \in Live' <=> d \in Entity /\ d \notin entities /\ visits[d] # Nothing
    BY DEF HandOut, Live
  <2> QED
    BY <2>1 DEF Live
<1>5. /\ IsFiniteSet(AllVisits) /\ IsFiniteSet(AllEvents) /\ IsFiniteSet(Live) /\ fed \in Nat
      /\ stats \in [opened: Nat, closedByGap: Nat, closedByFlush: Nat, outOfOrder: Nat, truncated: Nat]
      /\ EveryEventOnce
  BY DEF CountsInv
<1>6. PICK n : n = Cardinality(entities)
  OBVIOUS
<1>7. IsFiniteSet(Live') /\ Cardinality(Live') = Cardinality(Live) - n
  BY <1>4, <1>5, <1>6, PartOf
<1>8. n \in Nat /\ Cardinality(Live) \in Nat /\ Cardinality(AllVisits) \in Nat
  <2>1. IsFiniteSet(entities)
    BY <1>5, PartOf
  <2> QED
    BY <1>5, <1>6, <2>1, CountIs
<1>9. /\ stats' \in [opened: Nat, closedByGap: Nat, closedByFlush: Nat, outOfOrder: Nat, truncated: Nat]
      /\ stats'.opened = stats.opened /\ stats'.outOfOrder = stats.outOfOrder
      /\ stats'.truncated = stats.truncated
      /\ stats'.closedByGap + stats'.closedByFlush = stats.closedByGap + stats.closedByFlush + n
  BY <1>5, <1>6, <1>8
<1>10. EveryEventOnce'
  <2>1. Cardinality(AllEvents') = fed'
    BY <1>2, <1>3, <1>5 DEF EveryEventOnce
  <2>2. \A v \in AllVisits' : VisitAt(v)'.eventCount = Len(VisitAt(v)'.members)
    BY <1>1, <1>5 DEF EveryEventOnce
  <2>3. stats'.opened = Cardinality(AllVisits')
    BY <1>1, <1>5, <1>9 DEF EveryEventOnce
  <2>4. stats'.closedByGap + stats'.closedByFlush = Cardinality(AllVisits') - Cardinality(Live')
    <3>1. stats.closedByGap + stats.closedByFlush = Cardinality(AllVisits) - Cardinality(Live)
      BY <1>5 DEF EveryEventOnce
    <3> QED
      BY <1>1, <1>7, <1>8, <1>9, <3>1
  <2>5. stats'.outOfOrder = Cardinality(LateEvents')
    BY <1>2, <1>5, <1>9 DEF EveryEventOnce
  <2>6. stats'.truncated = Cardinality({v \in AllVisits : VisitAt(v).truncated}')
    BY <1>2, <1>5, <1>9 DEF EveryEventOnce
  <2> QED
    BY <2>1, <2>2, <2>3, <2>4, <2>5, <2>6 DEF EveryEventOnce
<1> QED
  BY <1>1, <1>2, <1>3, <1>5, <1>7, <1>9, <1>10 DEF CountsInv

LEMMA CountsNext ==
    ASSUME SessionsInv, SessionsInv', ToldInv, ToldInv', CountsInv, [VisitsNext]_visitVars
    PROVE  CountsInv'
<1>1. ASSUME NEW e \in Entity, NEW at \in (clock - Lateness)..(clock + MaxJump),
             NEW path \in VisitPath \cup {Nothing}, NEW code \in Code \cup {Nothing},
             AddEvent(e, [at |-> at, path |-> path, code |-> code])
      PROVE  CountsInv'
  <2>1. [at |-> at, path |-> path, code |-> code] \in Event
    BY DEF Event
  <2> QED
    BY <1>1, <2>1, CountsAdd
<1>2. ASSUME Expire
      PROVE  CountsInv'
  <2>1. /\ HandOut(Due) /\ Due \in SUBSET Live
        /\ stats' = [stats EXCEPT !.closedByGap = @ + Cardinality(Due)]
    BY <1>2 DEF Expire, Due
  <2> QED
    BY <2>1, CountsHandOut
<1>3. ASSUME FlushVisits
      PROVE  CountsInv'
  <2>1. HandOut(Live) /\ stats' = [stats EXCEPT !.closedByFlush = @ + Cardinality(Live)]
    BY <1>3 DEF FlushVisits
  <2> QED
    BY <2>1, CountsHandOut
<1>4. ASSUME UNCHANGED visitVars
      PROVE  CountsInv'
  <2>1. AllVisits' = AllVisits /\ \A v \in AllVisits : VisitAt(v)' = VisitAt(v)
    BY <1>4, VisitsStay DEF visitVars
  <2>2. /\ AllEvents' = AllEvents /\ LateEvents' = LateEvents
        /\ {v \in AllVisits : VisitAt(v).truncated}' = {v \in AllVisits : VisitAt(v).truncated}
    BY <2>1, PlacesStay
  <2>3. Live' = Live /\ fed' = fed /\ stats' = stats
    BY <1>4 DEF visitVars, Live
  <2> QED
    BY <2>1, <2>2, <2>3 DEF CountsInv, EveryEventOnce
<1> QED
  BY <1>1, <1>2, <1>3, <1>4 DEF VisitsNext

\* At first there is no visit.
LEMMA CountsInit ==
    ASSUME VisitsInit
    PROVE  ToldInv /\ CountsInv
<1>1. /\ \A e \in Entity : visits[e] = Nothing /\ closed[e] = <<>>
      /\ stats = [opened |-> 0, closedByGap |-> 0, closedByFlush |-> 0, outOfOrder |-> 0, truncated |-> 0]
      /\ fed = 0
  BY DEF VisitsInit
<1>2. \A e \in Entity : Visits(e) = <<>>
  BY <1>1 DEF Visits
<1>3. AllVisits = {}
  BY <1>2, PlacesIs
<1>4. AllEvents = {} /\ LateEvents = {} /\ {v \in AllVisits : VisitAt(v).truncated} = {}
  BY <1>3, EventsIs, LateIs
<1>5. Live = {}
  BY <1>1 DEF Live
<1>6. EveryEventOnce
  BY <1>1, <1>3, <1>4, <1>5, NoPlacesCounted DEF EveryEventOnce
<1>7. ToldInv
  BY <1>3 DEF ToldInv
<1>8. CountsInv
  BY <1>1, <1>3, <1>4, <1>5, <1>6, NoPlacesCounted DEF CountsInv
<1> QED
  BY <1>7, <1>8

\* No event is lost or counted twice: each is in one visit of those handed out or open,
\* and the counters speak of them (sessionize.py:74-92, 142-170).
THEOREM EventsAreKeptOnce == VisitsSpec => []EveryEventOnce
<1>1. VisitsInit => SessionsInv /\ ToldInv /\ CountsInv
  BY SessionsInit, CountsInit
<1>2. SessionsInv /\ ToldInv /\ CountsInv /\ [VisitsNext]_visitVars => SessionsInv' /\ ToldInv' /\ CountsInv'
  BY SessionsNext, ToldNext, CountsNext
<1>3. CountsInv => EveryEventOnce
  BY DEF CountsInv
<1> QED
  BY <1>1, <1>2, <1>3, PTL DEF VisitsSpec

\* The sequences of a visit are those of its events, in order, from their beginning, and
\* a visit says when one of them was cut (sessionize.py:104-140, contracts.py:309-314).
THEOREM ShorteningIsAlwaysSaid == VisitsSpec => []ShorteningIsSaid
<1>1. VisitsInit => SessionsInv /\ ToldInv
  BY SessionsInit, CountsInit
<1>2. SessionsInv /\ ToldInv /\ [VisitsNext]_visitVars => SessionsInv' /\ ToldInv'
  BY SessionsNext, ToldNext
<1>3. ToldInv => ShorteningIsSaid
  <2> SUFFICES ASSUME ToldInv, NEW e \in Entity, NEW v \in Range(Visits(e))
               PROVE  Told(v)
    BY DEF ShorteningIsSaid, Told
  <2>1. PICK i \in DOMAIN Visits(e) : v = Visits(e)[i]
    BY DEF Range
  <2>2. <<e, i>> \in AllVisits /\ VisitAt(<<e, i>>) = v
    BY <2>1, PlacesIs DEF VisitAt
  <2> QED
    BY <2>2 DEF ToldInv
<1> QED
  BY <1>1, <1>2, <1>3, PTL DEF VisitsSpec

\* The state is of its types (sessionize.py:63-72).
THEOREM VisitsAreTyped == VisitsSpec => []VisitsTypeOK
<1> DEFINE Bounded == fed \in 0 .. MaxFed /\ ended \in BOOLEAN
<1>1. VisitsInit => SessionsInv /\ ToldInv /\ CountsInv /\ Bounded
  <2>1. VisitsInit => Bounded
    <3>1. 0 \in 0 .. MaxFed /\ FALSE \in BOOLEAN
      BY SessionsAssumption
    <3>2. VisitsInit => fed = 0 /\ ended = FALSE
      BY DEF VisitsInit
    <3> QED
      BY <3>1, <3>2
  <2> QED
    BY <2>1, SessionsInit, CountsInit
<1>2. SessionsInv /\ ToldInv /\ CountsInv /\ Bounded /\ [VisitsNext]_visitVars
        => SessionsInv' /\ ToldInv' /\ CountsInv' /\ Bounded'
  <2>1. Bounded /\ [VisitsNext]_visitVars => Bounded'
    <3> SUFFICES ASSUME Bounded, [VisitsNext]_visitVars
                 PROVE  Bounded'
      OBVIOUS
    <3>1. MaxFed \in Nat
      BY SessionsAssumption
    <3>2. CASE fed' = fed /\ (ended' = ended \/ ended' = TRUE)
      BY <3>2
    <3>3. CASE fed' = fed + 1 /\ fed < MaxFed /\ ended' = ended
      BY <3>1, <3>3
    <3>5. ASSUME NEW e \in Entity, NEW at \in (clock - Lateness)..(clock + MaxJump),
                 NEW path \in VisitPath \cup {Nothing}, NEW code \in Code \cup {Nothing},
                 AddEvent(e, [at |-> at, path |-> path, code |-> code])
          PROVE  fed' = fed + 1 /\ fed < MaxFed /\ ended' = ended
      BY <3>5 DEF AddEvent
    <3>6. Expire \/ FlushVisits => fed' = fed /\ (ended' = ended \/ ended' = TRUE)
      BY DEF Expire, FlushVisits, HandOut
    <3>7. UNCHANGED visitVars => fed' = fed /\ ended' = ended
      BY DEF visitVars
    <3> QED
      BY <3>2, <3>3, <3>5, <3>6, <3>7 DEF VisitsNext
  <2> QED
    BY <2>1, SessionsNext, ToldNext, CountsNext
<1>3. SessionsInv /\ CountsInv /\ Bounded => VisitsTypeOK
  <2> SUFFICES ASSUME SessionsInv, CountsInv, Bounded
               PROVE  VisitsTypeOK
    OBVIOUS
  <2>1. /\ visits \in [Entity -> Session \cup {Nothing}] /\ closed \in [Entity -> Seq(Session)] /\ clock \in Int
        /\ stats \in [opened: Nat, closedByGap: Nat, closedByFlush: Nat, outOfOrder: Nat, truncated: Nat]
    BY DEF SessionsInv, CountsInv
  <2>2. \A e \in Entity : \A i \in DOMAIN closed[e] : closed[e][i] \in Session
    BY <2>1
  <2>3. \A counter \in DOMAIN stats : stats[counter] \in Nat
    BY <2>1
  <2> QED
    BY <2>1, <2>2, <2>3 DEF VisitsTypeOK
<1> QED
  BY <1>1, <1>2, <1>3, PTL DEF VisitsSpec
=============================================================================
