------------------------------ MODULE CatchAll ------------------------------
(***************************************************************************)
(* How the window builder tells a file from a page that answers any        *)
(* request (features/window_features.py): the sizes each site answers      *)
(* with, the last answers of each directory, and the rule for pages that   *)
(* repeat the requested path.  Pure operators; Evidence keeps the state.   *)
(*                                                                         *)
(* An answer is a successful one with a body.  Left out: the limits on     *)
(* the number of sites and directories that are remembered.                *)
(***************************************************************************)
EXTENDS Integers, Sequences, FiniteSets, SequencesExt

CONSTANTS
    Site,
    Length,       \* path |-> its number of characters
    Parent,       \* path |-> its directory
    MaxSiteSizes, \* _MAX_SITE_SIZES
    DirAnswers,   \* _DIR_ANSWERS
    MaxEchoes     \* _MAX_ECHOES

ASSUME CatchAllAssumption ==
    /\ DOMAIN Length = DOMAIN Parent
    /\ \A path \in DOMAIN Length : Length[path] \in Nat
    /\ {MaxSiteSizes, DirAnswers, MaxEchoes} \subseteq Nat \ {0}

Path == DOMAIN Length

Sized == [path: Path, size: Nat]

-----------------------------------------------------------------------------
\* Mutant of KeepPaths: two paths of a size are kept.
KeepTwo(paths, path) == IF Cardinality(paths) < 2 THEN paths \cup {path} ELSE paths

\* A size is known for three paths at most.
KeepPaths(paths, path) == IF Cardinality(paths) < 3 THEN paths \cup {path} ELSE paths

\* The sizes of a site, in the order they were first met: the oldest makes room.
RememberSize(sizes, path, size) ==
    IF \E i \in DOMAIN sizes : sizes[i].size = size
    THEN [i \in DOMAIN sizes |-> IF sizes[i].size = size
                                 THEN [sizes[i] EXCEPT !.paths = KeepPaths(@, path)]
                                 ELSE sizes[i]]
    ELSE Append(IF Len(sizes) >= MaxSiteSizes THEN Tail(sizes) ELSE sizes,
                [size |-> size, paths |-> {path}])

PathsOf(sizes, size) == UNION {s.paths : s \in {t \in ToSet(sizes) : t.size = size}}

\* _remember_dir: the last answer of each path, the most recent one last.  A path has at
\* most one.
RememberAnswer(answers, path, size) ==
    LET known == {i \in DOMAIN answers : answers[i].path = path}
        others == IF known = {} THEN answers ELSE RemoveAt(answers, CHOOSE i \in known : TRUE)
        kept == Append(others, [path |-> path, size |-> size])
    IN  IF Len(kept) > DirAnswers THEN Tail(kept) ELSE kept

-----------------------------------------------------------------------------
Distance(m, n) == IF m > n THEN m - n ELSE n - m

\* round(ds / dl) = c, where a tie goes to the even number.
RoundsTo(ds, dl, c) ==
    LET rest == 2 * Distance(ds, c * dl)
        unit == Distance(dl, 0)
    IN  rest < unit \/ (rest = unit /\ c % 2 = 0)

\* The other answer is of the same page, if the page prints its path c times.
SamePage(path, size, other, c) ==
    LET dl == Length[path] - Length[other.path]
        ds == size - other.size
    IN  /\ other.path # path
        /\ IF dl = 0 THEN ds = 0 ELSE RoundsTo(ds, dl, c) /\ Distance(ds, c * dl) <= 1

\* _echoed_page.
Echoed(path, size, siblings) ==
    \E c \in 1 .. MaxEchoes :
        Cardinality({other \in siblings : SamePage(path, size, other, c)}) >= 2

\* {**seen, **now}
Merged(seen, now) == now \cup {r \in seen : \A s \in now : s.path # r.path}
=============================================================================
