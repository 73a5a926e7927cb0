------------------------------ MODULE Classify ------------------------------
(***************************************************************************)
(* Which sensitive file a path is (classify of features/exposure.py): the  *)
(* kind, and the root, which is what an exposure is known by everywhere.   *)
(* A path is its segments.  Of a segment it is only known which tests its  *)
(* name passes: Tests names the code's tables by their use.                *)
(***************************************************************************)
EXTENDS Integers, Sequences, FiniteSets, SequencesExt, FiniteSetsExt

CONSTANTS
    Tests,       \* segment |-> the tests its name passes
    DebugPaths,  \* _DEBUG_PATHS that end without a slash
    DebugDirs,   \* those that end with one
    None

\* The order of KINDS.
Kinds == {"vcs", "secrets", "dump", "backup", "source", "debug", "server_config", "metadata"}

\* Recorded in the digest only.
Quiet == {"metadata"}

Test == {"published",                     \* .well-known
         "vcs_dir", "secret_dir",         \* _VCS_DIRS, _SECRET_DIRS
         "env",                           \* .env, .env.x, x.env
         "secret",                        \* _SECRET_NAMES, _SECRET_EXTS
         "script_copy", "config_stem",    \* _script_backup, _CONFIG_STEMS
         "dump",                          \* _DUMP_EXTS but not thumbs.db
         "archive", "backup_stem",        \* _ARCHIVE_EXTS, _BACKUP_STEMS and .git.x
         "backup",                        \* bak, backup, and old and orig after another extension
         "server_config",                 \* _SERVER_CONFIG
         "debug",                         \* _DEBUG_NAMES, log
         "metadata", "metadata_dir"}      \* _METADATA_NAMES, _METADATA_DIRS

ASSUME ClassifyAssumption ==
    /\ \A segment \in DOMAIN Tests : Tests[segment] \subseteq Test
    /\ "/" \notin DOMAIN Tests /\ None \notin Kinds

-----------------------------------------------------------------------------
Passes(segment, test) == test \in Tests[segment]

\* What the last segment is called.
Named(path, test) == Passes(path[Len(path)], test)

\* The directories of a path that pass a test; the last segment is none.
Within(path, test) == {i \in 1 .. Len(path) - 1 : Passes(path[i], test)}

IsBelow(path, dir) == Len(dir) < Len(path) /\ SubSeq(path, 1, Len(dir)) = dir

\* A path that ends with a slash is not meant itself, only what is below it.
IsDebugPath(path) ==
    \/ path \in DebugPaths
    \/ \E debug \in DebugPaths \cup DebugDirs : IsBelow(path, debug)

\* The first rule that a path meets.
Kind(path) ==
    IF path = <<>> THEN None
    ELSE IF Passes(path[1], "published") THEN None
    ELSE IF Within(path, "vcs_dir") # {} THEN "vcs"
    ELSE IF \/ Within(path, "secret_dir") # {}
            \/ Named(path, "env") \/ Named(path, "secret")
            \/ Named(path, "script_copy") /\ Named(path, "config_stem") THEN "secrets"
    ELSE IF Named(path, "script_copy") THEN "source"
    ELSE IF Named(path, "dump") THEN "dump"
    ELSE IF \/ Named(path, "archive") /\ Named(path, "backup_stem")
            \/ Named(path, "backup") THEN "backup"
    ELSE IF Named(path, "server_config") THEN "server_config"
    ELSE IF Named(path, "debug") \/ IsDebugPath(path) THEN "debug"
    ELSE IF Named(path, "metadata") \/ Within(path, "metadata_dir") # {} THEN "metadata"
    ELSE None

\* Mutant of Top: of repositories in each other, the innermost.
TopInnermost(dirs) == Max(dirs)

\* The repository a file is of: the outermost.
Top(dirs) == Min(dirs)

\* A repository's root is written with a slash at its end, like no file.
Root(path) ==
    CASE Kind(path) = None  -> None
      [] Kind(path) = "vcs" -> Append(SubSeq(path, 1, Top(Within(path, "vcs_dir"))), "/")
      [] OTHER              -> path

-----------------------------------------------------------------------------
\* Both files are somewhere below one repository directory.
OfOneRepository(p, q) ==
    \E i \in Within(p, "vcs_dir") \cap Within(q, "vcs_dir") : SubSeq(p, 1, i) = SubSeq(q, 1, i)

\* Files that ought to be one exposure: the same one, or both of one repository.
SameExposure(p, q) == p = q \/ OfOneRepository(p, q)

\* The paths that are sensitive, up to a number of segments.
Sensitive(depth) == {path \in SeqOf(DOMAIN Tests, depth) : Kind(path) # None}
=============================================================================
