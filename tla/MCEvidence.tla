----------------------------- MODULE MCEvidence -----------------------------
(* Instances of Evidence for TLC.                                           *)
EXTENDS Evidence, TLC

CONSTANTS x, y, u, v, s1, s2

\* Two copies of a secrets file, a probe and a page beside them, in one directory.
Lengths == "env" :> 4 @@ "copy" :> 8 @@ "probe" :> 3 @@ "page" :> 2
Parents == [path \in DOMAIN Lengths |-> "dir"]
SegmentsOf == "env" :> <<"x", ".env">> @@ "copy" :> <<"x", "config.php.bak">>
              @@ "probe" :> <<"x", "x">> @@ "page" :> <<"x", "x", "x">>

\* Names for which two rules compete, and plain ones.
TestsOf ==
    ".env" :> {"env"} @@ ".git" :> {"vcs_dir"} @@ ".aws" :> {"secret_dir"} @@ ".idea" :> {"metadata_dir"}
    @@ "config.php.bak" :> {"script_copy", "config_stem", "backup"}
    @@ ".well-known" :> {"published"} @@ "x" :> {}
Debug == {<<"x", ".idea">>}
Below == {<<".idea", "x">>}

Given(site, path, size) == [site |-> site, path |-> path, size |-> size]
Answers == {Given(s1, "env", 7), Given(s1, "copy", 7), Given(s1, "probe", 7), Given(s1, "page", 7),
            Given(s1, "probe", 6), Given(s1, "page", 5), Given(s2, "env", 7)}

\* Addresses and user-agents are only compared for equality.
Symmetric == Permutations({x, y}) \cup Permutations({u, v})
=============================================================================
