---------------------------- MODULE MCDashboard ----------------------------
(* An instance of Dashboard for TLC.                                        *)
EXTENDS Dashboard, TLC

CONSTANTS w1, w2, i, j, a, b

Symmetric == Permutations({w1, w2})

Catching(canary, onI, onJ) == [canary |-> canary, catches |-> i :> onI @@ j :> onJ]

Nothings == Catching(TRUE, {}, {})
Qualities ==
    {Nothings, Catching(TRUE, {a}, {}), Catching(TRUE, {a, b}, {}), Catching(TRUE, {b}, {a}),
     Catching(TRUE, {}, {a}), Catching(FALSE, {a}, {a})}

Looks(view) == cache[view] # None \/ \E w \in Thread : "view" \in DOMAIN call[w] /\ call[w].view = view
Nobody == ~\E view \in View : Looks(view)

\* The sampler, and the two views with a cache entry each, share nothing but the files:
\* what happens to the files is looked at by the one that shows it.  What versions catch
\* matters to the registry alone.
Alike == registry.quality = [v \in Version |-> Blank]

OneView ==
    \/ Alike /\ registry.made > 0 /\ Nobody /\ changes = 1
    \/ /\ Alike /\ registry.made > 0
       /\ ~Looks("models") /\ changes = 1
       /\ sampler.last = None /\ runtime.ever = 0
    \/ /\ Alike /\ ~Looks("overview") /\ changes <= 3 /\ clock <= 3
       /\ happened = 0 /\ sampler.last = None /\ health = None
    \/ /\ Nobody /\ happened = 0 /\ sampler.last = None /\ health = None
       /\ clock = 0 /\ \A w \in Thread : call[w] = Idle
=============================================================================
