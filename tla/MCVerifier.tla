----------------------------- MODULE MCVerifier -----------------------------
(* Instances of Verifier for TLC.                                           *)
EXTENDS Verifier, TLC

CONSTANTS a1, a2, k1, k2, r1

Alerts == {a1, a2}
Keys == {k1, k2}
Exposed == (a1 :> <<k1>>) @@ (a2 :> <<k1, k2>>)
Kinds == (k1 :> "secrets") @@ (k2 :> "debug")

\* A private key and a page of the site that shows one; no answer, one that breaks the
\* check, and a refusal.
Silence == [status |-> "none", page |-> FALSE, empty |-> TRUE, typed |-> FALSE, marks |-> {}]
Garbage == [Silence EXCEPT !.status = "broken"]
Refusal == [Silence EXCEPT !.status = "error"]
KeyFile == [status |-> "ok", page |-> FALSE, empty |-> FALSE, typed |-> FALSE,
            marks |-> {"private key"}]
Page == [KeyFile EXCEPT !.page = TRUE, !.typed = TRUE]
SomeSites == {[https |-> Silence, http |-> Page], [https |-> Garbage, http |-> KeyFile]}
SplitSites == {[https |-> Refusal, http |-> KeyFile]}
=============================================================================
