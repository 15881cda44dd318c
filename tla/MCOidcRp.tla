------------------------------ MODULE MCOidcRp ------------------------------
(* OidcRp for TLC: one, two or three handlers. *)
EXTENDS OidcRp, TLC

CONSTANTS c1, c2, c3

OneCaller == {c1}
TwoCallers == {c1, c2}
ThreeCallers == {c1, c2, c3}

\* Handlers are alike (not used by the liveness run).
Symmetry == Permutations(Callers)
=============================================================================
