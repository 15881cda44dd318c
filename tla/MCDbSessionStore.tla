--------------------------- MODULE MCDbSessionStore ---------------------------
(***************************************************************************)
(* Instances of DbSessionStore for TLC.                                    *)
(***************************************************************************)
EXTENDS DbSessionStore, TLC

NoLegacy == {}

\* A row of a crate version that did not write "__bff_login_at" yet (its tokens
\* play no part: every path treats it as dead).
WithLegacy ==
  {[state |-> [EmptyState EXCEPT !.sub = CHOOSE u \in Subjects : TRUE], expiresAt |-> 1]}

Symmetry == Permutations(Requests) \cup Permutations(Keys) \cup Permutations(Tokens)
=============================================================================
