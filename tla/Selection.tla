------------------------------ MODULE Selection ------------------------------
(***************************************************************************)
(* Vec::retain and Iterator::filter: the elements of a sequence that are   *)
(* to be kept, in their order.  SelectSeq says the same, by a predicate.   *)
(***************************************************************************)
EXTENDS Integers, Sequences

Retain(v, kept) ==
  LET upTo[n \in 0..Len(v)] ==
        IF n = 0 THEN << >>
        ELSE IF v[n] \in kept THEN Append(upTo[n - 1], v[n])
        ELSE upTo[n - 1]
  IN  upTo[Len(v)]
=============================================================================
