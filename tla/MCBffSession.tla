---------------------------- MODULE MCBffSession ----------------------------
(***************************************************************************)
(* Instances of BffSession for TLC.                                        *)
(***************************************************************************)
EXTENDS BffSession, TLC

CONSTANTS r1, r2, b1, b2

NoLegacy == {}

SlotRests == {NoRest} \cup SlotVectors

\* One browser with one or two requests under way, or two browsers.
OneBrowser == [r \in Requests |-> b1]
TwoBrowsers == (r1 :> b1) @@ (r2 :> b2)

Symmetry == Permutations(Keys) \cup Permutations(Tokens)
=============================================================================
