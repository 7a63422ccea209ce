----------------------------- MODULE MCReleases -----------------------------
(***************************************************************************)
(* Releases with two requests at a time, as often as they like.            *)
(***************************************************************************)
EXTENDS Releases, TLC

Symmetry == Permutations(Slots)
=============================================================================
