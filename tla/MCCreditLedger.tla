-------------------------- MODULE MCCreditLedger --------------------------
(***************************************************************************)
(* CreditLedger on a small instance: a song, a video that bills two units, *)
(* an analysis that no provider job stands behind, and an own-engine       *)
(* render charged at multiplier 0.                                         *)
(***************************************************************************)
EXTENDS CreditLedger

MCKeys  == {"song", "video", "analysis", "own"}
MCMedia == {"song", "video", "own"}
MCFree  == {"own"}
MCCost  == [song |-> 2, video |-> 3, analysis |-> 1, own |-> 1]
MCUnits == [song |-> 1, video |-> 2, analysis |-> 1, own |-> 1]

\* The deployments of a run.
HouseOnly    == {{"enforced", "firstParty"}}
AnyBeginning == SUBSET Switches
=============================================================================
