-------------------------- MODULE MCJobAdmission --------------------------
(***************************************************************************)
(* JobAdmission on a small instance: a client that repeats its request for *)
(* a song and one that asks once for a video, with credits for one only.   *)
(***************************************************************************)
EXTENDS JobAdmission

MCKeys  == {"song", "video"}
MCCost  == [song |-> 2, video |-> 3]
MCUnits == [song |-> 1, video |-> 2]
MCKeyOf == [first |-> "song", again |-> "song", other |-> "video"]

Paying == {{"enforced"}}
=============================================================================
