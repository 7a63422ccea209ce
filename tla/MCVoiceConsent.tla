--------------------------- MODULE MCVoiceConsent ---------------------------
(***************************************************************************)
(* VoiceConsent on a small instance. Calls, slots and artefacts are        *)
(* interchangeable.                                                        *)
(***************************************************************************)
EXTENDS VoiceConsent, TLC

\* One fault in two attempts, or two slots at once with the only attempt.
Everyone == {[attempts |-> 2, faults |-> 1, locks |-> 0],
             [attempts |-> 1, faults |-> 0, locks |-> 1]}

Symmetry == UNION {Permutations(S) : S \in {Makers, Revokers, Slots, Artefacts}}
=============================================================================
