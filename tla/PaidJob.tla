------------------------------ MODULE PaidJob ------------------------------
(***************************************************************************)
(* What a customer is promised about a paid job, with no queue, no outbox  *)
(* and no worker in sight: the job is charged for once, and is then either *)
(* delivered or refunded, never both, and neither outcome is taken back,   *)
(* until an operator, or a queue that hands it out twice, voids it.        *)
(* (README.md, "Truth Gates"; apps/worker/src/lib/jobs.ts, markFailed.)    *)
(***************************************************************************)
CONSTANT Jobs

VARIABLE phase   \* what has become of each job so far

Phases  == {"none", "charged", "delivered", "refunded", "void"}
Settled == {"delivered", "refunded"}

Init == phase = [j \in Jobs |-> "none"]

Becomes(j, from, to) ==
    /\ phase[j] = from
    /\ phase' = [phase EXCEPT ![j] = to]

Next == \E j \in Jobs : \/ Becomes(j, "none", "charged")
                        \/ Becomes(j, "charged", "delivered")
                        \/ Becomes(j, "charged", "refunded")
                        \/ \E p \in Phases : Becomes(j, p, "void")

Spec == Init /\ [][Next]_phase

(***************************************************************************)
(* The liveness half of the promise: no paid job stays open for ever.      *)
(***************************************************************************)
EveryChargeSettles ==
    \A j \in Jobs : phase[j] = "charged" ~> phase[j] \in Settled
=============================================================================
