--------------------------- MODULE MCJobPipeline ---------------------------
(***************************************************************************)
(* JobPipeline on small instances. Jobs and slots are interchangeable, so  *)
(* runs without liveness may identify states that differ only in names.    *)
(***************************************************************************)
EXTENDS JobPipeline, TLC

Symmetry == Permutations(Slots) \cup Permutations(Jobs)

\* The faults named, and no others.
Only(times) == [f \in Faults |-> IF f \in DOMAIN times THEN times[f] ELSE 0]

\* One of each, short of a lost lock and a requeue; one lost lock and a requeue.
Mixed     == Only([redis |-> 1, refund |-> 1, settle |-> 1, crash |-> 1, age |-> 1])
Zombie    == Only([lock |-> 1, requeue |-> 1])
Everyone  == {Mixed, Zombie}

\* What the outbox, the redelivery and the refund sweeper are there for.
Recoverable == {Only([redis |-> 1, crash |-> 1]), Only([refund |-> 1])}

\* What they do not survive.
TwoRefunds  == {Only([refund |-> 2])}
OneRequeue  == {Only([requeue |-> 1])}
TwoCrashes  == {Only([crash |-> 2])}
LongOutage  == {Only([redis |-> 1, age |-> 1])}
=============================================================================
