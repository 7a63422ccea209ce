---------------------------- MODULE JobAdmission ----------------------------
(***************************************************************************)
(* From an API request to a committed provider job: the charge             *)
(* (chargeCredits), then createQueuedProviderJob                           *)
(* (apps/api/src/lib/queued-job.ts), with several requests under the same  *)
(* idempotency key, failing transactions, crashes, and the worker's orphan *)
(* sweep reversing charges meanwhile. The account and the sweep are those  *)
(* of CreditLedger; here its charges and bindings are made by requests.    *)
(*                                                                         *)
(* The job transaction runs at READ COMMITTED: its guard is a plain read,  *)
(* so another transaction may commit between the guard and the insert.     *)
(***************************************************************************)
EXTENDS CreditLedger

CONSTANTS
    Requests,        \* API requests for queue-bound work
    KeyOf,           \* the idempotency key of each
    Faults           \* bound: failing statements and crashes

ASSUME RequestAssumption == KeyOf \in [Requests -> Keys]
ASSUME FaultAssumption   == Faults \in Nat

VARIABLES
    step,            \* where each request is
    answer,          \* what its client was told
    faults           \* faults left

vars == <<ledgerVars, step, answer, faults>>

Init ==
    /\ LedgerInit
    /\ step   = [r \in Requests |-> "charge"]
    /\ answer = [r \in Requests |-> "none"]
    /\ faults = Faults

Goto(r, s)    == step' = [step EXCEPT ![r] = s] /\ UNCHANGED answer
Respond(r, a) == step' = [step EXCEPT ![r] = "done"] /\ answer' = [answer EXCEPT ![r] = a]
Fault         == faults > 0 /\ faults' = faults - 1

AccountUnchanged == UNCHANGED <<account, bound>>
ContextUnchanged == UNCHANGED <<switches, today, aged, suspects, granted>>
-----------------------------------------------------------------------------
(***************************************************************************)
(* The steps of a request.                                                 *)
(***************************************************************************)

\* Mutant: the debit is written before the balance is looked at.
ChargeKeyFirst(r) ==
    /\ step[r] = "charge"
    /\ LET k == KeyOf[r] IN
         \/ Replays(k) /\ UNCHANGED account /\ Goto(r, "lookup")
         \/ Accepts(k) /\ Record(k) /\ Goto(r, "guard")
         \/ ~Replays(k) /\ ~Accepts(k) /\ Record(k) /\ Respond(r, "refused")
    /\ UNCHANGED <<bound, faults>> /\ ContextUnchanged

\* chargeCredits: a key with a debit is answered from it, even a reversed one.
ChargeKey(r) ==
    /\ step[r] = "charge"
    /\ LET k == KeyOf[r] IN
         \/ Replays(k) /\ UNCHANGED account /\ Goto(r, "lookup")
         \/ Accepts(k) /\ Record(k) /\ Goto(r, "guard")
         \/ ~Replays(k) /\ ~Accepts(k) /\ UNCHANGED account /\ Respond(r, "refused")
    /\ UNCHANGED <<bound, faults>> /\ ContextUnchanged

\* Mutant: a replayed charge is taken for a committed job.
LookUpTrusting(r) ==
    /\ step[r] = "lookup"
    /\ Respond(r, "job")
    /\ AccountUnchanged /\ ContextUnchanged /\ UNCHANGED faults

\* A replayed charge may have its job already.
LookUp(r) ==
    /\ step[r] = "lookup"
    /\ IF KeyOf[r] \in bound THEN Respond(r, "job") ELSE Goto(r, "guard")
    /\ AccountUnchanged /\ ContextUnchanged /\ UNCHANGED faults

\* In the job transaction: the charge must exist and not be reversed.
Guard(r) ==
    /\ step[r] = "guard"
    /\ Goto(r, IF KeyOf[r] \in reversed THEN "abort" ELSE "insert")
    /\ AccountUnchanged /\ ContextUnchanged /\ UNCHANGED faults

\* Insert and commit. The unique charge column turns a second job away (P2002),
\* and the request answers with the first.
Insert(r) ==
    /\ step[r] = "insert"
    /\ bound' = bound \cup {KeyOf[r]}
    /\ Respond(r, "job")
    /\ UNCHANGED <<account, faults>> /\ ContextUnchanged

\* The transaction fails under the request; if that was at COMMIT it may have
\* taken effect.
TransactionFails(r) ==
    /\ step[r] \in {"guard", "insert"}
    /\ Fault
    /\ \/ UNCHANGED bound
       \/ step[r] = "insert" /\ bound' = bound \cup {KeyOf[r]}
    /\ Goto(r, "abort")
    /\ UNCHANGED account /\ ContextUnchanged

\* refundCredits, whoever else uses the charge by now, and the error.
Abort(r) ==
    /\ step[r] = "abort"
    /\ Reverse(KeyOf[r], "api")
    /\ Respond(r, "error")
    /\ UNCHANGED <<bound, faults>> /\ ContextUnchanged

\* The refund itself fails, or the API process goes down.
Stop(r) ==
    /\ step[r] \notin {"charge", "done"}
    /\ Fault
    /\ Respond(r, "error")
    /\ AccountUnchanged /\ ContextUnchanged

Step(r) == ChargeKey(r) \/ LookUp(r) \/ Guard(r) \/ Insert(r) \/ Abort(r)

\* A request takes less than the 15 minutes that make a charge old.
AgeIdle(k) ==
    /\ \A r \in Requests : KeyOf[r] = k => step[r] \in {"charge", "done"}
    /\ Age(k)

Background(A) == A /\ UNCHANGED <<step, answer, faults>>

Next == \/ \E r \in Requests : Step(r) \/ TransactionFails(r) \/ Stop(r)
        \/ Background(Sweep)
        \/ Background(Environment)
        \/ \E k \in Keys : Background(AgeIdle(k))

(***************************************************************************)
(* A request that is up goes on, time passes, and the sweep's timer fires  *)
(* again and again in every worker.                                        *)
(***************************************************************************)
Fairness == /\ \A r \in Requests : WF_vars(Step(r))
            /\ \A k \in Keys : WF_vars(Background(AgeIdle(k)))
            /\ WF_vars(Background(Sweep))

SafeSpec == Init /\ [][Next]_vars
Spec     == SafeSpec /\ Fairness
-----------------------------------------------------------------------------
(***************************************************************************)
(* Properties.                                                             *)
(***************************************************************************)

AdmissionTypeOK ==
    /\ LedgerTypeOK
    /\ step   \in [Requests -> {"charge", "lookup", "guard", "insert", "abort", "done"}]
    /\ answer \in [Requests -> {"none", "job", "refused", "error"}]
    /\ faults \in Nat

(***************************************************************************)
(* A client is told of a job only when one is committed, on its key's      *)
(* charge, also when the answer comes from a replay or from a lost race.   *)
(***************************************************************************)
AnswerNamesJob == \A r \in Requests : answer[r] = "job" => KeyOf[r] \in bound

(***************************************************************************)
(* Once every request for a key has been answered, the key's debit stands  *)
(* only with a committed job, unless one of the requests was cut off.      *)
(***************************************************************************)
NoStrandedDebit ==
    \A k \in Keys :
        /\ k \in Counted \ bound
        /\ \A r \in Requests : KeyOf[r] = k => step[r] = "done"
        => \E r \in Requests : KeyOf[r] = k /\ answer[r] = "error" /\ faults < Faults

(***************************************************************************)
(* Such a debit is given back: a queue-bound media charge is in the end    *)
(* carried by a job or reversed, by the request or by the orphan sweep.    *)
(***************************************************************************)
EveryDebitSettles ==
    \A k \in Media : ledger[k] = "debit" ~> k \in bound \cup reversed

(***************************************************************************)
(* "The guard's job is row exists, in-workspace, not reversed"             *)
(* (createQueuedProviderJob): no job is committed on a reversed charge.    *)
(***************************************************************************)
JobsAreCharged == [][\A k \in Keys : k \in bound' \ bound => k \notin reversed]_vars
=============================================================================
