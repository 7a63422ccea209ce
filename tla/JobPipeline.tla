---------------------------- MODULE JobPipeline ----------------------------
(***************************************************************************)
(* The life of a paid provider job from the transaction that commits its   *)
(* row to the moment it is delivered or its charge is reversed:            *)
(*   - the API writes ProviderJob and JobOutbox in one transaction         *)
(*     (apps/api/src/lib/queued-job.ts) and publishes the row to BullMQ    *)
(*     inline and from a periodic dispatcher (apps/api/src/lib/queue.ts);  *)
(*   - worker slots take BullMQ jobs and run managed attempts              *)
(*     (apps/worker/src/index.ts), recording the outcome and reversing the *)
(*     charge on final failure (apps/worker/src/lib/jobs.ts);              *)
(*   - a sweeper in each worker process retries refunds that were left     *)
(*     pending, and operators may requeue a failed job.                    *)
(* Each action is one database statement, transaction or Redis command     *)
(* with the local computation around it, so that the other processes and   *)
(* crashes can come between any two of them.                               *)
(***************************************************************************)
EXTENDS Integers

CONSTANTS
    Jobs,            \* paid provider jobs, each with its own ledger charge
    Requests,        \* API requests: each publishes inline the job it creates
    Tickers,         \* API instances running the periodic dispatcher
    Slots,           \* BullMQ worker slots
    Sweepers,        \* refund sweepers, one per worker process
    Nobody,          \* no job, no slot
    Attempts,        \* BullMQ attempts per job (3 in the code)
    MaxStalled,      \* stalls BullMQ forgives (its default, 1, for managed queues)
    RequeuePaths,    \* how a failed job may be requeued: "admin", "salvage"
    Scenarios        \* bounds: how often each kind of fault may occur, see Faults

Workers    == Slots \cup Sweepers
Publishers == Requests \cup Tickers

ASSUME NobodyAssumption   == Nobody \notin Jobs \cup Workers \cup Publishers
ASSUME DisjointAssumption == Slots \cap Sweepers = {} /\ Requests \cap Tickers = {}
ASSUME AttemptsAssumption == Attempts \in Nat \ {0} /\ MaxStalled \in Nat
ASSUME PathAssumption     == RequeuePaths \subseteq {"admin", "salvage"}
\* What the environment may do: failing statements and commands, crashes, lost
\* locks, an operator's requeue, six hours passing.
Faults == {"redis", "refund", "settle", "crash", "lock", "requeue", "age"}

ASSUME ScenarioAssumption == Scenarios \subseteq [Faults -> Nat]

VARIABLES
    \* PostgreSQL
    status,      \* ProviderJob.status; "none" before the row exists
    charge,      \* the job's ledger charge: "held" or "reversed"
    credited,    \* how often the workspace was credited for it
    outbox,      \* JobOutbox.status; "none" before the row exists
    lastError,   \* JobOutbox.lastError, as far as anyone tells it apart
    aged,        \* jobs whose outbox row is older than six hours
    \* Redis
    bull,        \* the BullMQ job under the stable id provider-<id>
    made,        \* its attemptsMade
    stalls,      \* its stalledCounter
    holder,      \* the slot that holds its lock
    \* worker slots and sweepers
    pc, job, final, then, todo,
    \* publishers
    dpc, at, rows,
    \* operators
    requeue,     \* how far a requeue of the job has got
    \* history and budgets
    exhausted,   \* jobs some final attempt recorded as FAILED
    disturbed,   \* jobs a slot lost the lock of, or an operator requeued
    left         \* how often each fault may still occur

db       == <<status, charge, credited, outbox, lastError>>
redis    == <<bull, made, stalls, holder>>
workers  == <<pc, job, final, then, todo>>
api      == <<dpc, at, rows>>
past     == <<exhausted, disturbed>>
vars     == <<db, aged, redis, workers, api, requeue, past, left>>

Terminal == {"SUCCEEDED", "FAILED"}
Open     == {"PENDING", "FAILED"}      \* outbox states the dispatcher looks at

Spend(f) == left[f] > 0 /\ left' = [left EXCEPT ![f] = @ - 1]

Init ==
    /\ status    = [j \in Jobs |-> "none"]
    /\ charge    = [j \in Jobs |-> "held"]
    /\ credited  = [j \in Jobs |-> 0]
    /\ outbox    = [j \in Jobs |-> "none"]
    /\ lastError = [j \in Jobs |-> "null"]
    /\ aged      = {}
    /\ bull      = [j \in Jobs |-> "absent"]
    /\ made      = [j \in Jobs |-> 0]
    /\ stalls    = [j \in Jobs |-> 0]
    /\ holder    = [j \in Jobs |-> Nobody]
    /\ pc        = [w \in Workers |-> "idle"]
    /\ job       = [w \in Workers |-> Nobody]
    /\ final     = [w \in Workers |-> FALSE]
    /\ then      = [w \in Workers |-> "idle"]
    /\ todo      = [w \in Workers |-> {}]
    /\ dpc       = [d \in Publishers |-> "idle"]
    /\ at        = [d \in Publishers |-> Nobody]
    /\ rows      = [d \in Publishers |-> {}]
    /\ requeue   = [j \in Jobs |-> "idle"]
    /\ exhausted = {}
    /\ disturbed = {}
    /\ left \in Scenarios
-----------------------------------------------------------------------------
(***************************************************************************)
(* The API side: creation, publication, the dispatcher's reapers.          *)
(***************************************************************************)

\* createQueuedProviderJob commits job and outbox together, then the request
\* goes on to publish the row itself.
Create(r, j) ==
    /\ dpc[r] = "idle"
    /\ status[j] = "none"
    /\ status' = [status EXCEPT ![j] = "QUEUED"]
    /\ outbox' = [outbox EXCEPT ![j] = "PENDING"]
    /\ dpc'    = [dpc EXCEPT ![r] = "rows"]
    /\ rows'   = [rows EXCEPT ![r] = {j}]
    /\ UNCHANGED <<charge, credited, lastError, aged, redis, workers, at,
                   requeue, past, left>>

\* A queue.add under the stable id: BullMQ ignores it while any job, finished
\* ones included, is kept under that id.
Published(j) ==
    /\ bull'   = [bull   EXCEPT ![j] = IF @ = "absent" THEN "wait" ELSE @]
    /\ made'   = [made   EXCEPT ![j] = IF bull[j] = "absent" THEN 0 ELSE @]
    /\ stalls' = [stalls EXCEPT ![j] = IF bull[j] = "absent" THEN 0 ELSE @]
    /\ UNCHANGED holder

\* dispatchRow: publish one of the rows read earlier ...
Add(d) ==
    /\ dpc[d] = "rows"
    /\ \E j \in rows[d] :
         /\ Published(j)
         /\ at'   = [at   EXCEPT ![d] = j]
         /\ rows' = [rows EXCEPT ![d] = @ \ {j}]
    /\ dpc' = [dpc EXCEPT ![d] = "mark"]
    /\ UNCHANGED <<db, aged, workers, requeue, past, left>>

\* ... or fail to, and then the command may or may not have reached Redis ...
AddFails(d) ==
    /\ dpc[d] = "rows"
    /\ Spend("redis")
    /\ \E j \in rows[d] :
         /\ Published(j) \/ UNCHANGED redis
         /\ at'   = [at   EXCEPT ![d] = j]
         /\ rows' = [rows EXCEPT ![d] = @ \ {j}]
    /\ dpc' = [dpc EXCEPT ![d] = "markFailed"]
    /\ UNCHANGED <<db, aged, workers, requeue, past>>

\* Mutant: the row counts as dispatched even if queue.add failed.
MarkRowAnyway(d) ==
    /\ dpc[d] \in {"mark", "markFailed"}
    /\ outbox'    = [outbox EXCEPT ![at[d]] = "DISPATCHED"]
    /\ lastError' = [lastError EXCEPT ![at[d]] = "null"]
    /\ dpc' = [dpc EXCEPT ![d] = "rows"]
    /\ at'  = [at EXCEPT ![d] = Nobody]
    /\ UNCHANGED <<status, charge, credited, aged, redis, workers, rows,
                   requeue, past, left>>

\* ... and write the outcome on the row, whatever the row says by then.
MarkRow(d) ==
    /\ dpc[d] \in {"mark", "markFailed"}
    /\ outbox'    = [outbox EXCEPT ![at[d]] =
                       IF dpc[d] = "mark" THEN "DISPATCHED" ELSE "FAILED"]
    /\ lastError' = [lastError EXCEPT ![at[d]] =
                       IF dpc[d] = "mark" THEN "null" ELSE "error"]
    /\ dpc' = [dpc EXCEPT ![d] = "rows"]
    /\ at'  = [at EXCEPT ![d] = Nobody]
    /\ UNCHANGED <<status, charge, credited, aged, redis, workers, rows,
                   requeue, past, left>>

Reap(J) ==
    /\ outbox'    = [j \in Jobs |-> IF j \in J THEN "DISPATCHED" ELSE outbox[j]]
    /\ lastError' = [j \in Jobs |-> IF j \in J THEN "reaped" ELSE lastError[j]]

StaleRows == {j \in aged : outbox[j] \in Open}

\* The reap of rows older than six hours, before the dispatch and after it.
StaleReap(d) ==
    /\ d \in Tickers
    /\ dpc[d] \in {"idle", "stale"}
    /\ Reap(StaleRows)
    /\ dpc' = [dpc EXCEPT ![d] = IF @ = "idle" THEN "select" ELSE "idle"]
    /\ UNCHANGED <<status, charge, credited, aged, redis, workers, at, rows,
                   requeue, past, left>>

\* Mutant: rows whose publication failed are left out.
SelectPending(d) ==
    /\ dpc[d] = "select"
    /\ rows' = [rows EXCEPT ![d] = {j \in Jobs : outbox[j] = "PENDING" /\ status[j] = "QUEUED"}]
    /\ dpc'  = [dpc EXCEPT ![d] = "rows"]
    /\ UNCHANGED <<db, aged, redis, workers, at, requeue, past, left>>

Select(d) ==
    /\ dpc[d] = "select"
    /\ rows' = [rows EXCEPT ![d] = {j \in Jobs : outbox[j] \in Open /\ status[j] = "QUEUED"}]
    /\ dpc'  = [dpc EXCEPT ![d] = "rows"]
    /\ UNCHANGED <<db, aged, redis, workers, at, requeue, past, left>>

\* The rows are done: a request is over, the dispatcher reads which open rows
\* belong to jobs that have left QUEUED ...
RowsDone(d) ==
    /\ dpc[d] = "rows"
    /\ rows[d] = {}
    /\ IF d \in Requests
       THEN dpc' = [dpc EXCEPT ![d] = "idle"] /\ UNCHANGED rows
       ELSE /\ dpc'  = [dpc EXCEPT ![d] = "retire"]
            /\ rows' = [rows EXCEPT ![d] =
                          {j \in Jobs : outbox[j] \in Open /\ status[j] \notin {"none", "QUEUED"}}]
    /\ UNCHANGED <<db, aged, redis, workers, at, requeue, past, left>>

\* ... and retires them by id.
Retire(d) ==
    /\ dpc[d] = "retire"
    /\ Reap(rows[d])
    /\ rows' = [rows EXCEPT ![d] = {}]
    /\ dpc'  = [dpc EXCEPT ![d] = "stale"]
    /\ UNCHANGED <<status, charge, credited, aged, redis, workers, at,
                   requeue, past, left>>

DispatchStep(d) == \/ Add(d) \/ AddFails(d) \/ MarkRow(d) \/ StaleReap(d)
                   \/ Select(d) \/ RowsDone(d) \/ Retire(d)
-----------------------------------------------------------------------------
(***************************************************************************)
(* BullMQ (external): retention, stalled jobs.                             *)
(***************************************************************************)

\* removeOnComplete / removeOnFail: finished jobs are dropped from Redis once
\* enough newer ones have finished.
Evict(j) ==
    /\ bull[j] \in {"completed", "failed"}
    /\ bull' = [bull EXCEPT ![j] = "absent"]
    /\ UNCHANGED <<db, aged, made, stalls, holder, workers, api, requeue, past, left>>

\* The stalled-checker finds a job whose lock has expired: it is queued again,
\* or failed without being run once it has stalled too often.
Stalled(j) ==
    /\ bull[j] = "active"
    /\ stalls' = [stalls EXCEPT ![j] = @ + 1]
    /\ bull'   = [bull EXCEPT ![j] = IF stalls[j] >= MaxStalled THEN "failed" ELSE "wait"]
    /\ holder' = [holder EXCEPT ![j] = Nobody]
    /\ UNCHANGED made

StalledCheck(j) ==
    /\ holder[j] = Nobody
    /\ Stalled(j)
    /\ UNCHANGED <<db, aged, workers, api, requeue, past, left>>

\* A slot too busy to renew its lock loses the job and does not know it.
LoseLock(j) ==
    /\ holder[j] # Nobody
    /\ Spend("lock")
    /\ Stalled(j)
    /\ disturbed' = disturbed \cup {j}
    /\ UNCHANGED <<db, aged, workers, api, requeue, exhausted>>
-----------------------------------------------------------------------------
(***************************************************************************)
(* The worker: runManagedAttempt around a processor.                       *)
(***************************************************************************)

Goto(w, l) == pc' = [pc EXCEPT ![w] = l]

Take(w) ==
    /\ w \in Slots
    /\ pc[w] = "idle"
    /\ \E j \in Jobs :
         /\ bull[j] = "wait"
         /\ bull'   = [bull EXCEPT ![j] = "active"]
         /\ holder' = [holder EXCEPT ![j] = w]
         /\ job'    = [job EXCEPT ![w] = j]
         /\ final'  = [final EXCEPT ![w] = made[j] + 1 >= Attempts]
    /\ Goto(w, "start")
    /\ UNCHANGED <<db, aged, made, stalls, then, todo, api, requeue, past, left>>

\* refundFailedJob is called; its caller goes on at l.
CallRefund(w, l) == Goto(w, "refund") /\ then' = [then EXCEPT ![w] = l]

\* Mutants: a redelivered job is run again whatever its row says; or a FAILED
\* one is returned without another refund.
ReadNoState(w) ==
    /\ pc[w] = "start"
    /\ Goto(w, "handler")
    /\ UNCHANGED <<db, aged, redis, job, final, then, todo, api, requeue, past, left>>

ReadStateOnly(w) ==
    /\ pc[w] = "start"
    /\ Goto(w, IF status[job[w]] \in Terminal THEN "return" ELSE "handler")
    /\ UNCHANGED <<db, aged, redis, job, final, then, todo, api, requeue, past, left>>

\* A redelivered job that is already terminal is not run again.
ReadState(w) ==
    /\ pc[w] = "start"
    /\ CASE status[job[w]] = "FAILED"       -> CallRefund(w, "return")
         [] status[job[w]] = "SUCCEEDED"    -> Goto(w, "return") /\ UNCHANGED then
         [] status[job[w]] \notin Terminal  -> Goto(w, "handler") /\ UNCHANGED then
    /\ UNCHANGED <<db, aged, redis, job, final, todo, api, requeue, past, left>>

SetStatus(j, s) == status' = [status EXCEPT ![j] = s]

MarkRunning(w) ==
    /\ pc[w] = "handler"
    /\ SetStatus(job[w], "RUNNING")
    /\ Goto(w, "work")
    /\ UNCHANGED <<charge, credited, outbox, lastError, aged, redis, job, final, then,
                   todo, api, requeue, past, left>>

MarkSucceeded(w) ==
    /\ pc[w] = "work"
    /\ SetStatus(job[w], "SUCCEEDED")
    /\ Goto(w, "settle")
    /\ UNCHANGED <<charge, credited, outbox, lastError, aged, redis, job, final, then,
                   todo, api, requeue, past, left>>

Throws(w) ==
    /\ pc[w] \in {"handler", "work"}
    /\ Goto(w, "settle")
    /\ UNCHANGED <<db, aged, redis, job, final, then, todo, api, requeue, past, left>>

\* Mutants: every failure is refunded; or the obligation is a PENDING row.
MarkFailedRefunds(w, l) ==
    /\ CallRefund(w, l)
    /\ IF final[w]
       THEN /\ SetStatus(job[w], "FAILED")
            /\ outbox'    = [outbox EXCEPT ![job[w]] = "FAILED"]
            /\ lastError' = [lastError EXCEPT ![job[w]] = "refund_pending"]
            /\ exhausted' = exhausted \cup {job[w]}
       ELSE /\ SetStatus(job[w], "QUEUED")
            /\ UNCHANGED <<outbox, lastError, exhausted>>

MarkFailedPending(w, l) ==
    IF final[w]
    THEN /\ SetStatus(job[w], "FAILED")
         /\ outbox'    = [outbox EXCEPT ![job[w]] = "PENDING"]
         /\ lastError' = [lastError EXCEPT ![job[w]] = "refund_pending"]
         /\ exhausted' = exhausted \cup {job[w]}
         /\ CallRefund(w, l)
    ELSE /\ SetStatus(job[w], "QUEUED")
         /\ Goto(w, l)
         /\ UNCHANGED <<outbox, lastError, exhausted, then>>

\* markFailed: a failure that is not final puts the job back to QUEUED; a final
\* one commits FAILED together with the refund obligation on the outbox row and
\* goes on to refund. Afterwards control is at l.
MarkFailed(w, l) ==
    IF final[w]
    THEN /\ SetStatus(job[w], "FAILED")
         /\ outbox'    = [outbox EXCEPT ![job[w]] = "FAILED"]
         /\ lastError' = [lastError EXCEPT ![job[w]] = "refund_pending"]
         /\ exhausted' = exhausted \cup {job[w]}
         /\ CallRefund(w, l)
    ELSE /\ SetStatus(job[w], "QUEUED")
         /\ Goto(w, l)
         /\ UNCHANGED <<outbox, lastError, exhausted, then>>

\* The processor's own catch block, and the guard around it.
HandlerMarksFailed(w) ==
    /\ pc[w] = "work"
    /\ MarkFailed(w, "settle")
    /\ UNCHANGED <<charge, credited, aged, redis, job, final, todo, api, requeue, disturbed, left>>

GuardMarksFailed(w) ==
    /\ pc[w] = "fail"
    /\ MarkFailed(w, "tail")
    /\ UNCHANGED <<charge, credited, aged, redis, job, final, todo, api, requeue, disturbed, left>>

\* The guard re-reads the row once the processor is done.
Settle(w) ==
    /\ pc[w] = "settle"
    /\ Goto(w, CASE status[job[w]] = "SUCCEEDED"   -> "return"
                 [] status[job[w]] = "FAILED"      -> "tail"
                 [] status[job[w]] \notin Terminal -> "fail")
    /\ UNCHANGED <<db, aged, redis, job, final, then, todo, api, requeue, past, left>>

\* The database is away while the guard reads or records the outcome.
SettleFails(w) ==
    /\ pc[w] \in {"settle", "fail"}
    /\ Spend("settle")
    /\ Goto(w, "throw")
    /\ UNCHANGED <<db, aged, redis, job, final, then, todo, api, requeue, past>>

\* Mutant: a status the row does not know.
TailRetrying(w) ==
    /\ pc[w] = "tail"
    /\ status' = [status EXCEPT ![job[w]] = "RETRYING"]
    /\ Goto(w, "throw")
    /\ UNCHANGED <<charge, credited, outbox, lastError, aged, redis, job, final, then, todo,
                   api, requeue, past, left>>

\* Last step of a failed attempt: refund once more, or make the job executable.
Tail(w) ==
    /\ pc[w] = "tail"
    /\ IF final[w]
       THEN CallRefund(w, "throw") /\ UNCHANGED status
       ELSE /\ status' = [status EXCEPT ![job[w]] =
                            IF @ \in {"FAILED", "QUEUED"} THEN "QUEUED" ELSE @]
            /\ Goto(w, "throw")
            /\ UNCHANGED then
    /\ UNCHANGED <<charge, credited, outbox, lastError, aged, redis, job, final, todo,
                   api, requeue, past, left>>

\* What the slot reports to BullMQ counts only while it holds the lock.
Finish(w, b, m) ==
    LET j == job[w] IN
    /\ IF holder[j] = w
       THEN /\ bull'   = [bull EXCEPT ![j] = b]
            /\ made'   = [made EXCEPT ![j] = m]
            /\ holder' = [holder EXCEPT ![j] = Nobody]
       ELSE UNCHANGED <<bull, made, holder>>
    /\ Goto(w, "idle")
    /\ job'   = [job EXCEPT ![w] = Nobody]
    /\ final' = [final EXCEPT ![w] = FALSE]
    /\ then'  = [then EXCEPT ![w] = "idle"]
    /\ UNCHANGED <<db, aged, stalls, todo, api, requeue, past, left>>

Return(w) ==
    /\ pc[w] = "return"
    /\ Finish(w, "completed", made[job[w]])

Throw(w) ==
    /\ pc[w] = "throw"
    /\ LET m == made[job[w]] + 1 IN
         Finish(w, IF m >= Attempts THEN "failed" ELSE "wait", m)
-----------------------------------------------------------------------------
(***************************************************************************)
(* refundFailedJob, shared by worker slots and sweepers.                   *)
(***************************************************************************)

\* Mutant: the charge is credited whether or not it has a reversal.
RefundChargeAgain(w) ==
    /\ pc[w] = "refund"
    /\ charge'   = [charge EXCEPT ![job[w]] = "reversed"]
    /\ credited' = [credited EXCEPT ![job[w]] = @ + 1]
    /\ Goto(w, "complete")
    /\ UNCHANGED <<status, outbox, lastError, aged, redis, job, final, then, todo, api,
                   requeue, past, left>>

\* refundWorkspaceCharge under the workspace lock: a charge that has a reversal
\* is left alone.
RefundCharge(w) ==
    /\ pc[w] = "refund"
    /\ LET j == job[w] IN
         IF charge[j] = "held"
         THEN /\ charge'   = [charge EXCEPT ![j] = "reversed"]
              /\ credited' = [credited EXCEPT ![j] = @ + 1]
         ELSE UNCHANGED <<charge, credited>>
    /\ Goto(w, "complete")
    /\ UNCHANGED <<status, outbox, lastError, aged, redis, job, final, then, todo, api,
                   requeue, past, left>>

\* completeRefundObligation
CompleteObligation(w) ==
    /\ pc[w] = "complete"
    /\ LET j == job[w] IN
         IF lastError[j] = "refund_pending"
         THEN /\ outbox'    = [outbox EXCEPT ![j] = "DISPATCHED"]
              /\ lastError' = [lastError EXCEPT ![j] = "null"]
         ELSE UNCHANGED <<outbox, lastError>>
    /\ Goto(w, then[w])
    /\ UNCHANGED <<status, charge, credited, aged, redis, job, final, then, todo, api,
                   requeue, past, left>>

\* Either of the two failed: deferRefundObligation keeps the marker.
DeferObligation(w) ==
    /\ pc[w] \in {"refund", "complete"}
    /\ Spend("refund")
    /\ outbox' = [outbox EXCEPT ![job[w]] =
                    IF lastError[job[w]] = "refund_pending" THEN "FAILED" ELSE @]
    /\ Goto(w, then[w])
    /\ UNCHANGED <<status, charge, credited, lastError, aged, redis, job, final, then,
                   todo, api, requeue, past>>

\* retryPendingFailedJobRefunds: which jobs owe a refund ...
SweepRead(w) ==
    /\ w \in Sweepers
    /\ pc[w] = "idle"
    /\ todo' = [todo EXCEPT ![w] =
                  {j \in Jobs : status[j] = "FAILED" /\ lastError[j] = "refund_pending"}]
    /\ todo'[w] # {}
    /\ Goto(w, "sweep")
    /\ UNCHANGED <<db, aged, redis, job, final, then, api, requeue, past, left>>

\* ... and one after the other.
SweepNext(w) ==
    /\ pc[w] = "sweep"
    /\ IF todo[w] = {}
       THEN /\ Goto(w, "idle")
            /\ job'  = [job EXCEPT ![w] = Nobody]
            /\ then' = [then EXCEPT ![w] = "idle"]
            /\ UNCHANGED todo
       ELSE \E j \in todo[w] :
              /\ job'  = [job EXCEPT ![w] = j]
              /\ todo' = [todo EXCEPT ![w] = @ \ {j}]
              /\ CallRefund(w, "sweep")
    /\ UNCHANGED <<db, aged, redis, final, api, requeue, past, left>>

RefundStep(w)  == RefundCharge(w) \/ CompleteObligation(w) \/ DeferObligation(w)
SweepStep(w)   == SweepRead(w) \/ SweepNext(w)
AttemptStep(w) == \/ ReadState(w) \/ MarkRunning(w) \/ MarkSucceeded(w) \/ Throws(w)
                  \/ HandlerMarksFailed(w) \/ GuardMarksFailed(w)
                  \/ Settle(w) \/ SettleFails(w) \/ Tail(w) \/ Return(w) \/ Throw(w)
-----------------------------------------------------------------------------
(***************************************************************************)
(* Operators: requeueing a failed job.                                     *)
(***************************************************************************)

\* Both requeue paths act on an earlier read that saw the job FAILED.
SeeFailed(j) ==
    /\ requeue[j] = "idle"
    /\ status[j] = "FAILED"
    /\ Spend("requeue")
    /\ \E path \in RequeuePaths : requeue' = [requeue EXCEPT ![j] = path]
    /\ UNCHANGED <<db, aged, redis, workers, api, past>>

\* requeueVideoRecovery drops the retained BullMQ job first; BullMQ refuses to
\* drop one that is locked, and the refusal is ignored.
DropGhost(j) ==
    /\ requeue[j] = "salvage"
    /\ bull'    = [bull EXCEPT ![j] = IF @ = "active" THEN @ ELSE "absent"]
    /\ requeue' = [requeue EXCEPT ![j] = "dropped"]
    /\ UNCHANGED <<db, aged, made, stalls, holder, workers, api, past, left>>

\* The transaction of either path. The dispatch that follows it is a run of the
\* dispatcher like any other.
Requeue(j) ==
    /\ requeue[j] \in {"admin", "dropped"}
    /\ SetStatus(j, "QUEUED")
    /\ outbox'    = [outbox EXCEPT ![j] = "PENDING"]
    /\ lastError' = [lastError EXCEPT ![j] = "null"]
    /\ requeue'   = [requeue EXCEPT ![j] = "idle"]
    /\ disturbed' = disturbed \cup {j}
    /\ UNCHANGED <<charge, credited, aged, redis, workers, api, exhausted, left>>
-----------------------------------------------------------------------------
(***************************************************************************)
(* The environment: crashes and time.                                      *)
(***************************************************************************)

WorkerCrash ==
    /\ Spend("crash")
    /\ pc'    = [w \in Workers |-> "idle"]
    /\ job'   = [w \in Workers |-> Nobody]
    /\ final' = [w \in Workers |-> FALSE]
    /\ then'  = [w \in Workers |-> "idle"]
    /\ todo'  = [w \in Workers |-> {}]
    /\ holder' = [j \in Jobs |-> Nobody]
    /\ UNCHANGED <<db, aged, bull, made, stalls, api, requeue, past>>

ApiCrash ==
    /\ Spend("crash")
    /\ dpc'  = [d \in Publishers |-> "idle"]
    /\ at'   = [d \in Publishers |-> Nobody]
    /\ rows' = [d \in Publishers |-> {}]
    /\ requeue' = [j \in Jobs |-> "idle"]
    /\ UNCHANGED <<db, aged, redis, workers, past>>

\* Six hours have passed since the row was written.
Age(j) ==
    /\ outbox[j] # "none" /\ j \notin aged
    /\ Spend("age")
    /\ aged' = aged \cup {j}
    /\ UNCHANGED <<db, redis, workers, api, requeue, past>>

WorkerStep(w) == Take(w) \/ AttemptStep(w) \/ RefundStep(w) \/ SweepStep(w)
JobStep(j)    == \/ Evict(j) \/ StalledCheck(j) \/ LoseLock(j)
                 \/ SeeFailed(j) \/ DropGhost(j) \/ Requeue(j) \/ Age(j)

Next == \/ \E r \in Requests, j \in Jobs : Create(r, j)
        \/ \E d \in Publishers : DispatchStep(d)
        \/ \E w \in Workers : WorkerStep(w)
        \/ \E j \in Jobs : JobStep(j)
        \/ WorkerCrash
        \/ ApiCrash

(***************************************************************************)
(* Timers fire again and again, a process that is up goes on, and BullMQ   *)
(* hands out waiting jobs and checks for stalled ones. Requests, operators *)
(* and time owe nobody a step.                                             *)
(***************************************************************************)
Fairness == /\ \A d \in Tickers : WF_vars(DispatchStep(d))
            /\ \A w \in Workers : WF_vars(WorkerStep(w))
            /\ \A j \in Jobs : WF_vars(StalledCheck(j))

SafeSpec == Init /\ [][Next]_vars
Spec     == SafeSpec /\ Fairness
-----------------------------------------------------------------------------
(***************************************************************************)
(* Properties.                                                             *)
(***************************************************************************)

StatusSet  == {"none", "QUEUED", "RUNNING", "SUCCEEDED", "FAILED"}
WorkerPcs  == {"idle", "start", "handler", "work", "settle", "fail", "tail", "throw",
               "return", "refund", "complete", "sweep"}
ThenPcs    == {"idle", "return", "settle", "tail", "throw", "sweep"}
PublishPcs == {"idle", "select", "rows", "mark", "markFailed", "retire", "stale"}

TypeOK ==
    /\ status    \in [Jobs -> StatusSet]
    /\ charge    \in [Jobs -> {"held", "reversed"}]
    /\ credited  \in [Jobs -> Nat]
    /\ outbox    \in [Jobs -> {"none", "PENDING", "DISPATCHED", "FAILED"}]
    /\ lastError \in [Jobs -> {"null", "refund_pending", "error", "reaped"}]
    /\ aged      \subseteq Jobs
    /\ bull      \in [Jobs -> {"absent", "wait", "active", "completed", "failed"}]
    /\ made      \in [Jobs -> Nat]
    /\ stalls    \in [Jobs -> Nat]
    /\ holder    \in [Jobs -> Slots \cup {Nobody}]
    /\ pc        \in [Workers -> WorkerPcs]
    /\ job       \in [Workers -> Jobs \cup {Nobody}]
    /\ final     \in [Workers -> BOOLEAN]
    /\ then      \in [Workers -> ThenPcs]
    /\ todo      \in [Workers -> SUBSET Jobs]
    /\ dpc       \in [Publishers -> PublishPcs]
    /\ at        \in [Publishers -> Jobs \cup {Nobody}]
    /\ rows      \in [Publishers -> SUBSET Jobs]
    /\ requeue   \in [Jobs -> {"idle", "admin", "salvage", "dropped"}]
    /\ exhausted \subseteq Jobs
    /\ disturbed \subseteq Jobs
    /\ left      \in [Faults -> Nat]

(***************************************************************************)
(* One-time reversal: however often slots and sweepers run                 *)
(* refundFailedJob for the same job, concurrently or after a crash, its    *)
(* workspace is credited once, and only together with the reversal.        *)
(***************************************************************************)
RefundedAtMostOnce ==
    \A j \in Jobs : credited[j] = IF charge[j] = "reversed" THEN 1 ELSE 0

(***************************************************************************)
(* No charge is reversed for a job that no final attempt has given up:     *)
(* markFailed refunds final failures only, and redelivery and the sweeper  *)
(* act on the FAILED status that only a final failure leaves.              *)
(***************************************************************************)
RefundFollowsExhaustion == \A j \in Jobs : charge[j] = "reversed" => j \in exhausted

(***************************************************************************)
(* A refund obligation sits on the outbox row of a FAILED job, where the   *)
(* sweeper looks for it and the dispatcher does not publish it (comment in *)
(* markFailed: "The failed job prevents the normal dispatcher from         *)
(* republishing this row"). A slot that lost its lock, or a requeue, may   *)
(* take a job out of FAILED while its refund is due.                       *)
(***************************************************************************)
ObligationOnFailedJob ==
    \A j \in Jobs \ disturbed :
        lastError[j] = "refund_pending" => status[j] = "FAILED" /\ outbox[j] = "FAILED"

(***************************************************************************)
(* What the customer is promised, as the abstract specification PaidJob.   *)
(* In particular no job is delivered and refunded, and a delivered job is  *)
(* not run, failed and refunded after a redelivery. The promise is void    *)
(* for a job that two slots ran at once or an operator requeued.           *)
(***************************************************************************)
Phase(j) == CASE j \in disturbed       -> "void"
              [] j \notin disturbed /\ status[j] = "none"     -> "none"
              [] j \notin disturbed /\ charge[j] = "reversed" -> "refunded"
              [] j \notin disturbed /\ charge[j] = "held" /\ status[j] = "SUCCEEDED"
                                       -> "delivered"
              [] OTHER                 -> "charged"

Promise == INSTANCE PaidJob WITH phase <- [j \in Jobs |-> Phase(j)]

KeepsPromise == Promise!Spec

(***************************************************************************)
(* A row the outbox calls DISPATCHED is not lost: while its job is still   *)
(* QUEUED, BullMQ has the job waiting or active (dispatchRow marks a row   *)
(* only after queue.add; a retry keeps the BullMQ job). Rows reaped after  *)
(* six hours are DISPATCHED in name only, and the BullMQ job of a requeued *)
(* row, or of one two slots worked on, may be over.                        *)
(***************************************************************************)
DispatchedIsQueued ==
    \A j \in Jobs \ (disturbed \cup aged) :
        status[j] = "QUEUED" /\ outbox[j] = "DISPATCHED" => bull[j] \in {"wait", "active"}

(***************************************************************************)
(* Every committed job reaches a terminal status: lost publications are    *)
(* repeated from the outbox, failed attempts are retried, interrupted ones *)
(* are redelivered.                                                        *)
(***************************************************************************)
EveryJobSettles ==
    \A j \in Jobs : status[j] \in {"QUEUED", "RUNNING"} ~> status[j] \in Terminal

(***************************************************************************)
(* The comment in runManagedAttempt: "A transient refund failure remains   *)
(* durable in PostgreSQL; the independent sweeper retries the idempotent   *)
(* reversal". So the charge of a job that failed for good is reversed in   *)
(* the end, by the attempt, by a redelivery or by the sweeper.             *)
(***************************************************************************)
EveryFailureIsRefunded ==
    \A j \in Jobs : status[j] = "FAILED" ~> charge[j] = "reversed"
=============================================================================
