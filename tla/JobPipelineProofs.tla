------------------------- MODULE JobPipelineProofs -------------------------
(***************************************************************************)
(* Theorems about JobPipeline, for any number of jobs, requests, slots,    *)
(* dispatchers and sweepers, any number of attempts and any budget of      *)
(* faults, crashes, lost locks and requeues.                               *)
(***************************************************************************)
EXTENDS JobPipeline, TLAPS

USE DEF Workers, Publishers, past, StatusSet, WorkerPcs, ThenPcs, PublishPcs

(***************************************************************************)
(* A worker in the middle of an attempt or a refund holds a job. Without   *)
(* it TypeOK is not inductive: a final failure would exhaust Nobody.       *)
(***************************************************************************)
Busy == \A w \in Workers : pc[w] \in {"idle", "sweep"} \/ job[w] \in Jobs

LEMMA InitTypeOK == Init => TypeOK /\ Busy
BY NobodyAssumption, DisjointAssumption, ScenarioAssumption DEF Init, TypeOK, Faults, Busy

(***************************************************************************)
(* Every step keeps the type invariant, action by action.                  *)
(***************************************************************************)
LEMMA DispatchTypeOK ==
    ASSUME TypeOK, NEW d \in Publishers, DispatchStep(d)
    PROVE  TypeOK'
<1> USE DEF TypeOK, db, redis, workers, api
<1>1. CASE Add(d)       BY <1>1 DEF Add, Published
<1>2. CASE AddFails(d)  BY <1>2 DEF AddFails, Published, Spend, Faults
<1>3. CASE MarkRow(d)   BY <1>3 DEF MarkRow
<1>4. CASE StaleReap(d) BY <1>4 DEF StaleReap, Reap
<1>5. CASE Select(d)    BY <1>5 DEF Select
<1>6. CASE RowsDone(d)  BY <1>6 DEF RowsDone
<1>7. CASE Retire(d)    BY <1>7 DEF Retire, Reap
<1> QED BY <1>1, <1>2, <1>3, <1>4, <1>5, <1>6, <1>7 DEF DispatchStep

LEMMA MarkFailedTypeOK ==
    ASSUME TypeOK, NEW w \in Workers, NEW l \in {"settle", "tail"}, MarkFailed(w, l),
           job[w] \in Jobs,
           UNCHANGED <<charge, credited, aged, redis, job, final, todo, api, requeue, disturbed, left>>
    PROVE  TypeOK'
<1> USE DEF MarkFailed, SetStatus, Goto, CallRefund
<1>1. CASE final[w]
  <2>1. pc' \in [Workers -> WorkerPcs] /\ then' \in [Workers -> ThenPcs]
        BY <1>1 DEF TypeOK
  <2>2. status' \in [Jobs -> StatusSet] /\ exhausted' \subseteq Jobs
        BY <1>1 DEF TypeOK
  <2>3. /\ outbox' \in [Jobs -> {"none", "PENDING", "DISPATCHED", "FAILED"}]
        /\ lastError' \in [Jobs -> {"null", "refund_pending", "error", "reaped"}]
        BY <1>1 DEF TypeOK
  <2> QED BY <2>1, <2>2, <2>3 DEF TypeOK, redis, api
<1>2. CASE ~final[w]
      BY <1>2 DEF TypeOK, redis, api
<1> QED BY <1>1, <1>2

LEMMA ReadStateOutcomes ==
    ASSUME NEW w \in Workers, ReadState(w)
    PROVE  \/ CallRefund(w, "return") /\ status[job[w]] = "FAILED"
           \/ Goto(w, "return") /\ UNCHANGED then
           \/ Goto(w, "handler") /\ UNCHANGED then
BY DEF ReadState, Terminal

LEMMA AttemptTypeOK ==
    ASSUME TypeOK, Busy, NEW w \in Workers, Take(w) \/ AttemptStep(w)
    PROVE  TypeOK'
<1> USE DEF TypeOK, db, redis, workers, api, Goto, SetStatus, CallRefund
<1>1. CASE Take(w)               BY <1>1 DEF Take
<1>2. CASE ReadState(w)
  <2>1. \/ CallRefund(w, "return")
        \/ Goto(w, "return") /\ UNCHANGED then
        \/ Goto(w, "handler") /\ UNCHANGED then
        BY <1>2, ReadStateOutcomes
  <2>2. pc' \in [Workers -> WorkerPcs] BY <2>1
  <2>3. then' \in [Workers -> ThenPcs] BY <2>1
  <2>4. UNCHANGED <<db, aged, redis, job, final, todo, api, requeue, past, left>>
        BY <1>2 DEF ReadState
  <2> QED BY <2>2, <2>3, <2>4
<1>3. CASE MarkRunning(w)        BY <1>3 DEF MarkRunning
<1>4. CASE MarkSucceeded(w)      BY <1>4 DEF MarkSucceeded
<1>5. CASE Throws(w)             BY <1>5 DEF Throws
<1>6. CASE HandlerMarksFailed(w)
      BY <1>6, MarkFailedTypeOK DEF HandlerMarksFailed, Busy
<1>7. CASE GuardMarksFailed(w)
      BY <1>7, MarkFailedTypeOK DEF GuardMarksFailed, Busy
<1>8. CASE Settle(w)             BY <1>8 DEF Settle, Terminal
<1>9. CASE SettleFails(w)        BY <1>9 DEF SettleFails, Spend, Faults
<1>10. CASE Tail(w)              BY <1>10 DEF Tail
<1>11. CASE Return(w)            BY <1>11, NobodyAssumption DEF Return, Finish
<1>12. CASE Throw(w)             BY <1>12, NobodyAssumption DEF Throw, Finish
<1> QED BY <1>1, <1>2, <1>3, <1>4, <1>5, <1>6, <1>7, <1>8, <1>9, <1>10, <1>11, <1>12
        DEF AttemptStep

LEMMA RefundTypeOK ==
    ASSUME TypeOK, NEW w \in Workers, RefundStep(w) \/ SweepStep(w)
    PROVE  TypeOK'
<1> USE DEF TypeOK, db, redis, workers, api, Goto, CallRefund
<1>1. CASE RefundCharge(w)       BY SMTT(30), <1>1 DEF RefundCharge
<1>2. CASE CompleteObligation(w) BY <1>2 DEF CompleteObligation
<1>3. CASE DeferObligation(w)
  <2>1. left' \in [Faults -> Nat]
        BY <1>3 DEF DeferObligation, Spend, Faults
  <2>2. pc' \in [Workers -> WorkerPcs]
        BY <1>3 DEF DeferObligation
  <2>3. outbox' \in [Jobs -> {"none", "PENDING", "DISPATCHED", "FAILED"}]
        BY <1>3 DEF DeferObligation
  <2> QED BY <1>3, <2>1, <2>2, <2>3 DEF DeferObligation
<1>4. CASE SweepRead(w)          BY <1>4 DEF SweepRead
<1>5. CASE SweepNext(w)          BY <1>5 DEF SweepNext
<1> QED BY <1>1, <1>2, <1>3, <1>4, <1>5 DEF RefundStep, SweepStep

LEMMA JobTypeOK ==
    ASSUME TypeOK, NEW j \in Jobs, JobStep(j)
    PROVE  TypeOK'
<1> USE DEF TypeOK, db, redis, workers, api
<1>1. CASE Evict(j)        BY <1>1 DEF Evict
<1>2. CASE StalledCheck(j) BY <1>2 DEF StalledCheck, Stalled
<1>3. CASE LoseLock(j)     BY <1>3 DEF LoseLock, Stalled, Spend, Faults
<1>4. CASE SeeFailed(j)    BY <1>4, PathAssumption DEF SeeFailed, Spend, Faults
<1>5. CASE DropGhost(j)    BY <1>5 DEF DropGhost
<1>6. CASE Requeue(j)      BY <1>6 DEF Requeue, SetStatus
<1>7. CASE Age(j)          BY <1>7 DEF Age, Spend, Faults
<1> QED BY <1>1, <1>2, <1>3, <1>4, <1>5, <1>6, <1>7 DEF JobStep

LEMMA StepTypeOK ==
    ASSUME TypeOK, Busy, [Next]_vars
    PROVE  TypeOK'
<1> USE DEF TypeOK, db, redis, workers, api
<1>1. ASSUME NEW r \in Requests, NEW j \in Jobs, Create(r, j) PROVE TypeOK'
      BY <1>1 DEF Create
<1>2. ASSUME NEW d \in Publishers, DispatchStep(d) PROVE TypeOK'
      BY <1>2, DispatchTypeOK
<1>3. ASSUME NEW w \in Workers, WorkerStep(w) PROVE TypeOK'
      BY <1>3, AttemptTypeOK, RefundTypeOK DEF WorkerStep
<1>4. ASSUME NEW j \in Jobs, JobStep(j) PROVE TypeOK'
      BY <1>4, JobTypeOK
<1>5. CASE WorkerCrash BY <1>5 DEF WorkerCrash, Spend, Faults
<1>6. CASE ApiCrash    BY <1>6 DEF ApiCrash, Spend, Faults
<1>7. CASE UNCHANGED vars BY <1>7 DEF vars
<1> QED BY <1>1, <1>2, <1>3, <1>4, <1>5, <1>6, <1>7 DEF Next

(***************************************************************************)
(* Who holds what: only Take and SweepNext give a worker a job, and only   *)
(* Finish, the end of a sweep and a crash take it away.                    *)
(***************************************************************************)
LEMMA WorkerBusy ==
    ASSUME TypeOK, Busy, NEW w \in Workers, WorkerStep(w)
    PROVE  Busy'
<1> USE DEF Busy, TypeOK, Goto, CallRefund
<1>1. CASE Take(w)       BY <1>1 DEF Take
<1>2. CASE AttemptStep(w) /\ ~(Return(w) \/ Throw(w))
  <2>1. UNCHANGED job /\ pc[w] \notin {"idle", "sweep"}
        BY <1>2 DEF AttemptStep, ReadState, MarkRunning, MarkSucceeded, Throws,
                    HandlerMarksFailed, GuardMarksFailed, Settle, SettleFails, Tail
  <2>2. \A v \in Workers \ {w} : pc'[v] = pc[v]
    <3>1. ReadState(w) => pc' = [pc EXCEPT ![w] = pc'[w]]
          BY ReadStateOutcomes
    <3>2. \A l : MarkFailed(w, l) => pc' = [pc EXCEPT ![w] = pc'[w]]
          BY DEF MarkFailed
    <3>3. Settle(w) \/ SettleFails(w) \/ Tail(w) => pc' = [pc EXCEPT ![w] = pc'[w]]
          BY DEF Settle, SettleFails, Tail
    <3>4. MarkRunning(w) \/ MarkSucceeded(w) \/ Throws(w) => pc' = [pc EXCEPT ![w] = pc'[w]]
          BY DEF MarkRunning, MarkSucceeded, Throws
    <3>5. pc' = [pc EXCEPT ![w] = pc'[w]]
          BY <1>2, <3>1, <3>2, <3>3, <3>4 DEF AttemptStep, HandlerMarksFailed, GuardMarksFailed
    <3> QED BY <3>5
  <2> QED BY <2>1, <2>2
<1>3. CASE Return(w) \/ Throw(w) BY <1>3 DEF Return, Throw, Finish
<1>4. CASE RefundStep(w)
      BY <1>4 DEF RefundStep, RefundCharge, CompleteObligation, DeferObligation
<1>5. CASE SweepRead(w)  BY <1>5 DEF SweepRead
<1>6. CASE SweepNext(w)  BY <1>6 DEF SweepNext
<1> QED BY <1>1, <1>2, <1>3, <1>4, <1>5, <1>6 DEF WorkerStep, SweepStep

LEMMA StepBusy ==
    ASSUME TypeOK, Busy, [Next]_vars
    PROVE  Busy'
<1>1. ASSUME NEW w \in Workers, WorkerStep(w) PROVE Busy'
      BY <1>1, WorkerBusy
<1>2. CASE WorkerCrash
      BY <1>2 DEF WorkerCrash, Busy
<1>3. CASE UNCHANGED workers
      BY <1>3 DEF workers, Busy
<1>4. ASSUME NEW r \in Requests, NEW j \in Jobs, Create(r, j) PROVE UNCHANGED workers
      BY <1>4 DEF Create
<1>5. ASSUME NEW d \in Publishers, DispatchStep(d) PROVE UNCHANGED workers
      BY <1>5 DEF DispatchStep, Add, AddFails, MarkRow, StaleReap, Select, RowsDone, Retire
<1>6. ASSUME NEW j \in Jobs, JobStep(j) PROVE UNCHANGED workers
      BY <1>6 DEF JobStep, Evict, StalledCheck, LoseLock, SeeFailed, DropGhost, Requeue, Age
<1>7. CASE ApiCrash
      BY <1>3, <1>7 DEF ApiCrash
<1>8. CASE UNCHANGED vars
      BY <1>3, <1>8 DEF vars
<1> QED BY <1>1, <1>2, <1>3, <1>4, <1>5, <1>6, <1>7, <1>8 DEF Next

(***************************************************************************)
(* Type correctness: the state of the pipeline is always one the rows of   *)
(* PostgreSQL and Redis, the slots and the dispatchers can be in.          *)
(***************************************************************************)
THEOREM TypeCorrect == SafeSpec => []TypeOK
<1>1. Init => TypeOK /\ Busy BY InitTypeOK
<1>2. TypeOK /\ Busy /\ [Next]_vars => TypeOK' /\ Busy' BY StepTypeOK, StepBusy
<1> QED BY <1>1, <1>2, PTL DEF SafeSpec
-----------------------------------------------------------------------------
(***************************************************************************)
(* One-time reversal. Only RefundCharge touches the charge, and it credits *)
(* only when it reverses.                                                  *)
(***************************************************************************)
LEMMA OnlyRefundChargeCredits ==
    ASSUME TypeOK, [Next]_vars
    PROVE  \/ UNCHANGED <<charge, credited>>
           \/ \E w \in Workers : RefundCharge(w)
<1> USE DEF db
<1>1. ASSUME NEW r \in Requests, NEW j \in Jobs, Create(r, j)
      PROVE  UNCHANGED <<charge, credited>>
      BY <1>1 DEF Create
<1>2. ASSUME NEW d \in Publishers, DispatchStep(d)
      PROVE  UNCHANGED <<charge, credited>>
      BY <1>2 DEF DispatchStep, Add, AddFails, MarkRow, StaleReap, Select, RowsDone, Retire
<1>3. ASSUME NEW w \in Workers, WorkerStep(w)
      PROVE  UNCHANGED <<charge, credited>> \/ RefundCharge(w)
  <2>1. CASE Take(w) BY <2>1 DEF Take
  <2>2. CASE AttemptStep(w)
        BY <2>2 DEF AttemptStep, ReadState, MarkRunning, MarkSucceeded, Throws,
                    HandlerMarksFailed, GuardMarksFailed, Settle, SettleFails, Tail,
                    Return, Throw, Finish
  <2>3. CASE RefundStep(w)
        BY <2>3 DEF RefundStep, CompleteObligation, DeferObligation
  <2>4. CASE SweepStep(w)
        BY <2>4 DEF SweepStep, SweepRead, SweepNext
  <2> QED BY <1>3, <2>1, <2>2, <2>3, <2>4 DEF WorkerStep
<1>4. ASSUME NEW j \in Jobs, JobStep(j)
      PROVE  UNCHANGED <<charge, credited>>
      BY <1>4 DEF JobStep, Evict, StalledCheck, LoseLock, SeeFailed, DropGhost, Requeue, Age
<1>5. CASE WorkerCrash \/ ApiCrash
      BY <1>5 DEF WorkerCrash, ApiCrash
<1>6. CASE UNCHANGED vars
      BY <1>6 DEF vars
<1> QED BY <1>1, <1>2, <1>3, <1>4, <1>5, <1>6 DEF Next

(***************************************************************************)
(* A workspace is credited once for a charge however many attempts,        *)
(* redeliveries and sweepers refund it at the same time                    *)
(* (refundWorkspaceCharge under the workspace lock).                       *)
(***************************************************************************)
THEOREM RefundOnce == SafeSpec => []RefundedAtMostOnce
<1>1. Init => RefundedAtMostOnce
  <2>1. Init => charge = [j \in Jobs |-> "held"] /\ credited = [j \in Jobs |-> 0]
        BY DEF Init
  <2> QED BY <2>1 DEF RefundedAtMostOnce
<1>2. ASSUME TypeOK, RefundedAtMostOnce, [Next]_vars
      PROVE  RefundedAtMostOnce'
  <2>1. CASE UNCHANGED <<charge, credited>>
        BY <1>2, <2>1 DEF RefundedAtMostOnce
  <2>2. ASSUME NEW w \in Workers, RefundCharge(w) PROVE RefundedAtMostOnce'
        BY <1>2, <2>2 DEF RefundCharge, RefundedAtMostOnce, TypeOK
  <2> QED BY <1>2, <2>1, <2>2, OnlyRefundChargeCredits
<1> QED BY <1>1, <1>2, TypeCorrect, PTL DEF SafeSpec
-----------------------------------------------------------------------------
(***************************************************************************)
(* Refunds follow exhaustion. Whoever is about to refund has seen, or      *)
(* made, the job FAILED by a final attempt: a FAILED row, the list of a    *)
(* sweeper, and the tail of a final attempt each stand for one. A requeue  *)
(* makes the row QUEUED again, so the history variable is needed.          *)
(***************************************************************************)
FailedForGood == \A j \in Jobs : status[j] = "FAILED" => j \in exhausted

OnTheWay ==
    \A w \in Workers :
        /\ pc[w] \in {"refund", "complete"} => job[w] \in exhausted
        /\ pc[w] = "tail" /\ final[w] => job[w] \in exhausted
        /\ todo[w] \subseteq exhausted

Exhaustion == TypeOK /\ Busy /\ RefundFollowsExhaustion /\ FailedForGood /\ OnTheWay

LEMMA WorkerExhaustion ==
    ASSUME Exhaustion, NEW w \in Workers, WorkerStep(w)
    PROVE  RefundFollowsExhaustion' /\ FailedForGood' /\ OnTheWay'
<1> USE DEF Exhaustion, RefundFollowsExhaustion, FailedForGood, OnTheWay, TypeOK, Busy,
            db, workers, Goto, SetStatus, CallRefund
<1>1. CASE Take(w)          BY <1>1 DEF Take
<1>2. CASE ReadState(w)
  <2>1. UNCHANGED <<charge, status, exhausted, job, final, todo>>
        BY <1>2 DEF ReadState
  <2>2. job[w] \in Jobs
        BY <1>2 DEF ReadState
  <2>3. CASE CallRefund(w, "return") /\ status[job[w]] = "FAILED"
        BY <2>1, <2>2, <2>3
  <2>4. CASE Goto(w, "return") \/ Goto(w, "handler")
        BY <2>1, <2>4
  <2> QED BY <1>2, <2>3, <2>4, ReadStateOutcomes
<1>3. CASE MarkRunning(w)   BY <1>3 DEF MarkRunning
<1>4. CASE MarkSucceeded(w) BY <1>4 DEF MarkSucceeded
<1>5. CASE Throws(w)        BY <1>5 DEF Throws
<1>6. CASE HandlerMarksFailed(w)
  <2>1. CASE final[w]  BY <1>6, <2>1 DEF HandlerMarksFailed, MarkFailed
  <2>2. CASE ~final[w] BY <1>6, <2>2 DEF HandlerMarksFailed, MarkFailed
  <2> QED BY <2>1, <2>2
<1>7. CASE GuardMarksFailed(w)
  <2>1. CASE final[w]  BY <1>7, <2>1 DEF GuardMarksFailed, MarkFailed
  <2>2. CASE ~final[w] BY <1>7, <2>2 DEF GuardMarksFailed, MarkFailed
  <2> QED BY <2>1, <2>2
<1>8. CASE Settle(w)        BY <1>8 DEF Settle, Terminal
<1>9. CASE SettleFails(w)   BY <1>9 DEF SettleFails
<1>10. CASE Tail(w)         BY <1>10 DEF Tail
<1>11. CASE Return(w) \/ Throw(w) BY <1>11 DEF Return, Throw, Finish
<1>12. CASE RefundCharge(w) BY <1>12 DEF RefundCharge
<1>13. CASE CompleteObligation(w) \/ DeferObligation(w)
       BY <1>13 DEF CompleteObligation, DeferObligation
<1>14. CASE SweepRead(w)    BY <1>14 DEF SweepRead
<1>15. CASE SweepNext(w)    BY <1>15 DEF SweepNext
<1> QED BY <1>1, <1>2, <1>3, <1>4, <1>5, <1>6, <1>7, <1>8, <1>9, <1>10, <1>11, <1>12,
           <1>13, <1>14, <1>15 DEF WorkerStep, AttemptStep, RefundStep, SweepStep

LEMMA StepExhaustion ==
    ASSUME Exhaustion, [Next]_vars
    PROVE  Exhaustion'
<1> USE DEF Exhaustion
<1>1. TypeOK' /\ Busy'
      BY StepTypeOK, StepBusy
<1> SUFFICES RefundFollowsExhaustion' /\ FailedForGood' /\ OnTheWay'
      BY <1>1
<1>2. ASSUME NEW w \in Workers, WorkerStep(w)
      PROVE  RefundFollowsExhaustion' /\ FailedForGood' /\ OnTheWay'
      BY <1>2, WorkerExhaustion
<1>3. CASE WorkerCrash
      BY <1>3 DEF WorkerCrash, db, RefundFollowsExhaustion, FailedForGood, OnTheWay
<1>4. CASE UNCHANGED <<charge, exhausted, workers>> /\ (\A j \in Jobs : status'[j] \in {status[j], "QUEUED"})
      BY <1>4 DEF workers, RefundFollowsExhaustion, FailedForGood, OnTheWay
<1>5. ASSUME NEW r \in Requests, NEW j \in Jobs, Create(r, j)
      PROVE  UNCHANGED <<charge, exhausted, workers>> /\ \A i \in Jobs : status'[i] \in {status[i], "QUEUED"}
      BY <1>5 DEF Create, TypeOK
<1>6. ASSUME NEW d \in Publishers, DispatchStep(d)
      PROVE  UNCHANGED <<charge, status, exhausted, workers>>
      BY <1>6 DEF DispatchStep, Add, AddFails, MarkRow, StaleReap, Select, RowsDone, Retire, db
<1>7. ASSUME NEW j \in Jobs, JobStep(j)
      PROVE  UNCHANGED <<charge, exhausted, workers>> /\ \A i \in Jobs : status'[i] \in {status[i], "QUEUED"}
      BY <1>7 DEF JobStep, Evict, StalledCheck, LoseLock, SeeFailed, DropGhost, Requeue,
                  SetStatus, Age, db, TypeOK
<1>8. ApiCrash \/ UNCHANGED vars => UNCHANGED <<charge, status, exhausted, workers>>
      BY DEF ApiCrash, vars, db
<1> QED BY <1>1, <1>2, <1>3, <1>4, <1>5, <1>6, <1>7, <1>8 DEF Next

(***************************************************************************)
(* No charge is reversed before a final attempt has given the job up,      *)
(* whatever is redelivered, swept, requeued or crashes in between.         *)
(***************************************************************************)
THEOREM RefundsFollowExhaustion == SafeSpec => []RefundFollowsExhaustion
<1>1. Init => Exhaustion
      BY InitTypeOK DEF Init, Exhaustion, RefundFollowsExhaustion, FailedForGood, OnTheWay
<1>2. Exhaustion /\ [Next]_vars => Exhaustion'
      BY StepExhaustion
<1>3. Exhaustion => RefundFollowsExhaustion
      BY DEF Exhaustion
<1> QED BY <1>1, <1>2, <1>3, PTL DEF SafeSpec
-----------------------------------------------------------------------------
(***************************************************************************)
(* The pipeline implements the promise PaidJob: for any number of jobs,    *)
(* slots, sweepers and dispatchers and any budget of faults, a job is      *)
(* charged, then delivered or refunded, never both and never twice, unless *)
(* a slot lost its lock on it or an operator requeued it. No conjunct of   *)
(* the argument is inductive alone:                                        *)
(*   - a slot that works on an undisturbed job holds the job's lock, so it *)
(*     is the only one (Exclusive), and a sweeper never runs an attempt    *)
(*     (Roles);                                                            *)
(*   - so what an attempt read or wrote last is still so (OnCourse), and a *)
(*     job that is FAILED or SUCCEEDED stays so (TerminalStays);           *)
(*   - so whoever is about to refund looks at a FAILED job (Refunding).    *)
(***************************************************************************)
Calm == Jobs \ disturbed

Exclusive ==
    /\ \A j \in Jobs : holder[j] # Nobody => bull[j] = "active"
    /\ \A w \in Slots : job[w] \in Calm => holder[job[w]] = w

Roles ==
    /\ \A w \in Sweepers : \/ pc[w] \in {"idle", "sweep"}
                           \/ pc[w] \in {"refund", "complete"} /\ then[w] = "sweep"
    /\ \A w \in Slots : /\ pc[w] # "sweep"
                        /\ pc[w] \in {"refund", "complete"} => then[w] \notin {"idle", "sweep"}

CourseOf(w) ==
    /\ pc[w] \in {"handler", "fail"} => status[job[w]] \notin Terminal
    /\ pc[w] = "work" => status[job[w]] = "RUNNING"
    /\ pc[w] = "settle" => final[w] \/ status[job[w]] # "FAILED"
    /\ pc[w] = "tail" => status[job[w]] = IF final[w] THEN "FAILED" ELSE "QUEUED"

OnCourse == \A w \in Workers : job[w] \in Calm => CourseOf(w)

RefundOf(w) ==
    pc[w] \in {"refund", "complete"} =>
        /\ job[w] \in Calm => status[job[w]] = "FAILED"
        /\ then[w] \in {"settle", "tail"} => final[w]

Refunding ==
    /\ \A w \in Workers : RefundOf(w)
    /\ \A w \in Workers : \A j \in todo[w] \ disturbed : status[j] = "FAILED"
    /\ \A j \in Calm : charge[j] = "reversed" => status[j] = "FAILED"

Course == TypeOK /\ Busy /\ Exclusive /\ Roles /\ OnCourse /\ Refunding

LEMMA InitCourse == Init => Course
<1> SUFFICES ASSUME Init PROVE Exclusive /\ Roles /\ OnCourse /\ Refunding
    BY InitTypeOK DEF Course
<1>1. \A w \in Workers : pc[w] = "idle" /\ job[w] = Nobody /\ todo[w] = {}
      BY DEF Init
<1>2. \A j \in Jobs : holder[j] = Nobody /\ charge[j] = "held"
      BY DEF Init
<1> QED BY <1>1, <1>2, NobodyAssumption
        DEF Exclusive, Roles, OnCourse, CourseOf, Refunding, RefundOf, Calm
-----------------------------------------------------------------------------
(***************************************************************************)
(* What a step of a worker can do to the jobs: it moves its own job only.  *)
(***************************************************************************)
Elsewhere(w) ==
    /\ UNCHANGED disturbed
    /\ \A j \in Jobs : j # job[w] => status'[j] = status[j] /\ charge'[j] = charge[j]

LEMMA WorkerStepsElsewhere ==
    ASSUME TypeOK, NEW w \in Workers, WorkerStep(w)
    PROVE  Elsewhere(w)
<1> USE DEF Elsewhere, TypeOK, db, SetStatus
<1>1. CASE Take(w) BY <1>1 DEF Take
<1>2. CASE ReadState(w) \/ Throws(w) \/ Settle(w) \/ SettleFails(w)
      BY <1>2 DEF ReadState, Throws, Settle, SettleFails
<1>3. CASE MarkRunning(w) \/ MarkSucceeded(w)
      BY <1>3 DEF MarkRunning, MarkSucceeded
<1>4. CASE HandlerMarksFailed(w) \/ GuardMarksFailed(w)
  <2>1. CASE final[w]
        BY <1>4, <2>1 DEF HandlerMarksFailed, GuardMarksFailed, MarkFailed
  <2>2. CASE ~final[w]
        BY <1>4, <2>2 DEF HandlerMarksFailed, GuardMarksFailed, MarkFailed
  <2> QED BY <2>1, <2>2
<1>5. CASE Tail(w) BY <1>5 DEF Tail
<1>6. CASE Return(w) \/ Throw(w) BY <1>6 DEF Return, Throw, Finish
<1>7. CASE RefundCharge(w) BY <1>7 DEF RefundCharge
<1>8. CASE CompleteObligation(w) \/ DeferObligation(w)
      BY <1>8 DEF CompleteObligation, DeferObligation
<1>9. CASE SweepRead(w) \/ SweepNext(w) BY <1>9 DEF SweepRead, SweepNext
<1> QED BY <1>1, <1>2, <1>3, <1>4, <1>5, <1>6, <1>7, <1>8, <1>9
        DEF WorkerStep, AttemptStep, RefundStep, SweepStep

(***************************************************************************)
(* ... and moves it along the life of a job: an undisturbed job that is    *)
(* SUCCEEDED or FAILED stays so, only work that is RUNNING succeeds, and   *)
(* only FAILED jobs are refunded.                                          *)
(***************************************************************************)
Moves(j) ==
    /\ status[j] \in Terminal => status'[j] = status[j]
    /\ status'[j] = "SUCCEEDED" => status[j] \in {"RUNNING", "SUCCEEDED"}
    /\ status[j] # "none" => status'[j] # "none"
    /\ charge'[j] # charge[j] =>
          charge[j] = "held" /\ charge'[j] = "reversed" /\ status[j] = "FAILED"

LEMMA WorkerMoves ==
    ASSUME Course, NEW w \in Workers, WorkerStep(w), NEW j \in Calm
    PROVE  Moves(j)
<1> USE DEF Course, TypeOK, db, SetStatus, Moves, Calm
<1>0. CASE j # job[w]
      BY <1>0, WorkerStepsElsewhere DEF Elsewhere, Terminal
<1>h. CASE j = job[w]
  <2>0. CourseOf(w) /\ RefundOf(w)
        BY <1>h DEF OnCourse, Refunding
  <2> USE <2>0, <1>h
  <2>1. CASE UNCHANGED <<status, charge>>
        BY <2>1 DEF Terminal
  <2>2. CASE MarkRunning(w)
        BY <2>2 DEF MarkRunning, CourseOf, Terminal
  <2>3. CASE MarkSucceeded(w)
        BY <2>3 DEF MarkSucceeded, CourseOf, Terminal
  <2>4. CASE HandlerMarksFailed(w) \/ GuardMarksFailed(w)
    <3>1. status'[j] \in {"QUEUED", "FAILED"} /\ UNCHANGED charge
          BY <2>4 DEF HandlerMarksFailed, GuardMarksFailed, MarkFailed
    <3>2. status[j] \notin Terminal
          BY <2>4 DEF HandlerMarksFailed, GuardMarksFailed, CourseOf, Terminal
    <3> QED BY <3>1, <3>2
  <2>5. CASE Tail(w)
        BY <2>5 DEF Tail, CourseOf, Terminal
  <2>6. CASE RefundCharge(w)
        BY <2>6 DEF RefundCharge, RefundOf, Terminal
  <2>7. \/ UNCHANGED <<status, charge>> \/ MarkRunning(w) \/ MarkSucceeded(w)
        \/ HandlerMarksFailed(w) \/ GuardMarksFailed(w) \/ Tail(w) \/ RefundCharge(w)
        BY DEF WorkerStep, AttemptStep, RefundStep, SweepStep, Take, ReadState, Throws, Settle,
               SettleFails, Return, Throw, Finish, CompleteObligation, DeferObligation,
               SweepRead, SweepNext
  <2> QED BY <2>1, <2>2, <2>3, <2>4, <2>5, <2>6, <2>7
<1> QED BY <1>0, <1>h

(***************************************************************************)
(* The other steps move an undisturbed job from nowhere to QUEUED at most. *)
(***************************************************************************)
Idle == UNCHANGED <<charge, workers>>

LEMMA OtherMoves ==
    ASSUME Course, [Next]_vars
    PROVE  \/ \E w \in Workers : WorkerStep(w)
           \/ WorkerCrash
           \/ \E i \in Jobs :
                /\ Idle
                /\ disturbed \subseteq disturbed' /\ disturbed' \subseteq disturbed \cup {i}
                /\ \A j \in Jobs : j # i => status'[j] = status[j]
                /\ i \notin disturbed' =>
                     status'[i] = status[i] \/ (status[i] = "none" /\ status'[i] = "QUEUED")
           \/ Idle /\ UNCHANGED <<status, disturbed>>
<1> USE DEF Course, TypeOK, Idle, db, workers
<1>1. ASSUME NEW r \in Requests, NEW i \in Jobs, Create(r, i)
      PROVE  Idle /\ UNCHANGED disturbed /\ status[i] = "none"
             /\ status' = [status EXCEPT ![i] = "QUEUED"]
      BY <1>1 DEF Create
<1>2. ASSUME NEW d \in Publishers, DispatchStep(d)
      PROVE  Idle /\ UNCHANGED <<status, disturbed>>
      BY <1>2 DEF DispatchStep, Add, AddFails, MarkRow, StaleReap, Select, RowsDone, Retire
<1>3. ASSUME NEW i \in Jobs, JobStep(i), ~Requeue(i)
      PROVE  /\ Idle /\ UNCHANGED status
             /\ disturbed \subseteq disturbed' /\ disturbed' \subseteq disturbed \cup {i}
      BY <1>3 DEF JobStep, Evict, StalledCheck, LoseLock, SeeFailed, DropGhost, Age
<1>4. ASSUME NEW i \in Jobs, Requeue(i)
      PROVE  /\ Idle /\ disturbed' = disturbed \cup {i}
             /\ \A j \in Jobs : j # i => status'[j] = status[j]
      BY <1>4 DEF Requeue, SetStatus
<1>5. ApiCrash \/ UNCHANGED vars => Idle /\ UNCHANGED <<status, disturbed>>
      BY DEF ApiCrash, vars
<1> QED BY <1>1, <1>2, <1>3, <1>4, <1>5 DEF Next
-----------------------------------------------------------------------------
(***************************************************************************)
(* Slots and sweepers keep to their parts.                                 *)
(***************************************************************************)
LEMMA OnlyOwnWorker ==
    ASSUME TypeOK, NEW w \in Workers, WorkerStep(w), NEW v \in Workers, v # w
    PROVE  /\ pc'[v] = pc[v] /\ job'[v] = job[v] /\ final'[v] = final[v]
           /\ then'[v] = then[v] /\ todo'[v] = todo[v]
<1> USE DEF TypeOK, Goto, CallRefund
<1>1. CASE Take(w) BY <1>1 DEF Take
<1>2. CASE ReadState(w)
  <2>1. UNCHANGED <<job, final, todo>> BY <1>2 DEF ReadState
  <2> QED BY <1>2, <2>1, ReadStateOutcomes
<1>3. CASE MarkRunning(w) \/ MarkSucceeded(w) \/ Throws(w)
      BY <1>3 DEF MarkRunning, MarkSucceeded, Throws
<1>4. CASE HandlerMarksFailed(w) \/ GuardMarksFailed(w)
  <2>1. CASE final[w]
        BY <1>4, <2>1 DEF HandlerMarksFailed, GuardMarksFailed, MarkFailed
  <2>2. CASE ~final[w]
        BY <1>4, <2>2 DEF HandlerMarksFailed, GuardMarksFailed, MarkFailed
  <2> QED BY <2>1, <2>2
<1>5. CASE Settle(w) \/ SettleFails(w) BY <1>5 DEF Settle, SettleFails
<1>6. CASE Tail(w) BY <1>6 DEF Tail
<1>7. CASE Return(w) \/ Throw(w) BY <1>7 DEF Return, Throw, Finish
<1>8. CASE RefundCharge(w) BY <1>8 DEF RefundCharge
<1>9. CASE CompleteObligation(w) BY <1>9 DEF CompleteObligation
<1>10. CASE DeferObligation(w) BY <1>10 DEF DeferObligation
<1>11. CASE SweepRead(w) BY <1>11 DEF SweepRead
<1>12. CASE SweepNext(w) BY <1>12 DEF SweepNext
<1> QED BY <1>1, <1>2, <1>3, <1>4, <1>5, <1>6, <1>7, <1>8, <1>9, <1>10, <1>11, <1>12
        DEF WorkerStep, AttemptStep, RefundStep, SweepStep

LEMMA OwnRole ==
    ASSUME TypeOK, Roles, NEW w \in Workers, WorkerStep(w)
    PROVE  /\ w \in Sweepers => \/ pc'[w] \in {"idle", "sweep"}
                                \/ pc'[w] \in {"refund", "complete"} /\ then'[w] = "sweep"
           /\ w \in Slots => /\ pc'[w] # "sweep"
                             /\ pc'[w] \in {"refund", "complete"} => then'[w] \notin {"idle", "sweep"}
<1> USE DisjointAssumption DEF TypeOK, Roles, Goto, CallRefund
<1>1. CASE Take(w) BY <1>1 DEF Take
<1>2. CASE ReadState(w)
  <2>1. pc[w] = "start" BY <1>2 DEF ReadState
  <2> QED BY <1>2, <2>1, ReadStateOutcomes
<1>3. CASE MarkRunning(w) \/ MarkSucceeded(w) \/ Throws(w)
      BY <1>3 DEF MarkRunning, MarkSucceeded, Throws
<1>4. CASE HandlerMarksFailed(w) \/ GuardMarksFailed(w)
  <2>1. CASE final[w]
        BY <1>4, <2>1 DEF HandlerMarksFailed, GuardMarksFailed, MarkFailed
  <2>2. CASE ~final[w]
        BY <1>4, <2>2 DEF HandlerMarksFailed, GuardMarksFailed, MarkFailed
  <2> QED BY <2>1, <2>2
<1>5. CASE Settle(w) BY <1>5 DEF Settle, Terminal
<1>6. CASE SettleFails(w) \/ Tail(w) BY <1>6 DEF SettleFails, Tail
<1>7. CASE Return(w) \/ Throw(w) BY <1>7 DEF Return, Throw, Finish
<1>8. CASE RefundCharge(w) BY <1>8 DEF RefundCharge
<1>9. CASE CompleteObligation(w) \/ DeferObligation(w)
      BY <1>9 DEF CompleteObligation, DeferObligation
<1>10. CASE SweepRead(w) BY <1>10 DEF SweepRead
<1>11. CASE SweepNext(w) BY <1>11 DEF SweepNext
<1> QED BY <1>1, <1>2, <1>3, <1>4, <1>5, <1>6, <1>7, <1>8, <1>9, <1>10, <1>11
        DEF WorkerStep, AttemptStep, RefundStep, SweepStep

LEMMA StepRoles ==
    ASSUME Course, [Next]_vars
    PROVE  Roles'
<1> USE DEF Course
<1>1. ASSUME NEW w \in Workers, WorkerStep(w) PROVE Roles'
      BY <1>1, OwnRole, OnlyOwnWorker DEF Roles
<1>2. CASE WorkerCrash BY <1>2 DEF WorkerCrash, Roles
<1>3. CASE UNCHANGED workers BY <1>3 DEF workers, Roles
<1> QED BY <1>1, <1>2, <1>3, OtherMoves DEF Idle

(***************************************************************************)
(* One slot at a time: BullMQ hands a job out when no slot holds its lock, *)
(* and a lock ends with the attempt, a crash, or a disturbance.            *)
(***************************************************************************)
LEMMA WorkerExclusive ==
    ASSUME Course, NEW w \in Workers, WorkerStep(w)
    PROVE  Exclusive'
<1> USE DEF Course, Exclusive, Calm, TypeOK
<1>1. UNCHANGED disturbed
      BY WorkerStepsElsewhere DEF Elsewhere
<1>2. CASE Take(w)
  <2>1. PICK j \in Jobs : /\ bull[j] = "wait"
                          /\ bull'   = [bull EXCEPT ![j] = "active"]
                          /\ holder' = [holder EXCEPT ![j] = w]
                          /\ job'    = [job EXCEPT ![w] = j]
        BY <1>2 DEF Take
  <2>2. \A v \in Slots : job[v] = j => j \in disturbed
        BY <2>1, NobodyAssumption
  <2> QED BY <1>1, <2>1, <2>2
<1>3. CASE Return(w) \/ Throw(w)
  <2>1. pc[w] \in {"return", "throw"} /\ w \in Slots
        BY <1>3, DisjointAssumption DEF Return, Throw, Roles
  <2>2. job' = [job EXCEPT ![w] = Nobody] /\ job[w] \in Jobs
        BY <1>3, <2>1 DEF Return, Throw, Finish, Busy
  <2>3. CASE holder[job[w]] = w
    <3>1. /\ \E b : bull' = [bull EXCEPT ![job[w]] = b]
          /\ holder' = [holder EXCEPT ![job[w]] = Nobody]
          BY <1>3, <2>3 DEF Return, Throw, Finish
    <3> QED BY <1>1, <2>1, <2>2, <2>3, <3>1, NobodyAssumption
  <2>4. CASE holder[job[w]] # w
        BY <1>1, <1>3, <2>1, <2>2, <2>4, NobodyAssumption DEF Return, Throw, Finish
  <2> QED BY <2>3, <2>4
<1>4. CASE SweepNext(w)
  <2>1. w \notin Slots /\ UNCHANGED <<holder, bull>>
        BY <1>4 DEF SweepNext, Roles, redis
  <2>2. \A v \in Slots : job'[v] = job[v]
        BY <2>1, OnlyOwnWorker
  <2> QED BY <1>1, <2>1, <2>2
<1>5. CASE UNCHANGED <<holder, bull, job>>
      BY <1>1, <1>5
<1>6. \/ Take(w) \/ Return(w) \/ Throw(w) \/ SweepNext(w) \/ UNCHANGED <<holder, bull, job>>
      BY DEF WorkerStep, AttemptStep, RefundStep, SweepStep, ReadState, MarkRunning,
             MarkSucceeded, Throws, HandlerMarksFailed, GuardMarksFailed, Settle, SettleFails,
             Tail, RefundCharge, CompleteObligation, DeferObligation, SweepRead, redis
<1> QED BY <1>2, <1>3, <1>4, <1>5, <1>6

LEMMA StepExclusive ==
    ASSUME Course, [Next]_vars
    PROVE  Exclusive'
<1> USE DEF Course, Exclusive, Calm, TypeOK, redis, workers
<1>1. ASSUME NEW w \in Workers, WorkerStep(w) PROVE Exclusive'
      BY <1>1, WorkerExclusive
<1>2. CASE WorkerCrash
      BY <1>2, NobodyAssumption DEF WorkerCrash
<1>3. ASSUME NEW d \in Publishers, DispatchStep(d) PROVE Exclusive'
  <2>1. CASE Add(d) \/ AddFails(d)
    <3>1. UNCHANGED <<job, holder, disturbed>>
          BY <2>1 DEF Add, AddFails, Published
    <3>2. \A j \in Jobs : bull[j] = "active" => bull'[j] = "active"
          BY <2>1 DEF Add, AddFails, Published
    <3> QED BY <3>1, <3>2
  <2>2. CASE UNCHANGED <<redis, workers, disturbed>> BY <2>2
  <2> QED BY <1>3, <2>1, <2>2
          DEF DispatchStep, MarkRow, StaleReap, Select, RowsDone, Retire
<1>4. ASSUME NEW j \in Jobs, JobStep(j) PROVE Exclusive'
  <2>1. UNCHANGED job /\ disturbed \subseteq disturbed'
        BY <1>4 DEF JobStep, Evict, StalledCheck, LoseLock, SeeFailed, DropGhost, Requeue, Age
  <2>2. CASE Evict(j) \/ DropGhost(j)
        BY <2>1, <2>2 DEF Evict, DropGhost
  <2>3. CASE StalledCheck(j)
        BY <2>1, <2>3, NobodyAssumption DEF StalledCheck, Stalled
  <2>4. CASE LoseLock(j)
    <3>1. /\ disturbed' = disturbed \cup {j} /\ holder' = [holder EXCEPT ![j] = Nobody]
          /\ \A i \in Jobs : i # j => bull'[i] = bull[i]
          BY <2>4 DEF LoseLock, Stalled
    <3> QED BY <2>1, <3>1
  <2>5. CASE SeeFailed(j) \/ Requeue(j) \/ Age(j)
        BY <2>1, <2>5 DEF SeeFailed, Requeue, Age
  <2> QED BY <1>4, <2>2, <2>3, <2>4, <2>5 DEF JobStep
<1>5. ASSUME NEW r \in Requests, NEW j \in Jobs, Create(r, j) PROVE Exclusive'
      BY <1>5 DEF Create
<1>6. CASE ApiCrash \/ UNCHANGED vars
      BY <1>6 DEF ApiCrash, vars
<1> QED BY <1>1, <1>2, <1>3, <1>4, <1>5, <1>6 DEF Next
-----------------------------------------------------------------------------
(***************************************************************************)
(* A worker's own step keeps its course.                                   *)
(***************************************************************************)
LEMMA OwnCourse ==
    ASSUME Course, NEW w \in Workers, WorkerStep(w)
    PROVE  /\ job'[w] \in Calm' => CourseOf(w)'
           /\ RefundOf(w)'
           /\ \A j \in todo'[w] \ disturbed' : status'[j] = "FAILED"
<1> USE DEF Course, TypeOK, Busy, db, workers, Goto, SetStatus, CallRefund, CourseOf, RefundOf, Calm
<1>1. UNCHANGED disturbed
      BY WorkerStepsElsewhere DEF Elsewhere
<1>2. /\ job[w] \in Calm => CourseOf(w)
      /\ RefundOf(w)
      /\ \A j \in todo[w] \ disturbed : status[j] = "FAILED"
      BY DEF OnCourse, Refunding
<1>3. \A j \in todo[w] \ disturbed : status'[j] = "FAILED"
      BY <1>2, WorkerMoves DEF Moves, Terminal
<1> USE <1>1, <1>2, <1>3
<1>4. CASE Take(w) BY <1>4 DEF Take
<1>5. CASE ReadState(w)
  <2>1. UNCHANGED <<status, job, final, todo>>
        BY <1>5 DEF ReadState
  <2>2. CASE CallRefund(w, "return") /\ status[job[w]] = "FAILED"
        BY <2>1, <2>2
  <2>3. CASE Goto(w, "return") /\ UNCHANGED then
        BY <2>1, <2>3
  <2>4. CASE Goto(w, "handler") /\ UNCHANGED then
    <3>1. status[job[w]] \notin Terminal
          BY ZenonT(60), <1>5, <2>4 DEF ReadState, Terminal
    <3> QED BY <2>1, <2>4, <3>1
  <2> QED BY <1>5, <2>2, <2>3, <2>4, ReadStateOutcomes
<1>6. CASE MarkRunning(w) BY <1>6 DEF MarkRunning
<1>7. CASE MarkSucceeded(w) BY <1>7 DEF MarkSucceeded
<1>8. CASE Throws(w) BY <1>8 DEF Throws, Terminal
<1>9. CASE HandlerMarksFailed(w)
  <2>0. UNCHANGED <<job, final, todo>> /\ pc[w] = "work" /\ job[w] \in Jobs
        BY <1>9 DEF HandlerMarksFailed
  <2>1. CASE final[w]
    <3>1. pc'[w] = "refund" /\ then'[w] = "settle" /\ status'[job[w]] = "FAILED"
          BY <1>9, <2>0, <2>1 DEF HandlerMarksFailed, MarkFailed
    <3> QED BY <2>0, <2>1, <3>1
  <2>2. CASE ~final[w]
    <3>1. pc'[w] = "settle" /\ status'[job[w]] = "QUEUED"
          BY <1>9, <2>0, <2>2 DEF HandlerMarksFailed, MarkFailed
    <3> QED BY <2>0, <2>2, <3>1
  <2> QED BY <2>1, <2>2
<1>10. CASE GuardMarksFailed(w)
  <2>0. UNCHANGED <<job, final, todo>> /\ pc[w] = "fail" /\ job[w] \in Jobs
        BY <1>10 DEF GuardMarksFailed
  <2>1. CASE final[w]
    <3>1. pc'[w] = "refund" /\ then'[w] = "tail" /\ status'[job[w]] = "FAILED"
          BY <1>10, <2>0, <2>1 DEF GuardMarksFailed, MarkFailed
    <3> QED BY <2>0, <2>1, <3>1
  <2>2. CASE ~final[w]
    <3>1. pc'[w] = "tail" /\ status'[job[w]] = "QUEUED"
          BY <1>10, <2>0, <2>2 DEF GuardMarksFailed, MarkFailed
    <3> QED BY <2>0, <2>2, <3>1
  <2> QED BY <2>1, <2>2
<1>11. CASE Settle(w) BY <1>11 DEF Settle, Terminal
<1>12. CASE SettleFails(w) BY <1>12 DEF SettleFails
<1>13. CASE Tail(w) BY <1>13 DEF Tail
<1>14. CASE Return(w) \/ Throw(w)
       BY <1>14, NobodyAssumption DEF Return, Throw, Finish
<1>15. CASE RefundCharge(w) BY <1>15 DEF RefundCharge
<1>16. CASE CompleteObligation(w) \/ DeferObligation(w)
  <2>1. UNCHANGED <<status, job, final, then, todo>> /\ pc'[w] = then[w]
        /\ pc[w] \in {"refund", "complete"}
        BY <1>16 DEF CompleteObligation, DeferObligation
  <2>2. then[w] \in {"return", "settle", "tail", "throw", "sweep"}
        BY <2>1, DisjointAssumption DEF Roles
  <2> QED BY <2>1, <2>2
<1>17. CASE SweepRead(w) BY <1>17 DEF SweepRead
<1>18. CASE SweepNext(w)
  <2>0. w \in Sweepers /\ UNCHANGED <<status, final>>
        BY <1>18 DEF SweepNext, Roles
  <2>1. CASE todo[w] = {} BY <1>18, <2>0, <2>1, NobodyAssumption DEF SweepNext
  <2>2. CASE todo[w] # {}
    <3>1. PICK j \in todo[w] : /\ job'  = [job EXCEPT ![w] = j]
                               /\ todo' = [todo EXCEPT ![w] = @ \ {j}]
                               /\ CallRefund(w, "sweep")
          BY <1>18, <2>2 DEF SweepNext
    <3> QED BY <2>0, <3>1
  <2> QED BY <2>1, <2>2
<1> QED BY <1>4, <1>5, <1>6, <1>7, <1>8, <1>9, <1>10, <1>11, <1>12, <1>13, <1>14, <1>15,
           <1>16, <1>17, <1>18
        DEF WorkerStep, AttemptStep, RefundStep, SweepStep

(***************************************************************************)
(* Nobody else disturbs it: other slots work on other jobs, and a sweeper  *)
(* looks at jobs that stay FAILED.                                         *)
(***************************************************************************)
LEMMA WorkerCourse ==
    ASSUME Course, NEW w \in Workers, WorkerStep(w)
    PROVE  OnCourse' /\ Refunding'
<1> USE DEF Course
<1>1. UNCHANGED disturbed
      BY WorkerStepsElsewhere DEF Elsewhere
<1>2. \A j \in Calm : Moves(j)
      BY WorkerMoves
<1>3. \A j \in Calm : charge'[j] = "reversed" => status'[j] = "FAILED"
      BY <1>2 DEF Moves, Refunding, Terminal
<1>4. ASSUME NEW v \in Workers, v # w
      PROVE  /\ job'[v] \in Calm' => CourseOf(v)'
             /\ RefundOf(v)'
             /\ \A j \in todo'[v] \ disturbed' : status'[j] = "FAILED"
  <2>1. /\ pc'[v] = pc[v] /\ job'[v] = job[v] /\ final'[v] = final[v]
        /\ then'[v] = then[v] /\ todo'[v] = todo[v]
        BY <1>4, OnlyOwnWorker
  <2>2. \A j \in todo'[v] \ disturbed' : status'[j] = "FAILED"
    <3>1. \A j \in todo[v] \ disturbed : j \in Calm /\ status[j] = "FAILED"
          BY DEF Refunding, TypeOK, Calm
    <3> QED BY <1>1, <1>2, <2>1, <3>1 DEF Moves, Terminal
  <2>3. RefundOf(v)'
        BY <1>1, <1>2, <2>1 DEF Refunding, RefundOf, Moves, Terminal, Calm
  <2>4. ASSUME job[v] \in Calm PROVE CourseOf(v)'
    <3>1. CASE v \in Sweepers
          BY <2>1, <3>1 DEF Roles, CourseOf
    <3>2. CASE v \in Slots /\ w \in Slots
      <4>1. job[v] # job[w]
            BY <1>4, <2>4, <3>2 DEF Exclusive
      <4>2. status'[job[v]] = status[job[v]]
            BY <2>4, <4>1, WorkerStepsElsewhere DEF Elsewhere, Calm
      <4> QED BY <2>1, <2>4, <4>2 DEF OnCourse, CourseOf
    <3>3. CASE w \in Sweepers
      <4>1. UNCHANGED status
            BY <3>3 DEF WorkerStep, AttemptStep, RefundStep, SweepStep, Take, ReadState,
                        MarkRunning, MarkSucceeded, Throws, HandlerMarksFailed,
                        GuardMarksFailed, Settle, SettleFails, Tail, Return, Throw, Finish,
                        RefundCharge, CompleteObligation, DeferObligation, SweepRead,
                        SweepNext, Roles, db
      <4> QED BY <2>1, <2>4, <4>1 DEF OnCourse, CourseOf
    <3> QED BY <3>1, <3>2, <3>3
  <2> QED BY <1>1, <2>1, <2>2, <2>3, <2>4 DEF Calm
<1>5. \A v \in Workers : /\ job'[v] \in Calm' => CourseOf(v)'
                         /\ RefundOf(v)'
                         /\ \A j \in todo'[v] \ disturbed' : status'[j] = "FAILED"
      BY <1>4, OwnCourse
<1> QED BY <1>1, <1>3, <1>5 DEF OnCourse, Refunding, Calm

LEMMA StepCourse ==
    ASSUME Course, [Next]_vars
    PROVE  Course'
<1> USE DEF Course
<1>1. TypeOK' /\ Busy' /\ Exclusive' /\ Roles'
      BY StepTypeOK, StepBusy, StepExclusive, StepRoles
<1> SUFFICES OnCourse' /\ Refunding'
    BY <1>1
<1>2. ASSUME NEW w \in Workers, WorkerStep(w)
      PROVE  OnCourse' /\ Refunding'
      BY <1>2, WorkerCourse
<1>3. CASE WorkerCrash
  <2>1. /\ \A w \in Workers : pc'[w] = "idle" /\ job'[w] = Nobody /\ todo'[w] = {}
        /\ UNCHANGED <<status, charge, disturbed>>
        BY <1>3 DEF WorkerCrash, db
  <2> QED BY <2>1, NobodyAssumption DEF OnCourse, Refunding, RefundOf, Calm
<1>4. ASSUME NEW i \in Jobs, Idle, disturbed \subseteq disturbed',
             \A j \in Jobs : j # i => status'[j] = status[j],
             i \notin disturbed' =>
                 status'[i] = status[i] \/ (status[i] = "none" /\ status'[i] = "QUEUED")
      PROVE  OnCourse' /\ Refunding'
  <2>1. \A j \in Calm' : /\ j \in Calm
                         /\ \/ status'[j] = status[j]
                            \/ status[j] = "none" /\ status'[j] = "QUEUED"
        BY <1>4 DEF Calm
  <2>2. UNCHANGED <<pc, job, final, then, todo, charge>>
        BY <1>4 DEF Idle, workers
  <2>3. OnCourse'
        BY <2>1, <2>2 DEF OnCourse, CourseOf, Terminal
  <2>4. \A w \in Workers : \A j \in todo[w] \ disturbed' : j \in Calm'
        BY DEF TypeOK, Calm
  <2> QED BY <1>4, <2>1, <2>2, <2>3, <2>4 DEF Refunding, RefundOf
<1>5. CASE Idle /\ UNCHANGED <<status, disturbed>>
      BY <1>5 DEF Idle, workers, OnCourse, CourseOf, Refunding, RefundOf, Calm
<1> QED BY <1>2, <1>3, <1>4, <1>5, OtherMoves

LEMMA AlwaysCourse == SafeSpec => []Course
<1>1. Init => Course BY InitCourse
<1>2. Course /\ [Next]_vars => Course' BY StepCourse
<1> QED BY <1>1, <1>2, PTL DEF SafeSpec

(***************************************************************************)
(* What a job that stays undisturbed can go through in one step.           *)
(***************************************************************************)
LEMMA JobMoves ==
    ASSUME Course, [Next]_vars, NEW j \in Calm'
    PROVE  j \in Calm /\ Moves(j)
<1> USE DEF Calm
<1>1. ASSUME NEW w \in Workers, WorkerStep(w)
      PROVE  j \in Calm /\ Moves(j)
  <2>1. UNCHANGED disturbed
        BY <1>1, WorkerStepsElsewhere DEF Elsewhere, Course
  <2> QED BY <1>1, <2>1, WorkerMoves
<1>2. CASE WorkerCrash
      BY <1>2 DEF WorkerCrash, db, Moves, Course, TypeOK, Terminal
<1>3. ASSUME NEW i \in Jobs, Idle, disturbed \subseteq disturbed',
             \A k \in Jobs : k # i => status'[k] = status[k],
             i \notin disturbed' =>
                 status'[i] = status[i] \/ (status[i] = "none" /\ status'[i] = "QUEUED")
      PROVE  j \in Calm /\ Moves(j)
      BY <1>3 DEF Idle, Moves, Terminal
<1>4. CASE Idle /\ UNCHANGED <<status, disturbed>>
      BY <1>4 DEF Idle, Moves, Terminal
<1> QED BY <1>1, <1>2, <1>3, <1>4, OtherMoves
-----------------------------------------------------------------------------
(***************************************************************************)
(* A refund obligation sits on the row of a FAILED job, where the sweeper  *)
(* finds it and the dispatcher does not publish it.                        *)
(***************************************************************************)
LEMMA StepObligation ==
    ASSUME Course, ObligationOnFailedJob, [Next]_vars
    PROVE  ObligationOnFailedJob'
<1> SUFFICES ASSUME NEW j \in Jobs \ disturbed', lastError'[j] = "refund_pending"
             PROVE  status'[j] = "FAILED" /\ outbox'[j] = "FAILED"
    BY DEF ObligationOnFailedJob
<1>1. j \in Calm /\ Moves(j)
      BY JobMoves DEF Calm
<1>2. CASE lastError[j] = "refund_pending" /\ outbox'[j] = outbox[j]
      BY <1>1, <1>2 DEF ObligationOnFailedJob, Moves, Terminal, Calm
<1> USE DEF Course, TypeOK, db
<1>3. ASSUME NEW d \in Publishers, DispatchStep(d)
      PROVE  lastError[j] = "refund_pending" /\ outbox'[j] = outbox[j]
  <2>1. CASE MarkRow(d)
        BY <2>1 DEF MarkRow
  <2>2. CASE StaleReap(d) \/ Retire(d)
        BY <2>2 DEF StaleReap, Retire, Reap
  <2> QED BY <1>3, <2>1, <2>2 DEF DispatchStep, Add, AddFails, Select, RowsDone
<1>4. ASSUME NEW w \in Workers, HandlerMarksFailed(w) \/ GuardMarksFailed(w)
      PROVE  status'[j] = "FAILED" /\ outbox'[j] = "FAILED"
  <2>1. CASE final[w] /\ job[w] = j
        BY <1>4, <2>1 DEF HandlerMarksFailed, GuardMarksFailed, MarkFailed, SetStatus
  <2>2. CASE ~final[w] \/ job[w] # j
        BY <1>2, <1>4, <2>2 DEF HandlerMarksFailed, GuardMarksFailed, MarkFailed
  <2> QED BY <2>1, <2>2
<1>5. ASSUME NEW w \in Workers, CompleteObligation(w)
      PROVE  lastError[j] = "refund_pending" /\ outbox'[j] = outbox[j]
  <2>1. CASE job[w] = j
        BY <1>5, <2>1 DEF CompleteObligation
  <2>2. CASE job[w] # j
        BY <1>5, <2>2 DEF CompleteObligation
  <2> QED BY <2>1, <2>2
<1>6. ASSUME NEW w \in Workers, DeferObligation(w)
      PROVE  status'[j] = "FAILED" /\ outbox'[j] = "FAILED"
      BY <1>6 DEF DeferObligation, ObligationOnFailedJob, Calm
<1>7. ASSUME NEW w \in Workers, WorkerStep(w),
             ~HandlerMarksFailed(w), ~GuardMarksFailed(w), ~CompleteObligation(w), ~DeferObligation(w)
      PROVE  lastError[j] = "refund_pending" /\ outbox'[j] = outbox[j]
      BY <1>7 DEF WorkerStep, AttemptStep, RefundStep, SweepStep, Take, ReadState, MarkRunning,
                  MarkSucceeded, Throws, Settle, SettleFails, Tail, Return, Throw, Finish,
                  RefundCharge, SweepRead, SweepNext
<1>8. ASSUME NEW i \in Jobs, JobStep(i)
      PROVE  lastError[j] = "refund_pending" /\ outbox'[j] = outbox[j]
      BY <1>8 DEF JobStep, Evict, StalledCheck, LoseLock, SeeFailed, DropGhost, Requeue, Age
<1>9. ASSUME NEW r \in Requests, NEW i \in Jobs, Create(r, i)
      PROVE  status'[j] = "FAILED" /\ outbox'[j] = "FAILED"
      BY <1>9 DEF Create, ObligationOnFailedJob, Calm
<1>10. CASE WorkerCrash \/ ApiCrash \/ UNCHANGED vars
       BY <1>2, <1>10 DEF WorkerCrash, ApiCrash, vars
<1> QED BY <1>2, <1>3, <1>4, <1>5, <1>6, <1>7, <1>8, <1>9, <1>10 DEF Next

THEOREM ObligationsStayDue == SafeSpec => []ObligationOnFailedJob
<1>1. Init => ObligationOnFailedJob
  <2>1. Init => lastError = [j \in Jobs |-> "null"] BY DEF Init
  <2> QED BY <2>1 DEF ObligationOnFailedJob
<1>2. Course /\ ObligationOnFailedJob /\ [Next]_vars => ObligationOnFailedJob'
      BY StepObligation
<1> QED BY <1>1, <1>2, AlwaysCourse, PTL DEF SafeSpec
-----------------------------------------------------------------------------
(***************************************************************************)
(* No dispatched row is lost, as long as the guard can record outcomes and *)
(* no more processes die than BullMQ forgives stalls: the budget of faults *)
(* a behaviour starts with. For the rest the faults are free. The argument *)
(* follows a row from its creation:                                        *)
(*   - nothing is known of a job before its row is there (Unknown);        *)
(*   - what an attempt counted at its start still holds, and one that is   *)
(*     about to leave BullMQ for good has settled the row (Attempting);    *)
(*   - each stall of an undisturbed job was paid for by a crash (Stalling);*)
(*   - an operator acts on a job that is FAILED (Requeueing);              *)
(*   - so while its row is open the job is in BullMQ, or it was never      *)
(*     published and nobody is about to say it was (Queued).               *)
(***************************************************************************)
Forgiven == left["settle"] = 0 /\ left["crash"] <= MaxStalled

Fresh     == Calm \ aged
Live      == {"QUEUED", "RUNNING"}
InBull(j) == bull[j] \in {"wait", "active"}

Unknown ==
    \A j \in Calm : status[j] = "none" =>
        bull[j] = "absent" /\ \A d \in Publishers : at[d] # j /\ j \notin rows[d]

Attempting ==
    \A w \in Slots : job[w] \in Calm =>
        /\ final[w] = (made[job[w]] + 1 >= Attempts)
        /\ pc[w] = "return" => status[job[w]] \in Terminal
        /\ pc[w] = "throw" /\ final[w] => status[job[w]] = "FAILED"

Stalling ==
    \A j \in Calm :
        /\ stalls[j] + left["crash"] <= MaxStalled
        /\ bull[j] = "active" /\ holder[j] = Nobody => stalls[j] + left["crash"] < MaxStalled

Requeueing == \A j \in Calm : requeue[j] # "idle" => status[j] = "FAILED"

\* Somebody is about to write that the job was dispatched.
Vouched(j) == \E d \in Publishers : \/ dpc[d] = "mark" /\ at[d] = j
                                    \/ dpc[d] = "retire" /\ j \in rows[d]

QueuedOf(j) ==
    /\ InBull(j) \/ bull[j] = "absent"
    /\ status[j] = "RUNNING" \/ outbox[j] = "DISPATCHED" \/ Vouched(j) => InBull(j)

Queued == \A j \in Fresh : status[j] \in Live => QueuedOf(j)

Kept == Forgiven /\ Unknown /\ Attempting /\ Stalling /\ Requeueing /\ Queued

LEMMA InitKept == Init /\ Forgiven => Kept
<1> SUFFICES ASSUME Init, Forgiven PROVE Kept
    OBVIOUS
<1>1. \A j \in Jobs : /\ status[j] = "none" /\ bull[j] = "absent" /\ stalls[j] = 0
                      /\ requeue[j] = "idle" /\ outbox[j] = "none"
      BY DEF Init
<1>2. \A w \in Workers : job[w] = Nobody
      BY DEF Init
<1>3. \A d \in Publishers : at[d] = Nobody /\ rows[d] = {}
      BY DEF Init
<1>4. TypeOK
      BY InitTypeOK
<1>5. left["crash"] \in Nat
      BY <1>4 DEF TypeOK, Faults
<1> QED BY <1>1, <1>2, <1>3, <1>5, NobodyAssumption, AttemptsAssumption
        DEF Kept, Forgiven, Unknown, Attempting, Stalling, Requeueing, Queued, Calm, Fresh, Live

(***************************************************************************)
(* Faults are only spent.                                                  *)
(***************************************************************************)
LEMMA FaultsSpent ==
    ASSUME TypeOK, [Next]_vars, NEW f \in Faults
    PROVE  left[f] \in Nat /\ left'[f] \in Nat /\ left'[f] <= left[f]
<1> USE DEF TypeOK
<1>0. \A g : Spend(g) => left'[f] \in Nat /\ left'[f] <= left[f]
      BY DEF Spend
<1>1. CASE UNCHANGED left
      BY <1>1
<1>2. ASSUME NEW r \in Requests, NEW j \in Jobs, Create(r, j)
      PROVE  UNCHANGED left
      BY <1>2 DEF Create
<1>3. ASSUME NEW d \in Publishers, DispatchStep(d)
      PROVE  UNCHANGED left \/ \E g : Spend(g)
      BY <1>3 DEF DispatchStep, Add, AddFails, MarkRow, StaleReap, Select, RowsDone, Retire
<1>4. ASSUME NEW w \in Workers, WorkerStep(w)
      PROVE  UNCHANGED left \/ \E g : Spend(g)
      BY <1>4 DEF WorkerStep, AttemptStep, RefundStep, SweepStep, Take, ReadState, MarkRunning,
                  MarkSucceeded, Throws, HandlerMarksFailed, GuardMarksFailed, Settle, SettleFails,
                  Tail, Return, Throw, Finish, RefundCharge, CompleteObligation, DeferObligation,
                  SweepRead, SweepNext
<1>5. ASSUME NEW j \in Jobs, JobStep(j)
      PROVE  UNCHANGED left \/ \E g : Spend(g)
      BY <1>5 DEF JobStep, Evict, StalledCheck, LoseLock, SeeFailed, DropGhost, Requeue, Age
<1>6. CASE WorkerCrash \/ ApiCrash
      BY <1>0, <1>6 DEF WorkerCrash, ApiCrash
<1>7. CASE UNCHANGED vars
      BY <1>7 DEF vars
<1> QED BY <1>0, <1>1, <1>2, <1>3, <1>4, <1>5, <1>6, <1>7 DEF Next

LEMMA StepForgiven ==
    ASSUME TypeOK, Forgiven, [Next]_vars
    PROVE  Forgiven'
BY FaultsSpent, AttemptsAssumption DEF Forgiven, Faults

(***************************************************************************)
(* What the workers do to BullMQ, and whose row they write.                *)
(***************************************************************************)
LEMMA WorkerRedis ==
    ASSUME NEW w \in Workers, WorkerStep(w)
    PROVE  Take(w) \/ Return(w) \/ Throw(w) \/ UNCHANGED redis
BY DEF WorkerStep, AttemptStep, RefundStep, SweepStep, ReadState, MarkRunning, MarkSucceeded,
       Throws, HandlerMarksFailed, GuardMarksFailed, Settle, SettleFails, Tail, RefundCharge,
       CompleteObligation, DeferObligation, SweepRead, SweepNext

LEMMA WorkerApi ==
    ASSUME NEW w \in Workers, WorkerStep(w)
    PROVE  UNCHANGED <<api, requeue, aged>>
BY DEF WorkerStep, AttemptStep, RefundStep, SweepStep, Take, ReadState, MarkRunning,
       MarkSucceeded, Throws, HandlerMarksFailed, GuardMarksFailed, Settle, SettleFails, Tail,
       Return, Throw, Finish, RefundCharge, CompleteObligation, DeferObligation, SweepRead,
       SweepNext

LEMMA WorkerRows ==
    ASSUME TypeOK, NEW w \in Workers, WorkerStep(w), NEW j \in Jobs, j # job[w]
    PROVE  outbox'[j] = outbox[j]
<1> USE DEF TypeOK, db
<1>1. CASE HandlerMarksFailed(w) \/ GuardMarksFailed(w)
  <2>1. CASE final[w]
        BY <1>1, <2>1 DEF HandlerMarksFailed, GuardMarksFailed, MarkFailed
  <2>2. CASE ~final[w]
        BY <1>1, <2>2 DEF HandlerMarksFailed, GuardMarksFailed, MarkFailed
  <2> QED BY <1>1, <2>1, <2>2
<1>2. CASE CompleteObligation(w) BY <1>2 DEF CompleteObligation
<1>3. CASE DeferObligation(w) BY <1>3 DEF DeferObligation
<1>4. CASE UNCHANGED outbox BY <1>4
<1> QED BY <1>1, <1>2, <1>3, <1>4
        DEF WorkerStep, AttemptStep, RefundStep, SweepStep, Take, ReadState, MarkRunning,
            MarkSucceeded, Throws, Settle, SettleFails, Tail, Return, Throw, Finish, RefundCharge,
            SweepRead, SweepNext

(***************************************************************************)
(* A slot at work on an undisturbed job has it active in BullMQ.           *)
(***************************************************************************)
LEMMA AtWork ==
    ASSUME Course, NEW w \in Slots, job[w] \in Calm
    PROVE  holder[job[w]] = w /\ bull[job[w]] = "active"
BY NobodyAssumption DEF Course, Exclusive, Calm

LEMMA StepUnknown ==
    ASSUME Course, Kept, [Next]_vars
    PROVE  Unknown'
<1> SUFFICES ASSUME NEW j \in Calm', status'[j] = "none"
             PROVE  bull'[j] = "absent" /\ \A d \in Publishers : at'[d] # j /\ j \notin rows'[d]
    BY DEF Unknown
<1>1. j \in Calm /\ status[j] = "none"
      BY JobMoves DEF Moves
<1>2. bull[j] = "absent" /\ \A d \in Publishers : at[d] # j /\ j \notin rows[d]
      BY <1>1 DEF Kept, Unknown
<1>3. j \in Jobs
      BY <1>1 DEF Calm
<1> USE <1>1, <1>2, <1>3, NobodyAssumption DEF Course, TypeOK
<1>4. ASSUME NEW r \in Requests, NEW i \in Jobs, Create(r, i)
      PROVE  bull'[j] = "absent" /\ \A d \in Publishers : at'[d] # j /\ j \notin rows'[d]
      BY <1>4 DEF Create, redis
<1>5. ASSUME NEW d \in Publishers, DispatchStep(d)
      PROVE  bull'[j] = "absent" /\ \A e \in Publishers : at'[e] # j /\ j \notin rows'[e]
  <2>1. CASE Add(d) \/ AddFails(d)
    <3>1. PICK i \in rows[d] : /\ Published(i) \/ UNCHANGED redis
                               /\ at' = [at EXCEPT ![d] = i]
                               /\ rows' = [rows EXCEPT ![d] = @ \ {i}]
          BY <2>1 DEF Add, AddFails
    <3> QED BY <3>1 DEF Published, redis
  <2>2. CASE MarkRow(d) BY <2>2 DEF MarkRow, redis
  <2>3. CASE StaleReap(d) BY <2>3 DEF StaleReap, redis
  <2>4. CASE Select(d) BY <2>4 DEF Select, redis
  <2>5. CASE RowsDone(d) BY <2>5 DEF RowsDone, redis
  <2>6. CASE Retire(d) BY <2>6 DEF Retire, redis
  <2> QED BY <1>5, <2>1, <2>2, <2>3, <2>4, <2>5, <2>6 DEF DispatchStep
<1>6. ASSUME NEW w \in Workers, WorkerStep(w)
      PROVE  bull'[j] = "absent" /\ UNCHANGED api
  <2>1. CASE Take(w) BY <1>6, <2>1, WorkerApi DEF Take
  <2>2. CASE Return(w) \/ Throw(w)
    <3>1. \/ UNCHANGED bull
          \/ holder[job[w]] = w /\ \E b : bull' = [bull EXCEPT ![job[w]] = b]
          BY <2>2 DEF Return, Throw, Finish
    <3>2. holder[j] = Nobody
          BY DEF Exclusive
    <3> QED BY <1>6, <3>1, <3>2, WorkerApi
  <2> QED BY <1>6, <2>1, <2>2, WorkerRedis, WorkerApi DEF redis
<1>7. ASSUME NEW i \in Jobs, JobStep(i)
      PROVE  bull'[j] = "absent" /\ UNCHANGED api
      BY <1>7 DEF JobStep, Evict, StalledCheck, LoseLock, Stalled, SeeFailed, DropGhost, Requeue,
                  Age, redis
<1>8. CASE ApiCrash
      BY <1>8 DEF ApiCrash, redis
<1>9. CASE WorkerCrash \/ UNCHANGED vars
      BY <1>9 DEF WorkerCrash, vars, redis, api
<1> QED BY <1>4, <1>5, <1>6, <1>7, <1>8, <1>9 DEF Next, api

LEMMA StepStalling ==
    ASSUME Course, Kept, [Next]_vars
    PROVE  Stalling'
<1> DEFINE Left == left["crash"]
<1> SUFFICES ASSUME NEW j \in Calm'
             PROVE  /\ stalls'[j] + Left' <= MaxStalled
                    /\ bull'[j] = "active" /\ holder'[j] = Nobody => stalls'[j] + Left' < MaxStalled
    BY DEF Stalling
<1>1. j \in Calm /\ j \in Jobs
      BY JobMoves DEF Calm
<1>2. /\ stalls[j] + Left <= MaxStalled
      /\ bull[j] = "active" /\ holder[j] = Nobody => stalls[j] + Left < MaxStalled
      /\ Left <= MaxStalled
      BY <1>1 DEF Kept, Stalling, Forgiven
<1>3. Left \in Nat /\ Left' \in Nat /\ Left' <= Left
      BY FaultsSpent DEF Course, Faults
<1>4. stalls[j] \in Nat /\ MaxStalled \in Nat
      BY <1>1, AttemptsAssumption DEF Course, TypeOK
<1> HIDE DEF Left
<1> USE <1>1, <1>2, <1>3, <1>4, NobodyAssumption DEF Course, TypeOK
<1>5. CASE stalls'[j] = stalls[j] /\ bull'[j] = bull[j] /\ holder'[j] = holder[j]
      BY <1>5
<1>6. CASE stalls'[j] \in {0, stalls[j]} /\ bull'[j] # "active"
      BY <1>6
<1>7. ASSUME NEW w \in Workers, WorkerStep(w)
      PROVE  /\ stalls'[j] = stalls[j]
             /\ \/ bull'[j] = bull[j] /\ holder'[j] = holder[j]
                \/ bull'[j] # "active" \/ holder'[j] # Nobody
  <2>1. CASE Take(w) BY <2>1 DEF Take
  <2>2. CASE Return(w) \/ Throw(w)
        BY <2>2 DEF Return, Throw, Finish
  <2> QED BY <1>7, <2>1, <2>2, WorkerRedis DEF redis
<1>8. ASSUME NEW d \in Publishers, DispatchStep(d)
      PROVE  \/ stalls'[j] = stalls[j] /\ bull'[j] = bull[j] /\ holder'[j] = holder[j]
             \/ stalls'[j] \in {0, stalls[j]} /\ bull'[j] # "active"
  <2>1. CASE Add(d) \/ AddFails(d)
        BY <2>1 DEF Add, AddFails, Published, redis
  <2> QED BY <1>8, <2>1 DEF DispatchStep, MarkRow, StaleReap, Select, RowsDone, Retire, redis
<1>9. ASSUME NEW i \in Jobs, JobStep(i)
      PROVE  /\ stalls'[j] + Left' <= MaxStalled
             /\ bull'[j] = "active" /\ holder'[j] = Nobody => stalls'[j] + Left' < MaxStalled
  <2>1. CASE StalledCheck(i)
    <3>1. CASE i = j
      <4>1. stalls'[j] = stalls[j] + 1 /\ bull'[j] # "active" /\ stalls[j] + Left < MaxStalled
            BY <2>1, <3>1 DEF StalledCheck, Stalled
      <4> QED BY <4>1
    <3>2. CASE i # j
          BY <1>5, <2>1, <3>2 DEF StalledCheck, Stalled
    <3> QED BY <3>1, <3>2
  <2>2. CASE LoseLock(i)
    <3>1. i # j
          BY <2>2 DEF LoseLock, Calm
    <3> QED BY <1>5, <2>2, <3>1 DEF LoseLock, Stalled
  <2>3. CASE Evict(i) \/ DropGhost(i)
        BY <1>5, <1>6, <2>3 DEF Evict, DropGhost
  <2> QED BY <1>5, <1>9, <2>1, <2>2, <2>3 DEF JobStep, SeeFailed, Requeue, Age, redis
<1>10. CASE WorkerCrash
  <2>1. stalls'[j] = stalls[j] /\ Left' = Left - 1
        BY <1>10 DEF WorkerCrash, Spend, Left, Faults
  <2> QED BY <2>1
<1>11. CASE ApiCrash \/ UNCHANGED vars
       BY <1>5, <1>11 DEF ApiCrash, vars, redis
<1>12. ASSUME NEW r \in Requests, NEW i \in Jobs, Create(r, i)
       PROVE  stalls'[j] = stalls[j] /\ bull'[j] = bull[j] /\ holder'[j] = holder[j]
       BY <1>12 DEF Create, redis
<1>13. ASSUME stalls'[j] = stalls[j], bull'[j] # "active" \/ holder'[j] # Nobody
       PROVE  /\ stalls'[j] + Left' <= MaxStalled
              /\ bull'[j] = "active" /\ holder'[j] = Nobody => stalls'[j] + Left' < MaxStalled
       BY <1>13
<1> QED BY <1>5, <1>6, <1>7, <1>8, <1>9, <1>10, <1>11, <1>12, <1>13 DEF Next

LEMMA StepRequeueing ==
    ASSUME Course, Kept, [Next]_vars
    PROVE  Requeueing'
<1> SUFFICES ASSUME NEW j \in Calm', requeue'[j] # "idle"
             PROVE  status'[j] = "FAILED"
    BY DEF Requeueing
<1>1. j \in Calm /\ Moves(j) /\ j \in Jobs
      BY JobMoves DEF Calm
<1>2. requeue[j] # "idle" => status'[j] = "FAILED"
      BY <1>1 DEF Kept, Requeueing, Moves, Terminal
<1> USE <1>1, <1>2 DEF Course, TypeOK
<1>3. ASSUME NEW r \in Requests, NEW i \in Jobs, Create(r, i)
      PROVE  requeue[j] # "idle"
      BY <1>3 DEF Create
<1>4. ASSUME NEW d \in Publishers, DispatchStep(d)
      PROVE  requeue[j] # "idle"
      BY <1>4 DEF DispatchStep, Add, AddFails, MarkRow, StaleReap, Select, RowsDone, Retire
<1>5. ASSUME NEW w \in Workers, WorkerStep(w)
      PROVE  requeue[j] # "idle"
      BY <1>5, WorkerApi
<1>6. ASSUME NEW i \in Jobs, JobStep(i)
      PROVE  status'[j] = "FAILED"
  <2>1. CASE SeeFailed(i)
        BY <2>1 DEF SeeFailed, db
  <2>2. CASE DropGhost(i) \/ Requeue(i)
        BY <2>2 DEF DropGhost, Requeue
  <2> QED BY <1>6, <2>1, <2>2 DEF JobStep, Evict, StalledCheck, LoseLock, Age
<1>7. CASE WorkerCrash \/ ApiCrash \/ UNCHANGED vars
      BY <1>7 DEF WorkerCrash, ApiCrash, vars
<1> QED BY <1>2, <1>3, <1>4, <1>5, <1>6, <1>7 DEF Next

LEMMA OwnAttempting ==
    ASSUME Course, Kept, NEW w \in Slots, WorkerStep(w), job'[w] \in Calm
    PROVE  /\ final'[w] = (made'[job'[w]] + 1 >= Attempts)
           /\ pc'[w] = "return" => status'[job'[w]] \in Terminal
           /\ pc'[w] = "throw" /\ final'[w] => status'[job'[w]] = "FAILED"
<1> USE DEF Course, TypeOK, Busy, db, redis, workers, Goto, SetStatus, CallRefund, Terminal, Calm
<1>1. CASE Take(w) BY <1>1 DEF Take
<1>2. CASE Return(w) \/ Throw(w)
      BY <1>2, NobodyAssumption DEF Return, Throw, Finish
<1>3. CASE SweepStep(w)
      BY <1>3, DisjointAssumption DEF SweepStep, SweepRead, SweepNext, Roles
<1>4. CASE ~Take(w) /\ ~Return(w) /\ ~Throw(w) /\ ~SweepStep(w)
  <2>0. UNCHANGED <<job, final, made>> /\ job[w] \in Calm
        BY <1>4 DEF WorkerStep, AttemptStep, RefundStep, ReadState, MarkRunning, MarkSucceeded,
                    Throws, HandlerMarksFailed, GuardMarksFailed, Settle, SettleFails, Tail,
                    RefundCharge, CompleteObligation, DeferObligation
  <2>1. /\ final[w] = (made[job[w]] + 1 >= Attempts)
        /\ pc[w] = "return" => status[job[w]] \in Terminal
        /\ pc[w] = "throw" /\ final[w] => status[job[w]] = "FAILED"
        BY <2>0 DEF Kept, Attempting
  <2>2. CourseOf(w) /\ RefundOf(w) /\ job[w] \in Jobs
        BY <2>0 DEF OnCourse, Refunding
  <2> SUFFICES /\ pc'[w] = "return" => status'[job[w]] \in Terminal
               /\ pc'[w] = "throw" /\ final[w] => status'[job[w]] = "FAILED"
      BY <2>0, <2>1
  <2>3. CASE ReadState(w)
    <3>1. UNCHANGED status
          BY <2>3 DEF ReadState
    <3>2. CASE status[job[w]] \in Terminal
      <4>1. pc'[w] # "throw"
            BY <2>3, ReadStateOutcomes
      <4> QED BY <3>1, <3>2, <4>1
    <3>3. CASE status[job[w]] \notin Terminal
      <4>1. pc'[w] = "handler"
            BY <2>3, <3>3 DEF ReadState
      <4> QED BY <4>1
    <3> QED BY <3>2, <3>3
  <2>4. CASE MarkRunning(w) \/ MarkSucceeded(w) \/ Throws(w)
        BY <2>4 DEF MarkRunning, MarkSucceeded, Throws
  <2>5. CASE HandlerMarksFailed(w) \/ GuardMarksFailed(w)
    <3>1. pc'[w] \in {"refund", "settle", "tail"}
          BY <2>5 DEF HandlerMarksFailed, GuardMarksFailed, MarkFailed
    <3> QED BY <3>1
  <2>6. CASE Settle(w) BY <2>6 DEF Settle
  <2>7. CASE SettleFails(w)
        BY <2>7 DEF SettleFails, Spend, Kept, Forgiven
  <2>8. CASE Tail(w) BY <2>8 DEF Tail
  <2>9. CASE RefundCharge(w) BY <2>9 DEF RefundCharge
  <2>10. CASE CompleteObligation(w) \/ DeferObligation(w)
    <3>1. status'[job[w]] = "FAILED"
          BY <2>0, <2>2, <2>10 DEF CompleteObligation, DeferObligation, RefundOf
    <3> QED BY <3>1
  <2> QED BY <1>4, <2>3, <2>4, <2>5, <2>6, <2>7, <2>8, <2>9, <2>10
          DEF WorkerStep, AttemptStep, RefundStep
<1> QED BY <1>1, <1>2, <1>3, <1>4

LEMMA StepAttempting ==
    ASSUME Course, Kept, [Next]_vars
    PROVE  Attempting'
<1> SUFFICES ASSUME NEW v \in Slots, job'[v] \in Calm'
             PROVE  /\ final'[v] = (made'[job'[v]] + 1 >= Attempts)
                    /\ pc'[v] = "return" => status'[job'[v]] \in Terminal
                    /\ pc'[v] = "throw" /\ final'[v] => status'[job'[v]] = "FAILED"
    BY DEF Attempting
<1>1. job'[v] \in Calm /\ Moves(job'[v])
      BY JobMoves
<1>2. ASSUME pc'[v] = pc[v], job'[v] = job[v], final'[v] = final[v],
             made'[job[v]] = made[job[v]]
      PROVE  /\ final'[v] = (made'[job'[v]] + 1 >= Attempts)
             /\ pc'[v] = "return" => status'[job'[v]] \in Terminal
             /\ pc'[v] = "throw" /\ final'[v] => status'[job'[v]] = "FAILED"
      BY <1>1, <1>2 DEF Kept, Attempting, Moves, Terminal
<1>3. job'[v] = job[v] => job[v] \in Jobs /\ holder[job[v]] = v /\ bull[job[v]] = "active"
      BY <1>1, AtWork DEF Calm
<1>4. ASSUME NEW w \in Workers, WorkerStep(w), w # v
      PROVE  /\ pc'[v] = pc[v] /\ job'[v] = job[v] /\ final'[v] = final[v]
             /\ made'[job[v]] = made[job[v]]
  <2>1. pc'[v] = pc[v] /\ job'[v] = job[v] /\ final'[v] = final[v]
        BY <1>4, OnlyOwnWorker DEF Course
  <2>2. CASE Return(w) \/ Throw(w)
    <3>1. \/ UNCHANGED made
          \/ holder[job[w]] = w /\ \E m : made' = [made EXCEPT ![job[w]] = m]
          BY <2>2 DEF Return, Throw, Finish
    <3> QED BY <1>3, <1>4, <2>1, <3>1 DEF Course, TypeOK
  <2>3. CASE Take(w) \/ UNCHANGED redis
        BY <2>1, <2>3 DEF Take, redis
  <2> QED BY <1>4, <2>1, <2>2, <2>3, WorkerRedis
<1>5. ASSUME UNCHANGED workers, made'[job[v]] = made[job[v]]
      PROVE  /\ pc'[v] = pc[v] /\ job'[v] = job[v] /\ final'[v] = final[v]
             /\ made'[job[v]] = made[job[v]]
      BY <1>5 DEF workers
<1>6. ASSUME NEW r \in Requests, NEW j \in Jobs, Create(r, j)
      PROVE  UNCHANGED workers /\ UNCHANGED made
      BY <1>6 DEF Create, redis
<1>7. ASSUME NEW d \in Publishers, DispatchStep(d)
      PROVE  UNCHANGED workers /\ made'[job[v]] = made[job[v]]
  <2>1. UNCHANGED workers
        BY <1>7 DEF DispatchStep, Add, AddFails, MarkRow, StaleReap, Select, RowsDone, Retire
  <2>2. job[v] \in Jobs /\ bull[job[v]] = "active"
        BY <1>3, <2>1 DEF workers
  <2>3. CASE Add(d) \/ AddFails(d)
        BY <2>2, <2>3 DEF Add, AddFails, Published, redis, Course, TypeOK
  <2> QED BY <1>7, <2>1, <2>3 DEF DispatchStep, MarkRow, StaleReap, Select, RowsDone, Retire, redis
<1>8. ASSUME NEW j \in Jobs, JobStep(j)
      PROVE  UNCHANGED workers /\ UNCHANGED made
      BY <1>8 DEF JobStep, Evict, StalledCheck, LoseLock, Stalled, SeeFailed, DropGhost, Requeue,
                  Age, redis
<1>9. CASE WorkerCrash
      BY <1>1, <1>9, NobodyAssumption DEF WorkerCrash, Calm
<1>10. ApiCrash \/ UNCHANGED vars => UNCHANGED workers /\ UNCHANGED made
       BY DEF ApiCrash, vars, redis
<1>11. ASSUME WorkerStep(v)
       PROVE  /\ final'[v] = (made'[job'[v]] + 1 >= Attempts)
              /\ pc'[v] = "return" => status'[job'[v]] \in Terminal
              /\ pc'[v] = "throw" /\ final'[v] => status'[job'[v]] = "FAILED"
       BY <1>1, <1>11, OwnAttempting
<1> QED BY <1>2, <1>4, <1>5, <1>6, <1>7, <1>8, <1>9, <1>10, <1>11 DEF Next

(***************************************************************************)
(* BullMQ keeps what it has while the row is open ...                      *)
(***************************************************************************)
LEMMA StaysInBull ==
    ASSUME Course, Kept, [Next]_vars, NEW j \in Calm, j \in Calm', status[j] \in Live,
           InBull(j)
    PROVE  InBull(j)'
<1> USE DEF Course, TypeOK, InBull, Calm
<1>1. status[j] \notin Terminal /\ status[j] # "FAILED"
      BY DEF Live, Terminal
<1>2. CASE bull'[j] = bull[j]
      BY <1>2
<1>3. ASSUME NEW w \in Workers, WorkerStep(w)
      PROVE  InBull(j)'
  <2>1. CASE Take(w)
        BY <2>1 DEF Take
  <2>2. CASE (Return(w) \/ Throw(w)) /\ job[w] = j
    <3>1. w \in Slots
          BY <2>2 DEF Return, Throw, Roles
    <3>2. holder[j] = w
          BY <2>2, <3>1, AtWork
    <3>3. /\ final[w] = (made[j] + 1 >= Attempts)
          /\ pc[w] # "return"
          /\ pc[w] = "throw" => ~final[w]
          BY <1>1, <2>2, <3>1 DEF Kept, Attempting
    <3>4. Throw(w) /\ ~(made[j] + 1 >= Attempts)
          BY <2>2, <3>3 DEF Return, Throw
    <3>5. bull' = [bull EXCEPT ![j] = "wait"]
          BY <2>2, <3>2, <3>4 DEF Throw, Finish
    <3> QED BY <3>5
  <2>3. CASE (Return(w) \/ Throw(w)) /\ job[w] # j
        BY <2>3 DEF Return, Throw, Finish
  <2>4. CASE UNCHANGED redis
        BY <2>4 DEF redis
  <2> QED BY <1>3, <2>1, <2>2, <2>3, <2>4, WorkerRedis
<1>4. ASSUME NEW d \in Publishers, DispatchStep(d)
      PROVE  bull'[j] = bull[j]
  <2>1. CASE Add(d) \/ AddFails(d)
        BY <2>1 DEF Add, AddFails, Published, redis
  <2> QED BY <1>4, <2>1 DEF DispatchStep, MarkRow, StaleReap, Select, RowsDone, Retire, redis
<1>5. ASSUME NEW i \in Jobs, JobStep(i)
      PROVE  InBull(j)'
  <2>1. CASE Evict(i)
        BY <2>1 DEF Evict
  <2>2. CASE StalledCheck(i)
    <3>1. CASE i = j
      <4>1. stalls[j] + left["crash"] < MaxStalled /\ left["crash"] \in Nat
            BY <2>2, <3>1, FaultsSpent DEF StalledCheck, Stalled, Kept, Stalling, Faults
      <4>2. ~(stalls[j] >= MaxStalled)
            BY <4>1, AttemptsAssumption
      <4> QED BY <2>2, <3>1, <4>2 DEF StalledCheck, Stalled
    <3> QED BY <2>2, <3>1 DEF StalledCheck, Stalled
  <2>3. CASE LoseLock(i)
        BY <2>3 DEF LoseLock, Stalled
  <2>4. CASE DropGhost(i)
    <3>1. i # j
          BY <1>1, <2>4 DEF DropGhost, Kept, Requeueing
    <3> QED BY <2>4, <3>1 DEF DropGhost
  <2> QED BY <1>5, <2>1, <2>2, <2>3, <2>4 DEF JobStep, SeeFailed, Requeue, Age, redis
<1>6. ASSUME NEW r \in Requests, NEW i \in Jobs, Create(r, i)
      PROVE  bull'[j] = bull[j]
      BY <1>6 DEF Create, redis
<1>7. WorkerCrash \/ ApiCrash \/ UNCHANGED vars => bull'[j] = bull[j]
      BY DEF WorkerCrash, ApiCrash, vars, redis
<1> QED BY <1>2, <1>3, <1>4, <1>5, <1>6, <1>7 DEF Next

(***************************************************************************)
(* ... and until it has it nobody works on the job, and nobody says that   *)
(* it was dispatched.                                                      *)
(***************************************************************************)
LEMMA StaysUnpublished ==
    ASSUME Course, Kept, [Next]_vars, NEW j \in Fresh, j \in Fresh', status'[j] \in Live,
           bull[j] = "absent", status[j] \in Live => QueuedOf(j)
    PROVE  QueuedOf(j)'
<1> DEFINE Quiet == ~(status[j] = "RUNNING" \/ outbox[j] = "DISPATCHED" \/ Vouched(j))
<1>1. /\ j \in Jobs /\ j \in Calm /\ j \in Calm' /\ j \notin aged
      /\ Moves(j)
      BY JobMoves DEF Fresh, Calm
<1>2. status[j] \notin Terminal
      BY <1>1 DEF Moves, Live, Terminal
<1>3. status[j] # "none" => status[j] \in Live
      BY <1>1, <1>2 DEF Course, TypeOK, Live, Terminal
<1>4. status[j] # "none" => Quiet
      BY <1>3 DEF QueuedOf, InBull
<1>5. ~Vouched(j)
      BY <1>1, <1>4 DEF Kept, Unknown, Vouched
<1>6. \A w \in Slots : job[w] # j
      BY <1>1, AtWork
<1>7. ASSUME UNCHANGED api, bull'[j] = "absent", status'[j] = status[j], outbox'[j] = outbox[j]
      PROVE  QueuedOf(j)'
  <2>1. Vouched(j)' = Vouched(j) /\ status[j] \in Live /\ status[j] # "none"
        BY <1>7 DEF api, Vouched, Live
  <2> QED BY <1>4, <1>7, <2>1 DEF QueuedOf, InBull
<1> USE <1>1, NobodyAssumption DEF Course, TypeOK
<1>8. ASSUME NEW r \in Requests, NEW i \in Jobs, Create(r, i)
      PROVE  QueuedOf(j)'
  <2>1. CASE i # j
        <3>1. bull'[j] = "absent" /\ status'[j] = status[j] /\ outbox'[j] = outbox[j]
              BY <1>8, <2>1 DEF Create, redis
        <3>2. ~Vouched(j)'
              BY <1>5, <1>8, <2>1 DEF Create, Vouched
        <3>3. status[j] # "none"
              BY <3>1 DEF Live
        <3> QED BY <1>4, <3>1, <3>2, <3>3 DEF QueuedOf, InBull
  <2>2. CASE i = j
        <3>1. bull'[j] = "absent" /\ status'[j] = "QUEUED" /\ outbox'[j] = "PENDING"
              BY <1>8, <2>2 DEF Create, redis
        <3>2. ~Vouched(j)'
              BY <1>5, <1>8, <2>2 DEF Create, Vouched
        <3> QED BY <3>1, <3>2 DEF QueuedOf, InBull
  <2> QED BY <2>1, <2>2
<1>9. ASSUME NEW w \in Workers, WorkerStep(w)
      PROVE  QueuedOf(j)'
  <2>1. UNCHANGED api
        BY <1>9, WorkerApi
  <2>2. CASE job[w] = j
    <3>1. w \in Sweepers
          BY <1>6, <2>2
    <3>2. ~Take(w) /\ ~Return(w) /\ ~Throw(w) /\ ~RefundStep(w)
          BY <1>2, <2>2, <3>1, DisjointAssumption
             DEF Take, Return, Throw, RefundStep, RefundCharge, CompleteObligation,
                 DeferObligation, Roles, Refunding, RefundOf, Terminal
    <3>3. SweepStep(w)
          BY <1>9, <3>1, <3>2 DEF WorkerStep, AttemptStep, Roles, ReadState, MarkRunning,
             MarkSucceeded, Throws, HandlerMarksFailed, GuardMarksFailed, Settle, SettleFails, Tail
    <3>4. UNCHANGED <<db, redis>>
          BY <3>3 DEF SweepStep, SweepRead, SweepNext
    <3> QED BY <1>7, <2>1, <3>4 DEF db, redis
  <2>3. CASE job[w] # j
    <3>1. status'[j] = status[j] /\ outbox'[j] = outbox[j]
          BY <1>9, <2>3, WorkerStepsElsewhere, WorkerRows DEF Elsewhere
    <3>2. bull'[j] = "absent"
      <4>1. CASE Take(w) BY <4>1 DEF Take
      <4>2. CASE Return(w) \/ Throw(w)
            BY <2>3, <4>2 DEF Return, Throw, Finish
      <4> QED BY <1>9, <4>1, <4>2, WorkerRedis DEF redis
    <3> QED BY <1>7, <2>1, <3>1, <3>2
  <2> QED BY <2>2, <2>3
<1>10. ASSUME NEW d \in Publishers, DispatchStep(d)
       PROVE  QueuedOf(j)'
  <2>0. status'[j] = status[j] /\ status[j] \in Live /\ Quiet
    <3>1. status'[j] = status[j]
          BY <1>10 DEF DispatchStep, Add, AddFails, MarkRow, StaleReap, Select, RowsDone, Retire, db
    <3> QED BY <1>4, <3>1 DEF Live
  <2>1. CASE Add(d) \/ AddFails(d)
    <3>1. PICK i \in rows[d] : /\ Published(i) \/ (UNCHANGED redis /\ dpc'[d] = "markFailed")
                               /\ at' = [at EXCEPT ![d] = i]
                               /\ rows' = [rows EXCEPT ![d] = @ \ {i}]
          BY <2>1 DEF Add, AddFails
    <3>2. i \in Jobs /\ UNCHANGED db /\ dpc'[d] \in {"mark", "markFailed"}
          /\ \A e \in Publishers : e # d => dpc'[e] = dpc[e]
          BY <2>1, <3>1 DEF Add, AddFails
    <3>3. CASE Published(i) /\ i = j
          BY <3>3 DEF Published, QueuedOf, InBull
    <3>4. CASE ~(Published(i) /\ i = j)
      <4>1. bull'[j] = "absent"
            BY <3>1, <3>2, <3>4 DEF Published, redis
      <4>2. ~Vouched(j)'
            BY <1>5, <3>1, <3>2, <3>4 DEF Vouched
      <4> QED BY <2>0, <3>2, <4>1, <4>2 DEF QueuedOf, InBull, db
    <3> QED BY <3>3, <3>4
  <2>2. CASE MarkRow(d)
    <3>1. bull'[j] = "absent" /\ ~Vouched(j)'
          BY <1>5, <2>2 DEF MarkRow, redis, Vouched
    <3>2. outbox'[j] # "DISPATCHED"
          BY <1>5, <2>0, <2>2 DEF MarkRow, Vouched
    <3> QED BY <2>0, <3>1, <3>2 DEF QueuedOf, InBull
  <2>3. CASE StaleReap(d)
    <3>1. bull'[j] = "absent" /\ ~Vouched(j)'
          BY <1>5, <2>3 DEF StaleReap, redis, Vouched
    <3>2. outbox'[j] # "DISPATCHED"
          BY <2>0, <2>3 DEF StaleReap, Reap, StaleRows
    <3> QED BY <2>0, <3>1, <3>2 DEF QueuedOf, InBull
  <2>4. CASE Select(d)
    <3>1. bull'[j] = "absent" /\ ~Vouched(j)'
          BY <1>5, <2>4 DEF Select, redis, Vouched
    <3> QED BY <2>0, <2>4, <3>1 DEF QueuedOf, InBull, Select, db
  <2>5. CASE RowsDone(d)
    <3>1. bull'[j] = "absent" /\ outbox'[j] = outbox[j]
          BY <2>5 DEF RowsDone, redis, db
    <3>2. status[j] = "QUEUED"
          BY <2>0 DEF Live
    <3>3. ~Vouched(j)'
          BY <1>5, <2>5, <3>2 DEF RowsDone, Vouched
    <3> QED BY <2>0, <3>1, <3>3 DEF QueuedOf, InBull
  <2>6. CASE Retire(d)
    <3>1. bull'[j] = "absent" /\ ~Vouched(j)'
          BY <1>5, <2>6 DEF Retire, redis, Vouched
    <3>2. outbox'[j] # "DISPATCHED"
          BY <1>5, <2>0, <2>6 DEF Retire, Reap, Vouched
    <3> QED BY <2>0, <3>1, <3>2 DEF QueuedOf, InBull
  <2> QED BY <1>10, <2>1, <2>2, <2>3, <2>4, <2>5, <2>6 DEF DispatchStep
<1>11. ASSUME NEW i \in Jobs, JobStep(i)
       PROVE  QueuedOf(j)'
  <2>1. bull'[j] = "absent"
        BY <1>11 DEF JobStep, Evict, StalledCheck, LoseLock, Stalled, SeeFailed, DropGhost,
                     Requeue, Age, redis
  <2>2. CASE Requeue(i)
    <3>1. i # j
          BY <2>2 DEF Requeue, Calm
    <3> QED BY <1>7, <2>1, <2>2, <3>1 DEF Requeue, SetStatus
  <2>3. CASE ~Requeue(i)
        BY <1>7, <1>11, <2>1, <2>3 DEF JobStep, Evict, StalledCheck, LoseLock, SeeFailed,
                                       DropGhost, Age, db
  <2> QED BY <2>2, <2>3
<1>12. CASE ApiCrash
  <2>1. bull'[j] = "absent" /\ status'[j] = status[j] /\ outbox'[j] = outbox[j] /\ ~Vouched(j)'
        BY <1>12 DEF ApiCrash, redis, db, Vouched
  <2> QED BY <1>4, <2>1 DEF QueuedOf, InBull, Live
<1>13. CASE WorkerCrash \/ UNCHANGED vars
       BY <1>7, <1>13 DEF WorkerCrash, vars, db, redis
<1> QED BY <1>8, <1>9, <1>10, <1>11, <1>12, <1>13 DEF Next

LEMMA StepQueued ==
    ASSUME Course, Kept, [Next]_vars
    PROVE  Queued'
<1> SUFFICES ASSUME NEW j \in Fresh', status'[j] \in Live
             PROVE  QueuedOf(j)'
    BY DEF Queued
<1>1. j \in Calm' /\ j \in Calm /\ Moves(j)
      BY JobMoves DEF Fresh
<1>2. aged \subseteq aged'
      BY WorkerApi DEF Next, Create, DispatchStep, Add, AddFails, MarkRow, StaleReap, Select, RowsDone,
         Retire, JobStep, Evict, StalledCheck, LoseLock, SeeFailed, DropGhost, Requeue, Age,
         WorkerCrash, ApiCrash, vars
<1>3. j \in Fresh
      BY <1>1, <1>2 DEF Fresh
<1>4. status[j] \in Live \/ status[j] = "none"
      BY <1>1 DEF Moves, Live, Terminal, Course, TypeOK, Calm
<1>5. status[j] = "none" => bull[j] = "absent"
      BY <1>1 DEF Kept, Unknown
<1>6. status[j] \in Live => QueuedOf(j)
      BY <1>3 DEF Kept, Queued
<1>7. CASE bull[j] = "absent"
      BY <1>3, <1>6, <1>7, StaysUnpublished
<1>8. CASE bull[j] # "absent"
  <2>1. status[j] \in Live /\ InBull(j)
        BY <1>4, <1>5, <1>6, <1>8 DEF QueuedOf
  <2>2. InBull(j)'
        BY <1>1, <2>1, StaysInBull
  <2> QED BY <2>2 DEF QueuedOf
<1> QED BY <1>7, <1>8

(***************************************************************************)
(* A row the outbox calls DISPATCHED is in BullMQ while its job is QUEUED, *)
(* whatever publications fail, refunds fail, locks are lost, other jobs    *)
(* are requeued and processes die, within the budget Forgiven.             *)
(***************************************************************************)
THEOREM DispatchedRowsAreQueued == SafeSpec /\ Forgiven => []DispatchedIsQueued
<1>1. Init /\ Forgiven => Kept
      BY InitKept
<1>2. Course /\ Kept /\ [Next]_vars => Kept'
      BY StepForgiven, StepUnknown, StepAttempting, StepStalling, StepRequeueing, StepQueued
      DEF Kept, Course
<1>3. Kept => DispatchedIsQueued
      BY DEF Kept, Queued, QueuedOf, InBull, Live, Fresh, Calm, DispatchedIsQueued
<1> QED BY <1>1, <1>2, <1>3, AlwaysCourse, PTL DEF SafeSpec
-----------------------------------------------------------------------------
(***************************************************************************)
(* The refinement. Initial states map to the initial state of PaidJob.     *)
(***************************************************************************)
LEMMA InitPromise == Init => Promise!Init
<1>1. Init => \A j \in Jobs : status[j] = "none" /\ j \notin disturbed /\ charge[j] = "held"
      BY DEF Init
<1>2. (\A j \in Jobs : status[j] = "none" /\ j \notin disturbed /\ charge[j] = "held")
          => \A j \in Jobs : Phase(j) = "none"
      BY DEF Phase
<1> QED BY <1>1, <1>2 DEF Promise!Init

(***************************************************************************)
(* Every step maps to a step of PaidJob or changes nothing there: at most  *)
(* one job changes its phase, in a way PaidJob allows.                     *)
(***************************************************************************)
LEMMA OneJob ==
    ASSUME Course, [Next]_vars
    PROVE  \/ UNCHANGED <<status, charge, disturbed>>
           \/ \E i \in Jobs :
                /\ disturbed \subseteq disturbed' /\ disturbed' \subseteq disturbed \cup {i}
                /\ \A j \in Jobs : j # i => status'[j] = status[j] /\ charge'[j] = charge[j]
<1>1. ASSUME NEW w \in Workers, WorkerStep(w), job[w] \in Jobs
      PROVE  \E i \in Jobs :
                /\ disturbed \subseteq disturbed' /\ disturbed' \subseteq disturbed \cup {i}
                /\ \A j \in Jobs : j # i => status'[j] = status[j] /\ charge'[j] = charge[j]
      BY <1>1, WorkerStepsElsewhere DEF Elsewhere, Course
<1>2. ASSUME NEW w \in Workers, WorkerStep(w), job[w] \notin Jobs
      PROVE  UNCHANGED <<status, charge, disturbed>>
  <2>1. Take(w) \/ SweepStep(w)
        BY <1>2 DEF Course, Busy, WorkerStep, AttemptStep, RefundStep, ReadState, MarkRunning,
                    MarkSucceeded, Throws, HandlerMarksFailed, GuardMarksFailed, Settle,
                    SettleFails, Tail, Return, Throw, RefundCharge, CompleteObligation,
                    DeferObligation
  <2> QED BY <2>1 DEF Take, SweepStep, SweepRead, SweepNext, db
<1>3. WorkerCrash => UNCHANGED <<status, charge, disturbed>>
      BY DEF WorkerCrash, db
<1> QED BY <1>1, <1>2, <1>3, OtherMoves DEF Idle

LEMMA StepPromise ==
    ASSUME Course, [Next]_vars
    PROVE  [Promise!Next]_([j \in Jobs |-> Phase(j)])
<1> DEFINE phase == [j \in Jobs |-> Phase(j)]
<1>1. CASE UNCHANGED <<status, charge, disturbed>>
  <2>1. \A j \in Jobs : Phase(j)' = Phase(j)
        BY <1>1 DEF Phase
  <2> QED BY <2>1
<1>2. ASSUME NEW i \in Jobs, disturbed \subseteq disturbed', disturbed' \subseteq disturbed \cup {i},
             \A j \in Jobs : j # i => status'[j] = status[j] /\ charge'[j] = charge[j]
      PROVE  Promise!Next \/ UNCHANGED phase
  <2>1. \A j \in Jobs : j # i => Phase(j)' = Phase(j)
        BY <1>2 DEF Phase
  <2>2. phase' = [phase EXCEPT ![i] = Phase(i)']
        BY <2>1
  <2>3. CASE Phase(i)' = Phase(i)
        BY <2>2, <2>3
  <2>4. CASE Phase(i)' = "void"
    <3>1. Phase(i) \in Promise!Phases
          BY DEF Promise!Phases, Phase
    <3> QED BY <2>2, <2>4, <3>1 DEF Promise!Next, Promise!Becomes
  <2>5. CASE Phase(i)' # Phase(i) /\ Phase(i)' # "void"
    <3>1. i \in Calm'
          BY <2>5 DEF Phase, Calm
    <3>2. i \in Calm /\ Moves(i)
          BY <3>1, JobMoves
    <3>3. status[i] = "none" => charge[i] = "held"
          BY <3>2 DEF Course, Refunding, TypeOK
    <3>4. \/ Phase(i) = "none" /\ Phase(i)' = "charged"
          \/ Phase(i) = "charged" /\ Phase(i)' \in {"delivered", "refunded"}
      <4>1. /\ i \notin disturbed /\ i \notin disturbed'
            /\ charge[i] \in {"held", "reversed"} /\ charge'[i] \in {"held", "reversed"}
            BY <3>1, <3>2, StepTypeOK DEF Calm, Course, TypeOK
      <4>2. CASE status[i] = "none"
            BY <2>5, <3>2, <3>3, <4>1, <4>2 DEF Phase, Moves
      <4>3. CASE status[i] # "none" /\ charge[i] = "reversed"
            BY <2>5, <3>2, <4>1, <4>3 DEF Phase, Moves
      <4>4. CASE status[i] = "SUCCEEDED" /\ charge[i] = "held"
            BY <2>5, <3>2, <4>1, <4>4 DEF Phase, Moves, Terminal
      <4>5. CASE status[i] \notin {"none", "SUCCEEDED"} /\ charge[i] = "held"
            BY <2>5, <3>2, <4>1, <4>5 DEF Phase, Moves
      <4> QED BY <4>1, <4>2, <4>3, <4>4, <4>5
    <3> QED BY <2>2, <3>4 DEF Promise!Next, Promise!Becomes
  <2> QED BY <2>3, <2>4, <2>5
<1> QED BY <1>1, <1>2, OneJob

(***************************************************************************)
(* The pipeline implements the promise made to the customer.               *)
(***************************************************************************)
THEOREM PipelineKeepsPromise == SafeSpec => KeepsPromise
<1>1. Init => Promise!Init
      BY InitPromise
<1>2. Course /\ [Next]_vars => [Promise!Next]_([j \in Jobs |-> Phase(j)])
      BY StepPromise
<1> QED BY <1>1, <1>2, AlwaysCourse, PTL DEF SafeSpec, KeepsPromise, Promise!Spec
=============================================================================
