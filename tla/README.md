# Verification of the paid-job core

AFROSTUDIOMUSIC sells work that runs for minutes on providers and may fail at any
point: a song, a video, a master, a singing voice, a release. Its README.md ("Truth Gates")
promises that "paid jobs use idempotent charges, a transactional outbox, durable provider
jobs, and one-time reversal ledgers on failure". These modules model the programs that
have to keep such promises across processes: the API's charge and admission of a job, the
outbox and its dispatcher, BullMQ as the code uses it, the worker's managed attempts, the
refund on failure and the sweepers; the money that comes in through PayPal's events; the
releases that go out to a distribution partner; and the voices that must stop when the
singer withdraws consent.

## 1. The system

| Component | State | Operations | Talks to | What is hard | What makes it correct |
|---|---|---|---|---|---|
| Credit ledger, `packages/db/src/credit-charge.ts` | `Workspace.creditsCents`, `CreditLedger` rows, reversals | charge, reverse, orphan sweep | every route; worker | replays, caps at midnight, concurrent reversals, switches read twice | balance = rows; caps hold; no overdraft; credits only what was debited |
| Billing switches, `apps/api/src/middleware/credits.ts` | environment, first-party cache | choose internal, beta, first-party or paying | ledger | both ends of a charge must choose alike | as above |
| Admission, `apps/api/src/lib/queued-job.ts` | `ProviderJob`, `JobOutbox`, unique charge and request keys | look up, guard, insert both rows, compensate | ledger, outbox | concurrent requests under one key; failing transactions | an answer names a committed job; no debit is stranded |
| Outbox and dispatcher, `apps/api/src/lib/queue.ts` | `JobOutbox.status`, `lastError` | publish inline, publish periodically, three reapers | PostgreSQL, Redis | Redis down or ambiguous; batches read earlier; several API instances | a DISPATCHED row is queued; every job settles |
| Managed attempts, `apps/worker/src/index.ts` | `ProviderJob.status`; BullMQ's attempts, locks, stalls | attempt, redelivery, retry, give up | processors, jobs.ts | crash after commit, redelivery, lost locks | delivered or refunded, never both |
| Refund on failure, `apps/worker/src/lib/jobs.ts` | obligation on the outbox row (`refund_pending`) | mark, complete, defer, sweep | ledger | crash between FAILED and the refund; sweepers in every process | refunded at most once, only after exhaustion, and in the end |
| Requeue, `routes/admin.ts`, `lib/video-salvage.ts` | the same rows | reopen a failed job | dispatcher | retained BullMQ jobs under stable ids | a requeued job runs |
| Webhook inbox, `routes/webhooks.ts` | `BillingEvent` rows with 15 minute leases | claim, handle, settle, fail | PayPal; billing | expired leases, two requests on one event, answers before handling | a processed row did what it says |
| PayPal credit packs, `routes/billing.ts`, `lib/billing-service.ts` | intents, entitlements, adjustments, totals | checkout, capture, grant, refund, reverse, dispute | PayPal; inbox; ledger | the return URL races the webhook; refund items, totals and dispute stages in any order | one grant per payment; what is taken back agrees with PayPal |
| PayPal subscriptions, the same files | `BillingSubscription`, the workspace's plan, entitlements of cycles | reserve, bind, return, status, sale, cancel | PayPal; inbox | events late, repeated, in the same second; two tabs | the plan is that of the live subscription, and one is paid at a time |
| Releases, `routes/release.ts`, `lib/distribution.ts`, `routes/webhooks.ts` | `Release`, `Song.status`, `DistributionEvent` | edit, submit, publish, take down, partner event | distribution partner | a submission in flight while the release is edited, published or taken down | what is at the partner is what the row says; public means live |
| Voices and consent, `routes/voices.ts`, `processors/voice-profile.ts`, `processors/voice-cleanup.ts` | consent, profiles, jobs, provider voices and training runs | set up, train, poll, revoke, clean up | providers; queue; ledger | a revocation at any point of a set-up or a training run | nothing after revocation; nothing forgotten; cancelled work is paid back |
| Idempotent operations, `lib/idempotent-operation.ts` | operation records | run once, replay, reclaim | ledger | a reclaimed executor that finishes late | one result per key |
| Orchestration, `lib/orchestration-worker.ts`, `routes/drop.ts`, `lib/material-auto.ts`, `processors/cron.ts` | parent jobs, child jobs | fan out, wait, finish | admission | waits that time out, partial fan-out | a parent reports its children's outcome |
| Asset cleanup, `processors/asset-cleanup.ts` | object references | plan, check, delete | storage | a reference created between check and delete | referenced objects stay |
| Media processors, trainer, AI adapters, `packages/shared` | files, provider jobs | render, measure, certify | storage, providers | numeric and I/O work | outside these models; only their outcome matters here |
| Auth, workspaces, web UI | rows, sessions | CRUD with checks | PostgreSQL | request-local | outside these models |

How they interact on the main paths:

```
 request -> chargeCredits -> createQueuedProviderJob -> outbox row --+
              (ledger)          (job + row, one tx)                  | dispatchRow
                 ^                                                   v
                 | refundWorkspaceCharge                          BullMQ
                 |                                                   |
       refundFailedJob <- markFailed(final) <- runManagedAttempt <---+
                 ^
                 +-- refund sweeper (every worker), orphan sweep (every worker)

 PayPal -- events, at least once, any order --> inbox (lease) --> grants, adjustments,
    ^                                                             status of a subscription
    +-- checkout, capture, cancel -- routes/billing.ts, which writes the same rows

 routes/release.ts -- submit, take down --> partner -- signed events --> routes/webhooks.ts

 POST /voices, /voices/train --> profile, job --> worker --> provider
 DELETE /voices/:id --> consent, profiles, jobs, queue, charges, provider, cleanup job
```

PostgreSQL, Redis, PayPal, the partner and the voice providers share no transaction. The
outbox row is written twice over: once as a message to publish, later as the carrier of
the refund obligation. BullMQ keeps finished jobs under their stable ids. Whoever waits
for an outside answer holds no lock while it waits. Most of what can go wrong comes from
these four facts.

## 2. Modules

| Module | Models | Extends |
|---|---|---|
| `PaidJob` | the abstract promise: a job is charged, then delivered or refunded, and stays so | |
| `JobPipeline` | queue.ts, index.ts (`runManagedAttempt`), jobs.ts, the two requeue paths, BullMQ as used | implements `PaidJob` |
| `CreditLedger` | credit-charge.ts under the switches of credits.ts | |
| `JobAdmission` | queued-job.ts over the account of `CreditLedger` | `CreditLedger` |
| `WebhookInbox` | the PayPal route of webhooks.ts: rows, leases, calls and answers | |
| `PayPalBilling` | credit packs: checkout, return, captures, refunds, totals, reversals, disputes | `WebhookInbox` |
| `Subscriptions` | subscriptions: checkout, return, status and sale events, cancellation | `WebhookInbox` |
| `Releases` | release.ts, distribution.ts and the distributor's webhook, for one song | |
| `Voices` | the shared state of one consent, `DELETE /voices/:voiceId`, the cleanup job | |
| `VoiceSetup` | `POST /voices` and the worker's set-up attempts | `Voices` |
| `VoiceTraining` | `POST /voices/train`, the training poll | `Voices` |
| `VoiceConsent` | all of the voices at once, and their properties | `VoiceSetup`, `VoiceTraining` |
| `MC...` (`MCJobPipeline`, `MCCreditLedger`, `MCJobAdmission`, `MCPayPalBilling`, `MCSubscriptions`, `MCReleases`, `MCVoiceConsent`) | the instances TLC checks | the module named |
| `JobPipelineProofs`, `CreditLedgerProofs`, `JobAdmissionProofs`, `PayPalBillingProofs`, `SubscriptionsProofs`, `ReleasesProofs`, `VoiceConsentProofs` | theorems | the module named; `JobAdmissionProofs` also extends `CreditLedgerProofs` |
| `SumTheorems` | lemmas about sums over finite sets, which the ledger and the adjustments fold | |

Definitions whose comment begins with "Mutant" are altered forms of the definition that
follows; no specification uses them. Each stands for a plausible mistake in that code, and
putting it in place of the definition makes a property of the run fail.

### JobPipeline and PaidJob

One action is one SQL statement, transaction or Redis command with the computation up to
the next one. Processes are slots (one attempt at a time each), sweepers, requests
(publishing the job they created) and tickers (API instances with the 15-second timer).

| Variable | Code |
|---|---|
| `status`, `outbox`, `lastError`, `aged` | `ProviderJob.status`, `JobOutbox.status`, the class of `JobOutbox.lastError`, `createdAt` older than six hours |
| `charge`, `credited` | whether the linked debit has a reversal; a count of credits (history) |
| `bull`, `made`, `stalls`, `holder` | the BullMQ job `provider-<id>`, `attemptsMade`, `stalledCounter`, its lock |
| `pc`, `job`, `final`, `then`, `todo` | where a slot or sweeper is, its job, `finalAttempt`, where `refundFailedJob` returns to, the ids a sweep has read |
| `dpc`, `at`, `rows` | where a publisher is, the row in hand, the rows it has read |
| `requeue`, `exhausted`, `disturbed`, `left` | progress of an operator's requeue; history: jobs a final attempt gave up, jobs that lost a lock or were requeued; faults left |

`Create` is the committed admission (everything before it is `JobAdmission`). `Add`,
`AddFails`, `MarkRow` are `dispatchRow`; `StaleReap`, `Select`, `RowsDone`, `Retire` the rest
of `dispatchPendingJobs`. `Take` to `Throw` are one managed attempt; `RefundCharge`,
`CompleteObligation`, `DeferObligation` are `refundFailedJob`, called from four places;
`SweepRead`, `SweepNext` the refund sweeper. `Evict`, `StalledCheck`, `LoseLock` are BullMQ.
A processor may succeed, throw, or record a failure itself (`HandlerMarksFailed`) and then
return. The promise of `PaidJob` is kept for a job until BullMQ hands it to two slots at
once or an operator requeues it; from then on (`disturbed`) it is `"void"` there. The code
does not keep it beyond that: see section 5.

### CreditLedger and JobAdmission

Charges, reversals and the sweep's reversals hold the workspace's advisory lock, so each is
one step; the sweep's first read is not under it and is a step of its own. A key is one
(workspace, idempotency key), hence at most one debit row; a charge without a key is a key
used once. `switches` holds what the environment and `isFirstPartyBilling` say. `Reverse`
takes the caller because `refundCredits` (API) and the worker decide internal mode
differently. `Age` is the minimum age of an orphan, `NextDay` and `DaysPerMonth` the calendar
of the caps, `Launch` BILLING_ENFORCEMENT being switched on.

Each request of `JobAdmission` charges, looks up a replayed charge, reads the guard,
inserts, or compensates. The job transaction runs at READ COMMITTED and reads the charge
without a lock, hence `Guard` and `Insert` are two steps. The insert takes a key-share lock
on the charge row through its foreign key and the orphan sweep takes that row FOR UPDATE,
so `Insert` and `SweepRefund` exclude each other and are one step each.

### WebhookInbox, PayPalBilling, Subscriptions

`inbox` holds, for every event PayPal will send, the status of its `BillingEvent` row,
whether its 15 minutes have passed (`stale`), and whether PayPal has been answered 200
(`acked`), after which it does not call again. A request claims the row, applies the event
in the steps of its module ("apply"), and settles the row, whatever the row is by then.
`Throw`, `SettleFails` and `Die` are its faults; a request whose lease ran out goes on.

In `PayPalBilling` a purchase is one intent with its one order. `history` is what PayPal
will have on record about the payments, chosen at the start; the events are derived from it
and may come in any order. `BindOrder`, `ReturnGrant` are the checkout and the return URL;
`CreditCapture` is the capture event; `AdjustNext` applies one event to one payment after
another, in a transaction each; a claim in a currency that is not the payment's (`Foreign`) is
passed over, and when it was the only one the event ends as unmatched (`Outcome`); `Target` is
the recalculation of what is to be taken back from all rows there are. `Reprice` deploys another price list, after which a capture matches
no pack.

In `Subscriptions` a `life` is the list of statuses a subscription passes through at
PayPal, with their times in seconds. `Reserve`, `Bind`, `Return`, `Confirm` are the
checkout and the return route, with PayPal asked in between; `ApplyStatus` applies a status
event if it `Supersedes` the row, and then the workspace's plan follows (`Follow`);
`ApplySale` grants a cycle.

### Releases

`head` is the Release row: status, distributor, the partner's id (`xid`, the revision it
was issued for), revision, the revision its artifacts were staged as, and
`distributionStatusAt`. Every write increments the revision, as a trigger of the schema
does. A submission is `Observe` (read and build), `Stage` (the conditional write), the call
(`Submit`, `Refused`), and `Finalize` or `Restore` under the song's lock; publication and
takedown read first and write under the lock later. `partner` is the history of what was
submitted under each revision; `Look` is a webhook request finding the row by the partner's
id, `Apply` its transaction. `song` is `"released"` by a live release, or else `"other"`.

### Voices, VoiceSetup, VoiceTraining, VoiceConsent

`Voices` holds the rows under one consent (`revoked`, `profile`, `voice`, `record`), the job
of each key (`charge`, `status`, `madeFor`) with its BullMQ job (`waiting`, `holder`,
`tries`), and what exists at the providers (`hosted`, `made`). A profile goes by the call that
makes it. `Delete` is the DELETE route in the order of the code: revoke, read, one
transaction over profiles and jobs, read what was canceled, unqueue and refund each, take
down, record with a cleanup job. A cleanup job reads what is on record once (`CleanRead`) and
writes what it knows back after each try (`CleanUp`, `CleanUpFails`), over whatever is on
record then. Calls that give up send their statements together with
`Promise.allSettled`, hence `todo` and `Statement`, in any order. `VoiceSetup` is POST /voices
with the worker's attempts (`Take` to `Tail`), in which the look at the consent (`Train`) and the
statement that marks the profile (`MarkTraining`) are two steps; `VoiceTraining` is POST /voices/train, where
the job is RUNNING while the call is, and the poll. `lost`, `stranded`, `withdrawn` are
histories: artefacts a fault left without a trace, keys whose reversal failed or died with
its call, keys reversed otherwise than by a revocation.

## 3. Runs

| Run | Checks | Shows |
|---|---|---|
| `pipeline` | `TypeOK`, `RefundedAtMostOnce`, `RefundFollowsExhaustion`, `ObligationOnFailedJob`, `KeepsPromise` | one job, two slots; a fault of each kind, or a lost lock and a requeue: one reversal, after a final failure only; obligations are where the sweeper looks; `PaidJob` is implemented |
| `pipeline_live` | `DispatchedIsQueued`, `EveryJobSettles`, `EveryFailureIsRefunded` | a lost publication and a crash, or one failing refund: every job settles and every failure is refunded |
| `ledger` | `LedgerTypeOK`, `AgreeingRefundsMakeNoCredits`, `CapsHold`, `BalanceMatchesLedger`, `NeverOverdrawn`, `SweepSparesJobs` | all eight combinations of switches, with the launch in between: where every charge is paid for, the balance is what the rows leave; elsewhere it is never less |
| `admission` | `AdmissionTypeOK`, `AnswerNamesJob`, `NoStrandedDebit`, `EveryDebitSettles` | a repeated request, a rival one, two faults, the sweep |
| `billing` | `BillingTypeOK`, `GrantedOnceForPayment`, `RevokedAgreesWithPayPal`, `ProcessedIsEffective` | two purchases, two requests, a fault, every order of the events of ten histories, two of them with a claim in another currency |
| `subscription` | `SubscriptionsTypeOK`, `StatusFollowsPayPal`, `PlanFollowsSubscription`, `OneSubscriptionAtATime`, `OpenCheckoutIsLive`, `CyclesGrantedOnce` | two checkouts racing, late and reordered events, a revival, two statuses in one second |
| `release` | `ReleaseTypeOK`, `PartnerHoldsWhatHeadSays`, `PublicIsLive`, `LiveOnlyTakenDown`, `PartnerStatusAdvances` | two requests over submissions, edits, publications, takedowns and the partner's events |
| `voice` | `VoiceTypeOK`, `NothingAfterRevocation`, `RevocationIsComplete`, `NothingForgotten`, `CalledOffIsRefunded`, `DeliveredIsCharged` | two calls that make voices under a revocation, two slots, a fault or a lost lock; after the revocation the only profile that still becomes TRAINING is that of a statement under way |
| `found_lost_refund` | `EveryFailureIsRefunded` violated | section 5 |
| `found_admin_requeue` | `EveryJobSettles` violated | section 5 |
| `found_minted_credits` | `CreditsOnlyWhatWasDebited` violated | section 5 |
| `found_answered_lost` | `AnsweredIsGranted` violated | section 5 |

### Bounds

- `JobPipeline`: one job, because jobs share nothing but slots and batches (a batch of one
  read earlier is already stale); two slots, so that two attempts at one job can overlap;
  one sweeper and one ticker beside one request, so that two refunders and two publishers
  overlap. `Attempts` is 2 where the code says 3: a first and a final attempt are the
  only kinds. `Scenarios` bounds the faults: `Mixed` has one of each but a lost lock,
  `Zombie` a lost lock and a requeue; their union is all the environment may do. `made`,
  `stalls` and `credited` need no bound: faults bound them.
- `CreditLedger`: four keys (media of one and of two units, work without a job, a free
  render) against a daily cap of 2 units, a monthly one of 3, a spend ceiling of 4, a plan of 2
  and a balance of 4, so that each cap, the plan and the balance can be the one that refuses, and a launch can find the month above the plan, which
  is no cap of the beta (`CapsHold` then asks that nothing was debited on top); three days over two months; one purchase. Every deployment
  has the same caps.
- `JobAdmission`: credits for one of two works, two requests under one key, two faults: one
  cuts a request off and one makes its compensation fail.
- `PayPalBilling`: two purchases of 3 credits for 2 dollars, so that a part of the price is no
  whole number of credits; two requests, so that two hold one event after a lease ran out;
  one fault; one other price list. The histories of `MCPayPalBilling` let every kind of event
  meet every other: refund items and totals, a reversal beside refunds, a dispute that
  is updated, won, beside a refund, with three stages at one time, and one about two payments;
  a claim in another currency, alone and beside one that counts.
- `Subscriptions`: two checkouts, the fewest that can rival; one sale each; three lives: an
  end in the same second as the activation, a revival, an expiry.
- `Releases`: two requests; six revisions, enough for submit, edit, submit again, publish and
  take down; three statuses by submission; two instants; one fault.
- `Voices`: a key for each way to make a voice and two calls, so that the second may repeat
  the first's key; two slots, so that a redelivered attempt overlaps its predecessor; two
  artefacts; two attempts with a fault, or one with a lost lock. A cleanup job needs a provider
  that failed, so one fault means one cleanup job at a time; that several do not harm is in
  the proof. Two revocations at once, two
  faults with one maker, and a DELETE repeated after it failed were checked by hand at the
  same properties.

Deadlock is not checked: every instance really stops once its jobs, keys, events and faults
are used up.

### Fairness

`JobPipeline!Fairness` is weak fairness of each dispatcher (a 15 s interval, never cancelled
while the API is up), each worker (a process that is up continues its attempt; BullMQ hands
out waiting jobs; the refund sweeper is an interval) and the stalled-checker. Requests,
operators, retention and time are not fair. `JobAdmission!Fairness` is weak fairness of a
request that is up, of time passing, and of the orphan sweep's interval. Crashes are bounded,
so processes are in the end up; this is an assumption of every liveness property. The
billing, release and voice modules state safety only: nothing in that code runs by itself
once PayPal, the partner or the caller stops calling (`AnsweredIsGranted` is the case in
point), so what could be said to happen in the end rests on others.

## 4. Proofs

Machine-checked for all values of the constants that meet the named assumptions:
`NobodyAssumption`, `DisjointAssumption`, `AttemptsAssumption`, `PathAssumption`,
`ScenarioAssumption` (`JobPipeline`); `KeyAssumption`, `PriceAssumption`, `SwitchAssumption`,
`NumberAssumption` (`CreditLedger`); `RequestAssumption`, `FaultAssumption` (`JobAdmission`);
`FaultAssumption`, `PackAssumption`, `BoundAssumption`, `HistoryAssumption`, `ClockAssumption`
(billing); `CheckoutAssumption`, `LifeAssumption`; `BoundAssumption` (`Releases`);
`VoiceAssumption`. The histories and lives at PayPal are any well-formed ones, not only the
instances the runs choose. `ClockAssumption` is about PayPal: the stages of a dispute are dated
in the order they happen, and two updates of one claim have different times. Were two updates
dated alike, the code would take the one it recorded last for the later one, whichever it is.

| Theorem | States | Argument |
|---|---|---|
| `TypeCorrect` | `SafeSpec => []TypeOK` | inductive with `Busy`: a process that is past idle has a job (otherwise `EXCEPT ![job[w]]` would be outside the domain) |
| `RefundOnce` | `SafeSpec => []RefundedAtMostOnce` | `RefundCharge` is the one step that changes `charge` or `credited`, and it tests one before it changes both; uses `TypeCorrect` |
| `RefundsFollowExhaustion` | `SafeSpec => []RefundFollowsExhaustion` | not inductive alone: whoever refunds acts on a FAILED status it read, perhaps long ago. `FailedForGood` (a FAILED job was given up by a final attempt) and `OnTheWay` (so was the job of any process between its read and its refund, and every job a sweep has read) close it, lost locks and requeues included |
| `PipelineKeepsPromise` | `SafeSpec => KeepsPromise` | refinement of `PaidJob`. `Course`: a slot on an undisturbed job holds its lock, so it is alone (`Exclusive`) and sweepers run no attempts (`Roles`); so what an attempt read or wrote last still holds (`OnCourse`); so who refunds looks at a FAILED job (`Refunding`) |
| `ObligationsStayDue` | `SafeSpec => []ObligationOnFailedJob` | from `Course`: nothing takes an undisturbed job out of FAILED |
| `DispatchedRowsAreQueued` | `SafeSpec /\ Forgiven => []DispatchedIsQueued` | `Kept`: the BullMQ job of an open job is absent, waiting or active, and it is in BullMQ whenever the job is RUNNING, its row is DISPATCHED, or a publisher is about to mark or retire the row (`Queued`, `Vouched`); an active slot that ends its BullMQ job for good has first made the job terminal (`Attempting`), BullMQ has forgiven at least as many stalls as there are crashes to come (`Stalling`), an operator puts back only FAILED jobs (`Requeueing`), and no publisher holds a job not yet created (`Unknown`). `Forgiven` is a budget of faults: no more crashes than the stalls BullMQ forgives, and no settlement that fails while the job does, or a job can leave BullMQ with its row open (section 5) |
| `LedgerTypeCorrect` | `LedgerSpec => []LedgerTypeOK` | inductive |
| `NeverBelowZero` | `LedgerSpec => []NeverOverdrawn` | the conditional debit; prices are positive |
| `RefundsMakeNoCredits` | `LedgerSpec => []AgreeingRefundsMakeNoCredits` | while the switches agree, a debit row was debited unless reversals do not credit; `Launch` keeps agreement |
| `SweepIsSafe` | `LedgerSpec => SweepSparesJobs` | the re-check under the locks |
| `BalanceIsTheLedger` | `LedgerSpec => []BalanceMatchesLedger` | `HistoryMatchesRows` ties the keys that were debited and credited to the rows: where every charge is paid for, a key was debited just when it has a debit row, and credited just when that row is reversed; elsewhere a reversal may credit what was not debited, but nothing is debited without a row. A charge adds one element to the sum of debits, a reversal one to the sum of credits, and the standing rows are their difference (a sum over a disjoint union) |
| `CapsAlwaysHold` | `LedgerSpec => []CapsHold` | `CapsInv`: every row is of today or before, so midnight and the first of the month can only take rows out of a sum, as reversals do (`SumMonotone`), and a charge was admitted with its own units counted |
| `AdmissionUsesLedger` | `SafeSpec => LedgerSpec` | refinement: each step of admission is a step of the ledger or leaves the account alone. A request that compensates or binds holds a charge that is there (`Holding`) |
| `AdmissionTypeCorrect`, `AnswersNameJobs`, `NoDebitIsStranded` | the three invariants of `admission` | `DebitsInHands`: only a request that goes on to hold the charge makes a debit, and it lets go of it bound, reversed or by a fault |
| `AdmissionKeepsBooks` | `SafeSpec => [](BalanceMatchesLedger /\ NeverOverdrawn /\ CapsHold) /\ SweepSparesJobs` | the refinement and the theorems of the ledger |
| `BillingTypeCorrect`, `GrantOncePerPayment`, `ProcessedEventsCount` | `Spec => []BillingTypeOK`, `[]GrantedOnceForPayment`, `[]ProcessedIsEffective` | what a request may rely on (`RequestOK`) is never taken back: a captured order stays captured, a granted pack granted, a written row written. So a request whose lease ran out settles rightly whoever else was at the event |
| `RevokedAgrees` | `Spec => []RevokedAgreesWithPayPal` | `TakenBack`: the rows of a payment tell of events about it, and the credits taken back are the `Target` of those rows, at every step (`AppendRevoked`). When every such event has a row, rows and events are in bijection (`RowsComplete`); the last total and the last stage of the dispute outdate the others (`LatestOne`, `LastStage`), refund items outdate nothing (`PartsRisk`), and each risk is the share PayPal's records give (`TargetIsUncovered`) |
| `TakenBackWithinPack` | `Spec => [](\A p : Revoked(p) \in 0..Pack)` | from `TakenBack`; the clamp of what is held in `Adjust` never bites |
| `SubscriptionTypeCorrect`, `StatusIsPayPals`, `PlanIsOfSubscription`, `EndedCheckoutIsClosed`, `CycleGrantedOnce` | the five invariants of `subscription` but one | `Applied(e)` is stable: a row that outdates an event outdates it for ever (`AppliedGrows`), so a processed event of the last status means the row has it |
| `OneAtATime` | `SafeSpec => []OneSubscriptionAtATime` | a second subscription can be reserved only while no row of the first is billable, so the first had ended by PayPal's records before |
| `ReleaseTypeCorrect`, `PartnerHoldsTheRelease`, `PublicSongIsLive`, `LiveEndsByTakedown`, `StatusOfPartnerAdvances` | all properties of `release` | `SubmissionIsStaged`: while the row has the revision a request submitted, it is submitting, is that revision's, and nobody has answered for it; revisions only grow. `PartnerSaidSo`: what a request was told is in the partner's books. `GuardIsCurrent`: a takedown of a row that nobody has written since the route looked is not of a partner's release |
| `VoiceTypeCorrect` | `Spec => []VoiceTypeOK` | with `LastIsLast`: a slot with the lock knows rightly whether its attempt is the last, or a lost lock would let BullMQ count past the budget |
| `RevokedMeansStopped`, `RevocationReachesAll` | `Spec => NothingAfterRevocation`, `[]RevocationIsComplete` | who makes a profile or gets it ready does so under the lock of the consent, and who marks one in training was at that statement before; `SnapshotIsComplete`: a DELETE has read every profile there is, since none can be made after the revocation that precedes its reading |
| `NoVoiceIsForgotten` | `Spec => []NothingForgotten` | `HeldOnTheWay`, `OneName` and `PlansAreCurrent` (what a DELETE has read of a profile is out of date only about what is gone), which need that an unfinished profile names nothing (`FreshIsBare`, `UnstoredIsBare`), that a cleanup job is for a profile that was named and revoked (`CleanedWasNamed`, `CleanersComeLate`) and what it has read is out of date only about what is gone (`CleanersAreCurrent`), that calls and slots have their keys, and that the two routes keep apart |
| `CallingOffPaysBack` | `Spec => []CalledOffIsRefunded` | `Refunding` names the debtor of each canceled job: a call with the reversal among its statements, or a DELETE that has it before it |
| `DeliveryStaysCharged` | `Spec => []DeliveredIsCharged` | `CanceledIsUndelivered` and `ReversedIsUndelivered`: what a DELETE read as canceled under a revoked consent can never succeed |

Sums. The balance, the caps and the adjustments are folds that take one chosen element after
another out of a set. The library's induction over finite sets is out of the provers' reach,
so `SumTheorems` proves each fact (the fold is defined, any element can be taken out first, a
part sums to no more than the whole, a bijection keeps the sum) by taking a smallest subset
that refutes it, which exists because proper inclusion among the subsets of a finite set is
well-founded.

TLC only: all liveness (`EveryJobSettles`, `EveryFailureIsRefunded`, `EveryDebitSettles`), which
is beyond the prover. Every invariant and action property of a passing run is the subject of a
theorem. What the runs expect to be violated is, of course, not proved.

## 5. Where code and documentation disagree

- **A refund obligation can be erased** (`found_lost_refund`). The dispatcher marks every open
  row of a job that left QUEUED as DISPATCHED with another `lastError`; the row of a FAILED
  job carries the refund marker. If both immediate refunds fail and the dispatcher ticks
  before the sweeper succeeds, nothing finds the charge again.
- **The admin retry is deduplicated** (`found_admin_requeue`) against the failed BullMQ job
  kept under the same id, which the salvage path removes first for that reason.
- **Refunds credit first-party workspaces** (`found_minted_credits`). The worker decides by
  AUTH_MODE alone whether a reversal raises the balance; the charge also knew first-party
  (and beta) workspaces, and did not lower it.
- **An answered capture can be lost** (`found_answered_lost`). A call about an event another
  request holds is answered 200, and PayPal ends its calls with the first 200; if the holder
  dies or fails then, nothing takes the event up again.

Not runs of their own, because nothing in the repository states the contrary or the case is a
variant of a run:

- Jobs. `Scenarios <- TwoCrashes` in `pipeline_live.cfg` shows a job that BullMQ fails unrun at
  its second stall, its row open and charged (index.ts:855 says nothing is lost);
  `Scenarios <- LongOutage` a row retired after six hours with its job QUEUED and charged;
  `PROPERTIES JobsAreCharged` in `admission.cfg` a job committed on a charge that another
  request under the same key reversed between its guard and its insert. A slot that lost its
  lock may deliver a refunded job or reopen a failed one.
- Releases. The publish route decides by a row read outside the lock and lets a release that is
  being submitted be replaced (release.ts:1442-1450); its comment says otherwise. After a lost
  answer the next attempt has another revision, hence another idempotency key, and the partner
  may hold the release twice. A process that dies after staging leaves the row `submitting`,
  where it can be neither edited nor submitted. An event of an older submission may be
  applied to the draft that has replaced it. The takedown route looks at the distributor before
  it takes the lock (release.ts:1589-1605) and does not look again inside (1626-1664): a release
  that has become the partner's meanwhile is taken down although live there, against the comment
  "Only a FIRST-PARTY release is taken down here" (1571-1572); `TakesDown` leaves that case out of
  `LiveOnlyTakenDown` and `PartnerStatusAdvances`, and only that. Events with a time before the local
  `submittedAt` are dropped. `PATCH /songs/:id` can set RELEASED by hand.
- Subscriptions. An abandoned checkout stays PENDING_APPROVAL and blocks all others. A
  revival in the same second as a suspension is taken for suspended.
- Credit packs. A claim of a dispute in a currency other than the payment's is passed over
  (billing-service.ts:485-490), and nothing is taken back for it; the event is processed if
  another claim of it counted, and unmatched otherwise. (A claim without an amount is not
  passed over: it takes back the whole pack, webhooks.ts:697, as a claim of `Gross` does.)
- Voices. A worker that begins before the API's re-check makes the API refund a job that is
  then delivered (`Recheck`). A second request under one key answers its own PENDING profile
  with the first one's job. An API process that ends between a cancellation and its refund
  strands the charge. A worker that crashes after the provider made a voice leaves that voice
  without a trace. The first failed attempt sets the profile FAILED, so the retries cannot
  succeed. The record of a training run that could not be cancelled is overwritten by a
  DELETE that read the profile before, or by a cleanup job that read the record before
  (voice-cleanup.ts:119-178). When a profile left without a job cannot be deleted, that is ignored,
  and it stays PENDING (voices.ts:699-701). The statement that marks a profile as in training
  takes no lock of the consent (voice-profile.ts:181-197), so it may write TRAINING just after
  the revocation; the attempt then fails at its transaction. The DELETE's recording ends with
  an error when a profile has been deleted meanwhile. POST /voices/train does not ask whether the charge
  of its key was reversed. With several lost locks a late markFailed reopens a refunded job,
  overwrites CANCELED, or turns a READY profile to FAILED.
- Outside the models: renders of songs with a voice do not look at the consent, and
  `markRunning` overwrites a CANCELED written between the guard's reading and it. An
  idempotent operation that is reclaimed as stale is never executed again, since its insert
  fails on the key it renews.

## 6. Limits

**Jobs.** `JobPipeline` leaves out CANCELED (it is in `VoiceSetup`, where it comes from), retry
delays and backoff (a row or job is always due), jobs older than the outbox or the charge
link, unknown queue names, free charges (nothing to reverse), failing reads inside
`refundFailedJob`, and statements whose commit is ambiguous. Workers crash together; a slot
that goes on after losing its job is `LoseLock`. `CreditLedger` has one plan category and an
unbounded sweep batch; free charges, which take no lock, cannot collide. `JobAdmission`
assumes a request ends within the 15 minutes that make a charge an orphan.

**Billing.** A mismatch of currency, amount or price list is one thing, `Reprice`. Binding an
event to its intent by identity writes nothing new when it succeeds and is left out, as are
receipts and mail. What PayPal will have on record is chosen at the start; no two totals of
one payment have the same time. One workspace; a checkout keeps its plan under its key.

**Releases.** RELEASED set by hand is not told from any other status of a song that no live
release made public. `releaseReady` has many writers and is taken to be on or off at any time;
certification and packaging succeed or not by choice. "failed" stands for "cancelled" too.
Channels, rights and artwork data and first-party event rows are left out. The partner's clock
is ours.

**Voices.** A cleanup job that was already made for the same fingerprint may be made again in
the model, which allows more than the code. A refund that fails after `Invoke` refused is
`InvokeFails`. Renders, rehosting and dataset jobs, likeness, storage objects and the model
versions of trainers with a destination are left out (a version that was finished before the
poll is not deleted on revocation). Publication and redelivery are those of `JobPipeline`,
reduced to a job that is in the queue.

**Not modelled.** Idempotent operations, the orchestration worker with drops and material,
asset cleanup and cron: protocols of the same kind, left for want of room, in the plan below.
Media processors, the trainer service, AI adapters: signal processing, prompts and provider
calls, whose outcome towards a job is all the models need. Auth, sessions, workspaces and
invites: checks within one request. The web application: user interface. Shared helpers:
pure functions, prices, tables of genres. These make up most of the repository's lines; what
is modelled are the protocols between processes, a small share of the lines by count.
Configuration, validation, wording and provider behaviour are not modelled anywhere.

## 7. Plan

Done: the promise of a paid job and its pipeline, ledger and admission; PayPal billing and
subscriptions; releases; voices and consent; their theorems. Next:

1. `IdempotentOperation`: reclaim of stale executors; one result per key.
2. `AssetCleanup`: plan, check and delete against new references.
3. `Orchestration`: parents, children, timeouts; its charge against `CreditLedger`.
4. `JobPipeline`: ambiguous commits; two dispatchers.
5. Proofs: an abstract specification of billing (a payment is granted once and taken back as
   its records say) that `PayPalBilling` implements; one of a release at its partner.
