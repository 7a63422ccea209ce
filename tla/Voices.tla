------------------------------- MODULE Voices -------------------------------
(***************************************************************************)
(* The voices made under one VoiceConsent, and what becomes of them when   *)
(* it is revoked: profiles and their jobs in PostgreSQL, the BullMQ jobs,  *)
(* and the artefacts at the providers, which are speech voices hosted by   *)
(* ElevenLabs and training runs at Replicate (apps/api/src/routes/         *)
(* voices.ts and apps/worker/src/processors/voice-cleanup.ts).             *)
(*                                                                         *)
(* Here are the shared state, the DELETE route, which revokes, and the     *)
(* cleanup job. VoiceSetup and VoiceTraining add how a voice is made.      *)
(***************************************************************************)
EXTENDS Naturals, FiniteSets

CONSTANTS
    Makers,          \* API calls that make a voice; the profile goes by its maker
    Revokers,        \* API calls of DELETE /voices/:voiceId
    Slots,           \* slots of the worker
    Keys,            \* idempotency keys: a charge and at most a job each
    Trainings,       \* the keys that are for POST /voices/train
    Artefacts,       \* bound: what the providers may be asked to make
    None,
    Scenarios        \* bounds: BullMQ attempts of a job, faults, lost locks

ASSUME VoiceAssumption ==
    /\ Trainings \subseteq Keys
    /\ Makers \cap Revokers = {} /\ Slots \cap (Makers \cup Revokers) = {}
    /\ None \notin Makers \cup Slots \cup Keys \cup Artefacts
    /\ Scenarios \subseteq [attempts : Nat \ {0}, faults : Nat, locks : Nat]

VARIABLES
    revoked,         \* the consent has its revokedAt
    profile,         \* status of a VoiceProfile
    voice,           \* the artefact a profile names: providerVoiceId or trainingId
    record,          \* the artefact its providerCleanup names as not yet gone
    charge,          \* the charge of a key
    status,          \* the ProviderJob of a key
    madeFor,         \* the profile that job is for
    waiting,         \* its BullMQ job is in the queue
    holder,          \* the slot with the lock on its BullMQ job
    tries,           \* attempts BullMQ has counted
    hosted,          \* artefacts that are there
    made,            \* artefacts that ever were
    cleaning,        \* voice-cleanup jobs to run or begun
    pc,              \* where a call or a slot is
    key,             \* the key of a call
    todo,            \* the statements a giving-up call has in flight
    seen,            \* the jobs a DELETE has before it
    plan,            \* the profiles a DELETE has read, and what of each is to go
    job,             \* the key a slot is at work on
    final,           \* the attempt of a slot is its job's last
    held,            \* the artefact a call or slot has and has not stored
    lost,            \* history: artefacts a fault left without a trace
    stranded,        \* history: keys whose reversal failed, or died with a call
    withdrawn,       \* history: keys reversed otherwise than by a revocation
    left             \* the attempts of a job; failing statements and calls, crashes
                     \* and lost locks still to come

profiles == <<revoked, profile, voice, record>>
jobs     == <<charge, status, madeFor, waiting, holder, tries>>
hosts    == <<hosted, made, cleaning>>
locals   == <<key, todo, seen, plan, job, final, held>>
past     == <<lost, stranded, withdrawn>>
vars     == <<profiles, jobs, hosts, pc, locals, past, left>>

Actors   == Makers \cup Revokers \cup Slots
Gone     == {"none", "deleted"}
Usable   == {"PENDING", "TRAINING", "READY"}
Terminal == {"SUCCEEDED", "FAILED", "CANCELED"}

Nothing  == [p \in {} |-> None]

\* A cleanup job for a profile that has not read what is on record.
Queued(p) == [of |-> p, begun |-> FALSE, knows |-> None]

Init ==
    /\ revoked  = FALSE
    /\ profile  = [c \in Makers |-> "none"]
    /\ voice    = [c \in Makers |-> None]
    /\ record   = [c \in Makers |-> None]
    /\ charge   = [k \in Keys |-> "none"]
    /\ status   = [k \in Keys |-> "none"]
    /\ madeFor  = [k \in Keys |-> None]
    /\ waiting  = [k \in Keys |-> FALSE]
    /\ holder   = [k \in Keys |-> None]
    /\ tries    = [k \in Keys |-> 0]
    /\ hosted = {} /\ made = {} /\ cleaning = {}
    /\ pc       = [a \in Actors |-> "idle"]
    /\ key      = [c \in Makers |-> None]
    /\ todo     = [c \in Makers |-> {}]
    /\ seen     = [c \in Revokers |-> {}]
    /\ plan     = [c \in Revokers |-> Nothing]
    /\ job      = [w \in Slots |-> None]
    /\ final    = [w \in Slots |-> FALSE]
    /\ held     = [a \in Makers \cup Slots |-> None]
    /\ lost = {} /\ stranded = {} /\ withdrawn = {}
    /\ left \in Scenarios

Goto(a, l)      == pc' = [pc EXCEPT ![a] = l]
Fault           == left.faults > 0 /\ left' = [left EXCEPT !.faults = @ - 1]
SetStatus(k, s) == status' = [status EXCEPT ![k] = s]
Reverse(k)      == charge' = [charge EXCEPT ![k] = IF @ = "held" THEN "reversed" ELSE @]
Hold(a, x)      == held' = [held EXCEPT ![a] = x]
Marked(c, s)    == [profile EXCEPT ![c] = s]

\* A provider makes something, or it is taken down there.
Made(x)      == x \in Artefacts \ made /\ made' = made \cup {x} /\ hosted' = hosted \cup {x}
TakeDown(xs) == hosted' = hosted \ xs
-----------------------------------------------------------------------------
(***************************************************************************)
(* Every route that makes a voice begins with the consent, the charge and, *)
(* when the key was used before, a look at what came of that.              *)
(***************************************************************************)
Begin(c, k, next) ==
    /\ pc[c] = "idle" /\ ~revoked
    /\ key'    = [key EXCEPT ![c] = k]
    /\ charge' = [charge EXCEPT ![k] = IF @ = "none" THEN "held" ELSE @]
    /\ Goto(c, IF charge[k] = "none" THEN next ELSE "replay")
    /\ UNCHANGED <<profiles, status, madeFor, waiting, holder, tries, hosts, todo, seen,
                   plan, job, final, held, past, left>>

\* The row of the profile, written under the lock of the consent's row.
CreateProfile(c, s) ==
    /\ ~revoked
    /\ profile' = Marked(c, s)
    /\ UNCHANGED <<revoked, voice, record>>

\* The call sends off these statements together, and waits for all of them.
GiveUp(c, statements) ==
    /\ todo' = [todo EXCEPT ![c] = statements]
    /\ Goto(c, "giving up")

Done(c, what) ==
    /\ pc[c] = "giving up" /\ what \in todo[c]
    /\ todo' = [todo EXCEPT ![c] = @ \ {what}]
    /\ Goto(c, IF todo[c] = {what} THEN "done" ELSE "giving up")

\* A job is canceled from the status in which nobody works for it.
Idling(k) == IF k \in Trainings THEN "RUNNING" ELSE "QUEUED"

CancelJob(c) ==
    /\ Done(c, "cancel")
    /\ IF status[key[c]] = Idling(key[c]) THEN SetStatus(key[c], "CANCELED") ELSE UNCHANGED status
    /\ UNCHANGED <<profiles, charge, madeFor, waiting, holder, tries, hosts, key, seen, plan,
                   job, final, held, past, left>>

\* Queue.remove fails on a job that is active.
Unqueue(ks) == waiting' = [k \in Keys |-> waiting[k] /\ ~(k \in ks /\ holder[k] = None)]

RemoveJob(c) ==
    /\ Done(c, "remove")
    /\ Unqueue({key[c]})
    /\ UNCHANGED <<profiles, charge, status, madeFor, holder, tries, hosts, key, seen, plan,
                   job, final, held, past, left>>

ReverseCharge(c) ==
    /\ Done(c, "refund")
    /\ Reverse(key[c])
    /\ withdrawn' = withdrawn \cup {key[c]}
    /\ UNCHANGED <<profiles, status, madeFor, waiting, holder, tries, hosts, key, seen, plan,
                   job, final, held, lost, stranded, left>>

StatementFails(c, what) ==
    /\ Done(c, what) /\ Fault
    /\ stranded' = IF what = "refund" THEN stranded \cup {key[c]} ELSE stranded
    /\ UNCHANGED <<profiles, jobs, hosts, key, seen, plan, job, final, held, lost, withdrawn>>

Statement(c) ==
    \/ CancelJob(c) \/ RemoveJob(c) \/ ReverseCharge(c)
    \/ \E what \in {"cancel", "remove", "refund", "fail", "blame"} : StatementFails(c, what)
-----------------------------------------------------------------------------
(***************************************************************************)
(* DELETE /voices/:voiceId. The revocation comes first, so that what is    *)
(* read after it is all there will ever be. The steps up to the refunds    *)
(* may be ended by a fault, for which DieRevoking stands.                  *)
(***************************************************************************)
Revoke(c) ==
    /\ pc[c] = "idle" /\ \E p \in Makers : profile[p] \notin Gone
    /\ revoked' = TRUE
    /\ Goto(c, "profiles")
    /\ UNCHANGED <<profile, voice, record, jobs, hosts, locals, past, left>>

\* The profiles there are. What an earlier DELETE has put on record goes before
\* what the profile names.
ReadProfiles(c) ==
    /\ pc[c] = "profiles"
    /\ plan' = [plan EXCEPT ![c] = [p \in {p \in Makers : profile[p] \notin Gone} |->
                                       IF record[p] # None THEN record[p] ELSE voice[p]]]
    /\ Goto(c, "jobs")
    /\ UNCHANGED <<profiles, jobs, hosts, key, todo, seen, job, final, held, past, left>>

ReadJobs(c) ==
    /\ pc[c] = "jobs"
    /\ seen' = [seen EXCEPT ![c] = {k \in Keys : status[k] = Idling(k)}]
    /\ Goto(c, "commit")
    /\ UNCHANGED <<profiles, jobs, hosts, key, todo, plan, job, final, held, past, left>>

Commit(c) ==
    LET there == {p \in DOMAIN plan[c] : profile[p] \notin Gone} IN
    /\ pc[c] = "commit"
    /\ profile' = [p \in Makers |-> IF p \in there THEN "REVOKED" ELSE profile[p]]
    /\ voice'   = [p \in Makers |-> IF p \in there THEN None ELSE voice[p]]
    /\ record'  = [p \in Makers |-> IF p \in there THEN plan[c][p] ELSE record[p]]
    /\ status'  = [k \in Keys |-> IF k \in seen[c] /\ status[k] = Idling(k) THEN "CANCELED" ELSE status[k]]
    /\ Goto(c, "canceled")
    /\ UNCHANGED <<revoked, charge, madeFor, waiting, holder, tries, hosts, locals, past, left>>

\* Mutant: what was about to be canceled is taken for canceled.
ReadCandidates(c) ==
    /\ pc[c] = "canceled"
    /\ Goto(c, "refunds")
    /\ UNCHANGED <<profiles, jobs, hosts, locals, past, left>>

\* Which of the jobs the transaction did cancel.
ReadCanceled(c) ==
    /\ pc[c] = "canceled"
    /\ seen' = [seen EXCEPT ![c] = {k \in @ : status[k] = "CANCELED"}]
    /\ Goto(c, "refunds")
    /\ UNCHANGED <<profiles, jobs, hosts, key, todo, plan, job, final, held, past, left>>

\* Mutant: only jobs that could be taken out of the queue are refunded.
RefundRemoved(c, k) ==
    /\ pc[c] = "refunds" /\ k \in seen[c]
    /\ seen' = [seen EXCEPT ![c] = @ \ {k}]
    /\ Unqueue({k})
    /\ IF waiting[k] THEN Reverse(k) ELSE UNCHANGED charge
    /\ UNCHANGED <<profiles, status, madeFor, holder, tries, hosts, pc, key, todo, plan, job,
                   final, held, past, left>>

\* The canceled jobs leave the queue and their charges are reversed.
RefundCanceled(c, k) ==
    /\ pc[c] = "refunds" /\ k \in seen[c]
    /\ seen' = [seen EXCEPT ![c] = @ \ {k}]
    /\ Unqueue({k})
    /\ Reverse(k)
    /\ UNCHANGED <<profiles, status, madeFor, holder, tries, hosts, pc, key, todo, plan, job,
                   final, held, past, left>>

RefundFails(c, k) ==
    /\ pc[c] = "refunds" /\ k \in seen[c] /\ Fault
    /\ seen' = [seen EXCEPT ![c] = @ \ {k}]
    /\ stranded' = stranded \cup {k}
    /\ UNCHANGED <<profiles, jobs, hosts, pc, key, todo, plan, job, final, held, lost, withdrawn>>

\* The artefacts are taken down, but for those whose provider fails.
TakeDownAll(c, failing) ==
    /\ pc[c] = "refunds" /\ seen[c] = {} /\ failing \subseteq DOMAIN plan[c]
    /\ IF failing = {} THEN UNCHANGED left ELSE Fault
    /\ TakeDown({plan[c][p] : p \in DOMAIN plan[c] \ failing})
    /\ plan' = [plan EXCEPT ![c] = [p \in DOMAIN @ |-> IF p \in failing THEN @[p] ELSE None]]
    /\ Goto(c, IF plan[c] = Nothing THEN "done" ELSE "record")
    /\ UNCHANGED <<profiles, jobs, made, cleaning, key, todo, seen, job, final, held, past>>

\* One profile after another: if something of it is left it gets a cleanup job,
\* and what is on record is overwritten by what this call knows. A profile that
\* has been deleted meanwhile ends the call with an error.
Record(c, p) ==
    /\ pc[c] = "record" /\ p \in DOMAIN plan[c]
    /\ cleaning' = IF plan[c][p] = None THEN cleaning ELSE cleaning \cup {Queued(p)}
    /\ IF profile[p] \in Gone
       THEN UNCHANGED record
       ELSE record' = [record EXCEPT ![p] = plan[c][p]]
    /\ LET rest == IF profile[p] \in Gone THEN {} ELSE DOMAIN plan[c] \ {p}
       IN  /\ plan' = [plan EXCEPT ![c] = [q \in rest |-> @[q]]]
           /\ IF rest = {} THEN Goto(c, "done") ELSE UNCHANGED pc
    /\ UNCHANGED <<revoked, profile, voice, jobs, hosted, made, key, todo, seen, job, final,
                   held, past, left>>

\* The process of a call ends, or a statement fails that nothing catches.
DieMaking(c) ==
    /\ pc[c] \notin {"idle", "done"} /\ Fault
    /\ Goto(c, "done")
    /\ stranded' = stranded \cup {key[c]}
    /\ lost'     = lost \cup ({held[c]} \ {None})
    /\ todo'     = [todo EXCEPT ![c] = {}]
    /\ Hold(c, None)
    /\ UNCHANGED <<profiles, jobs, hosts, key, seen, plan, job, final, withdrawn>>

DieRevoking(c) ==
    /\ pc[c] \notin {"idle", "done"} /\ Fault
    /\ Goto(c, "done")
    /\ stranded' = stranded \cup seen[c]
    /\ seen'     = [seen EXCEPT ![c] = {}]
    /\ plan'     = [plan EXCEPT ![c] = Nothing]
    /\ UNCHANGED <<profiles, jobs, hosts, key, todo, job, final, held, lost, withdrawn>>

Delete(c) ==
    \/ Revoke(c) \/ ReadProfiles(c) \/ ReadJobs(c) \/ Commit(c) \/ ReadCanceled(c)
    \/ \E k \in Keys : RefundCanceled(c, k) \/ RefundFails(c, k)
    \/ \E failing \in SUBSET Makers : TakeDownAll(c, failing)
    \/ \E p \in Makers : Record(c, p)
    \/ DieRevoking(c)
-----------------------------------------------------------------------------
(***************************************************************************)
(* The voice-cleanup job. It reads the record once, and writes what it     *)
(* knows back after each try, seconds or minutes later.                    *)
(***************************************************************************)
CleanRead(j) ==
    /\ ~j.begun
    /\ cleaning' = (cleaning \ {j}) \cup
                   IF profile[j.of] = "REVOKED"
                   THEN {[of |-> j.of, begun |-> TRUE, knows |-> record[j.of]]} ELSE {}
    /\ UNCHANGED <<hosted, record>>

\* What is on record now is overwritten, unless the profile has been deleted.
WriteBack(p, x) == record' = IF profile[p] \in Gone THEN record ELSE [record EXCEPT ![p] = x]

CleanUp(j) ==
    /\ j.begun
    /\ TakeDown({j.knows})
    /\ WriteBack(j.of, None)
    /\ cleaning' = cleaning \ {j}

\* The provider fails, which needs no fault of ours. The job tries again with
\* what it knows, or ends, and BullMQ may have another attempt for it.
CleanUpFails(j) ==
    /\ j.begun
    /\ WriteBack(j.of, j.knows)
    /\ cleaning' \in {cleaning, cleaning \ {j}, (cleaning \ {j}) \cup {Queued(j.of)}}
    /\ UNCHANGED hosted

Clean(p) ==
    /\ \E j \in cleaning : j.of = p /\ (CleanRead(j) \/ CleanUp(j) \/ CleanUpFails(j))
    /\ UNCHANGED <<revoked, profile, voice, jobs, made, pc, locals, past, left>>
=============================================================================
