----------------------------- MODULE VoiceSetup -----------------------------
(***************************************************************************)
(* Speech voices: POST /voices makes a profile and queues the job that     *)
(* sets its voice up (apps/api/src/routes/voices.ts); a slot of the worker *)
(* runs the job in up to three attempts (apps/worker/src/processors/    *)
(* voice-profile.ts under runManagedAttempt of apps/worker/src/index.ts).  *)
(* Publication, redelivery and refunds of failed jobs are JobPipeline's    *)
(* subject; here a committed job is in the queue.                          *)
(***************************************************************************)
EXTENDS Voices

Setups == Keys \ Trainings
-----------------------------------------------------------------------------
(***************************************************************************)
(* The route.                                                              *)
(***************************************************************************)
BeginSetup(c, k) == k \in Setups /\ Begin(c, k, "profile")

\* A key used before is answered with its first profile, while that is good.
ReplaySetup(c) ==
    LET k == key[c] IN
    /\ pc[c] = "replay" /\ k \in Setups
    /\ IF /\ status[k] # "none" /\ ~revoked
          /\ profile[madeFor[k]] \notin Gone \cup {"REVOKED"}
       THEN Goto(c, "done") ELSE Goto(c, "profile")
    /\ UNCHANGED <<profiles, jobs, hosts, locals, past, left>>

\* Mutant: the consent is not looked at again under its lock.
InsertProfileUnlocked(c) ==
    /\ pc[c] = "profile" /\ key[c] \in Setups
    /\ profile' = Marked(c, "PENDING")
    /\ Goto(c, "invoke")
    /\ UNCHANGED <<revoked, voice, record, jobs, hosts, locals, past, left>>

InsertProfile(c) ==
    /\ pc[c] = "profile" /\ key[c] \in Setups
    /\ \/ revoked /\ GiveUp(c, {"refund"}) /\ UNCHANGED profiles
       \/ CreateProfile(c, "PENDING") /\ Goto(c, "invoke") /\ UNCHANGED todo
    /\ UNCHANGED <<jobs, hosts, key, seen, plan, job, final, held, past, left>>

InsertProfileFails(c) ==
    /\ pc[c] = "profile" /\ key[c] \in Setups /\ Fault
    /\ GiveUp(c, {"refund"})
    /\ UNCHANGED <<profiles, jobs, hosts, key, seen, plan, job, final, held, past>>

Invoke(c) ==
    /\ pc[c] = "invoke" /\ key[c] \in Setups
    /\ \/ ~revoked /\ profile[c] = "PENDING" /\ Goto(c, "job") /\ UNCHANGED <<profile, todo>>
       \/ revoked /\ profile[c] = "PENDING" /\ GiveUp(c, {"refund"}) /\ profile' = Marked(c, "REVOKED")
       \/ profile[c] # "PENDING" /\ GiveUp(c, {"refund"}) /\ UNCHANGED profile
    /\ UNCHANGED <<revoked, voice, record, jobs, hosts, key, seen, plan, job, final, held,
                   past, left>>

\* The reading of the profile, or the reversal after it, throws.
InvokeFails(c) ==
    /\ pc[c] = "invoke" /\ key[c] \in Setups /\ Fault
    /\ Goto(c, "drop")
    /\ stranded' = stranded \cup {key[c]}
    /\ UNCHANGED <<profiles, jobs, hosts, locals, lost, withdrawn>>

Insert(c, k) ==
    /\ SetStatus(k, "QUEUED")
    /\ madeFor' = [madeFor EXCEPT ![k] = c]
    /\ waiting' = [waiting EXCEPT ![k] = TRUE]

\* createQueuedProviderJob: the job of the key if there is one, or a new one
\* for a charge that has not been reversed.
CreateJob(c) ==
    LET k == key[c] IN
    /\ pc[c] = "job"
    /\ \/ /\ status[k] = "none" /\ charge[k] = "held"
          /\ Insert(c, k) /\ Goto(c, "recheck")
       \/ /\ ~(status[k] = "none" /\ charge[k] = "held")
          /\ Goto(c, IF status[k] = "none" THEN "drop" ELSE "recheck")
          /\ UNCHANGED <<status, madeFor, waiting>>
    /\ UNCHANGED <<profiles, charge, holder, tries, hosts, locals, past, left>>

\* It throws: the transaction failed and is made up for, or it committed and
\* what came after it failed.
CreateJobFails(c) ==
    LET k == key[c] IN
    /\ pc[c] = "job" /\ status[k] = "none" /\ charge[k] = "held" /\ Fault
    /\ \/ /\ Reverse(k)
          /\ withdrawn' = withdrawn \cup {k}
          /\ UNCHANGED <<status, madeFor, waiting>>
       \/ Insert(c, k) /\ UNCHANGED <<charge, withdrawn>>
    /\ Goto(c, "drop")
    /\ UNCHANGED <<profiles, holder, tries, hosts, locals, lost, stranded>>

\* The profile without a job is deleted, whatever has been made of it.
DropProfile(c) ==
    /\ pc[c] = "drop"
    /\ profile' = Marked(c, "deleted")
    /\ lost'    = lost \cup ({voice[c], record[c]} \ {None})
    /\ voice'   = [voice EXCEPT ![c] = None]
    /\ record'  = [record EXCEPT ![c] = None]
    /\ Goto(c, "done")
    /\ UNCHANGED <<revoked, jobs, hosts, locals, stranded, withdrawn, left>>

\* That it cannot be deleted is ignored.
DropProfileFails(c) ==
    /\ pc[c] = "drop" /\ Fault
    /\ Goto(c, "done")
    /\ UNCHANGED <<profiles, jobs, hosts, locals, past>>

\* A profile the worker has begun on is taken for one that was revoked.
Recheck(c) ==
    /\ pc[c] = "recheck"
    /\ \/ ~revoked /\ profile[c] = "PENDING" /\ Goto(c, "done") /\ UNCHANGED todo
       \/ (revoked \/ profile[c] # "PENDING") /\ GiveUp(c, {"cancel", "remove", "refund"})
    /\ UNCHANGED <<profiles, jobs, hosts, key, seen, plan, job, final, held, past, left>>

SetUp(c) ==
    \/ \E k \in Keys : BeginSetup(c, k)
    \/ ReplaySetup(c) \/ InsertProfile(c) \/ InsertProfileFails(c) \/ Invoke(c) \/ InvokeFails(c)
    \/ CreateJob(c) \/ CreateJobFails(c) \/ DropProfile(c) \/ DropProfileFails(c)
    \/ Recheck(c)
-----------------------------------------------------------------------------
(***************************************************************************)
(* The worker. An attempt that is over leaves the BullMQ job alone unless  *)
(* it still holds its lock.                                                *)
(***************************************************************************)
Trainable(p) == ~revoked /\ profile[p] \in {"PENDING", "TRAINING"}
Release(w)   == holder' = [k \in Keys |-> IF holder[k] = w THEN None ELSE holder[k]]
Leave(w)     == Release(w) /\ job' = [job EXCEPT ![w] = None] /\ final' = [final EXCEPT ![w] = FALSE]
                           /\ Goto(w, "idle")

\* A job that somebody else has claimed fails the attempt. (A terminal job is
\* taken from the queue too, and nothing done for it.)
Take(w, k) ==
    /\ pc[w] = "idle" /\ waiting[k] /\ status[k] \notin Terminal
    /\ waiting' = [waiting EXCEPT ![k] = FALSE]
    /\ holder'  = [holder EXCEPT ![k] = w]
    /\ job'     = [job EXCEPT ![w] = k]
    /\ final'   = [final EXCEPT ![w] = tries[k] + 1 >= left.attempts]
    /\ SetStatus(k, "RUNNING")
    /\ Goto(w, IF status[k] = "QUEUED" THEN "train" ELSE "settle")
    /\ UNCHANGED <<profiles, charge, madeFor, tries, hosts, key, todo, seen, plan, held, past, left>>

\* The last look at the consent before the profile is marked: the statement that
\* marks it takes no lock of the consent.
Train(w) ==
    /\ pc[w] = "train"
    /\ Goto(w, IF Trainable(madeFor[job[w]]) /\ status[job[w]] = "RUNNING" THEN "mark" ELSE "catch")
    /\ UNCHANGED <<profiles, jobs, hosts, locals, past, left>>

\* What it finds of the profile is what there is when it writes.
MarkTraining(w) ==
    LET p == madeFor[job[w]] IN
    /\ pc[w] = "mark"
    /\ IF profile[p] \in {"PENDING", "TRAINING"}
       THEN profile' = Marked(p, "TRAINING") /\ Goto(w, "call")
       ELSE UNCHANGED profile /\ Goto(w, "catch")
    /\ UNCHANGED <<revoked, voice, record, jobs, hosts, locals, past, left>>

Host(w) ==
    /\ pc[w] = "call"
    /\ \E x \in Artefacts : Made(x) /\ Hold(w, x)
    /\ Goto(w, "persist")
    /\ UNCHANGED <<profiles, jobs, cleaning, key, todo, seen, plan, job, final, past, left>>

\* The provider is not called, since the last look at the profile found it
\* revoked; or it refuses, or its answer does not arrive.
HostFails(w) ==
    /\ pc[w] = "call"
    /\ \/ UNCHANGED <<hosted, made, lost, left>>
       \/ Fault /\ \E x \in Artefacts : Made(x) /\ lost' = lost \cup {x}
    /\ Goto(w, "catch")
    /\ UNCHANGED <<profiles, jobs, cleaning, locals, stranded, withdrawn>>

\* Mutant: the consent is not looked at again under its lock.
PersistUnlocked(w) ==
    LET p == madeFor[job[w]] IN
    /\ pc[w] = "persist"
    /\ IF profile[p] = "TRAINING" /\ status[job[w]] = "RUNNING"
       THEN /\ profile' = Marked(p, "READY")
            /\ voice'   = [voice EXCEPT ![p] = held[w]]
            /\ SetStatus(job[w], "SUCCEEDED")
            /\ Hold(w, None)
            /\ Goto(w, "settle")
       ELSE Goto(w, "catch") /\ UNCHANGED <<profile, voice, status, held>>
    /\ UNCHANGED <<revoked, record, charge, madeFor, waiting, holder, tries, hosts, key, todo,
                   seen, plan, job, final, past, left>>

\* READY and SUCCEEDED are one transaction, under the lock of the consent.
Persist(w) ==
    LET p == madeFor[job[w]] IN
    /\ pc[w] = "persist"
    /\ IF ~revoked /\ profile[p] = "TRAINING" /\ status[job[w]] = "RUNNING"
       THEN /\ profile' = Marked(p, "READY")
            /\ voice'   = [voice EXCEPT ![p] = held[w]]
            /\ SetStatus(job[w], "SUCCEEDED")
            /\ Hold(w, None)
            /\ Goto(w, "settle")
       ELSE Goto(w, "catch") /\ UNCHANGED <<profile, voice, status, held>>
    /\ UNCHANGED <<revoked, record, charge, madeFor, waiting, holder, tries, hosts, key, todo,
                   seen, plan, job, final, past, left>>

PersistFails(w) ==
    /\ pc[w] = "persist" /\ Fault
    /\ Goto(w, "catch")
    /\ UNCHANGED <<profiles, jobs, hosts, locals, past>>

\* The catch block takes down what was not stored, and ignores a failure of that.
Discard(w) ==
    /\ pc[w] = "catch"
    /\ \/ TakeDown({held[w]}) /\ UNCHANGED <<lost, left>>
       \/ held[w] # None /\ Fault /\ lost' = lost \cup {held[w]} /\ UNCHANGED hosted
    /\ Hold(w, None)
    /\ Goto(w, "blame")
    /\ UNCHANGED <<profiles, jobs, made, cleaning, key, todo, seen, plan, job, final,
                   stranded, withdrawn>>

FailProfile(w) ==
    LET p == madeFor[job[w]] IN
    /\ pc[w] = "blame"
    /\ profile' = IF revoked \/ profile[p] \in Gone \cup {"REVOKED"} THEN profile ELSE Marked(p, "FAILED")
    /\ Goto(w, "fail")
    /\ UNCHANGED <<revoked, voice, record, jobs, hosts, locals, past, left>>

\* markFailed, by the catch block and by the guard, tests no status.
MarkFailed(w) ==
    /\ \/ pc[w] = "fail" /\ Goto(w, "settle")
       \/ pc[w] = "fail again" /\ Goto(w, "tail")
    /\ SetStatus(job[w], IF final[w] THEN "FAILED" ELSE "QUEUED")
    /\ UNCHANGED <<profiles, charge, madeFor, waiting, holder, tries, hosts, locals, past, left>>

\* The guard reads what has become of the job.
Settle(w) ==
    /\ pc[w] = "settle"
    /\ \/ status[job[w]] \in {"SUCCEEDED", "CANCELED"} /\ Leave(w)
       \/ status[job[w]] = "FAILED" /\ Goto(w, "tail") /\ UNCHANGED <<holder, job, final>>
       \/ status[job[w]] \notin Terminal /\ Goto(w, "fail again") /\ UNCHANGED <<holder, job, final>>
    /\ UNCHANGED <<profiles, charge, status, madeFor, waiting, tries, hosts, key, todo, seen, plan,
                   held, past, left>>

\* Mutant: an attempt that was the last is counted too.
TailCounting(w) ==
    LET k == job[w] IN
    /\ pc[w] = "tail"
    /\ IF ~final[w] /\ status[k] = "FAILED" THEN SetStatus(k, "QUEUED") ELSE UNCHANGED status
    /\ IF holder[k] = w
       THEN /\ waiting' = [waiting EXCEPT ![k] = TRUE]
            /\ tries'   = [tries EXCEPT ![k] = @ + 1]
       ELSE UNCHANGED <<waiting, tries>>
    /\ Leave(w)
    /\ UNCHANGED <<profiles, charge, madeFor, hosts, key, todo, seen, plan, held, past, left>>

\* The attempt throws: BullMQ has another, unless it was the last.
Tail(w) ==
    LET k == job[w] IN
    /\ pc[w] = "tail"
    /\ IF ~final[w] /\ status[k] = "FAILED" THEN SetStatus(k, "QUEUED") ELSE UNCHANGED status
    /\ IF ~final[w] /\ holder[k] = w
       THEN /\ waiting' = [waiting EXCEPT ![k] = TRUE]
            /\ tries'   = [tries EXCEPT ![k] = @ + 1]
       ELSE UNCHANGED <<waiting, tries>>
    /\ Leave(w)
    /\ UNCHANGED <<profiles, charge, madeFor, hosts, key, todo, seen, plan, held, past, left>>

\* The end of a final attempt, a redelivery or the sweeper reverses the charge.
RefundFailed(k) ==
    /\ k \in Setups /\ status[k] = "FAILED" /\ charge[k] = "held"
    /\ Reverse(k)
    /\ withdrawn' = withdrawn \cup {k}
    /\ UNCHANGED <<profiles, status, madeFor, waiting, holder, tries, hosts, pc, locals, lost,
                   stranded, left>>

\* The lock is lost, or its slot: the job is delivered again.
Redeliver(w) == waiting' = [k \in Keys |-> waiting[k] \/ holder[k] = w]
LockLost     == left.locks > 0 /\ left' = [left EXCEPT !.locks = @ - 1]

LoseLock(w) ==
    /\ pc[w] # "idle" /\ holder[job[w]] = w
    /\ LockLost
    /\ Redeliver(w)
    /\ Release(w)
    /\ UNCHANGED <<profiles, charge, status, madeFor, tries, hosts, pc, locals, past>>

Crash(w) ==
    /\ pc[w] # "idle" /\ Fault
    /\ Redeliver(w)
    /\ lost' = lost \cup ({held[w]} \ {None})
    /\ Hold(w, None)
    /\ Leave(w)
    /\ UNCHANGED <<profiles, charge, status, madeFor, tries, hosts, key, todo, seen, plan,
                   stranded, withdrawn>>

Work(w) ==
    \/ \E k \in Keys : Take(w, k)
    \/ Train(w) \/ MarkTraining(w) \/ Host(w) \/ HostFails(w) \/ Persist(w) \/ PersistFails(w)
    \/ Discard(w) \/ FailProfile(w) \/ MarkFailed(w) \/ Settle(w) \/ Tail(w)
    \/ LoseLock(w) \/ Crash(w)
=============================================================================
