---------------------------- MODULE VoiceTraining ----------------------------
(***************************************************************************)
(* Singing voices: POST /voices/train starts a training run at the         *)
(* provider, within the request; GET /voices/:voiceId/training asks how it *)
(* went (apps/api/src/routes/voices.ts). The job is a record of the start: *)
(* it is RUNNING while the request is, and in no queue. The trainer is the *)
(* default one, a prediction, which leaves no model version behind.        *)
(***************************************************************************)
EXTENDS Voices

BeginTraining(c, k) == k \in Trainings /\ Begin(c, k, "audit")

\* A key used before is answered by its job, unless that was canceled.
ReplayTraining(c) ==
    /\ pc[c] = "replay" /\ key[c] \in Trainings
    /\ Goto(c, IF status[key[c]] \in {"none", "CANCELED"} THEN "audit" ELSE "done")
    /\ UNCHANGED <<profiles, jobs, hosts, locals, past, left>>

\* One job to a charge. Whether the charge has been reversed is not looked at.
Audit(c) ==
    LET k == key[c] IN
    /\ pc[c] = "audit"
    /\ IF status[k] = "none"
       THEN /\ SetStatus(k, "RUNNING")
            /\ madeFor' = [madeFor EXCEPT ![k] = c]
            /\ Goto(c, "profile")
       ELSE Goto(c, "done") /\ UNCHANGED <<status, madeFor>>
    /\ UNCHANGED <<profiles, charge, waiting, holder, tries, hosts, locals, past, left>>

AuditFails(c) ==
    /\ pc[c] = "audit" /\ status[key[c]] = "none" /\ Fault
    /\ GiveUp(c, {"refund"})
    /\ UNCHANGED <<profiles, jobs, hosts, key, seen, plan, job, final, held, past>>

InsertTraining(c) ==
    /\ pc[c] = "profile" /\ key[c] \in Trainings
    /\ \/ revoked /\ GiveUp(c, {"cancel", "refund"}) /\ UNCHANGED profiles
       \/ CreateProfile(c, "TRAINING") /\ Goto(c, "invoke") /\ UNCHANGED todo
    /\ UNCHANGED <<jobs, hosts, key, seen, plan, job, final, held, past, left>>

InsertTrainingFails(c) ==
    /\ pc[c] = "profile" /\ key[c] \in Trainings /\ Fault
    /\ GiveUp(c, {"fail", "refund"})
    /\ UNCHANGED <<profiles, jobs, hosts, key, seen, plan, job, final, held, past>>

InvokeTraining(c) ==
    /\ pc[c] = "invoke" /\ key[c] \in Trainings
    /\ \/ ~revoked /\ profile[c] = "TRAINING" /\ Goto(c, "kickoff") /\ UNCHANGED todo
       \/ (revoked \/ profile[c] # "TRAINING") /\ GiveUp(c, {"cancel", "refund"})
    /\ UNCHANGED <<profiles, jobs, hosts, key, seen, plan, job, final, held, past, left>>

Kickoff(c) ==
    /\ pc[c] = "kickoff"
    /\ \E x \in Artefacts : Made(x) /\ Hold(c, x)
    /\ Goto(c, "store")
    /\ UNCHANGED <<profiles, jobs, cleaning, key, todo, seen, plan, job, final, past, left>>

\* The provider refuses, or its answer does not arrive.
KickoffFails(c) ==
    /\ pc[c] = "kickoff"
    /\ \/ UNCHANGED <<hosted, made, lost, left>>
       \/ Fault /\ \E x \in Artefacts : Made(x) /\ lost' = lost \cup {x}
    /\ GiveUp(c, {"refund", "fail", "blame"})
    /\ UNCHANGED <<profiles, jobs, cleaning, key, seen, plan, job, final, held, stranded, withdrawn>>

\* Mutant: the run is stored with whatever the profile has become.
StoreAlways(c) ==
    /\ pc[c] = "store"
    /\ voice' = [voice EXCEPT ![c] = held[c]]
    /\ Hold(c, None)
    /\ Goto(c, "report")
    /\ UNCHANGED <<revoked, profile, record, jobs, hosts, key, todo, seen, plan, job, final,
                   past, left>>

\* The run is stored under the lock of the consent, or else canceled.
Store(c) ==
    /\ pc[c] = "store"
    /\ IF ~revoked /\ profile[c] = "TRAINING"
       THEN /\ voice' = [voice EXCEPT ![c] = held[c]]
            /\ Hold(c, None)
            /\ Goto(c, "report")
       ELSE Goto(c, "unstored") /\ UNCHANGED <<voice, held>>
    /\ UNCHANGED <<revoked, profile, record, jobs, hosts, key, todo, seen, plan, job, final,
                   past, left>>

CancelTraining(c) ==
    /\ pc[c] = "unstored"
    /\ TakeDown({held[c]})
    /\ Hold(c, None)
    /\ GiveUp(c, {"cancel", "refund"})
    /\ UNCHANGED <<profiles, jobs, made, cleaning, key, seen, plan, job, final, past, left>>

\* What cannot be canceled is put on record with a cleanup job, whose queueing may
\* fail. The DELETE that is about may overwrite that record, or a cleanup job that
\* has read an older one, so the run counts as lost.
CancelTrainingFails(c) ==
    /\ pc[c] = "unstored" /\ Fault
    /\ IF profile[c] \in Gone THEN UNCHANGED <<record, cleaning>>
       ELSE /\ record' = [record EXCEPT ![c] = held[c]]
            /\ cleaning' \in {cleaning, cleaning \cup {Queued(c)}}
    /\ lost' = lost \cup {held[c]}
    /\ Hold(c, None)
    /\ GiveUp(c, {"cancel", "refund"})
    /\ UNCHANGED <<revoked, profile, voice, jobs, hosted, made, key, seen, plan, job, final,
                   stranded, withdrawn>>

Report(c) ==
    /\ pc[c] = "report"
    /\ IF status[key[c]] = "RUNNING" THEN SetStatus(key[c], "SUCCEEDED") ELSE UNCHANGED status
    /\ Goto(c, "done")
    /\ UNCHANGED <<profiles, charge, madeFor, waiting, holder, tries, hosts, locals, past, left>>

FailJob(c) ==
    /\ Done(c, "fail")
    /\ IF status[key[c]] = "RUNNING" THEN SetStatus(key[c], "FAILED") ELSE UNCHANGED status
    /\ UNCHANGED <<profiles, charge, madeFor, waiting, holder, tries, hosts, key, seen, plan,
                   job, final, held, past, left>>

BlameProfile(c) ==
    /\ Done(c, "blame")
    /\ profile' = IF profile[c] \in Gone \cup {"REVOKED"} THEN profile ELSE Marked(c, "FAILED")
    /\ UNCHANGED <<revoked, voice, record, jobs, hosts, key, seen, plan, job, final, held, past, left>>

\* The poll. Its transaction tests again all that was read before it, so the
\* reading and the writing may be one step.
Poll(p, result) ==
    /\ profile[p] \in {"PENDING", "TRAINING"} /\ voice[p] # None /\ ~revoked
    /\ profile' = Marked(p, result)
    /\ UNCHANGED <<revoked, voice, record, jobs, hosts, pc, locals, past, left>>

StartTraining(c) ==
    \/ \E k \in Keys : BeginTraining(c, k)
    \/ ReplayTraining(c) \/ Audit(c) \/ AuditFails(c) \/ InsertTraining(c)
    \/ InsertTrainingFails(c) \/ InvokeTraining(c) \/ Kickoff(c) \/ KickoffFails(c) \/ Store(c)
    \/ CancelTraining(c) \/ CancelTrainingFails(c) \/ Report(c) \/ FailJob(c) \/ BlameProfile(c)
    \/ \E result \in {"READY", "FAILED"} : Poll(c, result)
=============================================================================
