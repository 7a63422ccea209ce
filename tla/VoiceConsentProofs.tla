--------------------------- MODULE VoiceConsentProofs ---------------------------
(***************************************************************************)
(* VoiceConsent for any number of calls, slots, keys and artefacts, and    *)
(* any number of faults: the types, that nothing comes to life after a     *)
(* revocation, that a DELETE has revoked all there is, and that nothing    *)
(* made at a provider is forgotten.                                        *)
(*                                                                         *)
(* VoiceInv is the invariant. Each of its conjuncts has a lemma that every *)
(* step keeps it, from as few of the others as it needs.                   *)
(***************************************************************************)
EXTENDS VoiceConsent, TLAPS

\* A call has its key, and the key its charge, from its first step on.
CallsHaveKeys ==
    \A c \in Makers : /\ pc[c] = "idle" => key[c] = None
                      /\ pc[c] # "idle" => key[c] \in Keys /\ charge[key[c]] # "none"

\* The two routes do not get in each other's steps.
RoutesKeepApart ==
    \A c \in Makers :
        /\ pc[c] \in {"kickoff", "store", "unstored", "report"} => key[c] \in Trainings
        /\ pc[c] \in {"job", "drop", "recheck"} => key[c] \notin Trainings

\* A call that has not come to its profile has none.
NoProfileYet ==
    \A c \in Makers : pc[c] \in {"idle", "replay", "audit", "profile"} => profile[c] = "none"

\* The slots work on setups, which have a profile; so has what is in the queue.
SlotsHaveSetups ==
    \A w \in Slots : pc[w] # "idle" => job[w] \in Keys \ Trainings /\ madeFor[job[w]] # None

QueueHoldsSetups ==
    \A k \in Keys : waiting[k] \/ holder[k] # None => k \notin Trainings /\ madeFor[k] # None

\* A job has a charge, and is for the profile of a call under its key.
JobsHaveCharges ==
    \A k \in Keys : /\ status[k] # "none" => charge[k] # "none"
                    /\ madeFor[k] # None => key[madeFor[k]] = k /\ charge[k] # "none"

\* What is neither stored nor taken down is in hand exactly on the steps between.
HeldOnTheWay ==
    \A a \in Makers \cup Slots :
        /\ held[a] # None => pc[a] \in {"persist", "catch", "store", "unstored"}
        /\ pc[a] \in {"persist", "store", "unstored"} => held[a] # None

\* A slot with the lock knows rightly whether its attempt is the last.
LastIsLast ==
    \A w \in Slots : pc[w] # "idle" /\ holder[job[w]] = w =>
        (final[w] <=> tries[job[w]] + 1 >= left.attempts)

\* A DELETE works under a revoked consent, and has read every profile there is.
SnapshotIsComplete ==
    \A c \in Revokers :
        /\ pc[c] \notin {"idle", "done"} => revoked
        /\ DOMAIN plan[c] # {} => revoked
        /\ pc[c] \in {"jobs", "commit"} =>
              \A p \in Makers : profile[p] \in Gone \cup {"REVOKED"} \/ p \in DOMAIN plan[c]

\* Neither the row nor a DELETE that read it names an artefact of the profile.
Bare(p) == /\ voice[p] = None /\ record[p] = None
           /\ \A c \in Revokers : p \in DOMAIN plan[c] => plan[c][p] = None

\* So it is before the profile is there, before a setup is ready, and until the
\* route has stored its training run.
FreshIsBare ==
    \A p \in Makers :
        /\ profile[p] = "none" => Bare(p)
        /\ profile[p] \in {"PENDING", "TRAINING"} /\ key[p] \notin Trainings => Bare(p)

UnstoredIsBare ==
    \A c \in Makers :
        pc[c] \in {"invoke", "kickoff", "store", "unstored"} /\ key[c] \in Trainings => Bare(c)

\* A profile names its artefact once, and not at all when it is revoked.
OneName ==
    \A p \in Makers : /\ profile[p] = "REVOKED" => voice[p] = None
                      /\ voice[p] = None \/ record[p] = None

\* What a DELETE has read of a profile is out of date only about what is gone.
PlansAreCurrent ==
    \A c \in Revokers : \A p \in DOMAIN plan[c] : \A x \in hosted \ lost :
        plan[c][p] = x <=> voice[p] = x \/ record[p] = x

\* A cleanup job is for a profile of which an artefact was named.
CleanedWasNamed ==
    \A j \in cleaning :
        /\ profile[j.of] # "none"
        /\ ~(pc[j.of] \in {"invoke", "kickoff", "store", "unstored"} /\ key[j.of] \in Trainings)

\* A cleanup job reads the record of a profile that was revoked, and what it knows
\* is out of date only about what is gone.
CleanersComeLate == \A j \in cleaning : j.begun => profile[j.of] \in {"REVOKED", "deleted"}

CleanersAreCurrent ==
    \A j \in cleaning : j.begun => \A x \in hosted \ lost :
        j.knows = x <=> voice[j.of] = x \/ record[j.of] = x

VoiceInv ==
    /\ VoiceTypeOK /\ CallsHaveKeys /\ RoutesKeepApart /\ NoProfileYet
    /\ SlotsHaveSetups /\ QueueHoldsSetups /\ JobsHaveCharges /\ HeldOnTheWay /\ LastIsLast
    /\ SnapshotIsComplete /\ RevocationIsComplete /\ FreshIsBare /\ UnstoredIsBare /\ OneName
    /\ PlansAreCurrent /\ CleanedWasNamed /\ CleanersComeLate /\ CleanersAreCurrent
    /\ NothingForgotten
-----------------------------------------------------------------------------
(***************************************************************************)
(* Types. Counting needs to know that the budget of attempts is not        *)
(* touched.                                                                *)
(***************************************************************************)
PcMoves == UNCHANGED pc \/ \E a \in Actors, l \in CallPcs \cup SlotPcs : Goto(a, l)

\* A step moves at most one actor, to a place of its own.
LEMMA PlacesMove ==
    ASSUME [Next]_vars
    PROVE  PcMoves
<1> USE VoiceAssumption DEF Actors, PcMoves, CallPcs, SlotPcs, Begin, GiveUp, Done, Leave,
        locals
<1>1. ASSUME NEW c \in Makers, SetUp(c) PROVE PcMoves
      BY <1>1 DEF SetUp, BeginSetup, ReplaySetup, InsertProfile, InsertProfileFails, Invoke,
         InvokeFails, CreateJob, CreateJobFails, DropProfile,
         DropProfileFails, Recheck
<1>2. ASSUME NEW c \in Makers, StartTraining(c) PROVE PcMoves
      BY <1>2 DEF StartTraining, BeginTraining, ReplayTraining, Audit, AuditFails,
         InsertTraining, InsertTrainingFails, InvokeTraining, Kickoff, KickoffFails, Store,
         CancelTraining, CancelTrainingFails, Queued, Report, FailJob, BlameProfile, Poll
<1>3. ASSUME NEW c \in Makers,
             Statement(c) \/ DieMaking(c) \/ Clean(c) PROVE PcMoves
      BY <1>3 DEF Statement, Statements, CancelJob, RemoveJob, ReverseCharge, StatementFails,
         DieMaking, Clean, CleanRead, CleanUp, CleanUpFails, WriteBack, Queued
<1>4. ASSUME NEW c \in Revokers, Delete(c) PROVE PcMoves
      BY <1>4 DEF Delete, Revoke, ReadProfiles, ReadJobs, Commit, ReadCanceled,
         RefundCanceled, RefundFails, TakeDownAll, Record, Queued, DieRevoking
<1>5. ASSUME NEW w \in Slots, Work(w) PROVE PcMoves
      BY <1>5 DEF Work, Take, Train, MarkTraining, Host, HostFails, Persist, PersistFails, Discard,
         FailProfile, MarkFailed, Settle, Tail, LoseLock, Crash
<1>6. ASSUME NEW k \in Keys, RefundFailed(k) PROVE PcMoves
      BY <1>6 DEF RefundFailed
<1>7. CASE UNCHANGED vars
      BY <1>7 DEF vars
<1> QED BY <1>1, <1>2, <1>3, <1>4, <1>5, <1>6, <1>7 DEF Next

LeftMoves == UNCHANGED left \/ Fault \/ LockLost

\* A step spends at most one fault or one lost lock, and no attempt of a job.
LEMMA BudgetMoves ==
    ASSUME [Next]_vars
    PROVE  LeftMoves
<1> USE VoiceAssumption DEF LeftMoves, Begin, past, locals
<1>1. ASSUME NEW c \in Makers, SetUp(c) PROVE LeftMoves
      BY <1>1 DEF SetUp, BeginSetup, ReplaySetup, InsertProfile, InsertProfileFails, Invoke,
         InvokeFails, CreateJob, CreateJobFails, DropProfile,
         DropProfileFails, Recheck
<1>2. ASSUME NEW c \in Makers, StartTraining(c) PROVE LeftMoves
      BY <1>2 DEF StartTraining, BeginTraining, ReplayTraining, Audit, AuditFails,
         InsertTraining, InsertTrainingFails, InvokeTraining, Kickoff, KickoffFails, Store,
         CancelTraining, CancelTrainingFails, Queued, Report, FailJob, BlameProfile, Poll
<1>3. ASSUME NEW c \in Makers,
             Statement(c) \/ DieMaking(c) \/ Clean(c) PROVE LeftMoves
      BY <1>3 DEF Statement, Statements, CancelJob, RemoveJob, ReverseCharge, StatementFails,
         DieMaking, Clean, CleanRead, CleanUp, CleanUpFails, WriteBack, Queued
<1>4. ASSUME NEW c \in Revokers, Delete(c) PROVE LeftMoves
      BY <1>4 DEF Delete, Revoke, ReadProfiles, ReadJobs, Commit, ReadCanceled,
         RefundCanceled, RefundFails, TakeDownAll, Record, Queued, DieRevoking
<1>5. ASSUME NEW w \in Slots, Work(w) PROVE LeftMoves
      BY <1>5 DEF Work, Take, Train, MarkTraining, Host, HostFails, Persist, PersistFails, Discard,
         FailProfile, MarkFailed, Settle, Tail, LoseLock, Crash
<1>6. ASSUME NEW k \in Keys, RefundFailed(k) PROVE LeftMoves
      BY <1>6 DEF RefundFailed
<1>7. CASE UNCHANGED vars
      BY <1>7 DEF vars
<1> QED BY <1>1, <1>2, <1>3, <1>4, <1>5, <1>6, <1>7 DEF Next

LEMMA BudgetStays ==
    ASSUME LeftOK, [Next]_vars PROVE LeftOK' /\ left'.attempts = left.attempts
<1>1. CASE UNCHANGED left BY <1>1 DEF LeftOK
<1>2. CASE Fault BY <1>2 DEF Fault, LeftOK
<1>3. CASE LockLost BY <1>3 DEF LockLost, LeftOK
<1> QED BY <1>1, <1>2, <1>3, BudgetMoves DEF LeftMoves

\* What is in hand was made.
LEMMA HeldStays ==
    ASSUME PlacesOK, HostsOK, [Next]_vars
    PROVE  held' \in [Makers \cup Slots -> made' \cup {None}]
<1> USE VoiceAssumption DEF PlacesOK, HostsOK, Made, Hold, Begin, hosts, locals
<1>1. ASSUME NEW c \in Makers, SetUp(c)
             PROVE held' \in [Makers \cup Slots -> made' \cup {None}]
      BY <1>1 DEF SetUp, BeginSetup, ReplaySetup, InsertProfile, InsertProfileFails, Invoke,
         InvokeFails, CreateJob, CreateJobFails, DropProfile,
         DropProfileFails, Recheck
<1>2. ASSUME NEW c \in Makers, StartTraining(c)
             PROVE held' \in [Makers \cup Slots -> made' \cup {None}]
      BY <1>2 DEF StartTraining, BeginTraining, ReplayTraining, Audit, AuditFails,
         InsertTraining, InsertTrainingFails, InvokeTraining, Kickoff, KickoffFails, Store,
         CancelTraining, CancelTrainingFails, Queued, Report, FailJob, BlameProfile, Poll
<1>3. ASSUME NEW c \in Makers,
             Statement(c) \/ DieMaking(c) \/ Clean(c)
             PROVE held' \in [Makers \cup Slots -> made' \cup {None}]
      BY <1>3 DEF Statement, Statements, CancelJob, RemoveJob, ReverseCharge, StatementFails,
         DieMaking, Clean, CleanRead, CleanUp, CleanUpFails, WriteBack, Queued
<1>4. ASSUME NEW c \in Revokers, Delete(c)
             PROVE held' \in [Makers \cup Slots -> made' \cup {None}]
      BY <1>4 DEF Delete, Revoke, ReadProfiles, ReadJobs, Commit, ReadCanceled,
         RefundCanceled, RefundFails, TakeDownAll, Record, Queued, DieRevoking
<1>5. ASSUME NEW w \in Slots, Work(w) PROVE held' \in [Makers \cup Slots -> made' \cup {None}]
      BY <1>5 DEF Work, Take, Train, MarkTraining, Host, HostFails, Persist, PersistFails, Discard,
         FailProfile, MarkFailed, Settle, Tail, LoseLock, Crash
<1>6. ASSUME NEW k \in Keys, RefundFailed(k)
             PROVE held' \in [Makers \cup Slots -> made' \cup {None}]
      BY <1>6 DEF RefundFailed
<1>7. CASE UNCHANGED vars
      BY <1>7 DEF vars
<1> QED BY <1>1, <1>2, <1>3, <1>4, <1>5, <1>6, <1>7 DEF Next

LEMMA PlacesStay ==
    ASSUME PlacesOK, HostsOK, [Next]_vars PROVE PlacesOK'
<1>1. pc' \in [Actors -> CallPcs \cup SlotPcs]
  <2>1. CASE UNCHANGED pc BY <2>1 DEF PlacesOK
  <2>2. ASSUME NEW a \in Actors, NEW l \in CallPcs \cup SlotPcs, Goto(a, l)
        PROVE  pc' \in [Actors -> CallPcs \cup SlotPcs]
        BY <2>2 DEF PlacesOK, Goto
  <2> QED BY <2>1, <2>2, PlacesMove DEF PcMoves
<1> QED BY <1>1, HeldStays DEF PlacesOK

\* The rows keep their types.
LEMMA ProfilesOKStays ==
    ASSUME PlacesOK, ProfilesOK, RevokersOK, HostsOK, SlotsOK, [Next]_vars
    PROVE  ProfilesOK'
<1> USE VoiceAssumption DEF PlacesOK, ProfilesOK, RevokersOK, HostsOK, SlotsOK, Made, Marked,
        Gone, Usable, Nothing, CreateProfile, Begin, profiles, hosts, locals
<1>1. ASSUME NEW c \in Makers, SetUp(c) PROVE ProfilesOK'
      BY <1>1 DEF SetUp, BeginSetup, ReplaySetup, InsertProfile, InsertProfileFails, Invoke,
         InvokeFails, CreateJob, CreateJobFails, DropProfile,
         DropProfileFails, Recheck
<1>2. ASSUME NEW c \in Makers, StartTraining(c) PROVE ProfilesOK'
      BY <1>2 DEF StartTraining, BeginTraining, ReplayTraining, Audit, AuditFails,
         InsertTraining, InsertTrainingFails, InvokeTraining, Kickoff, KickoffFails, Store,
         CancelTraining, CancelTrainingFails, Queued, Report, FailJob, BlameProfile, Poll
<1>3. ASSUME NEW c \in Makers,
             Statement(c) \/ DieMaking(c) \/ Clean(c) PROVE ProfilesOK'
      BY <1>3 DEF Statement, Statements, CancelJob, RemoveJob, ReverseCharge, StatementFails,
         DieMaking, Clean, CleanRead, CleanUp, CleanUpFails, WriteBack, Queued
<1>4. ASSUME NEW c \in Revokers, Delete(c) PROVE ProfilesOK'
  <2>1. CASE Revoke(c) BY <2>1 DEF Revoke
  <2>2. CASE ReadProfiles(c) BY <2>2 DEF ReadProfiles
  <2>3. CASE ReadJobs(c) BY <2>3 DEF ReadJobs
  <2>4. CASE Commit(c) BY <2>4 DEF Commit
  <2>5. CASE ReadCanceled(c) BY <2>5 DEF ReadCanceled
  <2>6. ASSUME NEW k \in Keys, RefundCanceled(c, k) PROVE ProfilesOK'
        BY <2>6 DEF RefundCanceled
  <2>7. ASSUME NEW k \in Keys, RefundFails(c, k) PROVE ProfilesOK'
        BY <2>7 DEF RefundFails
  <2>8. ASSUME NEW failing \in SUBSET Makers, TakeDownAll(c, failing) PROVE ProfilesOK'
        BY <2>8 DEF TakeDownAll
  <2>9. ASSUME NEW p \in Makers, Record(c, p) PROVE ProfilesOK'
        BY <2>9 DEF Record, Queued
  <2>10. CASE DieRevoking(c) BY <2>10 DEF DieRevoking
  <2> QED BY <1>4, <2>1, <2>2, <2>3, <2>4, <2>5, <2>6, <2>7, <2>8, <2>9, <2>10 DEF Delete
<1>5. ASSUME NEW w \in Slots, Work(w) PROVE ProfilesOK'
  <2>1. ASSUME NEW k \in Keys, Take(w, k) PROVE ProfilesOK'
        BY <2>1 DEF Take
  <2>2. CASE Train(w) \/ MarkTraining(w) BY <2>2 DEF Train, MarkTraining
  <2>3. CASE Host(w) BY <2>3 DEF Host
  <2>4. CASE HostFails(w) BY <2>4 DEF HostFails
  <2>5. CASE Persist(w) BY <2>5 DEF Persist
  <2>6. CASE PersistFails(w) BY <2>6 DEF PersistFails
  <2>7. CASE Discard(w) BY <2>7 DEF Discard
  <2>8. CASE FailProfile(w) BY <2>8 DEF FailProfile
  <2>9. CASE MarkFailed(w) BY <2>9 DEF MarkFailed
  <2>10. CASE Settle(w) BY <2>10 DEF Settle
  <2>11. CASE Tail(w) BY <2>11 DEF Tail
  <2>12. CASE LoseLock(w) BY <2>12 DEF LoseLock
  <2>13. CASE Crash(w) BY <2>13 DEF Crash
  <2> QED BY <1>5, <2>1, <2>2, <2>3, <2>4, <2>5, <2>6, <2>7, <2>8, <2>9, <2>10, <2>11, <2>12,
             <2>13 DEF Work
<1>6. ASSUME NEW k \in Keys, RefundFailed(k) PROVE ProfilesOK'
      BY <1>6 DEF RefundFailed
<1>7. CASE UNCHANGED vars
      BY <1>7 DEF vars
<1> QED BY <1>1, <1>2, <1>3, <1>4, <1>5, <1>6, <1>7 DEF Next

\* What is there was made.
LEMMA HostsOKStays ==
    ASSUME HostsOK, ProfilesOK, [Next]_vars
    PROVE  HostsOK'
<1> USE VoiceAssumption DEF HostsOK, ProfilesOK, Made, TakeDown, Begin, hosts
<1>0. \A p \in Makers :
          Queued(p) \in [of : Makers, begun : BOOLEAN, knows : made \cup {None}]
      BY DEF Queued
<1>1. ASSUME NEW c \in Makers, SetUp(c) PROVE HostsOK'
      BY <1>1 DEF SetUp, BeginSetup, ReplaySetup, InsertProfile, InsertProfileFails, Invoke,
         InvokeFails, CreateJob, CreateJobFails, DropProfile,
         DropProfileFails, Recheck
<1>2. ASSUME NEW c \in Makers, StartTraining(c) PROVE HostsOK'
  <2>1. CASE CancelTrainingFails(c)
    <3>1. UNCHANGED <<made, hosted>> /\ cleaning' \subseteq cleaning \cup {Queued(c)}
          BY <2>1 DEF CancelTrainingFails
    <3> QED BY <1>0, <3>1
  <2>2. CASE ~CancelTrainingFails(c)
        BY <1>2, <2>2 DEF StartTraining, BeginTraining, ReplayTraining, Audit, AuditFails,
           InsertTraining, InsertTrainingFails, InvokeTraining, Kickoff, KickoffFails, Store,
           CancelTraining, Report, FailJob, BlameProfile, Poll
  <2> QED BY <2>1, <2>2
<1>3. ASSUME NEW c \in Makers, Statement(c) \/ DieMaking(c) \/ Clean(c) PROVE HostsOK'
  <2>1. CASE Statement(c) \/ DieMaking(c)
        BY <2>1 DEF Statement, Statements, CancelJob, RemoveJob, ReverseCharge, StatementFails,
           DieMaking
  <2>2. ASSUME NEW j \in cleaning, CleanRead(j), UNCHANGED made PROVE HostsOK'
    <3>1. j.of \in Makers /\ record[j.of] \in made \cup {None}
          OBVIOUS
    <3>2. [of |-> j.of, begun |-> TRUE, knows |-> record[j.of]]
              \in [of : Makers, begun : BOOLEAN, knows : made \cup {None}]
          BY <3>1
    <3>3. UNCHANGED <<made, hosted>>
          BY <2>2 DEF CleanRead
    <3>4. cleaning' \subseteq cleaning \cup {[of |-> j.of, begun |-> TRUE, knows |-> record[j.of]]}
          BY <2>2 DEF CleanRead
    <3> QED BY <3>2, <3>3, <3>4
  <2>3. ASSUME NEW j \in cleaning, CleanUp(j) \/ CleanUpFails(j), UNCHANGED made PROVE HostsOK'
    <3>1. j.of \in Makers /\ hosted' \subseteq hosted
          BY <2>3 DEF CleanUp, CleanUpFails
    <3>2. cleaning' \subseteq cleaning \cup {Queued(j.of)}
          BY <2>3 DEF CleanUp, CleanUpFails
    <3> QED BY <1>0, <2>3, <3>1, <3>2
  <2> QED BY <1>3, <2>1, <2>2, <2>3 DEF Clean
<1>4. ASSUME NEW c \in Revokers, Delete(c) PROVE HostsOK'
  <2>1. ASSUME NEW p \in Makers, Record(c, p) PROVE HostsOK'
    <3>1. UNCHANGED <<made, hosted>> /\ cleaning' \subseteq cleaning \cup {Queued(p)}
          BY <2>1 DEF Record
    <3> QED BY <1>0, <3>1
  <2>2. CASE \A p \in Makers : ~Record(c, p)
        BY <1>4, <2>2 DEF Delete, Revoke, ReadProfiles, ReadJobs, Commit, ReadCanceled,
           RefundCanceled, RefundFails, TakeDownAll, DieRevoking
  <2> QED BY <2>1, <2>2
<1>5. ASSUME NEW w \in Slots, Work(w) PROVE HostsOK'
      BY <1>5 DEF Work, Take, Train, MarkTraining, Host, HostFails, Persist, PersistFails, Discard,
         FailProfile, MarkFailed, Settle, Tail, LoseLock, Crash
<1>6. ASSUME NEW k \in Keys, RefundFailed(k) PROVE HostsOK'
      BY <1>6 DEF RefundFailed
<1>7. CASE UNCHANGED vars
      BY <1>7 DEF vars
<1> QED BY <1>1, <1>2, <1>3, <1>4, <1>5, <1>6, <1>7 DEF Next

\* The calls keep their types.
LEMMA MakersOKStays ==
    ASSUME MakersOK, [Next]_vars
    PROVE  MakersOK'
<1> USE VoiceAssumption DEF MakersOK, Begin, GiveUp, Done, Statements, locals
<1>1. ASSUME NEW c \in Makers, SetUp(c) PROVE MakersOK'
  <2>1. ASSUME NEW k \in Keys, BeginSetup(c, k) PROVE MakersOK'
        BY <2>1 DEF BeginSetup
  <2>2. CASE ReplaySetup(c) BY <2>2 DEF ReplaySetup
  <2>3. CASE InsertProfile(c) BY ZenonT(60), <2>3 DEF InsertProfile
  <2>4. CASE InsertProfileFails(c) BY <2>4 DEF InsertProfileFails
  <2>5. CASE Invoke(c) BY <2>5 DEF Invoke
  <2>6. CASE InvokeFails(c) BY <2>6 DEF InvokeFails
  <2>7. CASE CreateJob(c) BY <2>7 DEF CreateJob
  <2>8. CASE CreateJobFails(c) BY <2>8 DEF CreateJobFails
  <2>9. CASE DropProfile(c) \/ DropProfileFails(c) BY <2>9 DEF DropProfile, DropProfileFails
  <2>10. CASE Recheck(c) BY <2>10 DEF Recheck
  <2> QED BY <1>1, <2>1, <2>2, <2>3, <2>4, <2>5, <2>6, <2>7, <2>8, <2>9, <2>10 DEF SetUp
<1>2. ASSUME NEW c \in Makers, StartTraining(c) PROVE MakersOK'
  <2>1. ASSUME NEW k \in Keys, BeginTraining(c, k) PROVE MakersOK'
        BY <2>1 DEF BeginTraining
  <2>2. CASE ReplayTraining(c) BY <2>2 DEF ReplayTraining
  <2>3. CASE Audit(c) BY <2>3 DEF Audit
  <2>4. CASE AuditFails(c) BY <2>4 DEF AuditFails
  <2>5. CASE InsertTraining(c) BY <2>5 DEF InsertTraining
  <2>6. CASE InsertTrainingFails(c) BY <2>6 DEF InsertTrainingFails
  <2>7. CASE InvokeTraining(c) BY <2>7 DEF InvokeTraining
  <2>8. CASE Kickoff(c) BY <2>8 DEF Kickoff
  <2>9. CASE KickoffFails(c) BY <2>9 DEF KickoffFails
  <2>10. CASE Store(c) BY <2>10 DEF Store
  <2>11. CASE CancelTraining(c) BY <2>11 DEF CancelTraining
  <2>12. CASE CancelTrainingFails(c) BY <2>12 DEF CancelTrainingFails, Queued
  <2>13. CASE Report(c) BY <2>13 DEF Report
  <2>14. CASE FailJob(c) BY <2>14 DEF FailJob
  <2>15. CASE BlameProfile(c) BY <2>15 DEF BlameProfile
  <2>16. ASSUME NEW result \in {"READY", "FAILED"}, Poll(c, result) PROVE MakersOK'
        BY <2>16 DEF Poll
  <2> QED BY <1>2, <2>1, <2>2, <2>3, <2>4, <2>5, <2>6, <2>7, <2>8, <2>9, <2>10, <2>11, <2>12,
             <2>13, <2>14, <2>15, <2>16 DEF StartTraining
<1>3. ASSUME NEW c \in Makers,
             Statement(c) \/ DieMaking(c) \/ Clean(c) PROVE MakersOK'
  <2>1. CASE CancelJob(c) BY <2>1 DEF CancelJob
  <2>2. CASE RemoveJob(c) BY <2>2 DEF RemoveJob
  <2>3. CASE ReverseCharge(c) BY <2>3 DEF ReverseCharge
  <2>4. ASSUME NEW what \in Statements, StatementFails(c, what) PROVE MakersOK'
        BY <2>4 DEF StatementFails
  <2>5. CASE DieMaking(c) BY <2>5 DEF DieMaking
  <2>6. CASE Clean(c) BY <2>6 DEF Clean, CleanRead, CleanUp, CleanUpFails, WriteBack, Queued
  <2> QED BY <1>3, <2>1, <2>2, <2>3, <2>4, <2>5, <2>6 DEF Statement, Statements
<1>4. ASSUME NEW c \in Revokers, Delete(c) PROVE MakersOK'
      BY <1>4 DEF Delete, Revoke, ReadProfiles, ReadJobs, Commit, ReadCanceled,
         RefundCanceled, RefundFails, TakeDownAll, Record, Queued, DieRevoking
<1>5. ASSUME NEW w \in Slots, Work(w) PROVE MakersOK'
      BY <1>5 DEF Work, Take, Train, MarkTraining, Host, HostFails, Persist, PersistFails, Discard,
         FailProfile, MarkFailed, Settle, Tail, LoseLock, Crash
<1>6. ASSUME NEW k \in Keys, RefundFailed(k) PROVE MakersOK'
      BY <1>6 DEF RefundFailed
<1>7. CASE UNCHANGED vars
      BY <1>7 DEF vars
<1> QED BY <1>1, <1>2, <1>3, <1>4, <1>5, <1>6, <1>7 DEF Next

\* What a DELETE has read keeps its type.
LEMMA RevokersOKStays ==
    ASSUME ProfilesOK, RevokersOK, [Next]_vars
    PROVE  RevokersOK'
<1> USE VoiceAssumption DEF ProfilesOK, RevokersOK, Nothing, Made, Begin, profiles, hosts,
        locals
<1>1. ASSUME NEW c \in Makers, SetUp(c) PROVE RevokersOK'
      BY <1>1 DEF SetUp, BeginSetup, ReplaySetup, InsertProfile, InsertProfileFails, Invoke,
         InvokeFails, CreateJob, CreateJobFails, DropProfile,
         DropProfileFails, Recheck
<1>2. ASSUME NEW c \in Makers, StartTraining(c) PROVE RevokersOK'
      BY <1>2 DEF StartTraining, BeginTraining, ReplayTraining, Audit, AuditFails,
         InsertTraining, InsertTrainingFails, InvokeTraining, Kickoff, KickoffFails, Store,
         CancelTraining, CancelTrainingFails, Queued, Report, FailJob, BlameProfile, Poll
<1>3. ASSUME NEW c \in Makers,
             Statement(c) \/ DieMaking(c) \/ Clean(c) PROVE RevokersOK'
      BY <1>3 DEF Statement, Statements, CancelJob, RemoveJob, ReverseCharge, StatementFails,
         DieMaking, Clean, CleanRead, CleanUp, CleanUpFails, WriteBack, Queued
<1>4. ASSUME NEW c \in Revokers, Delete(c) PROVE RevokersOK'
  <2>1. CASE Revoke(c) BY <2>1 DEF Revoke
  <2>2. CASE ReadProfiles(c)
    <3>1. PICK ps \in SUBSET Makers :
             plan' = [plan EXCEPT ![c] = [p \in ps |-> IF record[p] # None THEN record[p] ELSE voice[p]]]
          BY <2>2 DEF ReadProfiles
    <3>2. [p \in ps |-> IF record[p] # None THEN record[p] ELSE voice[p]] \in [ps -> made \cup {None}]
          BY <2>2
    <3>3. UNCHANGED <<made, seen>>
          BY <2>2 DEF ReadProfiles
    <3> QED BY <2>2, <3>2, <3>1, <3>3
  <2>3. CASE ReadJobs(c) BY <2>3 DEF ReadJobs
  <2>4. CASE Commit(c) BY <2>4 DEF Commit
  <2>5. CASE ReadCanceled(c) BY <2>5 DEF ReadCanceled
  <2>6. ASSUME NEW k \in Keys, RefundCanceled(c, k) PROVE RevokersOK'
        BY <2>6 DEF RefundCanceled
  <2>7. ASSUME NEW k \in Keys, RefundFails(c, k) PROVE RevokersOK'
        BY <2>7 DEF RefundFails
  <2>8. ASSUME NEW failing \in SUBSET Makers, TakeDownAll(c, failing) PROVE RevokersOK'
        BY <2>8 DEF TakeDownAll
  <2>9. ASSUME NEW p \in Makers, Record(c, p) PROVE RevokersOK'
    <3>1. PICK ps \in SUBSET Makers : plan[c] \in [ps -> made \cup {None}]
          BY <2>9
    <3>2. PICK rest \in SUBSET ps : plan' = [plan EXCEPT ![c] = [q \in rest |-> plan[c][q]]]
          BY <2>9, <3>1 DEF Record
    <3>3. [q \in rest |-> plan[c][q]] \in [rest -> made \cup {None}]
          BY <2>9, <3>1
    <3>4. UNCHANGED <<made, seen>>
          BY <2>9 DEF Record, Queued
    <3> QED BY <2>9, <3>2, <3>3, <3>4
  <2>10. CASE DieRevoking(c)
    <3>1. [p \in {} |-> None] \in [{} -> made \cup {None}]
          BY <2>10
    <3>2. plan' = [plan EXCEPT ![c] = [p \in {} |-> None]] /\ seen' = [seen EXCEPT ![c] = {}] /\ made' = made
          BY <2>10 DEF DieRevoking
    <3> QED BY <2>10, <3>1, <3>2
  <2> QED BY <1>4, <2>1, <2>2, <2>3, <2>4, <2>5, <2>6, <2>7, <2>8, <2>9, <2>10 DEF Delete
<1>5. ASSUME NEW w \in Slots, Work(w) PROVE RevokersOK'
  <2>1. ASSUME NEW k \in Keys, Take(w, k) PROVE RevokersOK'
        BY <2>1 DEF Take
  <2>2. CASE Train(w) \/ MarkTraining(w) BY <2>2 DEF Train, MarkTraining
  <2>3. CASE Host(w) BY <2>3 DEF Host
  <2>4. CASE HostFails(w) BY <2>4 DEF HostFails
  <2>5. CASE Persist(w) BY <2>5 DEF Persist
  <2>6. CASE PersistFails(w) BY <2>6 DEF PersistFails
  <2>7. CASE Discard(w) BY <2>7 DEF Discard
  <2>8. CASE FailProfile(w) BY <2>8 DEF FailProfile
  <2>9. CASE MarkFailed(w)
    <3>1. UNCHANGED <<seen, plan, made>>
          BY <2>9 DEF MarkFailed
    <3> QED BY <2>9, <3>1
  <2>10. CASE Settle(w)
    <3>1. UNCHANGED <<seen, plan, made>>
          BY <2>10 DEF Settle
    <3> QED BY <2>10, <3>1
  <2>11. CASE Tail(w) BY <2>11 DEF Tail
  <2>12. CASE LoseLock(w) BY <2>12 DEF LoseLock
  <2>13. CASE Crash(w) BY <2>13 DEF Crash
  <2> QED BY <1>5, <2>1, <2>2, <2>3, <2>4, <2>5, <2>6, <2>7, <2>8, <2>9, <2>10, <2>11, <2>12,
             <2>13 DEF Work
<1>6. ASSUME NEW k \in Keys, RefundFailed(k) PROVE RevokersOK'
      BY <1>6 DEF RefundFailed
<1>7. CASE UNCHANGED vars
      BY <1>7 DEF vars
<1> QED BY <1>1, <1>2, <1>3, <1>4, <1>5, <1>6, <1>7 DEF Next

\* The slots keep their types.
LEMMA SlotsOKStays ==
    ASSUME SlotsOK, [Next]_vars
    PROVE  SlotsOK'
<1> USE VoiceAssumption DEF SlotsOK, Begin, Leave, locals
<1>1. ASSUME NEW c \in Makers, SetUp(c) PROVE SlotsOK'
      BY <1>1 DEF SetUp, BeginSetup, ReplaySetup, InsertProfile, InsertProfileFails, Invoke,
         InvokeFails, CreateJob, CreateJobFails, DropProfile,
         DropProfileFails, Recheck
<1>2. ASSUME NEW c \in Makers, StartTraining(c) PROVE SlotsOK'
      BY <1>2 DEF StartTraining, BeginTraining, ReplayTraining, Audit, AuditFails,
         InsertTraining, InsertTrainingFails, InvokeTraining, Kickoff, KickoffFails, Store,
         CancelTraining, CancelTrainingFails, Queued, Report, FailJob, BlameProfile, Poll
<1>3. ASSUME NEW c \in Makers,
             Statement(c) \/ DieMaking(c) \/ Clean(c) PROVE SlotsOK'
      BY <1>3 DEF Statement, Statements, CancelJob, RemoveJob, ReverseCharge, StatementFails,
         DieMaking, Clean, CleanRead, CleanUp, CleanUpFails, WriteBack, Queued
<1>4. ASSUME NEW c \in Revokers, Delete(c) PROVE SlotsOK'
      BY <1>4 DEF Delete, Revoke, ReadProfiles, ReadJobs, Commit, ReadCanceled,
         RefundCanceled, RefundFails, TakeDownAll, Record, Queued, DieRevoking
<1>5. ASSUME NEW w \in Slots, Work(w) PROVE SlotsOK'
  <2>1. ASSUME NEW k \in Keys, Take(w, k) PROVE SlotsOK'
        BY <2>1 DEF Take
  <2>2. CASE Train(w) \/ MarkTraining(w) BY <2>2 DEF Train, MarkTraining
  <2>3. CASE Host(w) BY <2>3 DEF Host
  <2>4. CASE HostFails(w) BY <2>4 DEF HostFails
  <2>5. CASE Persist(w) BY <2>5 DEF Persist
  <2>6. CASE PersistFails(w) BY <2>6 DEF PersistFails
  <2>7. CASE Discard(w) BY <2>7 DEF Discard
  <2>8. CASE FailProfile(w) BY <2>8 DEF FailProfile
  <2>9. CASE MarkFailed(w) BY <2>9 DEF MarkFailed
  <2>10. CASE Settle(w) BY <2>10 DEF Settle
  <2>11. CASE Tail(w) BY <2>11 DEF Tail
  <2>12. CASE LoseLock(w) BY <2>12 DEF LoseLock
  <2>13. CASE Crash(w) BY <2>13 DEF Crash
  <2> QED BY <1>5, <2>1, <2>2, <2>3, <2>4, <2>5, <2>6, <2>7, <2>8, <2>9, <2>10, <2>11, <2>12,
             <2>13 DEF Work
<1>6. ASSUME NEW k \in Keys, RefundFailed(k) PROVE SlotsOK'
      BY <1>6 DEF RefundFailed
<1>7. CASE UNCHANGED vars
      BY <1>7 DEF vars
<1> QED BY <1>1, <1>2, <1>3, <1>4, <1>5, <1>6, <1>7 DEF Next

\* What is lost was made.
LEMMA PastOKStays ==
    ASSUME PlacesOK, ProfilesOK, HostsOK, MakersOK, RevokersOK, CallsHaveKeys, HeldOnTheWay,
           PastOK, [Next]_vars
    PROVE  PastOK'
<1> USE VoiceAssumption DEF PlacesOK, ProfilesOK, HostsOK, MakersOK, RevokersOK,
        CallsHaveKeys, HeldOnTheWay, PastOK, Made, Done, Begin, profiles, hosts, locals, past
<1>1. ASSUME NEW c \in Makers, SetUp(c) PROVE PastOK'
      BY <1>1 DEF SetUp, BeginSetup, ReplaySetup, InsertProfile, InsertProfileFails, Invoke,
         InvokeFails, CreateJob, CreateJobFails, DropProfile,
         DropProfileFails, Recheck
<1>2. ASSUME NEW c \in Makers, StartTraining(c) PROVE PastOK'
      BY <1>2 DEF StartTraining, BeginTraining, ReplayTraining, Audit, AuditFails,
         InsertTraining, InsertTrainingFails, InvokeTraining, Kickoff, KickoffFails, Store,
         CancelTraining, CancelTrainingFails, Queued, Report, FailJob, BlameProfile, Poll
<1>3. ASSUME NEW c \in Makers,
             Statement(c) \/ DieMaking(c) \/ Clean(c) PROVE PastOK'
  <2>1. CASE CancelJob(c) BY <2>1 DEF CancelJob
  <2>2. CASE RemoveJob(c) BY <2>2 DEF RemoveJob
  <2>3. CASE ReverseCharge(c) BY <2>3 DEF ReverseCharge
  <2>4. ASSUME NEW what \in Statements, StatementFails(c, what) PROVE PastOK'
        BY <2>4 DEF StatementFails
  <2>5. CASE DieMaking(c) BY <2>5 DEF DieMaking
  <2>6. CASE Clean(c) BY <2>6 DEF Clean, CleanRead, CleanUp, CleanUpFails, WriteBack, Queued
  <2> QED BY <1>3, <2>1, <2>2, <2>3, <2>4, <2>5, <2>6 DEF Statement, Statements
<1>4. ASSUME NEW c \in Revokers, Delete(c) PROVE PastOK'
      BY <1>4 DEF Delete, Revoke, ReadProfiles, ReadJobs, Commit, ReadCanceled,
         RefundCanceled, RefundFails, TakeDownAll, Record, Queued, DieRevoking
<1>5. ASSUME NEW w \in Slots, Work(w) PROVE PastOK'
      BY <1>5 DEF Work, Take, Train, MarkTraining, Host, HostFails, Persist, PersistFails, Discard,
         FailProfile, MarkFailed, Settle, Tail, LoseLock, Crash
<1>6. ASSUME NEW k \in Keys, RefundFailed(k) PROVE PastOK'
      BY <1>6 DEF RefundFailed
<1>7. CASE UNCHANGED vars
      BY <1>7 DEF vars
<1> QED BY <1>1, <1>2, <1>3, <1>4, <1>5, <1>6, <1>7 DEF Next

\* A job is tried again only while BullMQ has an attempt left for it.
LEMMA JobsOKStays ==
    ASSUME JobsOK, MakersOK, SlotsOK, CallsHaveKeys, SlotsHaveSetups, LastIsLast,
           left'.attempts = left.attempts, left.attempts \in Nat, [Next]_vars
    PROVE  JobsOK'
<1> USE VoiceAssumption DEF JobsOK, MakersOK, SlotsOK, CallsHaveKeys, SlotsHaveSetups,
        LastIsLast, Leave, SetStatus, Insert, Idling, Reverse, Unqueue, Redeliver, Release,
        Begin, Statuses, Terminal, jobs
<1>1. ASSUME NEW c \in Makers, SetUp(c) PROVE JobsOK'
  <2>1. ASSUME NEW k \in Keys, BeginSetup(c, k) PROVE JobsOK'
        BY <2>1 DEF BeginSetup
  <2>2. CASE ReplaySetup(c) BY <2>2 DEF ReplaySetup
  <2>3. CASE InsertProfile(c) BY <2>3 DEF InsertProfile
  <2>4. CASE InsertProfileFails(c) BY <2>4 DEF InsertProfileFails
  <2>5. CASE Invoke(c) BY <2>5 DEF Invoke
  <2>6. CASE InvokeFails(c) BY <2>6 DEF InvokeFails
  <2>7. CASE CreateJob(c)
    <3>1. CASE Insert(c, key[c])
          BY <2>7, <3>1 DEF CreateJob
    <3>2. CASE UNCHANGED <<status, madeFor, waiting>>
          BY <2>7, <3>2 DEF CreateJob
    <3> QED BY <2>7, <3>1, <3>2 DEF CreateJob
  <2>8. CASE CreateJobFails(c)
    <3>1. CASE Insert(c, key[c]) /\ UNCHANGED <<charge, withdrawn>>
          BY <2>8, <3>1 DEF CreateJobFails
    <3>2. CASE Reverse(key[c]) /\ UNCHANGED <<status, madeFor, waiting>>
          BY <2>8, <3>2 DEF CreateJobFails
    <3> QED BY <2>8, <3>1, <3>2 DEF CreateJobFails
  <2>9. CASE DropProfile(c) \/ DropProfileFails(c) BY <2>9 DEF DropProfile, DropProfileFails
  <2>10. CASE Recheck(c) BY <2>10 DEF Recheck
  <2> QED BY <1>1, <2>1, <2>2, <2>3, <2>4, <2>5, <2>6, <2>7, <2>8, <2>9, <2>10 DEF SetUp
<1>2. ASSUME NEW c \in Makers, StartTraining(c) PROVE JobsOK'
      BY <1>2 DEF StartTraining, BeginTraining, ReplayTraining, Audit, AuditFails,
         InsertTraining, InsertTrainingFails, InvokeTraining, Kickoff, KickoffFails, Store,
         CancelTraining, CancelTrainingFails, Queued, Report, FailJob, BlameProfile, Poll
<1>3. ASSUME NEW c \in Makers,
             Statement(c) \/ DieMaking(c) \/ Clean(c) PROVE JobsOK'
  <2>1. CASE CancelJob(c) BY <2>1 DEF CancelJob
  <2>2. CASE RemoveJob(c) BY <2>2 DEF RemoveJob
  <2>3. CASE ReverseCharge(c) BY <2>3 DEF ReverseCharge
  <2>4. ASSUME NEW what \in Statements, StatementFails(c, what) PROVE JobsOK'
        BY <2>4 DEF StatementFails
  <2>5. CASE DieMaking(c) BY <2>5 DEF DieMaking
  <2>6. CASE Clean(c) BY <2>6 DEF Clean, CleanRead, CleanUp, CleanUpFails, WriteBack, Queued
  <2> QED BY <1>3, <2>1, <2>2, <2>3, <2>4, <2>5, <2>6 DEF Statement, Statements
<1>4. ASSUME NEW c \in Revokers, Delete(c) PROVE JobsOK'
  <2>1. CASE Revoke(c) BY <2>1 DEF Revoke
  <2>2. CASE ReadProfiles(c) BY <2>2 DEF ReadProfiles
  <2>3. CASE ReadJobs(c) BY <2>3 DEF ReadJobs
  <2>4. CASE Commit(c) BY <2>4 DEF Commit
  <2>5. CASE ReadCanceled(c) BY <2>5 DEF ReadCanceled
  <2>6. ASSUME NEW k \in Keys, RefundCanceled(c, k) PROVE JobsOK'
        BY <2>6 DEF RefundCanceled
  <2>7. ASSUME NEW k \in Keys, RefundFails(c, k) PROVE JobsOK'
        BY <2>7 DEF RefundFails
  <2>8. ASSUME NEW failing \in SUBSET Makers, TakeDownAll(c, failing) PROVE JobsOK'
        BY <2>8 DEF TakeDownAll
  <2>9. ASSUME NEW p \in Makers, Record(c, p) PROVE JobsOK'
        BY <2>9 DEF Record, Queued
  <2>10. CASE DieRevoking(c) BY <2>10 DEF DieRevoking
  <2> QED BY <1>4, <2>1, <2>2, <2>3, <2>4, <2>5, <2>6, <2>7, <2>8, <2>9, <2>10 DEF Delete
<1>5. ASSUME NEW w \in Slots, Work(w) PROVE JobsOK'
  <2>1. ASSUME NEW k \in Keys, Take(w, k) PROVE JobsOK'
        BY <2>1 DEF Take
  <2>2. CASE Train(w) \/ MarkTraining(w) BY <2>2 DEF Train, MarkTraining
  <2>3. CASE Host(w) BY <2>3 DEF Host
  <2>4. CASE HostFails(w) BY <2>4 DEF HostFails
  <2>5. CASE Persist(w) BY <2>5 DEF Persist
  <2>6. CASE PersistFails(w) BY <2>6 DEF PersistFails
  <2>7. CASE Discard(w) BY <2>7 DEF Discard
  <2>8. CASE FailProfile(w) BY <2>8 DEF FailProfile
  <2>9. CASE MarkFailed(w) BY <2>9 DEF MarkFailed
  <2>10. CASE Settle(w)
    <3>1. CASE Leave(w)
          BY <2>10, <3>1 DEF Settle
    <3>2. CASE UNCHANGED <<holder, job, final>>
          BY <2>10, <3>2 DEF Settle
    <3> QED BY <2>10, <3>1, <3>2 DEF Settle
  <2>11. CASE Tail(w)
    <3>1. job[w] \in Keys
          BY <2>11 DEF Tail
    <3>2. \/ UNCHANGED <<waiting, tries>>
          \/ /\ waiting' = [waiting EXCEPT ![job[w]] = TRUE]
             /\ tries' = [tries EXCEPT ![job[w]] = @ + 1]
             /\ tries[job[w]] + 1 < left.attempts
          BY <2>11, <3>1 DEF Tail
    <3>3. waiting' \in [Keys -> BOOLEAN]
          BY <2>11, <3>1, <3>2
    <3>4. tries' \in [Keys -> Nat]
          BY <2>11, <3>1, <3>2
    <3>5. \A k \in Keys : tries'[k] < left.attempts
          BY <2>11, <3>1, <3>2
    <3>6. \A k \in Keys : tries'[k] < left'.attempts
          BY <2>11, <3>5
    <3>7. status' \in [Keys -> Statuses]
          BY <2>11, <3>1 DEF Tail
    <3> QED BY <2>11, <3>3, <3>4, <3>6, <3>7 DEF Tail
  <2>12. CASE LoseLock(w) BY <2>12 DEF LoseLock
  <2>13. CASE Crash(w) BY <2>13 DEF Crash
  <2> QED BY <1>5, <2>1, <2>2, <2>3, <2>4, <2>5, <2>6, <2>7, <2>8, <2>9, <2>10, <2>11, <2>12,
             <2>13 DEF Work
<1>6. ASSUME NEW k \in Keys, RefundFailed(k) PROVE JobsOK'
      BY <1>6 DEF RefundFailed
<1>7. CASE UNCHANGED vars
      BY <1>7 DEF vars
<1> QED BY <1>1, <1>2, <1>3, <1>4, <1>5, <1>6, <1>7 DEF Next

-----------------------------------------------------------------------------
(***************************************************************************)
(* The routes, the queue and the slots.                                    *)
(***************************************************************************)
\* The first step of a call takes its charge, and none takes it away.
LEMMA CallsHaveKeysStays ==
    ASSUME PlacesOK, JobsOK, MakersOK, CallsHaveKeys, [Next]_vars
    PROVE  CallsHaveKeys'
<1> USE VoiceAssumption DEF PlacesOK, JobsOK, MakersOK, CallsHaveKeys, Actors, Goto, GiveUp,
        Done, Leave, Begin, Reverse, jobs, locals
<1>1. ASSUME NEW c \in Makers, SetUp(c) PROVE CallsHaveKeys'
  <2>1. ASSUME NEW k \in Keys, BeginSetup(c, k) PROVE CallsHaveKeys'
        BY <2>1 DEF BeginSetup
  <2>2. CASE ReplaySetup(c) BY <2>2 DEF ReplaySetup
  <2>3. CASE InsertProfile(c) BY <2>3 DEF InsertProfile
  <2>4. CASE InsertProfileFails(c) BY <2>4 DEF InsertProfileFails
  <2>5. CASE Invoke(c) BY <2>5 DEF Invoke
  <2>6. CASE InvokeFails(c) BY <2>6 DEF InvokeFails
  <2>7. CASE CreateJob(c) BY <2>7 DEF CreateJob
  <2>8. CASE CreateJobFails(c) BY <2>8 DEF CreateJobFails
  <2>9. CASE DropProfile(c) \/ DropProfileFails(c) BY <2>9 DEF DropProfile, DropProfileFails
  <2>10. CASE Recheck(c) BY <2>10 DEF Recheck
  <2> QED BY <1>1, <2>1, <2>2, <2>3, <2>4, <2>5, <2>6, <2>7, <2>8, <2>9, <2>10 DEF SetUp
<1>2. ASSUME NEW c \in Makers, StartTraining(c) PROVE CallsHaveKeys'
  <2>1. ASSUME NEW k \in Keys, BeginTraining(c, k) PROVE CallsHaveKeys'
        BY <2>1 DEF BeginTraining
  <2>2. CASE ReplayTraining(c) BY <2>2 DEF ReplayTraining
  <2>3. CASE Audit(c) BY <2>3 DEF Audit
  <2>4. CASE AuditFails(c) BY <2>4 DEF AuditFails
  <2>5. CASE InsertTraining(c) BY <2>5 DEF InsertTraining
  <2>6. CASE InsertTrainingFails(c) BY <2>6 DEF InsertTrainingFails
  <2>7. CASE InvokeTraining(c) BY <2>7 DEF InvokeTraining
  <2>8. CASE Kickoff(c) BY <2>8 DEF Kickoff
  <2>9. CASE KickoffFails(c) BY <2>9 DEF KickoffFails
  <2>10. CASE Store(c) BY <2>10 DEF Store
  <2>11. CASE CancelTraining(c) BY <2>11 DEF CancelTraining
  <2>12. CASE CancelTrainingFails(c) BY <2>12 DEF CancelTrainingFails, Queued
  <2>13. CASE Report(c) BY <2>13 DEF Report
  <2>14. CASE FailJob(c) BY <2>14 DEF FailJob
  <2>15. CASE BlameProfile(c) BY <2>15 DEF BlameProfile
  <2>16. ASSUME NEW result \in {"READY", "FAILED"}, Poll(c, result) PROVE CallsHaveKeys'
        BY <2>16 DEF Poll
  <2> QED BY <1>2, <2>1, <2>2, <2>3, <2>4, <2>5, <2>6, <2>7, <2>8, <2>9, <2>10, <2>11, <2>12,
             <2>13, <2>14, <2>15, <2>16 DEF StartTraining
<1>3. ASSUME NEW c \in Makers,
             Statement(c) \/ DieMaking(c) \/ Clean(c)
             PROVE CallsHaveKeys'
  <2>1. CASE CancelJob(c) BY <2>1 DEF CancelJob
  <2>2. CASE RemoveJob(c) BY <2>2 DEF RemoveJob
  <2>3. CASE ReverseCharge(c) BY <2>3 DEF ReverseCharge
  <2>4. ASSUME NEW what \in Statements, StatementFails(c, what) PROVE CallsHaveKeys'
        BY <2>4 DEF StatementFails
  <2>5. CASE DieMaking(c) BY <2>5 DEF DieMaking
  <2>6. CASE Clean(c) BY <2>6 DEF Clean, CleanRead, CleanUp, CleanUpFails, WriteBack, Queued
  <2> QED BY <1>3, <2>1, <2>2, <2>3, <2>4, <2>5, <2>6 DEF Statement, Statements
<1>4. ASSUME NEW c \in Revokers, Delete(c) PROVE CallsHaveKeys'
  <2>1. CASE Revoke(c) BY <2>1 DEF Revoke
  <2>2. CASE ReadProfiles(c) BY <2>2 DEF ReadProfiles
  <2>3. CASE ReadJobs(c) BY <2>3 DEF ReadJobs
  <2>4. CASE Commit(c) BY <2>4 DEF Commit
  <2>5. CASE ReadCanceled(c) BY <2>5 DEF ReadCanceled
  <2>6. ASSUME NEW k \in Keys, RefundCanceled(c, k) PROVE CallsHaveKeys'
        BY <2>6 DEF RefundCanceled
  <2>7. ASSUME NEW k \in Keys, RefundFails(c, k) PROVE CallsHaveKeys'
        BY <2>7 DEF RefundFails
  <2>8. ASSUME NEW failing \in SUBSET Makers, TakeDownAll(c, failing) PROVE CallsHaveKeys'
        BY <2>8 DEF TakeDownAll
  <2>9. ASSUME NEW p \in Makers, Record(c, p) PROVE CallsHaveKeys'
        BY <2>9 DEF Record, Queued
  <2>10. CASE DieRevoking(c) BY <2>10 DEF DieRevoking
  <2> QED BY <1>4, <2>1, <2>2, <2>3, <2>4, <2>5, <2>6, <2>7, <2>8, <2>9, <2>10 DEF Delete
<1>5. ASSUME NEW w \in Slots, Work(w) PROVE CallsHaveKeys'
  <2>1. ASSUME NEW k \in Keys, Take(w, k) PROVE CallsHaveKeys'
        BY <2>1 DEF Take
  <2>2. CASE Train(w) \/ MarkTraining(w) BY <2>2 DEF Train, MarkTraining
  <2>3. CASE Host(w) BY <2>3 DEF Host
  <2>4. CASE HostFails(w) BY <2>4 DEF HostFails
  <2>5. CASE Persist(w) BY <2>5 DEF Persist
  <2>6. CASE PersistFails(w) BY <2>6 DEF PersistFails
  <2>7. CASE Discard(w) BY <2>7 DEF Discard
  <2>8. CASE FailProfile(w) BY <2>8 DEF FailProfile
  <2>9. CASE MarkFailed(w) BY <2>9 DEF MarkFailed
  <2>10. CASE Settle(w) BY <2>10 DEF Settle
  <2>11. CASE Tail(w) BY <2>11 DEF Tail
  <2>12. CASE LoseLock(w) BY <2>12 DEF LoseLock
  <2>13. CASE Crash(w) BY <2>13 DEF Crash
  <2> QED BY <1>5, <2>1, <2>2, <2>3, <2>4, <2>5, <2>6, <2>7, <2>8, <2>9, <2>10, <2>11, <2>12,
             <2>13 DEF Work
<1>6. ASSUME NEW k \in Keys, RefundFailed(k) PROVE CallsHaveKeys'
      BY <1>6 DEF RefundFailed
<1>7. CASE UNCHANGED vars
      BY <1>7 DEF vars
<1> QED BY <1>1, <1>2, <1>3, <1>4, <1>5, <1>6, <1>7 DEF Next

\* Each place is reached from the route's own.
LEMMA RoutesKeepApartStays ==
    ASSUME PlacesOK, MakersOK, CallsHaveKeys, RoutesKeepApart, [Next]_vars
    PROVE  RoutesKeepApart'
<1> USE VoiceAssumption DEF PlacesOK, MakersOK, CallsHaveKeys, RoutesKeepApart, Actors, Goto,
        GiveUp, Done, Leave, Begin, Setups, locals
<1>1. ASSUME NEW c \in Makers, SetUp(c) PROVE RoutesKeepApart'
      BY ZenonT(60), <1>1 DEF SetUp, BeginSetup, ReplaySetup, InsertProfile, InsertProfileFails,
         Invoke, InvokeFails, CreateJob, CreateJobFails, DropProfile,
         DropProfileFails, Recheck
<1>2. ASSUME NEW c \in Makers, StartTraining(c) PROVE RoutesKeepApart'
      BY ZenonT(60), <1>2 DEF StartTraining, BeginTraining, ReplayTraining, Audit, AuditFails,
         InsertTraining, InsertTrainingFails, InvokeTraining, Kickoff, KickoffFails, Store,
         CancelTraining, CancelTrainingFails, Queued, Report, FailJob, BlameProfile, Poll
<1>3. ASSUME NEW c \in Makers,
             Statement(c) \/ DieMaking(c) \/ Clean(c)
             PROVE RoutesKeepApart'
      BY <1>3 DEF Statement, Statements, CancelJob, RemoveJob, ReverseCharge, StatementFails,
         DieMaking, Clean, CleanRead, CleanUp, CleanUpFails, WriteBack, Queued
<1>4. ASSUME NEW c \in Revokers, Delete(c) PROVE RoutesKeepApart'
      BY <1>4 DEF Delete, Revoke, ReadProfiles, ReadJobs, Commit, ReadCanceled,
         RefundCanceled, RefundFails, TakeDownAll, Record, Queued, DieRevoking
<1>5. ASSUME NEW w \in Slots, Work(w) PROVE RoutesKeepApart'
  <2>1. ASSUME NEW k \in Keys, Take(w, k) PROVE RoutesKeepApart'
        BY <2>1 DEF Take
  <2>2. CASE Train(w) \/ MarkTraining(w) BY <2>2 DEF Train, MarkTraining
  <2>3. CASE Host(w) BY <2>3 DEF Host
  <2>4. CASE HostFails(w) BY <2>4 DEF HostFails
  <2>5. CASE Persist(w) BY <2>5 DEF Persist
  <2>6. CASE PersistFails(w) BY <2>6 DEF PersistFails
  <2>7. CASE Discard(w) BY <2>7 DEF Discard
  <2>8. CASE FailProfile(w) BY <2>8 DEF FailProfile
  <2>9. CASE MarkFailed(w) BY <2>9 DEF MarkFailed
  <2>10. CASE Settle(w) BY <2>10 DEF Settle
  <2>11. CASE Tail(w) BY <2>11 DEF Tail
  <2>12. CASE LoseLock(w) BY <2>12 DEF LoseLock
  <2>13. CASE Crash(w) BY <2>13 DEF Crash
  <2> QED BY <1>5, <2>1, <2>2, <2>3, <2>4, <2>5, <2>6, <2>7, <2>8, <2>9, <2>10, <2>11, <2>12,
             <2>13 DEF Work
<1>6. ASSUME NEW k \in Keys, RefundFailed(k) PROVE RoutesKeepApart'
      BY <1>6 DEF RefundFailed
<1>7. CASE UNCHANGED vars
      BY <1>7 DEF vars
<1> QED BY <1>1, <1>2, <1>3, <1>4, <1>5, <1>6, <1>7 DEF Next

\* Only the call itself makes its profile, when it leaves these places.
LEMMA NoProfileYetStays ==
    ASSUME PlacesOK, JobsOK, ProfilesOK, MakersOK, SlotsHaveSetups, JobsHaveCharges,
           CallsHaveKeys, NoProfileYet, [Next]_vars
    PROVE  NoProfileYet'
<1> USE VoiceAssumption DEF PlacesOK, JobsOK, ProfilesOK, MakersOK, SlotsHaveSetups,
        JobsHaveCharges, CallsHaveKeys, NoProfileYet, Actors, Goto, GiveUp, Done, Leave,
        Begin, CreateProfile, Marked, Trainable, Gone, profiles, locals
<1>1. ASSUME NEW c \in Makers, SetUp(c) PROVE NoProfileYet'
  <2>1. ASSUME NEW k \in Keys, BeginSetup(c, k) PROVE NoProfileYet'
        BY <2>1 DEF BeginSetup
  <2>2. CASE ReplaySetup(c) BY <2>2 DEF ReplaySetup
  <2>3. CASE InsertProfile(c) BY <2>3 DEF InsertProfile
  <2>4. CASE InsertProfileFails(c) BY <2>4 DEF InsertProfileFails
  <2>5. CASE Invoke(c)
    <3>1. \A d \in Makers \ {c} : pc'[d] = pc[d] /\ profile'[d] = profile[d]
          BY <2>5 DEF Invoke
    <3>2. pc'[c] \in {"job", "giving up"}
          BY <2>5 DEF Invoke
    <3> QED BY <2>5, <3>1, <3>2
  <2>6. CASE InvokeFails(c) BY <2>6 DEF InvokeFails
  <2>7. CASE CreateJob(c) BY <2>7 DEF CreateJob
  <2>8. CASE CreateJobFails(c) BY <2>8 DEF CreateJobFails
  <2>9. CASE DropProfile(c) \/ DropProfileFails(c) BY <2>9 DEF DropProfile, DropProfileFails
  <2>10. CASE Recheck(c) BY ZenonT(60), <2>10 DEF Recheck
  <2> QED BY <1>1, <2>1, <2>2, <2>3, <2>4, <2>5, <2>6, <2>7, <2>8, <2>9, <2>10 DEF SetUp
<1>2. ASSUME NEW c \in Makers, StartTraining(c) PROVE NoProfileYet'
  <2>1. ASSUME NEW k \in Keys, BeginTraining(c, k) PROVE NoProfileYet'
        BY <2>1 DEF BeginTraining
  <2>2. CASE ReplayTraining(c) BY <2>2 DEF ReplayTraining
  <2>3. CASE Audit(c) BY <2>3 DEF Audit
  <2>4. CASE AuditFails(c) BY <2>4 DEF AuditFails
  <2>5. CASE InsertTraining(c) BY <2>5 DEF InsertTraining
  <2>6. CASE InsertTrainingFails(c) BY <2>6 DEF InsertTrainingFails
  <2>7. CASE InvokeTraining(c) BY ZenonT(60), <2>7 DEF InvokeTraining
  <2>8. CASE Kickoff(c) BY <2>8 DEF Kickoff
  <2>9. CASE KickoffFails(c) BY <2>9 DEF KickoffFails
  <2>10. CASE Store(c) BY <2>10 DEF Store
  <2>11. CASE CancelTraining(c) BY <2>11 DEF CancelTraining
  <2>12. CASE CancelTrainingFails(c) BY <2>12 DEF CancelTrainingFails, Queued
  <2>13. CASE Report(c) BY <2>13 DEF Report
  <2>14. CASE FailJob(c) BY <2>14 DEF FailJob
  <2>15. CASE BlameProfile(c) BY <2>15 DEF BlameProfile
  <2>16. ASSUME NEW result \in {"READY", "FAILED"}, Poll(c, result) PROVE NoProfileYet'
        BY <2>16 DEF Poll
  <2> QED BY <1>2, <2>1, <2>2, <2>3, <2>4, <2>5, <2>6, <2>7, <2>8, <2>9, <2>10, <2>11, <2>12,
             <2>13, <2>14, <2>15, <2>16 DEF StartTraining
<1>3. ASSUME NEW c \in Makers,
             Statement(c) \/ DieMaking(c) \/ Clean(c) PROVE NoProfileYet'
  <2>1. CASE CancelJob(c) BY <2>1 DEF CancelJob
  <2>2. CASE RemoveJob(c) BY <2>2 DEF RemoveJob
  <2>3. CASE ReverseCharge(c) BY <2>3 DEF ReverseCharge
  <2>4. ASSUME NEW what \in Statements, StatementFails(c, what) PROVE NoProfileYet'
        BY <2>4 DEF StatementFails
  <2>5. CASE DieMaking(c) BY <2>5 DEF DieMaking
  <2>6. CASE Clean(c) BY <2>6 DEF Clean, CleanRead, CleanUp, CleanUpFails, WriteBack, Queued
  <2> QED BY <1>3, <2>1, <2>2, <2>3, <2>4, <2>5, <2>6 DEF Statement, Statements
<1>4. ASSUME NEW c \in Revokers, Delete(c) PROVE NoProfileYet'
  <2>1. CASE Revoke(c) BY <2>1 DEF Revoke
  <2>2. CASE ReadProfiles(c) BY <2>2 DEF ReadProfiles
  <2>3. CASE ReadJobs(c) BY <2>3 DEF ReadJobs
  <2>4. CASE Commit(c) BY <2>4 DEF Commit
  <2>5. CASE ReadCanceled(c) BY <2>5 DEF ReadCanceled
  <2>6. ASSUME NEW k \in Keys, RefundCanceled(c, k) PROVE NoProfileYet'
        BY <2>6 DEF RefundCanceled
  <2>7. ASSUME NEW k \in Keys, RefundFails(c, k) PROVE NoProfileYet'
        BY <2>7 DEF RefundFails
  <2>8. ASSUME NEW failing \in SUBSET Makers, TakeDownAll(c, failing) PROVE NoProfileYet'
        BY <2>8 DEF TakeDownAll
  <2>9. ASSUME NEW p \in Makers, Record(c, p) PROVE NoProfileYet'
        BY <2>9 DEF Record, Queued
  <2>10. CASE DieRevoking(c) BY <2>10 DEF DieRevoking
  <2> QED BY <1>4, <2>1, <2>2, <2>3, <2>4, <2>5, <2>6, <2>7, <2>8, <2>9, <2>10 DEF Delete
<1>5. ASSUME NEW w \in Slots, Work(w) PROVE NoProfileYet'
  <2>1. ASSUME NEW k \in Keys, Take(w, k) PROVE NoProfileYet'
        BY <2>1 DEF Take
  <2>2. CASE Train(w) \/ MarkTraining(w) BY <2>2 DEF Train, MarkTraining
  <2>3. CASE Host(w) BY <2>3 DEF Host
  <2>4. CASE HostFails(w) BY <2>4 DEF HostFails
  <2>5. CASE Persist(w) BY <2>5 DEF Persist
  <2>6. CASE PersistFails(w) BY <2>6 DEF PersistFails
  <2>7. CASE Discard(w) BY <2>7 DEF Discard
  <2>8. CASE FailProfile(w) BY <2>8 DEF FailProfile
  <2>9. CASE MarkFailed(w) BY ZenonT(60), <2>9 DEF MarkFailed
  <2>10. CASE Settle(w)
    <3>1. profile' = profile /\ \A c \in Makers : pc'[c] = pc[c]
          BY <2>10 DEF Settle
    <3> QED BY <2>10, <3>1
  <2>11. CASE Tail(w) BY <2>11 DEF Tail
  <2>12. CASE LoseLock(w) BY <2>12 DEF LoseLock
  <2>13. CASE Crash(w) BY <2>13 DEF Crash
  <2> QED BY <1>5, <2>1, <2>2, <2>3, <2>4, <2>5, <2>6, <2>7, <2>8, <2>9, <2>10, <2>11, <2>12,
             <2>13 DEF Work
<1>6. ASSUME NEW k \in Keys, RefundFailed(k) PROVE NoProfileYet'
      BY <1>6 DEF RefundFailed
<1>7. CASE UNCHANGED vars
      BY <1>7 DEF vars
<1> QED BY <1>1, <1>2, <1>3, <1>4, <1>5, <1>6, <1>7 DEF Next

\* A slot gets its job from the queue, and a job keeps its profile.
LEMMA SlotsHaveSetupsStays ==
    ASSUME PlacesOK, JobsOK, SlotsOK, SlotsHaveSetups, QueueHoldsSetups, [Next]_vars
    PROVE  SlotsHaveSetups'
<1> USE VoiceAssumption DEF PlacesOK, JobsOK, SlotsOK, SlotsHaveSetups, QueueHoldsSetups,
        Actors, Goto, GiveUp, Done, Leave, Begin, Insert, jobs, locals
<1>1. ASSUME NEW c \in Makers, SetUp(c) PROVE SlotsHaveSetups'
  <2>1. ASSUME NEW k \in Keys, BeginSetup(c, k) PROVE SlotsHaveSetups'
        BY <2>1 DEF BeginSetup
  <2>2. CASE ReplaySetup(c) BY <2>2 DEF ReplaySetup
  <2>3. CASE InsertProfile(c) BY <2>3 DEF InsertProfile
  <2>4. CASE InsertProfileFails(c) BY <2>4 DEF InsertProfileFails
  <2>5. CASE Invoke(c) BY <2>5 DEF Invoke
  <2>6. CASE InvokeFails(c) BY <2>6 DEF InvokeFails
  <2>7. CASE CreateJob(c) BY <2>7 DEF CreateJob
  <2>8. CASE CreateJobFails(c) BY <2>8 DEF CreateJobFails
  <2>9. CASE DropProfile(c) \/ DropProfileFails(c) BY <2>9 DEF DropProfile, DropProfileFails
  <2>10. CASE Recheck(c) BY <2>10 DEF Recheck
  <2> QED BY <1>1, <2>1, <2>2, <2>3, <2>4, <2>5, <2>6, <2>7, <2>8, <2>9, <2>10 DEF SetUp
<1>2. ASSUME NEW c \in Makers, StartTraining(c) PROVE SlotsHaveSetups'
  <2>1. ASSUME NEW k \in Keys, BeginTraining(c, k) PROVE SlotsHaveSetups'
        BY <2>1 DEF BeginTraining
  <2>2. CASE ReplayTraining(c) BY <2>2 DEF ReplayTraining
  <2>3. CASE Audit(c) BY <2>3 DEF Audit
  <2>4. CASE AuditFails(c) BY <2>4 DEF AuditFails
  <2>5. CASE InsertTraining(c) BY <2>5 DEF InsertTraining
  <2>6. CASE InsertTrainingFails(c) BY <2>6 DEF InsertTrainingFails
  <2>7. CASE InvokeTraining(c) BY <2>7 DEF InvokeTraining
  <2>8. CASE Kickoff(c) BY <2>8 DEF Kickoff
  <2>9. CASE KickoffFails(c) BY <2>9 DEF KickoffFails
  <2>10. CASE Store(c) BY <2>10 DEF Store
  <2>11. CASE CancelTraining(c) BY <2>11 DEF CancelTraining
  <2>12. CASE CancelTrainingFails(c) BY <2>12 DEF CancelTrainingFails, Queued
  <2>13. CASE Report(c) BY <2>13 DEF Report
  <2>14. CASE FailJob(c) BY <2>14 DEF FailJob
  <2>15. CASE BlameProfile(c) BY <2>15 DEF BlameProfile
  <2>16. ASSUME NEW result \in {"READY", "FAILED"}, Poll(c, result) PROVE SlotsHaveSetups'
        BY <2>16 DEF Poll
  <2> QED BY <1>2, <2>1, <2>2, <2>3, <2>4, <2>5, <2>6, <2>7, <2>8, <2>9, <2>10, <2>11, <2>12,
             <2>13, <2>14, <2>15, <2>16 DEF StartTraining
<1>3. ASSUME NEW c \in Makers,
             Statement(c) \/ DieMaking(c) \/ Clean(c)
             PROVE SlotsHaveSetups'
      BY <1>3 DEF Statement, Statements, CancelJob, RemoveJob, ReverseCharge, StatementFails,
         DieMaking, Clean, CleanRead, CleanUp, CleanUpFails, WriteBack, Queued
<1>4. ASSUME NEW c \in Revokers, Delete(c) PROVE SlotsHaveSetups'
      BY <1>4 DEF Delete, Revoke, ReadProfiles, ReadJobs, Commit, ReadCanceled,
         RefundCanceled, RefundFails, TakeDownAll, Record, Queued, DieRevoking
<1>5. ASSUME NEW w \in Slots, Work(w) PROVE SlotsHaveSetups'
  <2>1. ASSUME NEW k \in Keys, Take(w, k) PROVE SlotsHaveSetups'
        BY <2>1 DEF Take
  <2>2. CASE Train(w) \/ MarkTraining(w) BY <2>2 DEF Train, MarkTraining
  <2>3. CASE Host(w) BY <2>3 DEF Host
  <2>4. CASE HostFails(w) BY <2>4 DEF HostFails
  <2>5. CASE Persist(w) BY <2>5 DEF Persist
  <2>6. CASE PersistFails(w) BY <2>6 DEF PersistFails
  <2>7. CASE Discard(w) BY <2>7 DEF Discard
  <2>8. CASE FailProfile(w) BY <2>8 DEF FailProfile
  <2>9. CASE MarkFailed(w) BY <2>9 DEF MarkFailed
  <2>10. CASE Settle(w) BY <2>10 DEF Settle
  <2>11. CASE Tail(w) BY <2>11 DEF Tail
  <2>12. CASE LoseLock(w) BY <2>12 DEF LoseLock
  <2>13. CASE Crash(w) BY <2>13 DEF Crash
  <2> QED BY <1>5, <2>1, <2>2, <2>3, <2>4, <2>5, <2>6, <2>7, <2>8, <2>9, <2>10, <2>11, <2>12,
             <2>13 DEF Work
<1>6. ASSUME NEW k \in Keys, RefundFailed(k) PROVE SlotsHaveSetups'
      BY <1>6 DEF RefundFailed
<1>7. CASE UNCHANGED vars
      BY <1>7 DEF vars
<1> QED BY <1>1, <1>2, <1>3, <1>4, <1>5, <1>6, <1>7 DEF Next

\* Only createQueuedProviderJob and a job's next attempt put a job in the queue.
LEMMA QueueHoldsSetupsStays ==
    ASSUME PlacesOK, JobsOK, MakersOK, CallsHaveKeys, RoutesKeepApart, SlotsHaveSetups,
           QueueHoldsSetups, [Next]_vars
    PROVE  QueueHoldsSetups'
<1> USE VoiceAssumption DEF PlacesOK, JobsOK, MakersOK, CallsHaveKeys, RoutesKeepApart,
        SlotsHaveSetups, QueueHoldsSetups, Actors, Leave, Begin, Unqueue, Insert, Release,
        Redeliver, jobs, locals
<1>1. ASSUME NEW c \in Makers, SetUp(c) PROVE QueueHoldsSetups'
      BY <1>1 DEF SetUp, BeginSetup, ReplaySetup, InsertProfile, InsertProfileFails, Invoke,
         InvokeFails, CreateJob, CreateJobFails, DropProfile,
         DropProfileFails, Recheck
<1>2. ASSUME NEW c \in Makers, StartTraining(c) PROVE QueueHoldsSetups'
      BY <1>2 DEF StartTraining, BeginTraining, ReplayTraining, Audit, AuditFails,
         InsertTraining, InsertTrainingFails, InvokeTraining, Kickoff, KickoffFails, Store,
         CancelTraining, CancelTrainingFails, Queued, Report, FailJob, BlameProfile, Poll
<1>3. ASSUME NEW c \in Makers,
             Statement(c) \/ DieMaking(c) \/ Clean(c)
             PROVE QueueHoldsSetups'
      BY <1>3 DEF Statement, Statements, CancelJob, RemoveJob, ReverseCharge, StatementFails,
         DieMaking, Clean, CleanRead, CleanUp, CleanUpFails, WriteBack, Queued
<1>4. ASSUME NEW c \in Revokers, Delete(c) PROVE QueueHoldsSetups'
  <2>1. CASE Revoke(c) BY <2>1 DEF Revoke
  <2>2. CASE ReadProfiles(c) BY <2>2 DEF ReadProfiles
  <2>3. CASE ReadJobs(c) BY <2>3 DEF ReadJobs
  <2>4. CASE Commit(c) BY <2>4 DEF Commit
  <2>5. CASE ReadCanceled(c) BY <2>5 DEF ReadCanceled
  <2>6. ASSUME NEW k \in Keys, RefundCanceled(c, k) PROVE QueueHoldsSetups'
        BY <2>6 DEF RefundCanceled
  <2>7. ASSUME NEW k \in Keys, RefundFails(c, k) PROVE QueueHoldsSetups'
        BY <2>7 DEF RefundFails
  <2>8. ASSUME NEW failing \in SUBSET Makers, TakeDownAll(c, failing) PROVE QueueHoldsSetups'
        BY <2>8 DEF TakeDownAll
  <2>9. ASSUME NEW p \in Makers, Record(c, p) PROVE QueueHoldsSetups'
        BY <2>9 DEF Record, Queued
  <2>10. CASE DieRevoking(c) BY <2>10 DEF DieRevoking
  <2> QED BY <1>4, <2>1, <2>2, <2>3, <2>4, <2>5, <2>6, <2>7, <2>8, <2>9, <2>10 DEF Delete
<1>5. ASSUME NEW w \in Slots, Work(w) PROVE QueueHoldsSetups'
  <2>1. ASSUME NEW k \in Keys, Take(w, k) PROVE QueueHoldsSetups'
        BY <2>1 DEF Take
  <2>2. CASE Train(w) \/ MarkTraining(w) BY <2>2 DEF Train, MarkTraining
  <2>3. CASE Host(w) BY <2>3 DEF Host
  <2>4. CASE HostFails(w) BY <2>4 DEF HostFails
  <2>5. CASE Persist(w) BY <2>5 DEF Persist
  <2>6. CASE PersistFails(w) BY <2>6 DEF PersistFails
  <2>7. CASE Discard(w) BY <2>7 DEF Discard
  <2>8. CASE FailProfile(w) BY <2>8 DEF FailProfile
  <2>9. CASE MarkFailed(w) BY <2>9 DEF MarkFailed
  <2>10. CASE Settle(w)
    <3>1. CASE Leave(w)
          BY <2>10, <3>1 DEF Settle
    <3>2. CASE UNCHANGED <<holder, job, final>>
          BY <2>10, <3>2 DEF Settle
    <3> QED BY <2>10, <3>1, <3>2 DEF Settle
  <2>11. CASE Tail(w) BY <2>11 DEF Tail
  <2>12. CASE LoseLock(w) BY <2>12 DEF LoseLock
  <2>13. CASE Crash(w) BY <2>13 DEF Crash
  <2> QED BY <1>5, <2>1, <2>2, <2>3, <2>4, <2>5, <2>6, <2>7, <2>8, <2>9, <2>10, <2>11, <2>12,
             <2>13 DEF Work
<1>6. ASSUME NEW k \in Keys, RefundFailed(k) PROVE QueueHoldsSetups'
      BY <1>6 DEF RefundFailed
<1>7. CASE UNCHANGED vars
      BY <1>7 DEF vars
<1> QED BY <1>1, <1>2, <1>3, <1>4, <1>5, <1>6, <1>7 DEF Next

\* A job is made by a call that has its charge.
LEMMA JobsHaveChargesStays ==
    ASSUME PlacesOK, JobsOK, MakersOK, CallsHaveKeys, SlotsHaveSetups, QueueHoldsSetups,
           JobsHaveCharges, [Next]_vars
    PROVE  JobsHaveCharges'
<1> USE VoiceAssumption DEF PlacesOK, JobsOK, MakersOK, CallsHaveKeys, SlotsHaveSetups,
        QueueHoldsSetups, JobsHaveCharges, Begin, Insert, SetStatus, Idling, Reverse, jobs,
        locals
<1>1. ASSUME NEW c \in Makers, SetUp(c) PROVE JobsHaveCharges'
      BY <1>1 DEF SetUp, BeginSetup, ReplaySetup, InsertProfile, InsertProfileFails, Invoke,
         InvokeFails, CreateJob, CreateJobFails, DropProfile,
         DropProfileFails, Recheck
<1>2. ASSUME NEW c \in Makers, StartTraining(c) PROVE JobsHaveCharges'
      BY <1>2 DEF StartTraining, BeginTraining, ReplayTraining, Audit, AuditFails,
         InsertTraining, InsertTrainingFails, InvokeTraining, Kickoff, KickoffFails, Store,
         CancelTraining, CancelTrainingFails, Queued, Report, FailJob, BlameProfile, Poll
<1>3. ASSUME NEW c \in Makers,
             Statement(c) \/ DieMaking(c) \/ Clean(c)
             PROVE JobsHaveCharges'
      BY <1>3 DEF Statement, Statements, CancelJob, RemoveJob, ReverseCharge, StatementFails,
         DieMaking, Clean, CleanRead, CleanUp, CleanUpFails, WriteBack, Queued
<1>4. ASSUME NEW c \in Revokers, Delete(c) PROVE JobsHaveCharges'
  <2>1. CASE Revoke(c) BY <2>1 DEF Revoke
  <2>2. CASE ReadProfiles(c) BY <2>2 DEF ReadProfiles
  <2>3. CASE ReadJobs(c) BY <2>3 DEF ReadJobs
  <2>4. CASE Commit(c) BY <2>4 DEF Commit
  <2>5. CASE ReadCanceled(c) BY <2>5 DEF ReadCanceled
  <2>6. ASSUME NEW k \in Keys, RefundCanceled(c, k) PROVE JobsHaveCharges'
        BY <2>6 DEF RefundCanceled
  <2>7. ASSUME NEW k \in Keys, RefundFails(c, k) PROVE JobsHaveCharges'
        BY <2>7 DEF RefundFails
  <2>8. ASSUME NEW failing \in SUBSET Makers, TakeDownAll(c, failing) PROVE JobsHaveCharges'
        BY <2>8 DEF TakeDownAll
  <2>9. ASSUME NEW p \in Makers, Record(c, p) PROVE JobsHaveCharges'
        BY <2>9 DEF Record, Queued
  <2>10. CASE DieRevoking(c) BY <2>10 DEF DieRevoking
  <2> QED BY <1>4, <2>1, <2>2, <2>3, <2>4, <2>5, <2>6, <2>7, <2>8, <2>9, <2>10 DEF Delete
<1>5. ASSUME NEW w \in Slots, Work(w) PROVE JobsHaveCharges'
  <2>1. ASSUME NEW k \in Keys, Take(w, k) PROVE JobsHaveCharges'
        BY <2>1 DEF Take
  <2>2. CASE Train(w) \/ MarkTraining(w) BY <2>2 DEF Train, MarkTraining
  <2>3. CASE Host(w) BY <2>3 DEF Host
  <2>4. CASE HostFails(w) BY <2>4 DEF HostFails
  <2>5. CASE Persist(w) BY <2>5 DEF Persist
  <2>6. CASE PersistFails(w) BY <2>6 DEF PersistFails
  <2>7. CASE Discard(w) BY <2>7 DEF Discard
  <2>8. CASE FailProfile(w) BY <2>8 DEF FailProfile
  <2>9. CASE MarkFailed(w) BY <2>9 DEF MarkFailed
  <2>10. CASE Settle(w) BY <2>10 DEF Settle
  <2>11. CASE Tail(w) BY <2>11 DEF Tail
  <2>12. CASE LoseLock(w) BY <2>12 DEF LoseLock
  <2>13. CASE Crash(w) BY <2>13 DEF Crash
  <2> QED BY <1>5, <2>1, <2>2, <2>3, <2>4, <2>5, <2>6, <2>7, <2>8, <2>9, <2>10, <2>11, <2>12,
             <2>13 DEF Work
<1>6. ASSUME NEW k \in Keys, RefundFailed(k) PROVE JobsHaveCharges'
      BY <1>6 DEF RefundFailed
<1>7. CASE UNCHANGED vars
      BY <1>7 DEF vars
<1> QED BY <1>1, <1>2, <1>3, <1>4, <1>5, <1>6, <1>7 DEF Next

\* What a provider made is in hand until it is stored or taken down.
LEMMA HeldOnTheWayStays ==
    ASSUME PlacesOK, HeldOnTheWay, [Next]_vars
    PROVE  HeldOnTheWay'
<1> USE VoiceAssumption DEF PlacesOK, HeldOnTheWay, Actors, Goto, GiveUp, Done, Leave, Begin,
        Made, Hold, profiles, jobs, hosts, locals
<1>1. ASSUME NEW c \in Makers, SetUp(c) PROVE HeldOnTheWay'
      BY ZenonT(60), <1>1 DEF SetUp, BeginSetup, ReplaySetup, InsertProfile, InsertProfileFails,
         Invoke, InvokeFails, CreateJob, CreateJobFails, DropProfile,
         DropProfileFails, Recheck
<1>2. ASSUME NEW c \in Makers, StartTraining(c) PROVE HeldOnTheWay'
      BY ZenonT(60), <1>2 DEF StartTraining, BeginTraining, ReplayTraining, Audit, AuditFails,
         InsertTraining, InsertTrainingFails, InvokeTraining, Kickoff, KickoffFails, Store,
         CancelTraining, CancelTrainingFails, Queued, Report, FailJob, BlameProfile, Poll
<1>3. ASSUME NEW c \in Makers,
             Statement(c) \/ DieMaking(c) \/ Clean(c) PROVE HeldOnTheWay'
      BY <1>3 DEF Statement, Statements, CancelJob, RemoveJob, ReverseCharge, StatementFails,
         DieMaking, Clean, CleanRead, CleanUp, CleanUpFails, WriteBack, Queued
<1>4. ASSUME NEW c \in Revokers, Delete(c) PROVE HeldOnTheWay'
      BY <1>4 DEF Delete, Revoke, ReadProfiles, ReadJobs, Commit, ReadCanceled,
         RefundCanceled, RefundFails, TakeDownAll, Record, Queued, DieRevoking
<1>5. ASSUME NEW w \in Slots, Work(w) PROVE HeldOnTheWay'
  <2>1. ASSUME NEW k \in Keys, Take(w, k) PROVE HeldOnTheWay'
        BY <2>1 DEF Take
  <2>2. CASE Train(w) \/ MarkTraining(w) BY <2>2 DEF Train, MarkTraining
  <2>3. CASE Host(w) BY <2>3 DEF Host
  <2>4. CASE HostFails(w) BY <2>4 DEF HostFails
  <2>5. CASE Persist(w) BY <2>5 DEF Persist
  <2>6. CASE PersistFails(w) BY <2>6 DEF PersistFails
  <2>7. CASE Discard(w) BY <2>7 DEF Discard
  <2>8. CASE FailProfile(w) BY <2>8 DEF FailProfile
  <2>9. CASE MarkFailed(w) BY <2>9 DEF MarkFailed
  <2>10. CASE Settle(w) BY <2>10 DEF Settle
  <2>11. CASE Tail(w) BY <2>11 DEF Tail
  <2>12. CASE LoseLock(w) BY <2>12 DEF LoseLock
  <2>13. CASE Crash(w) BY <2>13 DEF Crash
  <2> QED BY <1>5, <2>1, <2>2, <2>3, <2>4, <2>5, <2>6, <2>7, <2>8, <2>9, <2>10, <2>11, <2>12,
             <2>13 DEF Work
<1>6. ASSUME NEW k \in Keys, RefundFailed(k) PROVE HeldOnTheWay'
      BY <1>6 DEF RefundFailed
<1>7. CASE UNCHANGED vars
      BY <1>7 DEF vars
<1> QED BY <1>1, <1>2, <1>3, <1>4, <1>5, <1>6, <1>7 DEF Next

\* Only the slot with the lock has its attempt counted, and then it has it no more.
LEMMA LastIsLastStays ==
    ASSUME PlacesOK, JobsOK, SlotsOK, SlotsHaveSetups, LastIsLast,
           left'.attempts = left.attempts, [Next]_vars
    PROVE  LastIsLast'
<1> USE VoiceAssumption DEF PlacesOK, JobsOK, SlotsOK, SlotsHaveSetups, LastIsLast, Actors,
        Goto, GiveUp, Done, Leave, Begin, Release, profiles, jobs, hosts, locals
<1>1. ASSUME NEW c \in Makers, SetUp(c) PROVE LastIsLast'
  <2>1. ASSUME NEW k \in Keys, BeginSetup(c, k) PROVE LastIsLast'
        BY <2>1 DEF BeginSetup
  <2>2. CASE ReplaySetup(c) BY <2>2 DEF ReplaySetup
  <2>3. CASE InsertProfile(c) BY <2>3 DEF InsertProfile
  <2>4. CASE InsertProfileFails(c) BY <2>4 DEF InsertProfileFails
  <2>5. CASE Invoke(c) BY <2>5 DEF Invoke
  <2>6. CASE InvokeFails(c) BY <2>6 DEF InvokeFails
  <2>7. CASE CreateJob(c) BY <2>7 DEF CreateJob
  <2>8. CASE CreateJobFails(c) BY <2>8 DEF CreateJobFails
  <2>9. CASE DropProfile(c) \/ DropProfileFails(c) BY <2>9 DEF DropProfile, DropProfileFails
  <2>10. CASE Recheck(c) BY <2>10 DEF Recheck
  <2> QED BY <1>1, <2>1, <2>2, <2>3, <2>4, <2>5, <2>6, <2>7, <2>8, <2>9, <2>10 DEF SetUp
<1>2. ASSUME NEW c \in Makers, StartTraining(c) PROVE LastIsLast'
  <2>1. ASSUME NEW k \in Keys, BeginTraining(c, k) PROVE LastIsLast'
        BY <2>1 DEF BeginTraining
  <2>2. CASE ReplayTraining(c) BY <2>2 DEF ReplayTraining
  <2>3. CASE Audit(c) BY <2>3 DEF Audit
  <2>4. CASE AuditFails(c) BY <2>4 DEF AuditFails
  <2>5. CASE InsertTraining(c) BY <2>5 DEF InsertTraining
  <2>6. CASE InsertTrainingFails(c) BY <2>6 DEF InsertTrainingFails
  <2>7. CASE InvokeTraining(c) BY <2>7 DEF InvokeTraining
  <2>8. CASE Kickoff(c) BY <2>8 DEF Kickoff
  <2>9. CASE KickoffFails(c) BY <2>9 DEF KickoffFails
  <2>10. CASE Store(c) BY <2>10 DEF Store
  <2>11. CASE CancelTraining(c) BY <2>11 DEF CancelTraining
  <2>12. CASE CancelTrainingFails(c) BY <2>12 DEF CancelTrainingFails, Queued
  <2>13. CASE Report(c) BY <2>13 DEF Report
  <2>14. CASE FailJob(c) BY <2>14 DEF FailJob
  <2>15. CASE BlameProfile(c) BY <2>15 DEF BlameProfile
  <2>16. ASSUME NEW result \in {"READY", "FAILED"}, Poll(c, result) PROVE LastIsLast'
        BY <2>16 DEF Poll
  <2> QED BY <1>2, <2>1, <2>2, <2>3, <2>4, <2>5, <2>6, <2>7, <2>8, <2>9, <2>10, <2>11, <2>12,
             <2>13, <2>14, <2>15, <2>16 DEF StartTraining
<1>3. ASSUME NEW c \in Makers,
             Statement(c) \/ DieMaking(c) \/ Clean(c) PROVE LastIsLast'
      BY ZenonT(60), <1>3 DEF Statement, Statements, CancelJob, RemoveJob, ReverseCharge,
         StatementFails, DieMaking, Clean, CleanRead, CleanUp, CleanUpFails, WriteBack, Queued
<1>4. ASSUME NEW c \in Revokers, Delete(c) PROVE LastIsLast'
  <2>1. CASE Revoke(c) BY <2>1 DEF Revoke
  <2>2. CASE ReadProfiles(c) BY <2>2 DEF ReadProfiles
  <2>3. CASE ReadJobs(c) BY <2>3 DEF ReadJobs
  <2>4. CASE Commit(c) BY <2>4 DEF Commit
  <2>5. CASE ReadCanceled(c) BY <2>5 DEF ReadCanceled
  <2>6. ASSUME NEW k \in Keys, RefundCanceled(c, k) PROVE LastIsLast'
        BY <2>6 DEF RefundCanceled
  <2>7. ASSUME NEW k \in Keys, RefundFails(c, k) PROVE LastIsLast'
        BY <2>7 DEF RefundFails
  <2>8. ASSUME NEW failing \in SUBSET Makers, TakeDownAll(c, failing) PROVE LastIsLast'
        BY <2>8 DEF TakeDownAll
  <2>9. ASSUME NEW p \in Makers, Record(c, p) PROVE LastIsLast'
        BY <2>9 DEF Record, Queued
  <2>10. CASE DieRevoking(c) BY <2>10 DEF DieRevoking
  <2> QED BY <1>4, <2>1, <2>2, <2>3, <2>4, <2>5, <2>6, <2>7, <2>8, <2>9, <2>10 DEF Delete
<1>5. ASSUME NEW w \in Slots, Work(w) PROVE LastIsLast'
  <2>1. ASSUME NEW k \in Keys, Take(w, k) PROVE LastIsLast'
        BY <2>1 DEF Take
  <2>2. CASE Train(w) \/ MarkTraining(w) BY <2>2 DEF Train, MarkTraining
  <2>3. CASE Host(w) BY <2>3 DEF Host
  <2>4. CASE HostFails(w) BY <2>4 DEF HostFails
  <2>5. CASE Persist(w) BY <2>5 DEF Persist
  <2>6. CASE PersistFails(w) BY <2>6 DEF PersistFails
  <2>7. CASE Discard(w) BY <2>7 DEF Discard
  <2>8. CASE FailProfile(w) BY <2>8 DEF FailProfile
  <2>9. CASE MarkFailed(w) BY <2>9 DEF MarkFailed
  <2>10. CASE Settle(w)
    <3>1. CASE Leave(w)
          BY <2>10, <3>1 DEF Settle
    <3>2. CASE UNCHANGED <<holder, job, final>>
          BY <2>10, <3>2 DEF Settle
    <3> QED BY <2>10, <3>1, <3>2 DEF Settle
  <2>11. CASE Tail(w) BY <2>11 DEF Tail
  <2>12. CASE LoseLock(w) BY <2>12 DEF LoseLock
  <2>13. CASE Crash(w) BY <2>13 DEF Crash
  <2> QED BY <1>5, <2>1, <2>2, <2>3, <2>4, <2>5, <2>6, <2>7, <2>8, <2>9, <2>10, <2>11, <2>12,
             <2>13 DEF Work
<1>6. ASSUME NEW k \in Keys, RefundFailed(k) PROVE LastIsLast'
      BY <1>6 DEF RefundFailed
<1>7. CASE UNCHANGED vars
      BY <1>7 DEF vars
<1> QED BY <1>1, <1>2, <1>3, <1>4, <1>5, <1>6, <1>7 DEF Next

-----------------------------------------------------------------------------
(***************************************************************************)
(* The revocation: the DELETE's reading is complete and stays up to date.  *)
(***************************************************************************)
\* The slot's own bookkeeping moves nobody else.
LEMMA SlotMoves ==
    ASSUME VoiceAssumption, pc \in [Actors -> CallPcs \cup SlotPcs], NEW w \in Slots,
           MarkFailed(w) \/ Settle(w) \/ Tail(w)
    PROVE  /\ \A c \in Makers \cup Revokers : pc'[c] = pc[c]
           /\ UNCHANGED <<profiles, hosts, key, todo, seen, plan, held, past, left>>
<1>1. \E l : Goto(w, l)
  <2>1. CASE MarkFailed(w)
        BY <2>1 DEF MarkFailed
  <2>2. CASE Settle(w)
        BY <2>2 DEF Settle, Leave
  <2>3. CASE Tail(w)
        BY <2>3 DEF Tail, Leave
  <2> QED BY <2>1, <2>2, <2>3
<1>2. w \notin Makers \cup Revokers /\ w \in Actors
      BY DEF VoiceAssumption, Actors
<1>3. \A a \in Actors \ {w} : pc'[a] = pc[a]
      BY <1>1 DEF Goto
<1>4. UNCHANGED <<profiles, hosts, key, todo, seen, plan, held, past, left>>
      BY DEF MarkFailed, Settle, Tail, locals
<1> QED BY <1>2, <1>3, <1>4 DEF VoiceAssumption, Actors

\* After the revocation no profile comes into being, so the reading stays complete.
LEMMA SnapshotIsCompleteStays ==
    ASSUME PlacesOK, ProfilesOK, MakersOK, RevokersOK, SnapshotIsComplete, [Next]_vars
    PROVE  SnapshotIsComplete'
<1> USE VoiceAssumption DEF PlacesOK, ProfilesOK, MakersOK, RevokersOK, SnapshotIsComplete,
        Actors, Goto, GiveUp, Done, Leave, Begin, CreateProfile, Marked, Trainable, Gone,
        Nothing, profiles, locals
<1>1. ASSUME NEW c \in Makers, SetUp(c) PROVE SnapshotIsComplete'
  <2>1. ASSUME NEW k \in Keys, BeginSetup(c, k) PROVE SnapshotIsComplete'
        BY <2>1 DEF BeginSetup
  <2>2. CASE ReplaySetup(c) BY <2>2 DEF ReplaySetup
  <2>3. CASE InsertProfile(c)
    <3>1. CASE CreateProfile(c, "PENDING") /\ Goto(c, "invoke")
      <4>1. ~revoked /\ revoked' = revoked /\ \A d \in Revokers : pc'[d] = pc[d] /\ plan' = plan
            BY <2>3, <3>1 DEF InsertProfile
      <4> QED BY <2>3, <4>1
    <3>2. CASE GiveUp(c, {"refund"}) /\ UNCHANGED profiles
          BY <2>3, <3>2 DEF InsertProfile
    <3> QED BY <2>3, <3>1, <3>2 DEF InsertProfile
  <2>4. CASE InsertProfileFails(c) BY <2>4 DEF InsertProfileFails
  <2>5. CASE Invoke(c) BY <2>5 DEF Invoke
  <2>6. CASE InvokeFails(c) BY <2>6 DEF InvokeFails
  <2>7. CASE CreateJob(c) BY <2>7 DEF CreateJob
  <2>8. CASE CreateJobFails(c) BY <2>8 DEF CreateJobFails
  <2>9. CASE DropProfile(c) \/ DropProfileFails(c) BY <2>9 DEF DropProfile, DropProfileFails
  <2>10. CASE Recheck(c) BY <2>10 DEF Recheck
  <2> QED BY <1>1, <2>1, <2>2, <2>3, <2>4, <2>5, <2>6, <2>7, <2>8, <2>9, <2>10 DEF SetUp
<1>2. ASSUME NEW c \in Makers, StartTraining(c) PROVE SnapshotIsComplete'
  <2>1. ASSUME NEW k \in Keys, BeginTraining(c, k) PROVE SnapshotIsComplete'
        BY <2>1 DEF BeginTraining
  <2>2. CASE ReplayTraining(c) BY <2>2 DEF ReplayTraining
  <2>3. CASE Audit(c) BY <2>3 DEF Audit
  <2>4. CASE AuditFails(c) BY <2>4 DEF AuditFails
  <2>5. CASE InsertTraining(c)
    <3>1. CASE CreateProfile(c, "TRAINING") /\ Goto(c, "invoke")
      <4>1. ~revoked /\ revoked' = revoked /\ \A d \in Revokers : pc'[d] = pc[d] /\ plan' = plan
            BY <2>5, <3>1 DEF InsertTraining
      <4> QED BY <2>5, <4>1
    <3>2. CASE GiveUp(c, {"cancel", "refund"}) /\ UNCHANGED profiles
          BY <2>5, <3>2 DEF InsertTraining
    <3> QED BY <2>5, <3>1, <3>2 DEF InsertTraining
  <2>6. CASE InsertTrainingFails(c) BY <2>6 DEF InsertTrainingFails
  <2>7. CASE InvokeTraining(c) BY <2>7 DEF InvokeTraining
  <2>8. CASE Kickoff(c) BY <2>8 DEF Kickoff
  <2>9. CASE KickoffFails(c) BY <2>9 DEF KickoffFails
  <2>10. CASE Store(c) BY <2>10 DEF Store
  <2>11. CASE CancelTraining(c) BY <2>11 DEF CancelTraining
  <2>12. CASE CancelTrainingFails(c) BY <2>12 DEF CancelTrainingFails, Queued
  <2>13. CASE Report(c) BY <2>13 DEF Report
  <2>14. CASE FailJob(c) BY <2>14 DEF FailJob
  <2>15. CASE BlameProfile(c) BY <2>15 DEF BlameProfile
  <2>16. ASSUME NEW result \in {"READY", "FAILED"}, Poll(c, result) PROVE SnapshotIsComplete'
        BY <2>16 DEF Poll
  <2> QED BY <1>2, <2>1, <2>2, <2>3, <2>4, <2>5, <2>6, <2>7, <2>8, <2>9, <2>10, <2>11, <2>12,
             <2>13, <2>14, <2>15, <2>16 DEF StartTraining
<1>3. ASSUME NEW c \in Makers,
             Statement(c) \/ DieMaking(c) \/ Clean(c)
             PROVE SnapshotIsComplete'
      BY ZenonT(60), <1>3 DEF Statement, Statements, CancelJob, RemoveJob, ReverseCharge,
         StatementFails, DieMaking, Clean, CleanRead, CleanUp, CleanUpFails, WriteBack, Queued
<1>4. ASSUME NEW c \in Revokers, Delete(c) PROVE SnapshotIsComplete'
  <2>1. CASE Revoke(c) BY <2>1 DEF Revoke
  <2>2. CASE ReadProfiles(c) BY <2>2 DEF ReadProfiles
  <2>3. CASE ReadJobs(c) BY <2>3 DEF ReadJobs
  <2>4. CASE Commit(c) BY <2>4 DEF Commit
  <2>5. CASE ReadCanceled(c) BY <2>5 DEF ReadCanceled
  <2>6. ASSUME NEW k \in Keys, RefundCanceled(c, k) PROVE SnapshotIsComplete'
        BY <2>6 DEF RefundCanceled
  <2>7. ASSUME NEW k \in Keys, RefundFails(c, k) PROVE SnapshotIsComplete'
        BY <2>7 DEF RefundFails
  <2>8. ASSUME NEW failing \in SUBSET Makers, TakeDownAll(c, failing)
               PROVE SnapshotIsComplete'
        BY <2>8 DEF TakeDownAll
  <2>9. ASSUME NEW p \in Makers, Record(c, p) PROVE SnapshotIsComplete'
        BY <2>9 DEF Record, Queued
  <2>10. CASE DieRevoking(c) BY <2>10 DEF DieRevoking
  <2> QED BY <1>4, <2>1, <2>2, <2>3, <2>4, <2>5, <2>6, <2>7, <2>8, <2>9, <2>10 DEF Delete
<1>5. ASSUME NEW w \in Slots, Work(w) PROVE SnapshotIsComplete'
  <2>1. ASSUME NEW k \in Keys, Take(w, k) PROVE SnapshotIsComplete'
        BY <2>1 DEF Take
  <2>2. CASE Train(w) \/ MarkTraining(w) BY <2>2 DEF Train, MarkTraining
  <2>3. CASE Host(w) BY <2>3 DEF Host
  <2>4. CASE HostFails(w) BY <2>4 DEF HostFails
  <2>5. CASE Persist(w) BY <2>5 DEF Persist
  <2>6. CASE PersistFails(w) BY <2>6 DEF PersistFails
  <2>7. CASE Discard(w) BY <2>7 DEF Discard
  <2>8. CASE FailProfile(w) BY <2>8 DEF FailProfile
  <2>9. CASE MarkFailed(w) BY <2>9 DEF MarkFailed
  <2>10. CASE Settle(w) BY <2>10 DEF Settle
  <2>11. CASE Tail(w) BY <2>11 DEF Tail
  <2>12. CASE LoseLock(w) BY <2>12 DEF LoseLock
  <2>13. CASE Crash(w) BY <2>13 DEF Crash
  <2> QED BY <1>5, <2>1, <2>2, <2>3, <2>4, <2>5, <2>6, <2>7, <2>8, <2>9, <2>10, <2>11, <2>12,
             <2>13 DEF Work
<1>6. ASSUME NEW k \in Keys, RefundFailed(k) PROVE SnapshotIsComplete'
      BY <1>6 DEF RefundFailed
<1>7. CASE UNCHANGED vars
      BY <1>7 DEF vars
<1> QED BY <1>1, <1>2, <1>3, <1>4, <1>5, <1>6, <1>7 DEF Next

\* The transaction revokes all it has read, and no profile is usable after it.
LEMMA RevocationIsCompleteStays ==
    ASSUME PlacesOK, ProfilesOK, MakersOK, RevokersOK, SnapshotIsComplete,
           RevocationIsComplete, [Next]_vars
    PROVE  RevocationIsComplete'
<1> USE VoiceAssumption DEF PlacesOK, ProfilesOK, MakersOK, RevokersOK, SnapshotIsComplete,
        RevocationIsComplete, Actors, Committed, Goto, GiveUp, Done, Leave, Begin,
        CreateProfile, Marked, Trainable, Gone, Nothing, profiles, locals
<1>1. ASSUME NEW c \in Makers, SetUp(c) PROVE RevocationIsComplete'
      BY ZenonT(60), <1>1 DEF SetUp, BeginSetup, ReplaySetup, InsertProfile, InsertProfileFails,
         Invoke, InvokeFails, CreateJob, CreateJobFails, DropProfile,
         DropProfileFails, Recheck
<1>2. ASSUME NEW c \in Makers, StartTraining(c) PROVE RevocationIsComplete'
      BY ZenonT(60), <1>2 DEF StartTraining, BeginTraining, ReplayTraining, Audit, AuditFails,
         InsertTraining, InsertTrainingFails, InvokeTraining, Kickoff, KickoffFails, Store,
         CancelTraining, CancelTrainingFails, Queued, Report, FailJob, BlameProfile, Poll
<1>3. ASSUME NEW c \in Makers,
             Statement(c) \/ DieMaking(c) \/ Clean(c)
             PROVE RevocationIsComplete'
      BY <1>3 DEF Statement, Statements, CancelJob, RemoveJob, ReverseCharge, StatementFails,
         DieMaking, Clean, CleanRead, CleanUp, CleanUpFails, WriteBack, Queued
<1>4. ASSUME NEW c \in Revokers, Delete(c) PROVE RevocationIsComplete'
      BY <1>4 DEF Delete, Revoke, ReadProfiles, ReadJobs, Commit, ReadCanceled,
         RefundCanceled, RefundFails, TakeDownAll, Record, Queued, DieRevoking
<1>5. ASSUME NEW w \in Slots, Work(w) PROVE RevocationIsComplete'
  <2>1. ASSUME NEW k \in Keys, Take(w, k) PROVE RevocationIsComplete'
        BY <2>1 DEF Take
  <2>2. CASE Train(w) \/ MarkTraining(w) BY <2>2 DEF Train, MarkTraining
  <2>3. CASE Host(w) BY <2>3 DEF Host
  <2>4. CASE HostFails(w) BY <2>4 DEF HostFails
  <2>5. CASE Persist(w) BY <2>5 DEF Persist
  <2>6. CASE PersistFails(w) BY <2>6 DEF PersistFails
  <2>7. CASE Discard(w) BY <2>7 DEF Discard
  <2>8. CASE FailProfile(w) BY <2>8 DEF FailProfile
  <2>9. CASE MarkFailed(w) BY <2>9 DEF MarkFailed
  <2>10. CASE Settle(w) BY <2>10 DEF Settle
  <2>11. CASE Tail(w) BY <2>11 DEF Tail
  <2>12. CASE LoseLock(w) BY <2>12 DEF LoseLock
  <2>13. CASE Crash(w) BY <2>13 DEF Crash
  <2> QED BY <1>5, <2>1, <2>2, <2>3, <2>4, <2>5, <2>6, <2>7, <2>8, <2>9, <2>10, <2>11, <2>12,
             <2>13 DEF Work
<1>6. ASSUME NEW k \in Keys, RefundFailed(k) PROVE RevocationIsComplete'
      BY <1>6 DEF RefundFailed
<1>7. CASE UNCHANGED vars
      BY <1>7 DEF vars
<1> QED BY <1>1, <1>2, <1>3, <1>4, <1>5, <1>6, <1>7 DEF Next

\* A setup stores its voice when its profile is ready, and no longer TRAINING.
LEMMA FreshIsBareStays ==
    ASSUME PlacesOK, JobsOK, ProfilesOK, HostsOK, MakersOK, RevokersOK, CallsHaveKeys,
           RoutesKeepApart, NoProfileYet, SlotsHaveSetups, JobsHaveCharges, FreshIsBare,
           CleanersComeLate, [Next]_vars
    PROVE  FreshIsBare'
<1> USE VoiceAssumption DEF PlacesOK, JobsOK, ProfilesOK, HostsOK, MakersOK, RevokersOK,
        CallsHaveKeys, RoutesKeepApart, NoProfileYet, SlotsHaveSetups, JobsHaveCharges,
        FreshIsBare, CleanersComeLate, Actors, Bare, Begin, CreateProfile, Marked,
        Trainable, Gone, Nothing,
        profiles, locals
<1>1. ASSUME NEW c \in Makers, SetUp(c) PROVE FreshIsBare'
      BY <1>1 DEF SetUp, BeginSetup, ReplaySetup, InsertProfile, InsertProfileFails, Invoke,
         InvokeFails, CreateJob, CreateJobFails, DropProfile,
         DropProfileFails, Recheck
<1>2. ASSUME NEW c \in Makers, StartTraining(c) PROVE FreshIsBare'
      BY <1>2 DEF StartTraining, BeginTraining, ReplayTraining, Audit, AuditFails,
         InsertTraining, InsertTrainingFails, InvokeTraining, Kickoff, KickoffFails, Store,
         CancelTraining, CancelTrainingFails, Queued, Report, FailJob, BlameProfile, Poll
<1>3. ASSUME NEW c \in Makers,
             Statement(c) \/ DieMaking(c) \/ Clean(c) PROVE FreshIsBare'
  <2>1. CASE Statement(c) \/ DieMaking(c)
        BY <2>1 DEF Statement, Statements, CancelJob, RemoveJob, ReverseCharge, StatementFails,
           DieMaking
  <2>2. CASE Clean(c)
    <3>1. UNCHANGED <<profile, voice, key, plan>>
          BY <2>2 DEF Clean
    <3>2. ASSUME NEW p \in Makers, record'[p] # record[p]
          PROVE  profile[p] \in {"REVOKED", "deleted"}
      <4>1. PICK j \in cleaning : j.of = p /\ j.begun
            BY <2>2, <3>2 DEF Clean, CleanRead, CleanUp, CleanUpFails, WriteBack
      <4> QED BY <4>1
    <3> QED BY <3>1, <3>2
  <2> QED BY <1>3, <2>1, <2>2
<1>4. ASSUME NEW c \in Revokers, Delete(c) PROVE FreshIsBare'
  <2>1. CASE Revoke(c) BY <2>1 DEF Revoke
  <2>2. CASE ReadProfiles(c) BY <2>2 DEF ReadProfiles
  <2>3. CASE ReadJobs(c) BY <2>3 DEF ReadJobs
  <2>4. CASE Commit(c) BY <2>4 DEF Commit
  <2>5. CASE ReadCanceled(c) BY <2>5 DEF ReadCanceled
  <2>6. ASSUME NEW k \in Keys, RefundCanceled(c, k) PROVE FreshIsBare'
        BY <2>6 DEF RefundCanceled
  <2>7. ASSUME NEW k \in Keys, RefundFails(c, k) PROVE FreshIsBare'
        BY <2>7 DEF RefundFails
  <2>8. ASSUME NEW failing \in SUBSET Makers, TakeDownAll(c, failing) PROVE FreshIsBare'
        BY <2>8 DEF TakeDownAll
  <2>9. ASSUME NEW p \in Makers, Record(c, p) PROVE FreshIsBare'
        BY <2>9 DEF Record, Queued
  <2>10. CASE DieRevoking(c) BY <2>10 DEF DieRevoking
  <2> QED BY <1>4, <2>1, <2>2, <2>3, <2>4, <2>5, <2>6, <2>7, <2>8, <2>9, <2>10 DEF Delete
<1>5. ASSUME NEW w \in Slots, Work(w) PROVE FreshIsBare'
  <2>1. ASSUME NEW k \in Keys, Take(w, k) PROVE FreshIsBare'
        BY <2>1 DEF Take
  <2>2. CASE Train(w) \/ MarkTraining(w) BY <2>2 DEF Train, MarkTraining
  <2>3. CASE Host(w) BY <2>3 DEF Host
  <2>4. CASE HostFails(w) BY <2>4 DEF HostFails
  <2>5. CASE Persist(w) BY <2>5 DEF Persist
  <2>6. CASE PersistFails(w) BY <2>6 DEF PersistFails
  <2>7. CASE Discard(w) BY <2>7 DEF Discard
  <2>8. CASE FailProfile(w) BY <2>8 DEF FailProfile
  <2>9. CASE MarkFailed(w) BY <2>9 DEF MarkFailed
  <2>10. CASE Settle(w) BY <2>10 DEF Settle
  <2>11. CASE Tail(w) BY <2>11 DEF Tail
  <2>12. CASE LoseLock(w) BY <2>12 DEF LoseLock
  <2>13. CASE Crash(w) BY <2>13 DEF Crash
  <2> QED BY <1>5, <2>1, <2>2, <2>3, <2>4, <2>5, <2>6, <2>7, <2>8, <2>9, <2>10, <2>11, <2>12,
             <2>13 DEF Work
<1>6. ASSUME NEW k \in Keys, RefundFailed(k) PROVE FreshIsBare'
      BY <1>6 DEF RefundFailed
<1>7. CASE UNCHANGED vars
      BY <1>7 DEF vars
<1> QED BY <1>1, <1>2, <1>3, <1>4, <1>5, <1>6, <1>7 DEF Next

\* Until the run is stored nothing but a revocation touches the profile's names.
LEMMA UnstoredIsBareStays ==
    ASSUME PlacesOK, JobsOK, ProfilesOK, HostsOK, MakersOK, RevokersOK, CallsHaveKeys,
           RoutesKeepApart, NoProfileYet, SlotsHaveSetups, JobsHaveCharges, FreshIsBare,
           UnstoredIsBare, CleanedWasNamed, [Next]_vars
    PROVE  UnstoredIsBare'
<1> USE VoiceAssumption DEF PlacesOK, JobsOK, ProfilesOK, HostsOK, MakersOK, RevokersOK,
        CallsHaveKeys, RoutesKeepApart, NoProfileYet, SlotsHaveSetups, JobsHaveCharges,
        FreshIsBare, UnstoredIsBare, CleanedWasNamed, Actors, Bare, Goto, GiveUp, Done, Leave,
        Begin, CreateProfile, Gone, Nothing, profiles, locals
<1>1. ASSUME NEW c \in Makers, SetUp(c) PROVE UnstoredIsBare'
  <2>1. ASSUME NEW k \in Keys, BeginSetup(c, k) PROVE UnstoredIsBare'
        BY <2>1 DEF BeginSetup
  <2>2. CASE ReplaySetup(c) BY <2>2 DEF ReplaySetup
  <2>3. CASE InsertProfile(c)
    <3>1. CASE Goto(c, "invoke") /\ UNCHANGED todo
          BY ZenonT(60), <2>3, <3>1 DEF InsertProfile
    <3>2. CASE GiveUp(c, {"refund"})
          BY <2>3, <3>2 DEF InsertProfile
    <3> QED BY <2>3, <3>1, <3>2 DEF InsertProfile
  <2>4. CASE InsertProfileFails(c) BY <2>4 DEF InsertProfileFails
  <2>5. CASE Invoke(c) BY ZenonT(60), <2>5 DEF Invoke
  <2>6. CASE InvokeFails(c) BY <2>6 DEF InvokeFails
  <2>7. CASE CreateJob(c) BY <2>7 DEF CreateJob
  <2>8. CASE CreateJobFails(c) BY <2>8 DEF CreateJobFails
  <2>9. CASE DropProfile(c) \/ DropProfileFails(c) BY <2>9 DEF DropProfile, DropProfileFails
  <2>10. CASE Recheck(c) BY ZenonT(60), <2>10 DEF Recheck
  <2> QED BY <1>1, <2>1, <2>2, <2>3, <2>4, <2>5, <2>6, <2>7, <2>8, <2>9, <2>10 DEF SetUp
<1>2. ASSUME NEW c \in Makers, StartTraining(c) PROVE UnstoredIsBare'
  <2>1. ASSUME NEW k \in Keys, BeginTraining(c, k) PROVE UnstoredIsBare'
        BY <2>1 DEF BeginTraining
  <2>2. CASE ReplayTraining(c) BY <2>2 DEF ReplayTraining
  <2>3. CASE Audit(c) BY <2>3 DEF Audit
  <2>4. CASE AuditFails(c) BY <2>4 DEF AuditFails
  <2>5. CASE InsertTraining(c)
    <3>1. CASE Goto(c, "invoke") /\ UNCHANGED todo
          BY ZenonT(60), <2>5, <3>1 DEF InsertTraining
    <3>2. CASE GiveUp(c, {"cancel", "refund"})
          BY <2>5, <3>2 DEF InsertTraining
    <3> QED BY <2>5, <3>1, <3>2 DEF InsertTraining
  <2>6. CASE InsertTrainingFails(c) BY <2>6 DEF InsertTrainingFails
  <2>7. CASE InvokeTraining(c)
    <3>1. /\ UNCHANGED <<voice, record, plan, key>>
          /\ \A p \in Makers \ {c} : pc'[p] = pc[p]
          /\ pc[c] = "invoke"
          BY <2>7 DEF InvokeTraining
    <3> QED BY <3>1
  <2>8. CASE Kickoff(c) BY <2>8 DEF Kickoff
  <2>9. CASE KickoffFails(c) BY <2>9 DEF KickoffFails
  <2>10. CASE Store(c) BY <2>10 DEF Store
  <2>11. CASE CancelTraining(c) BY <2>11 DEF CancelTraining
  <2>12. CASE CancelTrainingFails(c)
    <3>1. record' = record \/ record' = [record EXCEPT ![c] = held[c]]
          BY <2>12 DEF CancelTrainingFails, Queued
    <3>2. \A p \in Makers \ {c} : record'[p] = record[p]
          BY <2>12, <3>1
    <3>3. UNCHANGED <<voice, plan, key>>
          BY <2>12 DEF CancelTrainingFails, Queued
    <3>4. \A p \in Makers \ {c} : pc'[p] = pc[p]
          BY <2>12 DEF CancelTrainingFails, Queued
    <3>5. pc'[c] = "giving up"
          BY <2>12 DEF CancelTrainingFails, Queued
    <3> QED BY <2>12, <3>2, <3>3, <3>4, <3>5
  <2>13. CASE Report(c) BY <2>13 DEF Report
  <2>14. CASE FailJob(c) BY <2>14 DEF FailJob
  <2>15. CASE BlameProfile(c) BY <2>15 DEF BlameProfile
  <2>16. ASSUME NEW result \in {"READY", "FAILED"}, Poll(c, result) PROVE UnstoredIsBare'
        BY <2>16 DEF Poll
  <2> QED BY <1>2, <2>1, <2>2, <2>3, <2>4, <2>5, <2>6, <2>7, <2>8, <2>9, <2>10, <2>11, <2>12,
             <2>13, <2>14, <2>15, <2>16 DEF StartTraining
<1>3. ASSUME NEW c \in Makers,
             Statement(c) \/ DieMaking(c) \/ Clean(c)
             PROVE UnstoredIsBare'
  <2>1. CASE CancelJob(c) BY <2>1 DEF CancelJob
  <2>2. CASE RemoveJob(c) BY <2>2 DEF RemoveJob
  <2>3. CASE ReverseCharge(c) BY <2>3 DEF ReverseCharge
  <2>4. ASSUME NEW what \in Statements, StatementFails(c, what) PROVE UnstoredIsBare'
        BY <2>4 DEF StatementFails
  <2>5. CASE DieMaking(c) BY <2>5 DEF DieMaking
  <2>6. CASE Clean(c) BY <2>6 DEF Clean, CleanRead, CleanUp, CleanUpFails, WriteBack, Queued
  <2> QED BY <1>3, <2>1, <2>2, <2>3, <2>4, <2>5, <2>6 DEF Statement, Statements
<1>4. ASSUME NEW c \in Revokers, Delete(c) PROVE UnstoredIsBare'
  <2>1. CASE Revoke(c) BY <2>1 DEF Revoke
  <2>2. CASE ReadProfiles(c) BY <2>2 DEF ReadProfiles
  <2>3. CASE ReadJobs(c) BY <2>3 DEF ReadJobs
  <2>4. CASE Commit(c) BY <2>4 DEF Commit
  <2>5. CASE ReadCanceled(c) BY <2>5 DEF ReadCanceled
  <2>6. ASSUME NEW k \in Keys, RefundCanceled(c, k) PROVE UnstoredIsBare'
        BY <2>6 DEF RefundCanceled
  <2>7. ASSUME NEW k \in Keys, RefundFails(c, k) PROVE UnstoredIsBare'
        BY <2>7 DEF RefundFails
  <2>8. ASSUME NEW failing \in SUBSET Makers, TakeDownAll(c, failing) PROVE UnstoredIsBare'
        BY <2>8 DEF TakeDownAll
  <2>9. ASSUME NEW p \in Makers, Record(c, p) PROVE UnstoredIsBare'
        BY <2>9 DEF Record, Queued
  <2>10. CASE DieRevoking(c) BY <2>10 DEF DieRevoking
  <2> QED BY <1>4, <2>1, <2>2, <2>3, <2>4, <2>5, <2>6, <2>7, <2>8, <2>9, <2>10 DEF Delete
<1>5. ASSUME NEW w \in Slots, Work(w) PROVE UnstoredIsBare'
  <2>1. ASSUME NEW k \in Keys, Take(w, k) PROVE UnstoredIsBare'
        BY <2>1 DEF Take
  <2>2. CASE Train(w) \/ MarkTraining(w) BY <2>2 DEF Train, MarkTraining
  <2>3. CASE Host(w) BY <2>3 DEF Host
  <2>4. CASE HostFails(w) BY <2>4 DEF HostFails
  <2>5. CASE Persist(w) BY <2>5 DEF Persist
  <2>6. CASE PersistFails(w) BY <2>6 DEF PersistFails
  <2>7. CASE Discard(w) BY <2>7 DEF Discard
  <2>8. CASE FailProfile(w) BY <2>8 DEF FailProfile
  <2>9. CASE MarkFailed(w)
    <3>1. UNCHANGED <<voice, record, plan, key>> /\ \A c \in Makers : pc'[c] = pc[c]
          BY <2>9, SlotMoves
    <3> QED BY <2>9, <3>1
  <2>10. CASE Settle(w)
    <3>1. UNCHANGED <<voice, record, plan, key>> /\ \A c \in Makers : pc'[c] = pc[c]
          BY <2>10, SlotMoves
    <3> QED BY <2>10, <3>1
  <2>11. CASE Tail(w) BY <2>11 DEF Tail
  <2>12. CASE LoseLock(w) BY <2>12 DEF LoseLock
  <2>13. CASE Crash(w) BY <2>13 DEF Crash
  <2> QED BY <1>5, <2>1, <2>2, <2>3, <2>4, <2>5, <2>6, <2>7, <2>8, <2>9, <2>10, <2>11, <2>12,
             <2>13 DEF Work
<1>6. ASSUME NEW k \in Keys, RefundFailed(k) PROVE UnstoredIsBare'
      BY <1>6 DEF RefundFailed
<1>7. CASE UNCHANGED vars
      BY <1>7 DEF vars
<1> QED BY <1>1, <1>2, <1>3, <1>4, <1>5, <1>6, <1>7 DEF Next

\* A name goes on record when the row is revoked, in the same transaction.
LEMMA OneNameStays ==
    ASSUME PlacesOK, JobsOK, ProfilesOK, HostsOK, MakersOK, RevokersOK, RoutesKeepApart,
           SlotsHaveSetups, JobsHaveCharges, SnapshotIsComplete, RevocationIsComplete,
           FreshIsBare, UnstoredIsBare, OneName, CleanersComeLate, [Next]_vars
    PROVE  OneName'
<1> USE VoiceAssumption DEF PlacesOK, JobsOK, ProfilesOK, HostsOK, MakersOK, RevokersOK,
        RoutesKeepApart, SlotsHaveSetups, JobsHaveCharges, SnapshotIsComplete,
        RevocationIsComplete, FreshIsBare, UnstoredIsBare, OneName, CleanersComeLate, Actors,
        Committed, Bare, Begin, CreateProfile, Marked, Trainable, Gone, Nothing, profiles, locals
<1>1. ASSUME NEW c \in Makers, SetUp(c) PROVE OneName'
      BY <1>1 DEF SetUp, BeginSetup, ReplaySetup, InsertProfile, InsertProfileFails, Invoke,
         InvokeFails, CreateJob, CreateJobFails, DropProfile,
         DropProfileFails, Recheck
<1>2. ASSUME NEW c \in Makers, StartTraining(c) PROVE OneName'
      BY <1>2 DEF StartTraining, BeginTraining, ReplayTraining, Audit, AuditFails,
         InsertTraining, InsertTrainingFails, InvokeTraining, Kickoff, KickoffFails, Store,
         CancelTraining, CancelTrainingFails, Queued, Report, FailJob, BlameProfile, Poll
<1>3. ASSUME NEW c \in Makers,
             Statement(c) \/ DieMaking(c) \/ Clean(c) PROVE OneName'
  <2>1. CASE Statement(c) \/ DieMaking(c)
        BY <2>1 DEF Statement, Statements, CancelJob, RemoveJob, ReverseCharge, StatementFails,
           DieMaking
  <2>2. CASE Clean(c)
    <3>1. UNCHANGED <<profile, voice>>
          BY <2>2 DEF Clean
    <3>2. ASSUME record' # record
          PROVE  voice[c] = None /\ \A p \in Makers \ {c} : record'[p] = record[p]
      <4>1. PICK j \in cleaning : j.of = c /\ j.begun /\ profile[c] \notin Gone
            BY <2>2, <3>2 DEF Clean, CleanRead, CleanUp, CleanUpFails, WriteBack
      <4>2. profile[c] = "REVOKED"
            BY <4>1
      <4>3. \A p \in Makers \ {c} : record'[p] = record[p]
            BY <2>2 DEF Clean, CleanRead, CleanUp, CleanUpFails, WriteBack
      <4> QED BY <4>2, <4>3
    <3> QED BY <3>1, <3>2
  <2> QED BY <1>3, <2>1, <2>2
<1>4. ASSUME NEW c \in Revokers, Delete(c) PROVE OneName'
  <2>1. CASE Revoke(c) BY <2>1 DEF Revoke
  <2>2. CASE ReadProfiles(c) BY <2>2 DEF ReadProfiles
  <2>3. CASE ReadJobs(c) BY <2>3 DEF ReadJobs
  <2>4. CASE Commit(c) BY <2>4 DEF Commit
  <2>5. CASE ReadCanceled(c) BY <2>5 DEF ReadCanceled
  <2>6. ASSUME NEW k \in Keys, RefundCanceled(c, k) PROVE OneName'
        BY <2>6 DEF RefundCanceled
  <2>7. ASSUME NEW k \in Keys, RefundFails(c, k) PROVE OneName'
        BY <2>7 DEF RefundFails
  <2>8. ASSUME NEW failing \in SUBSET Makers, TakeDownAll(c, failing) PROVE OneName'
        BY <2>8 DEF TakeDownAll
  <2>9. ASSUME NEW p \in Makers, Record(c, p) PROVE OneName'
        BY <2>9 DEF Record, Queued
  <2>10. CASE DieRevoking(c) BY <2>10 DEF DieRevoking
  <2> QED BY <1>4, <2>1, <2>2, <2>3, <2>4, <2>5, <2>6, <2>7, <2>8, <2>9, <2>10 DEF Delete
<1>5. ASSUME NEW w \in Slots, Work(w) PROVE OneName'
  <2>1. ASSUME NEW k \in Keys, Take(w, k) PROVE OneName'
        BY <2>1 DEF Take
  <2>2. CASE Train(w) \/ MarkTraining(w) BY <2>2 DEF Train, MarkTraining
  <2>3. CASE Host(w) BY <2>3 DEF Host
  <2>4. CASE HostFails(w) BY <2>4 DEF HostFails
  <2>5. CASE Persist(w) BY <2>5 DEF Persist
  <2>6. CASE PersistFails(w) BY <2>6 DEF PersistFails
  <2>7. CASE Discard(w) BY <2>7 DEF Discard
  <2>8. CASE FailProfile(w) BY <2>8 DEF FailProfile
  <2>9. CASE MarkFailed(w) BY <2>9 DEF MarkFailed
  <2>10. CASE Settle(w) BY <2>10 DEF Settle
  <2>11. CASE Tail(w) BY <2>11 DEF Tail
  <2>12. CASE LoseLock(w) BY <2>12 DEF LoseLock
  <2>13. CASE Crash(w) BY <2>13 DEF Crash
  <2> QED BY <1>5, <2>1, <2>2, <2>3, <2>4, <2>5, <2>6, <2>7, <2>8, <2>9, <2>10, <2>11, <2>12,
             <2>13 DEF Work
<1>6. ASSUME NEW k \in Keys, RefundFailed(k) PROVE OneName'
      BY <1>6 DEF RefundFailed
<1>7. CASE UNCHANGED vars
      BY <1>7 DEF vars
<1> QED BY <1>1, <1>2, <1>3, <1>4, <1>5, <1>6, <1>7 DEF Next

\* A training run is started by a call that has just made its profile.
Starting(c) == pc[c] \in {"invoke", "kickoff", "store", "unstored"} /\ key[c] \in Trainings

LEMMA StartsAtProfile ==
    ASSUME PlacesOK, MakersOK, CallsHaveKeys, [Next]_vars
    PROVE  \A c \in Makers : Starting(c)' => Starting(c) \/ pc[c] = "profile"
<1> DEFINE Claim == \A c \in Makers : Starting(c)' => Starting(c) \/ pc[c] = "profile"
<1> USE VoiceAssumption DEF PlacesOK, MakersOK, CallsHaveKeys, Actors, Begin, GiveUp, Done,
        Leave, Goto, Starting, locals
<1>1. ASSUME NEW c \in Makers, SetUp(c) PROVE Claim
      BY <1>1 DEF SetUp, BeginSetup, ReplaySetup, InsertProfile, InsertProfileFails, Invoke,
         InvokeFails, CreateJob, CreateJobFails, DropProfile, DropProfileFails, Recheck
<1>2. ASSUME NEW c \in Makers, StartTraining(c) PROVE Claim
      BY <1>2 DEF StartTraining, BeginTraining, ReplayTraining, Audit, AuditFails,
         InsertTraining, InsertTrainingFails, InvokeTraining, Kickoff, KickoffFails, Store,
         CancelTraining, CancelTrainingFails, Report, FailJob, BlameProfile, Poll
<1>3. ASSUME NEW c \in Makers, Statement(c) \/ DieMaking(c) \/ Clean(c) PROVE Claim
      BY <1>3 DEF Statement, CancelJob, RemoveJob, ReverseCharge, StatementFails, DieMaking, Clean
<1>4. ASSUME NEW c \in Revokers, Delete(c) PROVE Claim
      BY <1>4 DEF Delete, Revoke, ReadProfiles, ReadJobs, Commit, ReadCanceled,
         RefundCanceled, RefundFails, TakeDownAll, Record, DieRevoking
<1>5. ASSUME NEW w \in Slots, Work(w) PROVE Claim
  <2>1. UNCHANGED key
        BY <1>5 DEF Work, Take, Train, MarkTraining, Host, HostFails, Persist, PersistFails,
           Discard, FailProfile, MarkFailed, Settle, Tail, LoseLock, Crash
  <2>2. \A c \in Makers : pc'[c] = pc[c]
    <3>1. ASSUME NEW k \in Keys, Take(w, k) PROVE \A c \in Makers : pc'[c] = pc[c]
          BY <3>1 DEF Take
    <3>2. CASE Train(w) \/ MarkTraining(w) \/ FailProfile(w) \/ MarkFailed(w) \/ Settle(w)
          BY <3>2 DEF Train, MarkTraining, FailProfile, MarkFailed, Settle
    <3>3. CASE Host(w) \/ HostFails(w) \/ Persist(w) \/ PersistFails(w) \/ Discard(w)
          BY <3>3 DEF Host, HostFails, Persist, PersistFails, Discard
    <3>4. CASE Tail(w) \/ LoseLock(w) \/ Crash(w)
          BY <3>4 DEF Tail, LoseLock, Crash
    <3> QED BY <1>5, <3>1, <3>2, <3>3, <3>4 DEF Work
  <2> QED BY <2>1, <2>2
<1>6. ASSUME NEW k \in Keys, RefundFailed(k) PROVE Claim
      BY <1>6 DEF RefundFailed
<1>7. CASE UNCHANGED vars
      BY <1>7 DEF vars
<1> QED BY <1>1, <1>2, <1>3, <1>4, <1>5, <1>6, <1>7 DEF Next

\* A cleanup job is queued by a DELETE that could not take down what it read, or
\* by a call that could not cancel its run.
LEMMA QueuedForNamed ==
    ASSUME [Next]_vars, NEW p \in Makers, NEW j \in cleaning', j.of = p,
           \A i \in cleaning : i.of # p
    PROVE  \/ \E c \in Revokers : Record(c, p) /\ plan[c][p] # None
           \/ CancelTrainingFails(p) /\ profile[p] \notin Gone
<1> DEFINE Claim == \/ \E c \in Revokers : Record(c, p) /\ plan[c][p] # None
                    \/ CancelTrainingFails(p) /\ profile[p] \notin Gone
<1> USE DEF Begin, hosts
<1>0. \A q : Queued(q).of = q
      BY DEF Queued
<1>1. ASSUME NEW c \in Makers, SetUp(c) PROVE Claim
      BY <1>1 DEF SetUp, BeginSetup, ReplaySetup, InsertProfile, InsertProfileFails, Invoke,
         InvokeFails, CreateJob, CreateJobFails, DropProfile, DropProfileFails, Recheck
<1>2. ASSUME NEW c \in Makers, StartTraining(c) PROVE Claim
  <2>1. CASE CancelTrainingFails(c)
        BY <1>0, <2>1 DEF CancelTrainingFails
  <2>2. CASE ~CancelTrainingFails(c)
        BY <1>2, <2>2 DEF StartTraining, BeginTraining, ReplayTraining, Audit, AuditFails,
           InsertTraining, InsertTrainingFails, InvokeTraining, Kickoff, KickoffFails, Store,
           CancelTraining, Report, FailJob, BlameProfile, Poll
  <2> QED BY <2>1, <2>2
<1>3. ASSUME NEW c \in Makers, Statement(c) \/ DieMaking(c) \/ Clean(c) PROVE Claim
  <2>1. CASE Statement(c) \/ DieMaking(c)
        BY <2>1 DEF Statement, CancelJob, RemoveJob, ReverseCharge, StatementFails, DieMaking
  <2>2. ASSUME NEW i \in cleaning, CleanRead(i) \/ CleanUp(i) \/ CleanUpFails(i) PROVE Claim
    <3>1. [of |-> i.of, begun |-> TRUE, knows |-> record[i.of]].of = i.of
          OBVIOUS
    <3>2. \A k \in cleaning' : k \in cleaning \/ k.of = i.of
          BY <1>0, <2>2, <3>1 DEF CleanRead, CleanUp, CleanUpFails
    <3> QED BY <3>2
  <2> QED BY <1>3, <2>1, <2>2 DEF Clean
<1>4. ASSUME NEW c \in Revokers, Delete(c) PROVE Claim
  <2>1. ASSUME NEW q \in Makers, Record(c, q) PROVE Claim
        BY <1>0, <2>1 DEF Record
  <2>2. CASE \A q \in Makers : ~Record(c, q)
        BY <1>4, <2>2 DEF Delete, Revoke, ReadProfiles, ReadJobs, Commit, ReadCanceled,
           RefundCanceled, RefundFails, TakeDownAll, DieRevoking
  <2> QED BY <2>1, <2>2
<1>5. ASSUME NEW w \in Slots, Work(w) PROVE Claim
      BY <1>5 DEF Work, Take, Train, MarkTraining, Host, HostFails, Persist, PersistFails,
         Discard, FailProfile, MarkFailed, Settle, Tail, LoseLock, Crash
<1>6. ASSUME NEW k \in Keys, RefundFailed(k) PROVE Claim
      BY <1>6 DEF RefundFailed
<1>7. CASE UNCHANGED vars
      BY <1>7 DEF vars
<1> QED BY <1>1, <1>2, <1>3, <1>4, <1>5, <1>6, <1>7 DEF Next

\* No profile is made a second time.
LEMMA MadeOnce ==
    ASSUME ProfilesOK, JobsOK, SlotsOK, PlacesOK, SlotsHaveSetups, [Next]_vars
    PROVE  \A p \in Makers : profile[p] # "none" => profile'[p] # "none"
<1> DEFINE Claim == \A p \in Makers : profile[p] # "none" => profile'[p] # "none"
<1> USE VoiceAssumption DEF ProfilesOK, JobsOK, SlotsOK, PlacesOK, SlotsHaveSetups, Actors,
        CreateProfile, Marked, Begin, Gone, profiles
<1>1. ASSUME NEW c \in Makers, SetUp(c) PROVE Claim
      BY <1>1 DEF SetUp, BeginSetup, ReplaySetup, InsertProfile, InsertProfileFails, Invoke,
         InvokeFails, CreateJob, CreateJobFails, DropProfile, DropProfileFails, Recheck
<1>2. ASSUME NEW c \in Makers, StartTraining(c) PROVE Claim
      BY <1>2 DEF StartTraining, BeginTraining, ReplayTraining, Audit, AuditFails,
         InsertTraining, InsertTrainingFails, InvokeTraining, Kickoff, KickoffFails, Store,
         CancelTraining, CancelTrainingFails, Report, FailJob, BlameProfile, Poll
<1>3. ASSUME NEW c \in Makers, Statement(c) \/ DieMaking(c) \/ Clean(c) PROVE Claim
      BY <1>3 DEF Statement, CancelJob, RemoveJob, ReverseCharge, StatementFails, DieMaking, Clean
<1>4. ASSUME NEW c \in Revokers, Delete(c) PROVE Claim
      BY <1>4 DEF Delete, Revoke, ReadProfiles, ReadJobs, Commit, ReadCanceled,
         RefundCanceled, RefundFails, TakeDownAll, Record, DieRevoking
<1>5. ASSUME NEW w \in Slots, Work(w) PROVE Claim
      BY <1>5 DEF Work, Take, Train, MarkTraining, Host, HostFails, Persist, PersistFails,
         Discard, FailProfile, MarkFailed, Settle, Tail, LoseLock, Crash
<1>6. ASSUME NEW k \in Keys, RefundFailed(k) PROVE Claim
      BY <1>6 DEF RefundFailed
<1>7. CASE UNCHANGED vars
      BY <1>7 DEF vars
<1> QED BY <1>1, <1>2, <1>3, <1>4, <1>5, <1>6, <1>7 DEF Next

LEMMA CleanedWasNamedStays ==
    ASSUME PlacesOK, ProfilesOK, JobsOK, HostsOK, HostsOK', MakersOK, RevokersOK, SlotsOK,
           CallsHaveKeys, NoProfileYet, SlotsHaveSetups, FreshIsBare, UnstoredIsBare,
           CleanedWasNamed, [Next]_vars
    PROVE  CleanedWasNamed'
<1> SUFFICES ASSUME NEW j \in cleaning', NEW p \in Makers, j.of = p
             PROVE  profile'[p] # "none" /\ ~Starting(p)'
    BY DEF HostsOK, CleanedWasNamed, Starting
<1>1. /\ profile[p] # "none" => profile'[p] # "none"
      /\ Starting(p)' => Starting(p) \/ profile[p] = "none"
      BY MadeOnce, StartsAtProfile DEF NoProfileYet
<1>2. CASE \E i \in cleaning : i.of = p
      BY <1>1, <1>2 DEF CleanedWasNamed, Starting
<1>3. ASSUME NEW c \in Revokers, Record(c, p), plan[c][p] # None
      PROVE  profile'[p] # "none" /\ ~Starting(p)'
  <2>1. ~Bare(p)
        BY <1>3 DEF Record, Bare
  <2> QED BY <1>1, <2>1 DEF FreshIsBare, UnstoredIsBare, Starting
<1>4. CASE CancelTrainingFails(p) /\ profile[p] \notin Gone
  <2>1. pc'[p] = "giving up"
        BY <1>4 DEF CancelTrainingFails, GiveUp, Goto, PlacesOK, Actors
  <2> QED BY <1>1, <1>4, <2>1 DEF Starting, Gone
<1> QED BY <1>2, <1>3, <1>4, QueuedForNamed

\* A revoked profile stays revoked, or is deleted.
LEMMA CleanersComeLateStays ==
    ASSUME PlacesOK, JobsOK, ProfilesOK, HostsOK, MakersOK, RevokersOK, SlotsOK,
           CallsHaveKeys, RoutesKeepApart, NoProfileYet, SlotsHaveSetups, JobsHaveCharges,
           SnapshotIsComplete, FreshIsBare, UnstoredIsBare, OneName, HeldOnTheWay,
           CleanersComeLate, [Next]_vars
    PROVE  CleanersComeLate'
<1> USE VoiceAssumption DEF PlacesOK, JobsOK, ProfilesOK, HostsOK, MakersOK, RevokersOK,
        SlotsOK, CallsHaveKeys, RoutesKeepApart, NoProfileYet, SlotsHaveSetups,
        JobsHaveCharges, SnapshotIsComplete, FreshIsBare, UnstoredIsBare, OneName,
        HeldOnTheWay, CleanersComeLate, Marked, Actors, Bare, Begin, CreateProfile, Made, TakeDown,
        Hold, Trainable, Gone, Nothing, profiles, hosts, locals, past
<1>1. ASSUME NEW c \in Makers, SetUp(c) PROVE CleanersComeLate'
      BY <1>1 DEF SetUp, BeginSetup, ReplaySetup, InsertProfile, InsertProfileFails, Invoke,
         InvokeFails, CreateJob, CreateJobFails, DropProfile,
         DropProfileFails, Recheck
<1>2. ASSUME NEW c \in Makers, StartTraining(c) PROVE CleanersComeLate'
      BY <1>2 DEF StartTraining, BeginTraining, ReplayTraining, Audit, AuditFails,
         InsertTraining, InsertTrainingFails, InvokeTraining, Kickoff, KickoffFails, Store,
         CancelTraining, CancelTrainingFails, Queued, Report, FailJob, BlameProfile, Poll
<1>3. ASSUME NEW c \in Makers,
             Statement(c) \/ DieMaking(c) \/ Clean(c)
             PROVE CleanersComeLate'
      BY <1>3 DEF Statement, Statements, CancelJob, RemoveJob, ReverseCharge, StatementFails,
         DieMaking, Clean, CleanRead, CleanUp, CleanUpFails, WriteBack, Queued
<1>4. ASSUME NEW c \in Revokers, Delete(c) PROVE CleanersComeLate'
  <2>1. CASE Revoke(c) BY <2>1 DEF Revoke
  <2>2. CASE ReadProfiles(c) BY <2>2 DEF ReadProfiles
  <2>3. CASE ReadJobs(c) BY <2>3 DEF ReadJobs
  <2>4. CASE Commit(c) BY <2>4 DEF Commit
  <2>5. CASE ReadCanceled(c) BY <2>5 DEF ReadCanceled
  <2>6. ASSUME NEW k \in Keys, RefundCanceled(c, k) PROVE CleanersComeLate'
        BY <2>6 DEF RefundCanceled
  <2>7. ASSUME NEW k \in Keys, RefundFails(c, k) PROVE CleanersComeLate'
        BY <2>7 DEF RefundFails
  <2>8. ASSUME NEW failing \in SUBSET Makers, TakeDownAll(c, failing) PROVE CleanersComeLate'
        BY <2>8 DEF TakeDownAll
  <2>9. ASSUME NEW p \in Makers, Record(c, p) PROVE CleanersComeLate'
        BY <2>9 DEF Record, Queued
  <2>10. CASE DieRevoking(c) BY <2>10 DEF DieRevoking
  <2> QED BY <1>4, <2>1, <2>2, <2>3, <2>4, <2>5, <2>6, <2>7, <2>8, <2>9, <2>10 DEF Delete
<1>5. ASSUME NEW w \in Slots, Work(w) PROVE CleanersComeLate'
  <2>1. ASSUME NEW k \in Keys, Take(w, k) PROVE CleanersComeLate'
        BY <2>1 DEF Take
  <2>2. CASE Train(w) \/ MarkTraining(w) BY <2>2 DEF Train, MarkTraining
  <2>3. CASE Host(w) BY <2>3 DEF Host
  <2>4. CASE HostFails(w) BY <2>4 DEF HostFails
  <2>5. CASE Persist(w) BY <2>5 DEF Persist
  <2>6. CASE PersistFails(w) BY <2>6 DEF PersistFails
  <2>7. CASE Discard(w) BY <2>7 DEF Discard
  <2>8. CASE FailProfile(w) BY <2>8 DEF FailProfile
  <2>9. CASE MarkFailed(w)
    <3>1. UNCHANGED <<profile, cleaning>>
          BY <2>9 DEF MarkFailed
    <3> QED BY <2>9, <3>1
  <2>10. CASE Settle(w)
    <3>1. UNCHANGED <<profile, cleaning>>
          BY <2>10 DEF Settle
    <3> QED BY <2>10, <3>1
  <2>11. CASE Tail(w) BY <2>11 DEF Tail
  <2>12. CASE LoseLock(w) BY <2>12 DEF LoseLock
  <2>13. CASE Crash(w) BY <2>13 DEF Crash
  <2> QED BY <1>5, <2>1, <2>2, <2>3, <2>4, <2>5, <2>6, <2>7, <2>8, <2>9, <2>10, <2>11, <2>12,
             <2>13 DEF Work
<1>6. ASSUME NEW k \in Keys, RefundFailed(k) PROVE CleanersComeLate'
      BY <1>6 DEF RefundFailed
<1>7. CASE UNCHANGED vars
      BY <1>7 DEF vars
<1> QED BY <1>1, <1>2, <1>3, <1>4, <1>5, <1>6, <1>7 DEF Next

\* After it was read, a name changes only to the record of the same, or is taken down.
LEMMA PlansAreCurrentStays ==
    ASSUME PlacesOK, JobsOK, ProfilesOK, HostsOK, MakersOK, RevokersOK, SlotsOK,
           CallsHaveKeys, RoutesKeepApart, NoProfileYet, SlotsHaveSetups, JobsHaveCharges,
           SnapshotIsComplete, FreshIsBare, UnstoredIsBare, OneName, HeldOnTheWay,
           PlansAreCurrent, CleanersComeLate, CleanersAreCurrent, [Next]_vars
    PROVE  PlansAreCurrent'
<1> USE VoiceAssumption DEF PlacesOK, JobsOK, ProfilesOK, HostsOK, MakersOK, RevokersOK,
        SlotsOK, CallsHaveKeys, RoutesKeepApart, NoProfileYet, SlotsHaveSetups,
        JobsHaveCharges, SnapshotIsComplete, FreshIsBare, UnstoredIsBare, OneName,
        HeldOnTheWay, PlansAreCurrent, CleanersComeLate, CleanersAreCurrent, Actors,
        Bare, Begin, CreateProfile, Made, TakeDown,
        Hold, Trainable, Gone, Nothing, profiles, hosts, locals, past
<1>1. ASSUME NEW c \in Makers, SetUp(c) PROVE PlansAreCurrent'
      BY <1>1 DEF SetUp, BeginSetup, ReplaySetup, InsertProfile, InsertProfileFails, Invoke,
         InvokeFails, CreateJob, CreateJobFails, DropProfile,
         DropProfileFails, Recheck
<1>2. ASSUME NEW c \in Makers, StartTraining(c) PROVE PlansAreCurrent'
      BY <1>2 DEF StartTraining, BeginTraining, ReplayTraining, Audit, AuditFails,
         InsertTraining, InsertTrainingFails, InvokeTraining, Kickoff, KickoffFails, Store,
         CancelTraining, CancelTrainingFails, Queued, Report, FailJob, BlameProfile, Poll
<1>3. ASSUME NEW c \in Makers,
             Statement(c) \/ DieMaking(c) \/ Clean(c)
             PROVE PlansAreCurrent'
      BY <1>3 DEF Statement, Statements, CancelJob, RemoveJob, ReverseCharge, StatementFails,
         DieMaking, Clean, CleanRead, CleanUp, CleanUpFails, WriteBack, Queued
<1>4. ASSUME NEW c \in Revokers, Delete(c) PROVE PlansAreCurrent'
  <2>1. CASE Revoke(c) BY <2>1 DEF Revoke
  <2>2. CASE ReadProfiles(c) BY <2>2 DEF ReadProfiles
  <2>3. CASE ReadJobs(c) BY <2>3 DEF ReadJobs
  <2>4. CASE Commit(c) BY <2>4 DEF Commit
  <2>5. CASE ReadCanceled(c) BY <2>5 DEF ReadCanceled
  <2>6. ASSUME NEW k \in Keys, RefundCanceled(c, k) PROVE PlansAreCurrent'
        BY <2>6 DEF RefundCanceled
  <2>7. ASSUME NEW k \in Keys, RefundFails(c, k) PROVE PlansAreCurrent'
        BY <2>7 DEF RefundFails
  <2>8. ASSUME NEW failing \in SUBSET Makers, TakeDownAll(c, failing) PROVE PlansAreCurrent'
        BY <2>8 DEF TakeDownAll
  <2>9. ASSUME NEW p \in Makers, Record(c, p) PROVE PlansAreCurrent'
        BY <2>9 DEF Record, Queued
  <2>10. CASE DieRevoking(c) BY <2>10 DEF DieRevoking
  <2> QED BY <1>4, <2>1, <2>2, <2>3, <2>4, <2>5, <2>6, <2>7, <2>8, <2>9, <2>10 DEF Delete
<1>5. ASSUME NEW w \in Slots, Work(w) PROVE PlansAreCurrent'
  <2>1. ASSUME NEW k \in Keys, Take(w, k) PROVE PlansAreCurrent'
        BY <2>1 DEF Take
  <2>2. CASE Train(w) \/ MarkTraining(w) BY <2>2 DEF Train, MarkTraining
  <2>3. CASE Host(w) BY <2>3 DEF Host
  <2>4. CASE HostFails(w) BY <2>4 DEF HostFails
  <2>5. CASE Persist(w) BY <2>5 DEF Persist
  <2>6. CASE PersistFails(w) BY <2>6 DEF PersistFails
  <2>7. CASE Discard(w) BY <2>7 DEF Discard
  <2>8. CASE FailProfile(w) BY <2>8 DEF FailProfile
  <2>9. CASE MarkFailed(w)
    <3>1. UNCHANGED <<voice, record, plan, hosted, lost>>
          BY <2>9 DEF MarkFailed
    <3> QED BY <2>9, <3>1
  <2>10. CASE Settle(w)
    <3>1. UNCHANGED <<voice, record, plan, hosted, lost>>
          BY <2>10 DEF Settle
    <3> QED BY <2>10, <3>1
  <2>11. CASE Tail(w) BY <2>11 DEF Tail
  <2>12. CASE LoseLock(w) BY <2>12 DEF LoseLock
  <2>13. CASE Crash(w) BY <2>13 DEF Crash
  <2> QED BY <1>5, <2>1, <2>2, <2>3, <2>4, <2>5, <2>6, <2>7, <2>8, <2>9, <2>10, <2>11, <2>12,
             <2>13 DEF Work
<1>6. ASSUME NEW k \in Keys, RefundFailed(k) PROVE PlansAreCurrent'
      BY <1>6 DEF RefundFailed
<1>7. CASE UNCHANGED vars
      BY <1>7 DEF vars
<1> QED BY <1>1, <1>2, <1>3, <1>4, <1>5, <1>6, <1>7 DEF Next

\* What a cleanup job has read keeps up likewise: it is read after the last voice is stored.
LEMMA CleanersAreCurrentStays ==
    ASSUME PlacesOK, JobsOK, ProfilesOK, HostsOK, MakersOK, RevokersOK, SlotsOK,
           CallsHaveKeys, RoutesKeepApart, NoProfileYet, SlotsHaveSetups, JobsHaveCharges,
           SnapshotIsComplete, FreshIsBare, UnstoredIsBare, OneName, HeldOnTheWay,
           PlansAreCurrent, CleanersComeLate, CleanersAreCurrent, [Next]_vars
    PROVE  CleanersAreCurrent'
<1> USE VoiceAssumption DEF PlacesOK, JobsOK, ProfilesOK, HostsOK, MakersOK, RevokersOK,
        SlotsOK, CallsHaveKeys, RoutesKeepApart, NoProfileYet, SlotsHaveSetups,
        JobsHaveCharges, SnapshotIsComplete, FreshIsBare, UnstoredIsBare, OneName,
        HeldOnTheWay, PlansAreCurrent, CleanersComeLate, CleanersAreCurrent, Actors,
        Bare, Begin, CreateProfile, Made, TakeDown,
        Hold, Trainable, Gone, Nothing, profiles, hosts, locals, past
<1>1. ASSUME NEW c \in Makers, SetUp(c) PROVE CleanersAreCurrent'
      BY <1>1 DEF SetUp, BeginSetup, ReplaySetup, InsertProfile, InsertProfileFails, Invoke,
         InvokeFails, CreateJob, CreateJobFails, DropProfile,
         DropProfileFails, Recheck
<1>2. ASSUME NEW c \in Makers, StartTraining(c) PROVE CleanersAreCurrent'
      BY <1>2 DEF StartTraining, BeginTraining, ReplayTraining, Audit, AuditFails,
         InsertTraining, InsertTrainingFails, InvokeTraining, Kickoff, KickoffFails, Store,
         CancelTraining, CancelTrainingFails, Queued, Report, FailJob, BlameProfile, Poll
<1>3. ASSUME NEW c \in Makers,
             Statement(c) \/ DieMaking(c) \/ Clean(c)
             PROVE CleanersAreCurrent'
      BY <1>3 DEF Statement, Statements, CancelJob, RemoveJob, ReverseCharge, StatementFails,
         DieMaking, Clean, CleanRead, CleanUp, CleanUpFails, WriteBack, Queued
<1>4. ASSUME NEW c \in Revokers, Delete(c) PROVE CleanersAreCurrent'
  <2>1. CASE Revoke(c) BY <2>1 DEF Revoke
  <2>2. CASE ReadProfiles(c) BY <2>2 DEF ReadProfiles
  <2>3. CASE ReadJobs(c) BY <2>3 DEF ReadJobs
  <2>4. CASE Commit(c) BY <2>4 DEF Commit
  <2>5. CASE ReadCanceled(c) BY <2>5 DEF ReadCanceled
  <2>6. ASSUME NEW k \in Keys, RefundCanceled(c, k) PROVE CleanersAreCurrent'
        BY <2>6 DEF RefundCanceled
  <2>7. ASSUME NEW k \in Keys, RefundFails(c, k) PROVE CleanersAreCurrent'
        BY <2>7 DEF RefundFails
  <2>8. ASSUME NEW failing \in SUBSET Makers, TakeDownAll(c, failing) PROVE CleanersAreCurrent'
        BY <2>8 DEF TakeDownAll
  <2>9. ASSUME NEW p \in Makers, Record(c, p) PROVE CleanersAreCurrent'
        BY <2>9 DEF Record, Queued
  <2>10. CASE DieRevoking(c) BY <2>10 DEF DieRevoking
  <2> QED BY <1>4, <2>1, <2>2, <2>3, <2>4, <2>5, <2>6, <2>7, <2>8, <2>9, <2>10 DEF Delete
<1>5. ASSUME NEW w \in Slots, Work(w) PROVE CleanersAreCurrent'
  <2>1. ASSUME NEW k \in Keys, Take(w, k) PROVE CleanersAreCurrent'
        BY <2>1 DEF Take
  <2>2. CASE Train(w) \/ MarkTraining(w) BY <2>2 DEF Train, MarkTraining
  <2>3. CASE Host(w) BY <2>3 DEF Host
  <2>4. CASE HostFails(w) BY <2>4 DEF HostFails
  <2>5. CASE Persist(w) BY <2>5 DEF Persist
  <2>6. CASE PersistFails(w) BY <2>6 DEF PersistFails
  <2>7. CASE Discard(w) BY <2>7 DEF Discard
  <2>8. CASE FailProfile(w) BY <2>8 DEF FailProfile
  <2>9. CASE MarkFailed(w)
    <3>1. UNCHANGED <<profile, voice, record, cleaning, hosted, lost>>
          BY <2>9 DEF MarkFailed
    <3> QED BY <2>9, <3>1
  <2>10. CASE Settle(w)
    <3>1. UNCHANGED <<profile, voice, record, cleaning, hosted, lost>>
          BY <2>10 DEF Settle
    <3> QED BY <2>10, <3>1
  <2>11. CASE Tail(w) BY <2>11 DEF Tail
  <2>12. CASE LoseLock(w) BY <2>12 DEF LoseLock
  <2>13. CASE Crash(w) BY <2>13 DEF Crash
  <2> QED BY <1>5, <2>1, <2>2, <2>3, <2>4, <2>5, <2>6, <2>7, <2>8, <2>9, <2>10, <2>11, <2>12,
             <2>13 DEF Work
<1>6. ASSUME NEW k \in Keys, RefundFailed(k) PROVE CleanersAreCurrent'
      BY <1>6 DEF RefundFailed
<1>7. CASE UNCHANGED vars
      BY <1>7 DEF vars
<1> QED BY <1>1, <1>2, <1>3, <1>4, <1>5, <1>6, <1>7 DEF Next

\* A name is given up only for what is taken down or lost.
LEMMA NothingForgottenStays ==
    ASSUME PlacesOK, JobsOK, ProfilesOK, HostsOK, MakersOK, RevokersOK, SlotsOK,
           RoutesKeepApart, SlotsHaveSetups, JobsHaveCharges, SnapshotIsComplete,
           FreshIsBare, UnstoredIsBare, PlansAreCurrent, CleanersAreCurrent, HeldOnTheWay,
           NothingForgotten, [Next]_vars
    PROVE  NothingForgotten'
<1> USE VoiceAssumption DEF PlacesOK, JobsOK, ProfilesOK, HostsOK, MakersOK, RevokersOK,
        SlotsOK, RoutesKeepApart, SlotsHaveSetups, JobsHaveCharges, SnapshotIsComplete,
        FreshIsBare, UnstoredIsBare, PlansAreCurrent, CleanersAreCurrent, HeldOnTheWay,
        NothingForgotten, Actors,
        Bare, Traced, Begin, CreateProfile, Made, TakeDown, Hold, Trainable, Gone, Nothing,
        profiles, hosts, locals, past
<1>1. ASSUME NEW c \in Makers, SetUp(c) PROVE NothingForgotten'
      BY SMTT(30), <1>1 DEF SetUp, BeginSetup, ReplaySetup, InsertProfile, InsertProfileFails,
         Invoke, InvokeFails, CreateJob, CreateJobFails, DropProfile,
         DropProfileFails, Recheck
<1>2. ASSUME NEW c \in Makers, StartTraining(c) PROVE NothingForgotten'
  <2>1. ASSUME NEW k \in Keys, BeginTraining(c, k) PROVE NothingForgotten'
        BY <2>1 DEF BeginTraining
  <2>2. CASE ReplayTraining(c) BY <2>2 DEF ReplayTraining
  <2>3. CASE Audit(c) BY <2>3 DEF Audit
  <2>4. CASE AuditFails(c) BY <2>4 DEF AuditFails
  <2>5. CASE InsertTraining(c) BY <2>5 DEF InsertTraining
  <2>6. CASE InsertTrainingFails(c) BY <2>6 DEF InsertTrainingFails
  <2>7. CASE InvokeTraining(c) BY <2>7 DEF InvokeTraining
  <2>8. CASE Kickoff(c) BY <2>8 DEF Kickoff
  <2>9. CASE KickoffFails(c)
    <3>1. UNCHANGED <<voice, record, held>>
          BY <2>9 DEF KickoffFails
    <3>2. hosted' \ lost' \subseteq hosted \ lost
          BY <2>9 DEF KickoffFails
    <3> QED BY <2>9, <3>1, <3>2
  <2>10. CASE Store(c) BY SMTT(30), <2>10 DEF Store
  <2>11. CASE CancelTraining(c) BY <2>11 DEF CancelTraining
  <2>12. CASE CancelTrainingFails(c) BY <2>12 DEF CancelTrainingFails, Queued
  <2>13. CASE Report(c) BY <2>13 DEF Report
  <2>14. CASE FailJob(c) BY <2>14 DEF FailJob
  <2>15. CASE BlameProfile(c) BY <2>15 DEF BlameProfile
  <2>16. ASSUME NEW result \in {"READY", "FAILED"}, Poll(c, result) PROVE NothingForgotten'
        BY <2>16 DEF Poll
  <2> QED BY <1>2, <2>1, <2>2, <2>3, <2>4, <2>5, <2>6, <2>7, <2>8, <2>9, <2>10, <2>11, <2>12,
             <2>13, <2>14, <2>15, <2>16 DEF StartTraining
<1>3. ASSUME NEW c \in Makers, Statement(c) \/ DieMaking(c) \/ Clean(c) PROVE NothingForgotten'
  <2>1. CASE Statement(c) \/ DieMaking(c)
        BY <2>1 DEF Statement, Statements, CancelJob, RemoveJob, ReverseCharge, StatementFails,
           DieMaking
  <2>2. ASSUME NEW j \in cleaning, j.of = c, UNCHANGED <<voice, held, lost>>,
               CleanRead(j) \/ CleanUp(j) \/ CleanUpFails(j)
        PROVE  NothingForgotten'
    <3>1. CASE CleanRead(j) BY <2>2, <3>1 DEF CleanRead
    <3>2. ASSUME j.begun, \A p \in Makers \ {c} : record'[p] = record[p],
                 \/ record' = record /\ hosted' \subseteq hosted
                 \/ record'[c] = j.knows /\ hosted' = hosted
                 \/ hosted' = hosted \ {j.knows}
          PROVE  NothingForgotten'
      <4>1. \A x \in hosted \ lost : j.knows = x <=> voice[c] = x \/ record[c] = x
            BY <2>2, <3>2
      <4>2. SUFFICES ASSUME NEW x \in hosted' \ lost' PROVE Traced(x)'
            OBVIOUS
      <4>3. x \in hosted \ lost
            BY <2>2, <3>2
      <4>4. CASE \E a \in Makers \cup Slots : held[a] = x
            BY <2>2, <4>4
      <4>5. CASE \E p \in Makers : voice[p] = x
            BY <2>2, <4>5
      <4>6. CASE \E p \in Makers \ {c} : record[p] = x
            BY <3>2, <4>6
      <4>7. ASSUME record[c] = x, voice[c] # x PROVE Traced(x)'
        <5>1. j.knows = x
              BY <4>1, <4>3, <4>7
        <5> QED BY <3>2, <4>7, <5>1
      <4> QED BY <4>3, <4>4, <4>5, <4>6, <4>7
    <3>3. CASE CleanUp(j) BY <2>2, <3>2, <3>3 DEF CleanUp, WriteBack
    <3>4. CASE CleanUpFails(j) BY <2>2, <3>2, <3>4 DEF CleanUpFails, WriteBack
    <3> QED BY <2>2, <3>1, <3>3, <3>4
  <2>3. CASE Clean(c) BY <2>2, <2>3 DEF Clean
  <2> QED BY <1>3, <2>1, <2>3
<1>4. ASSUME NEW c \in Revokers, Delete(c) PROVE NothingForgotten'
  <2>1. CASE Revoke(c) BY <2>1 DEF Revoke
  <2>2. CASE ReadProfiles(c) BY <2>2 DEF ReadProfiles
  <2>3. CASE ReadJobs(c) BY <2>3 DEF ReadJobs
  <2>4. CASE Commit(c) BY <2>4 DEF Commit
  <2>5. CASE ReadCanceled(c) BY <2>5 DEF ReadCanceled
  <2>6. ASSUME NEW k \in Keys, RefundCanceled(c, k) PROVE NothingForgotten'
        BY <2>6 DEF RefundCanceled
  <2>7. ASSUME NEW k \in Keys, RefundFails(c, k) PROVE NothingForgotten'
        BY <2>7 DEF RefundFails
  <2>8. ASSUME NEW failing \in SUBSET Makers, TakeDownAll(c, failing) PROVE NothingForgotten'
        BY <2>8 DEF TakeDownAll
  <2>9. ASSUME NEW p \in Makers, Record(c, p) PROVE NothingForgotten'
        BY <2>9 DEF Record, Queued
  <2>10. CASE DieRevoking(c) BY <2>10 DEF DieRevoking
  <2> QED BY <1>4, <2>1, <2>2, <2>3, <2>4, <2>5, <2>6, <2>7, <2>8, <2>9, <2>10 DEF Delete
<1>5. ASSUME NEW w \in Slots, Work(w) PROVE NothingForgotten'
  <2>1. ASSUME NEW k \in Keys, Take(w, k) PROVE NothingForgotten'
        BY <2>1 DEF Take
  <2>2. CASE Train(w) \/ MarkTraining(w) BY <2>2 DEF Train, MarkTraining
  <2>3. CASE Host(w) BY <2>3 DEF Host
  <2>4. CASE HostFails(w)
    <3>1. UNCHANGED <<voice, record, held>>
          BY <2>4 DEF HostFails
    <3>2. hosted' \ lost' \subseteq hosted \ lost
          BY <2>4 DEF HostFails
    <3> QED BY <2>4, <3>1, <3>2
  <2>5. CASE Persist(w) BY <2>5 DEF Persist
  <2>6. CASE PersistFails(w) BY <2>6 DEF PersistFails
  <2>7. CASE Discard(w)
    <3>1. UNCHANGED <<voice, record>> /\ held' = [held EXCEPT ![w] = None]
          BY <2>7 DEF Discard
    <3>2. hosted' \subseteq hosted /\ lost \subseteq lost' /\ held[w] \notin hosted' \ lost'
          BY <2>7 DEF Discard
    <3> QED BY <2>7, <3>1, <3>2
  <2>8. CASE FailProfile(w) BY <2>8 DEF FailProfile
  <2>9. CASE MarkFailed(w) BY <2>9 DEF MarkFailed
  <2>10. CASE Settle(w) BY <2>10 DEF Settle
  <2>11. CASE Tail(w) BY <2>11 DEF Tail
  <2>12. CASE LoseLock(w) BY <2>12 DEF LoseLock
  <2>13. CASE Crash(w) BY <2>13 DEF Crash
  <2> QED BY <1>5, <2>1, <2>2, <2>3, <2>4, <2>5, <2>6, <2>7, <2>8, <2>9, <2>10, <2>11, <2>12,
             <2>13 DEF Work
<1>6. ASSUME NEW k \in Keys, RefundFailed(k) PROVE NothingForgotten'
      BY <1>6 DEF RefundFailed
<1>7. CASE UNCHANGED vars
      BY <1>7 DEF vars
<1> QED BY <1>1, <1>2, <1>3, <1>4, <1>5, <1>6, <1>7 DEF Next

Innocent == revoked => \A p \in Makers :
           profile'[p] # profile[p] => \/ profile'[p] \in {"deleted", "FAILED", "REVOKED"}
                                       \/ profile'[p] = "TRAINING" /\ UnderWay(p)

\* Every write that brings a profile to life is made under the consent's lock.
LEMMA NothingComesToLife ==
    ASSUME ProfilesOK, JobsOK, MakersOK, SlotsOK, RevokersOK, SlotsHaveSetups, CallsHaveKeys,
           [Next]_vars
    PROVE  Innocent
<1> USE VoiceAssumption DEF ProfilesOK, JobsOK, MakersOK, SlotsOK, RevokersOK,
        SlotsHaveSetups, CallsHaveKeys, CreateProfile, Trainable, Marked, Gone, Begin,
        profiles, UnderWay, Innocent
<1>1. ASSUME NEW c \in Makers, SetUp(c) PROVE Innocent
      BY <1>1 DEF SetUp, BeginSetup, ReplaySetup, InsertProfile, InsertProfileFails, Invoke,
         InvokeFails, CreateJob, CreateJobFails, DropProfile,
         DropProfileFails, Recheck
<1>2. ASSUME NEW c \in Makers, StartTraining(c) PROVE Innocent
      BY <1>2 DEF StartTraining, BeginTraining, ReplayTraining, Audit, AuditFails,
         InsertTraining, InsertTrainingFails, InvokeTraining, Kickoff, KickoffFails, Store,
         CancelTraining, CancelTrainingFails, Queued, Report, FailJob, BlameProfile, Poll
<1>3. ASSUME NEW c \in Makers,
             Statement(c) \/ DieMaking(c) \/ Clean(c) PROVE Innocent
      BY <1>3 DEF Statement, Statements, CancelJob, RemoveJob, ReverseCharge, StatementFails,
         DieMaking, Clean, CleanRead, CleanUp, CleanUpFails, WriteBack, Queued
<1>4. ASSUME NEW c \in Revokers, Delete(c) PROVE Innocent
  <2>1. CASE Commit(c) BY <2>1 DEF Commit
  <2>2. CASE ~Commit(c)
    <3>1. UNCHANGED profile
          BY <1>4, <2>2 DEF Delete, Revoke, ReadProfiles, ReadJobs, ReadCanceled,
             RefundCanceled, RefundFails, TakeDownAll, Record, DieRevoking
    <3> QED BY <3>1
  <2> QED BY <2>1, <2>2
<1>5. ASSUME NEW w \in Slots, Work(w) PROVE Innocent
      BY <1>5 DEF Work, Take, Train, MarkTraining, Host, HostFails, Persist, PersistFails, Discard,
         FailProfile, MarkFailed, Settle, Tail, LoseLock, Crash
<1>6. ASSUME NEW k \in Keys, RefundFailed(k) PROVE Innocent
      BY <1>6 DEF RefundFailed
<1>7. CASE UNCHANGED vars
      BY <1>7 DEF vars
<1> QED BY <1>1, <1>2, <1>3, <1>4, <1>5, <1>6, <1>7 DEF Next

-----------------------------------------------------------------------------
(***************************************************************************)
(* The invariant and the theorems.                                         *)
(***************************************************************************)
LEMMA VoiceInit == Init => VoiceInv
<1> SUFFICES ASSUME Init PROVE VoiceInv
    OBVIOUS
<1> USE VoiceAssumption DEF Init
<1>1. LeftOK /\ JobsOK
  <2>1. left \in [attempts : Nat \ {0}, faults : Nat, locks : Nat]
        OBVIOUS
  <2> QED BY <2>1 DEF LeftOK, JobsOK, Statuses
<1>2. PlacesOK /\ ProfilesOK /\ HostsOK /\ MakersOK /\ SlotsOK /\ PastOK
      BY DEF PlacesOK, ProfilesOK, HostsOK, MakersOK, SlotsOK, PastOK, CallPcs, Gone, Statements
<1>3. \A c \in Revokers : DOMAIN plan[c] = {}
      BY DEF Nothing
<1>4. RevokersOK
  <2>1. Nothing \in [{} -> made \cup {None}]
        BY DEF Nothing
  <2> QED BY <2>1 DEF RevokersOK
<1>5. CallsHaveKeys /\ RoutesKeepApart /\ NoProfileYet /\ SlotsHaveSetups
      BY DEF CallsHaveKeys, RoutesKeepApart, NoProfileYet, SlotsHaveSetups, Actors
<1>6. QueueHoldsSetups /\ JobsHaveCharges /\ HeldOnTheWay /\ LastIsLast
      BY DEF QueueHoldsSetups, JobsHaveCharges, HeldOnTheWay, LastIsLast, Actors
<1>7. SnapshotIsComplete /\ RevocationIsComplete
      BY <1>3 DEF SnapshotIsComplete, RevocationIsComplete, Committed, Actors
<1>8. FreshIsBare /\ UnstoredIsBare /\ OneName
      BY <1>3 DEF FreshIsBare, UnstoredIsBare, OneName, Bare, Actors
<1>9. PlansAreCurrent /\ CleanedWasNamed /\ CleanersComeLate /\ CleanersAreCurrent
    /\ NothingForgotten
      BY DEF PlansAreCurrent, CleanedWasNamed, CleanersComeLate, CleanersAreCurrent,
         NothingForgotten
<1> QED BY <1>1, <1>2, <1>4, <1>5, <1>6, <1>7, <1>8, <1>9 DEF VoiceInv, VoiceTypeOK

LEMMA VoiceStep == VoiceInv /\ [Next]_vars => VoiceInv'
<1> SUFFICES ASSUME VoiceInv, [Next]_vars PROVE VoiceInv'
    OBVIOUS
<1> USE DEF VoiceInv, VoiceTypeOK
<1>1. LeftOK' /\ left'.attempts = left.attempts /\ left.attempts \in Nat
      BY BudgetStays DEF LeftOK
<1>2. VoiceTypeOK'
      BY <1>1, PlacesStay, ProfilesOKStays, HostsOKStays, MakersOKStays, RevokersOKStays,
         SlotsOKStays, PastOKStays, JobsOKStays
<1>3. /\ CallsHaveKeys' /\ RoutesKeepApart' /\ NoProfileYet' /\ SlotsHaveSetups'
      /\ QueueHoldsSetups' /\ JobsHaveCharges' /\ HeldOnTheWay' /\ LastIsLast'
      BY <1>1, CallsHaveKeysStays, RoutesKeepApartStays, NoProfileYetStays, SlotsHaveSetupsStays,
         QueueHoldsSetupsStays, JobsHaveChargesStays, HeldOnTheWayStays, LastIsLastStays
<1>4. /\ SnapshotIsComplete' /\ RevocationIsComplete' /\ FreshIsBare' /\ UnstoredIsBare'
      /\ OneName' /\ PlansAreCurrent' /\ CleanedWasNamed' /\ CleanersComeLate'
      /\ CleanersAreCurrent' /\ NothingForgotten'
      BY <1>2, SnapshotIsCompleteStays, RevocationIsCompleteStays, FreshIsBareStays,
         UnstoredIsBareStays, OneNameStays, PlansAreCurrentStays, CleanedWasNamedStays,
         CleanersComeLateStays, CleanersAreCurrentStays, NothingForgottenStays
<1> QED BY <1>2, <1>3, <1>4

LEMMA VoiceInvariant == Spec => []VoiceInv
<1>1. Init => VoiceInv BY VoiceInit
<1>2. VoiceInv /\ [Next]_vars => VoiceInv' BY VoiceStep
<1> QED BY <1>1, <1>2, PTL DEF Spec

\* Every variable keeps its type, and BullMQ tries no job more often than it has
\* attempts, whatever locks are lost (index.ts:244).
THEOREM VoiceTypeCorrect == Spec => []VoiceTypeOK
<1>1. VoiceInv => VoiceTypeOK BY DEF VoiceInv
<1> QED BY <1>1, VoiceInvariant, PTL

\* After a revocation no profile comes into being or gets ready, nor is one marked
\* as in training but by a statement under way (voices.ts:590, voice-profile.ts:181, 270).
THEOREM RevokedMeansStopped == Spec => NothingAfterRevocation
<1>1. VoiceInv /\ [Next]_vars =>
          [revoked => \A p \in Makers : profile'[p] # profile[p] =>
               \/ profile'[p] \in {"deleted", "FAILED", "REVOKED"}
               \/ profile'[p] = "TRAINING" /\ UnderWay(p)]_vars
      BY NothingComesToLife DEF VoiceInv, VoiceTypeOK, Innocent
<1> QED BY <1>1, VoiceInvariant, PTL DEF Spec, NothingAfterRevocation

\* A DELETE whose transaction has committed leaves no profile usable (voices.ts:1786).
THEOREM RevocationReachesAll == Spec => []RevocationIsComplete
<1>1. VoiceInv => RevocationIsComplete BY DEF VoiceInv
<1> QED BY <1>1, VoiceInvariant, PTL

\* Whatever is at a provider and no fault has lost is named by a row or in hand
\* (voice-profile.ts:120, voices.ts:1172, 2125).
THEOREM NoVoiceIsForgotten == Spec => []NothingForgotten
<1>1. VoiceInv => NothingForgotten BY DEF VoiceInv
<1> QED BY <1>1, VoiceInvariant, PTL
-----------------------------------------------------------------------------
(***************************************************************************)
(* The money: what is called off is paid back, and what was delivered      *)
(* stays paid for.                                                         *)
(***************************************************************************)
\* A call that gives up has reversed its charge or has that still to do.
GivingUpRefunds ==
    \A c \in Makers : pc[c] = "giving up" =>
        "refund" \in todo[c] \/ charge[key[c]] = "reversed" \/ key[c] \in stranded

\* A setup that was not delivered; a training that was called off.
Undelivered(k) == status[k] # "SUCCEEDED" /\ (k \in Trainings => status[k] = "CANCELED")

\* So is each job a DELETE is about to refund, and each that was refunded.
CanceledIsUndelivered ==
    \A c \in Revokers : pc[c] = "refunds" => \A k \in seen[c] : Undelivered(k)

ReversedIsUndelivered ==
    \A k \in Keys \ withdrawn : charge[k] = "reversed" => revoked /\ Undelivered(k)

\* CalledOffIsRefunded, job by job and with the debtors named: the money is back
\* or stranded, or a call has it in its hands.
Settled(k)    == charge[k] = "reversed" \/ k \in stranded
Maker(c, k)   == key[c] = k /\ pc[c] = "giving up" /\ "refund" \in todo[c]
Revoker(c, k) == k \in seen[c] /\ pc[c] \in {"canceled", "refunds"}

Refunding ==
    \A k \in Keys :
        /\ status[k] = "CANCELED" => \/ Settled(k)
                                     \/ \E c \in Makers : Maker(c, k)
                                     \/ \E c \in Revokers : Revoker(c, k)
        /\ status[k] = "FAILED" /\ k \in Trainings => \/ Settled(k)
                                                      \/ \E c \in Makers : Maker(c, k)

RefundInv ==
    VoiceInv /\ GivingUpRefunds /\ CanceledIsUndelivered /\ ReversedIsUndelivered /\ Refunding
-----------------------------------------------------------------------------
(***************************************************************************)
(* What is reversed was not delivered. markFailed takes no notice of a     *)
(* job's status, but a job that succeeded is in no slot that would still   *)
(* call it.                                                                *)
(***************************************************************************)
\* A call has the reversal among its statements, until it is done.
LEMMA GivingUpRefundsStays ==
    ASSUME PlacesOK, JobsOK, MakersOK, CallsHaveKeys, GivingUpRefunds, [Next]_vars
    PROVE  GivingUpRefunds'
<1> USE VoiceAssumption DEF PlacesOK, JobsOK, MakersOK, CallsHaveKeys, GivingUpRefunds,
        Actors, Goto, GiveUp, Done, Leave, Begin, Reverse, jobs, locals, past
<1>1. ASSUME NEW c \in Makers, SetUp(c) PROVE GivingUpRefunds'
  <2>1. ASSUME NEW k \in Keys, BeginSetup(c, k) PROVE GivingUpRefunds'
        BY <2>1 DEF BeginSetup
  <2>2. CASE ReplaySetup(c) BY <2>2 DEF ReplaySetup
  <2>3. CASE InsertProfile(c)
    <3>1. CASE Goto(c, "invoke") /\ UNCHANGED todo
          BY <2>3, <3>1 DEF InsertProfile
    <3>2. CASE GiveUp(c, {"refund"})
          BY <2>3, <3>2 DEF InsertProfile
    <3> QED BY <2>3, <3>1, <3>2 DEF InsertProfile
  <2>4. CASE InsertProfileFails(c) BY <2>4 DEF InsertProfileFails
  <2>5. CASE Invoke(c)
    <3>1. CASE Goto(c, "job") /\ UNCHANGED todo
          BY <2>5, <3>1 DEF Invoke
    <3>2. CASE GiveUp(c, {"refund"})
          BY <2>5, <3>2 DEF Invoke
    <3> QED BY <2>5, <3>1, <3>2 DEF Invoke
  <2>6. CASE InvokeFails(c) BY <2>6 DEF InvokeFails
  <2>7. CASE CreateJob(c) BY <2>7 DEF CreateJob
  <2>8. CASE CreateJobFails(c) BY <2>8 DEF CreateJobFails
  <2>9. CASE DropProfile(c) \/ DropProfileFails(c) BY <2>9 DEF DropProfile, DropProfileFails
  <2>10. CASE Recheck(c)
    <3>1. CASE Goto(c, "done") /\ UNCHANGED todo
          BY <2>10, <3>1 DEF Recheck
    <3>2. CASE GiveUp(c, {"cancel", "remove", "refund"})
          BY <2>10, <3>2 DEF Recheck
    <3> QED BY <2>10, <3>1, <3>2 DEF Recheck
  <2> QED BY <1>1, <2>1, <2>2, <2>3, <2>4, <2>5, <2>6, <2>7, <2>8, <2>9, <2>10 DEF SetUp
<1>2. ASSUME NEW c \in Makers, StartTraining(c) PROVE GivingUpRefunds'
  <2>1. ASSUME NEW k \in Keys, BeginTraining(c, k) PROVE GivingUpRefunds'
        BY <2>1 DEF BeginTraining
  <2>2. CASE ReplayTraining(c) BY <2>2 DEF ReplayTraining
  <2>3. CASE Audit(c) BY <2>3 DEF Audit
  <2>4. CASE AuditFails(c) BY <2>4 DEF AuditFails
  <2>5. CASE InsertTraining(c)
    <3>1. CASE Goto(c, "invoke") /\ UNCHANGED todo
          BY <2>5, <3>1 DEF InsertTraining
    <3>2. CASE GiveUp(c, {"cancel", "refund"})
          BY <2>5, <3>2 DEF InsertTraining
    <3> QED BY <2>5, <3>1, <3>2 DEF InsertTraining
  <2>6. CASE InsertTrainingFails(c) BY <2>6 DEF InsertTrainingFails
  <2>7. CASE InvokeTraining(c)
    <3>1. CASE Goto(c, "kickoff") /\ UNCHANGED todo
          BY <2>7, <3>1 DEF InvokeTraining
    <3>2. CASE GiveUp(c, {"cancel", "refund"})
          BY <2>7, <3>2 DEF InvokeTraining
    <3> QED BY <2>7, <3>1, <3>2 DEF InvokeTraining
  <2>8. CASE Kickoff(c) BY <2>8 DEF Kickoff
  <2>9. CASE KickoffFails(c) BY <2>9 DEF KickoffFails
  <2>10. CASE Store(c) BY <2>10 DEF Store
  <2>11. CASE CancelTraining(c) BY <2>11 DEF CancelTraining
  <2>12. CASE CancelTrainingFails(c) BY <2>12 DEF CancelTrainingFails, Queued
  <2>13. CASE Report(c) BY <2>13 DEF Report
  <2>14. CASE FailJob(c) BY <2>14 DEF FailJob
  <2>15. CASE BlameProfile(c) BY <2>15 DEF BlameProfile
  <2>16. ASSUME NEW result \in {"READY", "FAILED"}, Poll(c, result) PROVE GivingUpRefunds'
        BY <2>16 DEF Poll
  <2> QED BY <1>2, <2>1, <2>2, <2>3, <2>4, <2>5, <2>6, <2>7, <2>8, <2>9, <2>10, <2>11, <2>12,
             <2>13, <2>14, <2>15, <2>16 DEF StartTraining
<1>3. ASSUME NEW c \in Makers,
             Statement(c) \/ DieMaking(c) \/ Clean(c)
             PROVE GivingUpRefunds'
  <2>1. CASE CancelJob(c) BY <2>1 DEF CancelJob
  <2>2. CASE RemoveJob(c) BY <2>2 DEF RemoveJob
  <2>3. CASE ReverseCharge(c) BY <2>3 DEF ReverseCharge
  <2>4. ASSUME NEW what \in Statements, StatementFails(c, what) PROVE GivingUpRefunds'
        BY <2>4 DEF StatementFails
  <2>5. CASE DieMaking(c) BY <2>5 DEF DieMaking
  <2>6. CASE Clean(c) BY <2>6 DEF Clean, CleanRead, CleanUp, CleanUpFails, WriteBack, Queued
  <2> QED BY <1>3, <2>1, <2>2, <2>3, <2>4, <2>5, <2>6 DEF Statement, Statements
<1>4. ASSUME NEW c \in Revokers, Delete(c) PROVE GivingUpRefunds'
  <2>1. CASE Revoke(c) BY <2>1 DEF Revoke
  <2>2. CASE ReadProfiles(c) BY <2>2 DEF ReadProfiles
  <2>3. CASE ReadJobs(c) BY <2>3 DEF ReadJobs
  <2>4. CASE Commit(c) BY <2>4 DEF Commit
  <2>5. CASE ReadCanceled(c) BY <2>5 DEF ReadCanceled
  <2>6. ASSUME NEW k \in Keys, RefundCanceled(c, k) PROVE GivingUpRefunds'
        BY <2>6 DEF RefundCanceled
  <2>7. ASSUME NEW k \in Keys, RefundFails(c, k) PROVE GivingUpRefunds'
        BY <2>7 DEF RefundFails
  <2>8. ASSUME NEW failing \in SUBSET Makers, TakeDownAll(c, failing) PROVE GivingUpRefunds'
        BY <2>8 DEF TakeDownAll
  <2>9. ASSUME NEW p \in Makers, Record(c, p) PROVE GivingUpRefunds'
        BY <2>9 DEF Record, Queued
  <2>10. CASE DieRevoking(c) BY <2>10 DEF DieRevoking
  <2> QED BY <1>4, <2>1, <2>2, <2>3, <2>4, <2>5, <2>6, <2>7, <2>8, <2>9, <2>10 DEF Delete
<1>5. ASSUME NEW w \in Slots, Work(w) PROVE GivingUpRefunds'
  <2>1. ASSUME NEW k \in Keys, Take(w, k) PROVE GivingUpRefunds'
        BY <2>1 DEF Take
  <2>2. CASE Train(w) \/ MarkTraining(w) BY <2>2 DEF Train, MarkTraining
  <2>3. CASE Host(w) BY <2>3 DEF Host
  <2>4. CASE HostFails(w) BY <2>4 DEF HostFails
  <2>5. CASE Persist(w) BY <2>5 DEF Persist
  <2>6. CASE PersistFails(w) BY <2>6 DEF PersistFails
  <2>7. CASE Discard(w) BY <2>7 DEF Discard
  <2>8. CASE FailProfile(w) BY <2>8 DEF FailProfile
  <2>9. CASE MarkFailed(w) BY <2>9 DEF MarkFailed
  <2>10. CASE Settle(w) BY <2>10 DEF Settle
  <2>11. CASE Tail(w) BY <2>11 DEF Tail
  <2>12. CASE LoseLock(w) BY <2>12 DEF LoseLock
  <2>13. CASE Crash(w) BY <2>13 DEF Crash
  <2> QED BY <1>5, <2>1, <2>2, <2>3, <2>4, <2>5, <2>6, <2>7, <2>8, <2>9, <2>10, <2>11, <2>12,
             <2>13 DEF Work
<1>6. ASSUME NEW k \in Keys, RefundFailed(k) PROVE GivingUpRefunds'
      BY <1>6 DEF RefundFailed
<1>7. CASE UNCHANGED vars
      BY <1>7 DEF vars
<1> QED BY <1>1, <1>2, <1>3, <1>4, <1>5, <1>6, <1>7 DEF Next

\* A canceled job is nobody's to complete: its slot, if it has one, finds it canceled.
LEMMA CanceledIsUndeliveredStays ==
    ASSUME PlacesOK, JobsOK, MakersOK, RevokersOK, CallsHaveKeys, RoutesKeepApart,
           SlotsHaveSetups, QueueHoldsSetups, SnapshotIsComplete, CanceledIsUndelivered,
           [Next]_vars
    PROVE  CanceledIsUndelivered'
<1> USE VoiceAssumption DEF PlacesOK, JobsOK, MakersOK, RevokersOK, CallsHaveKeys,
        RoutesKeepApart, SlotsHaveSetups, QueueHoldsSetups, SnapshotIsComplete,
        CanceledIsUndelivered, Actors, Undelivered, Goto, GiveUp, Done, Leave, Begin, Idling,
        SetStatus, Insert, jobs, locals
<1>1. ASSUME NEW c \in Makers, SetUp(c) PROVE CanceledIsUndelivered'
  <2>1. ASSUME NEW k \in Keys, BeginSetup(c, k) PROVE CanceledIsUndelivered'
        BY <2>1 DEF BeginSetup
  <2>2. CASE ReplaySetup(c) BY <2>2 DEF ReplaySetup
  <2>3. CASE InsertProfile(c) BY <2>3 DEF InsertProfile
  <2>4. CASE InsertProfileFails(c) BY <2>4 DEF InsertProfileFails
  <2>5. CASE Invoke(c) BY <2>5 DEF Invoke
  <2>6. CASE InvokeFails(c) BY <2>6 DEF InvokeFails
  <2>7. CASE CreateJob(c) BY <2>7 DEF CreateJob
  <2>8. CASE CreateJobFails(c) BY <2>8 DEF CreateJobFails
  <2>9. CASE DropProfile(c) \/ DropProfileFails(c) BY <2>9 DEF DropProfile, DropProfileFails
  <2>10. CASE Recheck(c) BY <2>10 DEF Recheck
  <2> QED BY <1>1, <2>1, <2>2, <2>3, <2>4, <2>5, <2>6, <2>7, <2>8, <2>9, <2>10 DEF SetUp
<1>2. ASSUME NEW c \in Makers, StartTraining(c) PROVE CanceledIsUndelivered'
  <2>1. ASSUME NEW k \in Keys, BeginTraining(c, k) PROVE CanceledIsUndelivered'
        BY <2>1 DEF BeginTraining
  <2>2. CASE ReplayTraining(c) BY <2>2 DEF ReplayTraining
  <2>3. CASE Audit(c) BY <2>3 DEF Audit
  <2>4. CASE AuditFails(c) BY <2>4 DEF AuditFails
  <2>5. CASE InsertTraining(c) BY <2>5 DEF InsertTraining
  <2>6. CASE InsertTrainingFails(c) BY <2>6 DEF InsertTrainingFails
  <2>7. CASE InvokeTraining(c) BY <2>7 DEF InvokeTraining
  <2>8. CASE Kickoff(c) BY <2>8 DEF Kickoff
  <2>9. CASE KickoffFails(c) BY <2>9 DEF KickoffFails
  <2>10. CASE Store(c) BY <2>10 DEF Store
  <2>11. CASE CancelTraining(c) BY <2>11 DEF CancelTraining
  <2>12. CASE CancelTrainingFails(c) BY <2>12 DEF CancelTrainingFails, Queued
  <2>13. CASE Report(c) BY <2>13 DEF Report
  <2>14. CASE FailJob(c)
    <3>1. CASE UNCHANGED status
          BY <2>14, <3>1 DEF FailJob
    <3>2. CASE status[key[c]] = "RUNNING" /\ SetStatus(key[c], "FAILED")
          BY <2>14, <3>2 DEF FailJob
    <3> QED BY <2>14, <3>1, <3>2 DEF FailJob
  <2>15. CASE BlameProfile(c) BY <2>15 DEF BlameProfile
  <2>16. ASSUME NEW result \in {"READY", "FAILED"}, Poll(c, result)
                PROVE CanceledIsUndelivered'
        BY <2>16 DEF Poll
  <2> QED BY <1>2, <2>1, <2>2, <2>3, <2>4, <2>5, <2>6, <2>7, <2>8, <2>9, <2>10, <2>11, <2>12,
             <2>13, <2>14, <2>15, <2>16 DEF StartTraining
<1>3. ASSUME NEW c \in Makers,
             Statement(c) \/ DieMaking(c) \/ Clean(c)
             PROVE CanceledIsUndelivered'
  <2>1. CASE CancelJob(c)
    <3>1. CASE UNCHANGED status
          BY <2>1, <3>1 DEF CancelJob
    <3>2. CASE status[key[c]] = Idling(key[c]) /\ SetStatus(key[c], "CANCELED")
          BY <2>1, <3>2 DEF CancelJob
    <3> QED BY <2>1, <3>1, <3>2 DEF CancelJob
  <2>2. CASE RemoveJob(c) BY <2>2 DEF RemoveJob
  <2>3. CASE ReverseCharge(c) BY <2>3 DEF ReverseCharge
  <2>4. ASSUME NEW what \in Statements, StatementFails(c, what) PROVE CanceledIsUndelivered'
        BY <2>4 DEF StatementFails
  <2>5. CASE DieMaking(c) BY <2>5 DEF DieMaking
  <2>6. CASE Clean(c) BY <2>6 DEF Clean, CleanRead, CleanUp, CleanUpFails, WriteBack, Queued
  <2> QED BY <1>3, <2>1, <2>2, <2>3, <2>4, <2>5, <2>6 DEF Statement, Statements
<1>4. ASSUME NEW c \in Revokers, Delete(c) PROVE CanceledIsUndelivered'
  <2>1. CASE Revoke(c) BY <2>1 DEF Revoke
  <2>2. CASE ReadProfiles(c) BY <2>2 DEF ReadProfiles
  <2>3. CASE ReadJobs(c) BY <2>3 DEF ReadJobs
  <2>4. CASE Commit(c) BY <2>4 DEF Commit
  <2>5. CASE ReadCanceled(c) BY <2>5 DEF ReadCanceled
  <2>6. ASSUME NEW k \in Keys, RefundCanceled(c, k) PROVE CanceledIsUndelivered'
        BY <2>6 DEF RefundCanceled
  <2>7. ASSUME NEW k \in Keys, RefundFails(c, k) PROVE CanceledIsUndelivered'
        BY <2>7 DEF RefundFails
  <2>8. ASSUME NEW failing \in SUBSET Makers, TakeDownAll(c, failing)
               PROVE CanceledIsUndelivered'
        BY <2>8 DEF TakeDownAll
  <2>9. ASSUME NEW p \in Makers, Record(c, p) PROVE CanceledIsUndelivered'
        BY <2>9 DEF Record, Queued
  <2>10. CASE DieRevoking(c) BY <2>10 DEF DieRevoking
  <2> QED BY <1>4, <2>1, <2>2, <2>3, <2>4, <2>5, <2>6, <2>7, <2>8, <2>9, <2>10 DEF Delete
<1>5. ASSUME NEW w \in Slots, Work(w) PROVE CanceledIsUndelivered'
  <2>1. ASSUME NEW k \in Keys, Take(w, k) PROVE CanceledIsUndelivered'
        BY <2>1 DEF Take
  <2>2. CASE Train(w) \/ MarkTraining(w) BY <2>2 DEF Train, MarkTraining
  <2>3. CASE Host(w) BY <2>3 DEF Host
  <2>4. CASE HostFails(w) BY <2>4 DEF HostFails
  <2>5. CASE Persist(w) BY <2>5 DEF Persist
  <2>6. CASE PersistFails(w) BY <2>6 DEF PersistFails
  <2>7. CASE Discard(w) BY <2>7 DEF Discard
  <2>8. CASE FailProfile(w) BY <2>8 DEF FailProfile
  <2>9. CASE MarkFailed(w)
    <3>1. job[w] \in Keys \ Trainings
          BY <2>9 DEF MarkFailed
    <3>2. PICK s \in {"FAILED", "QUEUED"} : status' = [status EXCEPT ![job[w]] = s]
          BY <2>9 DEF MarkFailed
    <3>3. seen' = seen /\ \A c \in Revokers : pc'[c] = pc[c]
          BY ZenonT(60), <2>9 DEF MarkFailed
    <3> QED BY <2>9, <3>1, <3>2, <3>3
  <2>10. CASE Settle(w) BY <2>10 DEF Settle
  <2>11. CASE Tail(w) BY <2>11 DEF Tail
  <2>12. CASE LoseLock(w) BY <2>12 DEF LoseLock
  <2>13. CASE Crash(w) BY <2>13 DEF Crash
  <2> QED BY <1>5, <2>1, <2>2, <2>3, <2>4, <2>5, <2>6, <2>7, <2>8, <2>9, <2>10, <2>11, <2>12,
             <2>13 DEF Work
<1>6. ASSUME NEW k \in Keys, RefundFailed(k) PROVE CanceledIsUndelivered'
      BY <1>6 DEF RefundFailed
<1>7. CASE UNCHANGED vars
      BY <1>7 DEF vars
<1> QED BY <1>1, <1>2, <1>3, <1>4, <1>5, <1>6, <1>7 DEF Next

\* A DELETE reverses only what it found canceled.
LEMMA ReversedIsUndeliveredStays ==
    ASSUME JobsOK, MakersOK, RevokersOK, CallsHaveKeys, RoutesKeepApart, SlotsHaveSetups,
           QueueHoldsSetups, SnapshotIsComplete, JobsHaveCharges, CanceledIsUndelivered,
           ReversedIsUndelivered, [Next]_vars
    PROVE  ReversedIsUndelivered'
<1> USE VoiceAssumption DEF JobsOK, MakersOK, RevokersOK, CallsHaveKeys, RoutesKeepApart,
        SlotsHaveSetups, QueueHoldsSetups, SnapshotIsComplete, JobsHaveCharges,
        CanceledIsUndelivered, ReversedIsUndelivered, Actors, Undelivered, Begin,
        CreateProfile, Idling, SetStatus, Insert, Reverse, profiles, jobs, past
<1>1. ASSUME NEW c \in Makers, SetUp(c) PROVE ReversedIsUndelivered'
      BY <1>1 DEF SetUp, BeginSetup, ReplaySetup, InsertProfile, InsertProfileFails, Invoke,
         InvokeFails, CreateJob, CreateJobFails, DropProfile,
         DropProfileFails, Recheck
<1>2. ASSUME NEW c \in Makers, StartTraining(c) PROVE ReversedIsUndelivered'
      BY <1>2 DEF StartTraining, BeginTraining, ReplayTraining, Audit, AuditFails,
         InsertTraining, InsertTrainingFails, InvokeTraining, Kickoff, KickoffFails, Store,
         CancelTraining, CancelTrainingFails, Queued, Report, FailJob, BlameProfile, Poll
<1>3. ASSUME NEW c \in Makers,
             Statement(c) \/ DieMaking(c) \/ Clean(c)
             PROVE ReversedIsUndelivered'
      BY <1>3 DEF Statement, Statements, CancelJob, RemoveJob, ReverseCharge, StatementFails,
         DieMaking, Clean, CleanRead, CleanUp, CleanUpFails, WriteBack, Queued
<1>4. ASSUME NEW c \in Revokers, Delete(c) PROVE ReversedIsUndelivered'
  <2>1. CASE Revoke(c) BY <2>1 DEF Revoke
  <2>2. CASE ReadProfiles(c) BY <2>2 DEF ReadProfiles
  <2>3. CASE ReadJobs(c) BY <2>3 DEF ReadJobs
  <2>4. CASE Commit(c) BY <2>4 DEF Commit
  <2>5. CASE ReadCanceled(c) BY <2>5 DEF ReadCanceled
  <2>6. ASSUME NEW k \in Keys, RefundCanceled(c, k) PROVE ReversedIsUndelivered'
        BY <2>6 DEF RefundCanceled
  <2>7. ASSUME NEW k \in Keys, RefundFails(c, k) PROVE ReversedIsUndelivered'
        BY <2>7 DEF RefundFails
  <2>8. ASSUME NEW failing \in SUBSET Makers, TakeDownAll(c, failing)
               PROVE ReversedIsUndelivered'
        BY <2>8 DEF TakeDownAll
  <2>9. ASSUME NEW p \in Makers, Record(c, p) PROVE ReversedIsUndelivered'
        BY <2>9 DEF Record, Queued
  <2>10. CASE DieRevoking(c) BY <2>10 DEF DieRevoking
  <2> QED BY <1>4, <2>1, <2>2, <2>3, <2>4, <2>5, <2>6, <2>7, <2>8, <2>9, <2>10 DEF Delete
<1>5. ASSUME NEW w \in Slots, Work(w) PROVE ReversedIsUndelivered'
  <2>1. ASSUME NEW k \in Keys, Take(w, k) PROVE ReversedIsUndelivered'
        BY <2>1 DEF Take
  <2>2. CASE Train(w) \/ MarkTraining(w) BY <2>2 DEF Train, MarkTraining
  <2>3. CASE Host(w) BY <2>3 DEF Host
  <2>4. CASE HostFails(w) BY <2>4 DEF HostFails
  <2>5. CASE Persist(w) BY <2>5 DEF Persist
  <2>6. CASE PersistFails(w) BY <2>6 DEF PersistFails
  <2>7. CASE Discard(w) BY <2>7 DEF Discard
  <2>8. CASE FailProfile(w) BY <2>8 DEF FailProfile
  <2>9. CASE MarkFailed(w)
    <3>1. job[w] \in Keys \ Trainings
          BY <2>9 DEF MarkFailed
    <3>2. PICK s \in {"FAILED", "QUEUED"} : status' = [status EXCEPT ![job[w]] = s]
          BY <2>9 DEF MarkFailed
    <3>3. UNCHANGED <<charge, revoked, withdrawn>>
          BY <2>9 DEF MarkFailed
    <3> QED BY <2>9, <3>1, <3>2, <3>3
  <2>10. CASE Settle(w) BY <2>10 DEF Settle
  <2>11. CASE Tail(w) BY <2>11 DEF Tail
  <2>12. CASE LoseLock(w) BY <2>12 DEF LoseLock
  <2>13. CASE Crash(w) BY <2>13 DEF Crash
  <2> QED BY <1>5, <2>1, <2>2, <2>3, <2>4, <2>5, <2>6, <2>7, <2>8, <2>9, <2>10, <2>11, <2>12,
             <2>13 DEF Work
<1>6. ASSUME NEW k \in Keys, RefundFailed(k) PROVE ReversedIsUndelivered'
      BY <1>6 DEF RefundFailed
<1>7. CASE UNCHANGED vars
      BY <1>7 DEF vars
<1> QED BY <1>1, <1>2, <1>3, <1>4, <1>5, <1>6, <1>7 DEF Next

-----------------------------------------------------------------------------
(***************************************************************************)
(* What is called off is paid back: a settled debt stays settled, a debtor *)
(* stays one until it is, and a step that calls a job off leaves it with a *)
(* debtor.                                                                 *)
(***************************************************************************)
SettledStays == \A k \in Keys : Settled(k) => Settled(k)'

\* Nothing takes a reversal back.
LEMMA SettledRemain ==
    ASSUME JobsOK, RevokersOK, MakersOK, [Next]_vars
    PROVE  SettledStays
<1> USE VoiceAssumption DEF JobsOK, RevokersOK, MakersOK, Settled, Begin, Reverse, profiles,
        jobs, past, SettledStays
<1>1. ASSUME NEW c \in Makers, SetUp(c) PROVE SettledStays
      BY <1>1 DEF SetUp, BeginSetup, ReplaySetup, InsertProfile, InsertProfileFails, Invoke,
         InvokeFails, CreateJob, CreateJobFails, DropProfile,
         DropProfileFails, Recheck
<1>2. ASSUME NEW c \in Makers, StartTraining(c) PROVE SettledStays
      BY <1>2 DEF StartTraining, BeginTraining, ReplayTraining, Audit, AuditFails,
         InsertTraining, InsertTrainingFails, InvokeTraining, Kickoff, KickoffFails, Store,
         CancelTraining, CancelTrainingFails, Queued, Report, FailJob, BlameProfile, Poll
<1>3. ASSUME NEW c \in Makers,
             Statement(c) \/ DieMaking(c) \/ Clean(c) PROVE SettledStays
      BY <1>3 DEF Statement, Statements, CancelJob, RemoveJob, ReverseCharge, StatementFails,
         DieMaking, Clean, CleanRead, CleanUp, CleanUpFails, WriteBack, Queued
<1>4. ASSUME NEW c \in Revokers, Delete(c) PROVE SettledStays
  <2>1. CASE Revoke(c) BY <2>1 DEF Revoke
  <2>2. CASE ReadProfiles(c) BY <2>2 DEF ReadProfiles
  <2>3. CASE ReadJobs(c) BY <2>3 DEF ReadJobs
  <2>4. CASE Commit(c) BY <2>4 DEF Commit
  <2>5. CASE ReadCanceled(c) BY <2>5 DEF ReadCanceled
  <2>6. ASSUME NEW k \in Keys, RefundCanceled(c, k) PROVE SettledStays
        BY <2>6 DEF RefundCanceled
  <2>7. ASSUME NEW k \in Keys, RefundFails(c, k) PROVE SettledStays
        BY <2>7 DEF RefundFails
  <2>8. ASSUME NEW failing \in SUBSET Makers, TakeDownAll(c, failing) PROVE SettledStays
        BY <2>8 DEF TakeDownAll
  <2>9. ASSUME NEW p \in Makers, Record(c, p) PROVE SettledStays
        BY <2>9 DEF Record, Queued
  <2>10. CASE DieRevoking(c) BY <2>10 DEF DieRevoking
  <2> QED BY <1>4, <2>1, <2>2, <2>3, <2>4, <2>5, <2>6, <2>7, <2>8, <2>9, <2>10 DEF Delete
<1>5. ASSUME NEW w \in Slots, Work(w) PROVE SettledStays
      BY <1>5 DEF Work, Take, Train, MarkTraining, Host, HostFails, Persist, PersistFails, Discard,
         FailProfile, MarkFailed, Settle, Tail, LoseLock, Crash
<1>6. ASSUME NEW k \in Keys, RefundFailed(k) PROVE SettledStays
      BY <1>6 DEF RefundFailed
<1>7. CASE UNCHANGED vars
      BY <1>7 DEF vars
<1> QED BY <1>1, <1>2, <1>3, <1>4, <1>5, <1>6, <1>7 DEF Next

\* A statement other than the reversal leaves the others in flight.
LEMMA OthersStay ==
    ASSUME VoiceAssumption, pc \in [Actors -> CallPcs \cup SlotPcs],
           todo \in [Makers -> SUBSET Statements],
           NEW c \in Makers, NEW what, what # "refund", Done(c, what),
           NEW d \in Makers, pc[d] = "giving up", "refund" \in todo[d]
    PROVE  pc'[d] = "giving up" /\ "refund" \in todo'[d]
<1>1. "refund" \in todo'[d]
      BY DEF Done
<1>2. todo[d] # {what}
      OBVIOUS
<1>3. PICK l : Goto(c, l) /\ (todo[c] # {what} => l = "giving up")
      BY DEF Done
<1>4. pc' = [pc EXCEPT ![c] = l]
      BY <1>3 DEF Goto
<1>5. d \in Actors
      BY DEF Actors
<1>6. CASE d = c
      BY <1>1, <1>2, <1>3, <1>4, <1>5, <1>6
<1>7. CASE d # c
      BY <1>1, <1>4, <1>5, <1>7
<1> QED BY <1>1, <1>6, <1>7

MakersStay == \A c \in Makers, k \in Keys : Maker(c, k) => Maker(c, k)' \/ Settled(k)'

\* A call gives the reversal up only by making it, or it is stranded.
LEMMA MakersRemain ==
    ASSUME PlacesOK, JobsOK, MakersOK, CallsHaveKeys, [Next]_vars
    PROVE  MakersStay
<1> USE VoiceAssumption DEF PlacesOK, JobsOK, MakersOK, CallsHaveKeys, Actors, Settled,
        Maker, MakersStay, Goto, GiveUp, Leave, Begin, Reverse, profiles, jobs, past, locals
<1>1. ASSUME NEW c \in Makers, SetUp(c) PROVE MakersStay
      BY <1>1 DEF SetUp, BeginSetup, ReplaySetup, InsertProfile, InsertProfileFails, Invoke,
         InvokeFails, CreateJob, CreateJobFails, DropProfile,
         DropProfileFails, Recheck
<1>2. ASSUME NEW c \in Makers, StartTraining(c) PROVE MakersStay
  <2>1. ASSUME NEW k \in Keys, BeginTraining(c, k) PROVE MakersStay
        BY <2>1 DEF BeginTraining
  <2>2. CASE ReplayTraining(c) BY <2>2 DEF ReplayTraining
  <2>3. CASE Audit(c) BY <2>3 DEF Audit
  <2>4. CASE AuditFails(c) BY <2>4 DEF AuditFails
  <2>5. CASE InsertTraining(c) BY <2>5 DEF InsertTraining
  <2>6. CASE InsertTrainingFails(c) BY <2>6 DEF InsertTrainingFails
  <2>7. CASE InvokeTraining(c) BY <2>7 DEF InvokeTraining
  <2>8. CASE Kickoff(c) BY <2>8 DEF Kickoff
  <2>9. CASE KickoffFails(c) BY <2>9 DEF KickoffFails
  <2>10. CASE Store(c) BY <2>10 DEF Store
  <2>11. CASE CancelTraining(c) BY <2>11 DEF CancelTraining
  <2>12. CASE CancelTrainingFails(c) BY <2>12 DEF CancelTrainingFails, Queued
  <2>13. CASE Report(c) BY <2>13 DEF Report
  <2>14. CASE FailJob(c)
    <3>1. PICK what : what # "refund" /\ Done(c, what)
          BY <2>14 DEF FailJob
    <3>2. \A d \in Makers : pc[d] = "giving up" /\ "refund" \in todo[d] =>
              pc'[d] = "giving up" /\ "refund" \in todo'[d]
          BY <2>14, <3>1, OthersStay
    <3>3. key' = key
          BY <2>14 DEF FailJob
    <3> QED BY <2>14, <3>2, <3>3 DEF MakersStay, Maker
  <2>15. CASE BlameProfile(c)
    <3>1. PICK what : what # "refund" /\ Done(c, what)
          BY <2>15 DEF BlameProfile
    <3>2. \A d \in Makers : pc[d] = "giving up" /\ "refund" \in todo[d] =>
              pc'[d] = "giving up" /\ "refund" \in todo'[d]
          BY <2>15, <3>1, OthersStay
    <3>3. key' = key
          BY <2>15 DEF BlameProfile
    <3> QED BY <2>15, <3>2, <3>3 DEF MakersStay, Maker
  <2>16. ASSUME NEW result \in {"READY", "FAILED"}, Poll(c, result) PROVE MakersStay
        BY <2>16 DEF Poll
  <2> QED BY <1>2, <2>1, <2>2, <2>3, <2>4, <2>5, <2>6, <2>7, <2>8, <2>9, <2>10, <2>11, <2>12,
             <2>13, <2>14, <2>15, <2>16 DEF StartTraining
<1>3. ASSUME NEW c \in Makers,
             Statement(c) \/ DieMaking(c) \/ Clean(c) PROVE MakersStay
  <2>1. CASE CancelJob(c)
    <3>1. PICK what : what # "refund" /\ Done(c, what)
          BY <2>1 DEF CancelJob
    <3>2. \A d \in Makers : pc[d] = "giving up" /\ "refund" \in todo[d] =>
              pc'[d] = "giving up" /\ "refund" \in todo'[d]
          BY <2>1, <3>1, OthersStay
    <3>3. key' = key
          BY <2>1 DEF CancelJob
    <3> QED BY <2>1, <3>2, <3>3 DEF MakersStay, Maker
  <2>2. CASE RemoveJob(c)
    <3>1. PICK what : what # "refund" /\ Done(c, what)
          BY <2>2 DEF RemoveJob
    <3>2. \A d \in Makers : pc[d] = "giving up" /\ "refund" \in todo[d] =>
              pc'[d] = "giving up" /\ "refund" \in todo'[d]
          BY <2>2, <3>1, OthersStay
    <3>3. key' = key
          BY <2>2 DEF RemoveJob
    <3> QED BY <2>2, <3>2, <3>3 DEF MakersStay, Maker
  <2>3. CASE ReverseCharge(c)
    <3> QED BY <2>3 DEF ReverseCharge, Done
  <2>4. ASSUME NEW what \in Statements, StatementFails(c, what) PROVE MakersStay
    <3> QED BY ZenonT(60), <2>4 DEF StatementFails, Done
  <2>5. CASE DieMaking(c) BY <2>5 DEF DieMaking
  <2>6. CASE Clean(c) BY <2>6 DEF Clean, CleanRead, CleanUp, CleanUpFails, WriteBack, Queued
  <2> QED BY <1>3, <2>1, <2>2, <2>3, <2>4, <2>5, <2>6 DEF Statement, Statements
<1>4. ASSUME NEW c \in Revokers, Delete(c) PROVE MakersStay
      BY <1>4 DEF Delete, Revoke, ReadProfiles, ReadJobs, Commit, ReadCanceled,
         RefundCanceled, RefundFails, TakeDownAll, Record, Queued, DieRevoking
<1>5. ASSUME NEW w \in Slots, Work(w) PROVE MakersStay
      BY <1>5 DEF Work, Take, Train, MarkTraining, Host, HostFails, Persist, PersistFails, Discard,
         FailProfile, MarkFailed, Settle, Tail, LoseLock, Crash
<1>6. ASSUME NEW k \in Keys, RefundFailed(k) PROVE MakersStay
      BY <1>6 DEF RefundFailed
<1>7. CASE UNCHANGED vars
      BY <1>7 DEF vars
<1> QED BY <1>1, <1>2, <1>3, <1>4, <1>5, <1>6, <1>7 DEF Next

RevokersStay == \A c \in Revokers, k \in Keys :
                    Revoker(c, k) /\ status[k] = "CANCELED" => Revoker(c, k)' \/ Settled(k)'

\* So does a DELETE, about the jobs it canceled.
LEMMA RevokersRemain ==
    ASSUME PlacesOK, JobsOK, RevokersOK, JobsHaveCharges, [Next]_vars
    PROVE  RevokersStay
<1> USE VoiceAssumption DEF PlacesOK, JobsOK, RevokersOK, JobsHaveCharges, Actors, Settled,
        Revoker, Goto, GiveUp, Done, Leave, Begin, Reverse, profiles, jobs, past, locals,
        RevokersStay
<1>1. ASSUME NEW c \in Makers, SetUp(c) PROVE RevokersStay
      BY <1>1 DEF SetUp, BeginSetup, ReplaySetup, InsertProfile, InsertProfileFails, Invoke,
         InvokeFails, CreateJob, CreateJobFails, DropProfile,
         DropProfileFails, Recheck
<1>2. ASSUME NEW c \in Makers, StartTraining(c) PROVE RevokersStay
      BY <1>2 DEF StartTraining, BeginTraining, ReplayTraining, Audit, AuditFails,
         InsertTraining, InsertTrainingFails, InvokeTraining, Kickoff, KickoffFails, Store,
         CancelTraining, CancelTrainingFails, Queued, Report, FailJob, BlameProfile, Poll
<1>3. ASSUME NEW c \in Makers,
             Statement(c) \/ DieMaking(c) \/ Clean(c) PROVE RevokersStay
      BY <1>3 DEF Statement, Statements, CancelJob, RemoveJob, ReverseCharge, StatementFails,
         DieMaking, Clean, CleanRead, CleanUp, CleanUpFails, WriteBack, Queued
<1>4. ASSUME NEW c \in Revokers, Delete(c) PROVE RevokersStay
  <2>1. CASE Revoke(c) BY <2>1 DEF Revoke
  <2>2. CASE ReadProfiles(c) BY <2>2 DEF ReadProfiles
  <2>3. CASE ReadJobs(c) BY <2>3 DEF ReadJobs
  <2>4. CASE Commit(c) BY <2>4 DEF Commit
  <2>5. CASE ReadCanceled(c) BY <2>5 DEF ReadCanceled
  <2>6. ASSUME NEW k \in Keys, RefundCanceled(c, k) PROVE RevokersStay
        BY <2>6 DEF RefundCanceled
  <2>7. ASSUME NEW k \in Keys, RefundFails(c, k) PROVE RevokersStay
        BY <2>7 DEF RefundFails
  <2>8. ASSUME NEW failing \in SUBSET Makers, TakeDownAll(c, failing) PROVE RevokersStay
        BY <2>8 DEF TakeDownAll
  <2>9. ASSUME NEW p \in Makers, Record(c, p) PROVE RevokersStay
        BY <2>9 DEF Record, Queued
  <2>10. CASE DieRevoking(c) BY <2>10 DEF DieRevoking
  <2> QED BY <1>4, <2>1, <2>2, <2>3, <2>4, <2>5, <2>6, <2>7, <2>8, <2>9, <2>10 DEF Delete
<1>5. ASSUME NEW w \in Slots, Work(w) PROVE RevokersStay
      BY ZenonT(60), <1>5 DEF Work, Take, Train, MarkTraining, Host, HostFails, Persist,
         PersistFails, Discard, FailProfile, MarkFailed, Settle, Tail, LoseLock, Crash
<1>6. ASSUME NEW k \in Keys, RefundFailed(k) PROVE RevokersStay
      BY <1>6 DEF RefundFailed
<1>7. CASE UNCHANGED vars
      BY <1>7 DEF vars
<1> QED BY <1>1, <1>2, <1>3, <1>4, <1>5, <1>6, <1>7 DEF Next

CallsOffAt(k) ==
    /\ status'[k] = "CANCELED" => \/ status[k] = "CANCELED" \/ Settled(k)'
                                  \/ \E c \in Makers : Maker(c, k)'
                                  \/ \E c \in Revokers : Revoker(c, k)'
    /\ k \in Trainings /\ status'[k] = "FAILED" => \/ status[k] = "FAILED" \/ Settled(k)'
                                                   \/ \E c \in Makers : Maker(c, k)'

CallsOff == \A k \in Keys : CallsOffAt(k)

\* Who calls a job off has the reversal to do as well.
LEMMA OnlyOwedIsCalledOff ==
    ASSUME PlacesOK, JobsOK, MakersOK, RevokersOK, CallsHaveKeys, SlotsHaveSetups,
           GivingUpRefunds, [Next]_vars
    PROVE  CallsOff
<1> USE VoiceAssumption DEF PlacesOK, JobsOK, MakersOK, RevokersOK, CallsHaveKeys,
        SlotsHaveSetups, GivingUpRefunds, Actors, Settled, Maker, Revoker, Goto, Insert,
        SetStatus, Idling, Begin, Reverse, profiles, jobs, past, locals, CallsOff, CallsOffAt
<1>1. ASSUME NEW c \in Makers, SetUp(c) PROVE CallsOff
  <2>1. ASSUME NEW k \in Keys, BeginSetup(c, k) PROVE CallsOff
        BY <2>1 DEF BeginSetup
  <2>2. CASE ReplaySetup(c) BY <2>2 DEF ReplaySetup
  <2>3. CASE InsertProfile(c) BY <2>3 DEF InsertProfile
  <2>4. CASE InsertProfileFails(c) BY <2>4 DEF InsertProfileFails
  <2>5. CASE Invoke(c) BY <2>5 DEF Invoke
  <2>6. CASE InvokeFails(c) BY <2>6 DEF InvokeFails
  <2>7. CASE CreateJob(c)
    <3>1. CASE Insert(c, key[c])
          BY <2>7, <3>1 DEF CreateJob
    <3>2. CASE UNCHANGED <<status, madeFor, waiting>>
          BY <2>7, <3>2 DEF CreateJob
    <3> QED BY <2>7, <3>1, <3>2 DEF CreateJob
  <2>8. CASE CreateJobFails(c)
    <3>1. CASE Insert(c, key[c]) /\ UNCHANGED <<charge, withdrawn>>
          BY <2>8, <3>1 DEF CreateJobFails
    <3>2. CASE Reverse(key[c]) /\ UNCHANGED <<status, madeFor, waiting>>
          BY <2>8, <3>2 DEF CreateJobFails
    <3> QED BY <2>8, <3>1, <3>2 DEF CreateJobFails
  <2>9. CASE DropProfile(c) \/ DropProfileFails(c) BY <2>9 DEF DropProfile, DropProfileFails
  <2>10. CASE Recheck(c) BY <2>10 DEF Recheck
  <2> QED BY <1>1, <2>1, <2>2, <2>3, <2>4, <2>5, <2>6, <2>7, <2>8, <2>9, <2>10 DEF SetUp
<1>2. ASSUME NEW c \in Makers, StartTraining(c) PROVE CallsOff
  <2>1. ASSUME NEW k \in Keys, BeginTraining(c, k) PROVE CallsOff
        BY <2>1 DEF BeginTraining
  <2>2. CASE ReplayTraining(c) BY <2>2 DEF ReplayTraining
  <2>3. CASE Audit(c)
    <3>1. key[c] \in Keys
          BY <2>3 DEF Audit
    <3>2. status' = status \/ \E s \in {"RUNNING"} : status' = [status EXCEPT ![key[c]] = s]
          BY <2>3, <3>1 DEF Audit
    <3>3. \A k \in Keys : status'[k] \in {"CANCELED", "FAILED"} => status[k] = status'[k]
          BY <2>3, <3>1, <3>2
    <3> QED BY <2>3, <3>3 DEF CallsOff, CallsOffAt
  <2>4. CASE AuditFails(c) BY <2>4 DEF AuditFails
  <2>5. CASE InsertTraining(c) BY <2>5 DEF InsertTraining
  <2>6. CASE InsertTrainingFails(c) BY <2>6 DEF InsertTrainingFails
  <2>7. CASE InvokeTraining(c) BY <2>7 DEF InvokeTraining
  <2>8. CASE Kickoff(c) BY <2>8 DEF Kickoff
  <2>9. CASE KickoffFails(c) BY <2>9 DEF KickoffFails
  <2>10. CASE Store(c) BY <2>10 DEF Store
  <2>11. CASE CancelTraining(c) BY <2>11 DEF CancelTraining
  <2>12. CASE CancelTrainingFails(c) BY <2>12 DEF CancelTrainingFails, Queued
  <2>13. CASE Report(c)
    <3>1. key[c] \in Keys
          BY <2>13 DEF Report
    <3>2. status' = status \/ \E s \in {"SUCCEEDED"} : status' = [status EXCEPT ![key[c]] = s]
          BY <2>13, <3>1 DEF Report
    <3>3. \A k \in Keys : status'[k] \in {"CANCELED", "FAILED"} => status[k] = status'[k]
          BY <2>13, <3>1, <3>2
    <3> QED BY <2>13, <3>3 DEF CallsOff, CallsOffAt
  <2>14. CASE FailJob(c)
    <3>1. key[c] \in Keys /\ pc[c] = "giving up" /\ Done(c, "fail") /\ key' = key
          BY <2>14 DEF FailJob, Done
    <3>2. CASE status' = status
          BY <2>14, <3>2 DEF CallsOff, CallsOffAt
    <3>3. CASE status' = [status EXCEPT ![key[c]] = "FAILED"]
      <4>1. UNCHANGED <<charge, stranded>>
            BY <2>14 DEF FailJob
      <4>2. "refund" \in todo[c] => pc'[c] = "giving up" /\ "refund" \in todo'[c]
            BY <2>14, <3>1, OthersStay
      <4>4. \A k \in Keys \ {key[c]} : status'[k] = status[k]
            BY <2>14, <3>3
      <4>5. status'[key[c]] = "FAILED"
            BY <2>14, <3>1, <3>3
      <4> SUFFICES ASSUME NEW k \in Keys PROVE CallsOffAt(k)
            BY <2>14 DEF CallsOff
      <4>6. CASE k = key[c]
        <5>1. Settled(k)' \/ Maker(c, k)'
              BY <2>14, <3>1, <4>1, <4>2, <4>6 DEF GivingUpRefunds, Settled, Maker
        <5> QED BY <2>14, <4>5, <4>6, <5>1 DEF CallsOffAt
      <4>7. CASE k # key[c]
            BY <2>14, <4>4, <4>7 DEF CallsOffAt
      <4> QED BY <2>14, <4>6, <4>7
    <3> QED BY <2>14, <3>2, <3>3 DEF FailJob
  <2>15. CASE BlameProfile(c) BY <2>15 DEF BlameProfile
  <2>16. ASSUME NEW result \in {"READY", "FAILED"}, Poll(c, result) PROVE CallsOff
        BY <2>16 DEF Poll
  <2> QED BY <1>2, <2>1, <2>2, <2>3, <2>4, <2>5, <2>6, <2>7, <2>8, <2>9, <2>10, <2>11, <2>12,
             <2>13, <2>14, <2>15, <2>16 DEF StartTraining
<1>3. ASSUME NEW c \in Makers,
             Statement(c) \/ DieMaking(c) \/ Clean(c) PROVE CallsOff
  <2>1. CASE CancelJob(c)
    <3>1. key[c] \in Keys /\ pc[c] = "giving up" /\ Done(c, "cancel") /\ key' = key
          BY <2>1 DEF CancelJob, Done
    <3>2. CASE status' = status
          BY <2>1, <3>2 DEF CallsOff, CallsOffAt
    <3>3. CASE status' = [status EXCEPT ![key[c]] = "CANCELED"]
      <4>1. UNCHANGED <<charge, stranded>>
            BY <2>1 DEF CancelJob
      <4>2. "refund" \in todo[c] => pc'[c] = "giving up" /\ "refund" \in todo'[c]
            BY <2>1, <3>1, OthersStay
      <4>4. \A k \in Keys \ {key[c]} : status'[k] = status[k]
            BY <2>1, <3>3
      <4>5. status'[key[c]] = "CANCELED"
            BY <2>1, <3>1, <3>3
      <4> SUFFICES ASSUME NEW k \in Keys PROVE CallsOffAt(k)
            BY <2>1 DEF CallsOff
      <4>6. CASE k = key[c]
        <5>1. Settled(k)' \/ Maker(c, k)'
              BY <2>1, <3>1, <4>1, <4>2, <4>6 DEF GivingUpRefunds, Settled, Maker
        <5> QED BY <2>1, <4>5, <4>6, <5>1 DEF CallsOffAt
      <4>7. CASE k # key[c]
            BY <2>1, <4>4, <4>7 DEF CallsOffAt
      <4> QED BY <2>1, <4>6, <4>7
    <3> QED BY <2>1, <3>2, <3>3 DEF CancelJob
  <2>2. CASE RemoveJob(c) BY <2>2 DEF RemoveJob
  <2>3. CASE ReverseCharge(c) BY <2>3 DEF ReverseCharge
  <2>4. ASSUME NEW what \in Statements, StatementFails(c, what) PROVE CallsOff
        BY <2>4 DEF StatementFails
  <2>5. CASE DieMaking(c) BY <2>5 DEF DieMaking
  <2>6. CASE Clean(c) BY <2>6 DEF Clean, CleanRead, CleanUp, CleanUpFails, WriteBack, Queued
  <2> QED BY <1>3, <2>1, <2>2, <2>3, <2>4, <2>5, <2>6 DEF Statement, Statements
<1>4. ASSUME NEW c \in Revokers, Delete(c) PROVE CallsOff
  <2>1. CASE Revoke(c) BY <2>1 DEF Revoke
  <2>2. CASE ReadProfiles(c) BY <2>2 DEF ReadProfiles
  <2>3. CASE ReadJobs(c) BY <2>3 DEF ReadJobs
  <2>4. CASE Commit(c) BY <2>4 DEF Commit
  <2>5. CASE ReadCanceled(c) BY <2>5 DEF ReadCanceled
  <2>6. ASSUME NEW k \in Keys, RefundCanceled(c, k) PROVE CallsOff
        BY <2>6 DEF RefundCanceled
  <2>7. ASSUME NEW k \in Keys, RefundFails(c, k) PROVE CallsOff
        BY <2>7 DEF RefundFails
  <2>8. ASSUME NEW failing \in SUBSET Makers, TakeDownAll(c, failing) PROVE CallsOff
        BY <2>8 DEF TakeDownAll
  <2>9. ASSUME NEW p \in Makers, Record(c, p) PROVE CallsOff
        BY <2>9 DEF Record, Queued
  <2>10. CASE DieRevoking(c) BY <2>10 DEF DieRevoking
  <2> QED BY <1>4, <2>1, <2>2, <2>3, <2>4, <2>5, <2>6, <2>7, <2>8, <2>9, <2>10 DEF Delete
<1>5. ASSUME NEW w \in Slots, Work(w) PROVE CallsOff
  <2>1. ASSUME NEW k \in Keys, Take(w, k) PROVE CallsOff
        BY <2>1 DEF Take
  <2>2. CASE Train(w) \/ MarkTraining(w) BY <2>2 DEF Train, MarkTraining
  <2>3. CASE Host(w) BY <2>3 DEF Host
  <2>4. CASE HostFails(w) BY <2>4 DEF HostFails
  <2>5. CASE Persist(w)
    <3>1. job[w] \in Keys
          BY <2>5 DEF Persist
    <3>2. status' = status \/ \E s \in {"SUCCEEDED"} : status' = [status EXCEPT ![job[w]] = s]
          BY <2>5, <3>1 DEF Persist
    <3>3. \A k \in Keys : status'[k] \in {"CANCELED", "FAILED"} => status[k] = status'[k]
          BY <2>5, <3>1, <3>2
    <3> QED BY <2>5, <3>3 DEF CallsOff, CallsOffAt
  <2>6. CASE PersistFails(w) BY <2>6 DEF PersistFails
  <2>7. CASE Discard(w) BY <2>7 DEF Discard
  <2>8. CASE FailProfile(w) BY <2>8 DEF FailProfile
  <2>9. CASE MarkFailed(w) BY ZenonT(60), <2>9 DEF MarkFailed
  <2>10. CASE Settle(w) BY <2>10 DEF Settle
  <2>11. CASE Tail(w)
    <3>1. job[w] \in Keys
          BY <2>11 DEF Tail
    <3>2. status' = status \/ \E s \in {"QUEUED"} : status' = [status EXCEPT ![job[w]] = s]
          BY <2>11, <3>1 DEF Tail
    <3>3. \A k \in Keys : status'[k] \in {"CANCELED", "FAILED"} => status[k] = status'[k]
          BY <2>11, <3>1, <3>2
    <3> QED BY <2>11, <3>3 DEF CallsOff, CallsOffAt
  <2>12. CASE LoseLock(w) BY <2>12 DEF LoseLock
  <2>13. CASE Crash(w) BY <2>13 DEF Crash
  <2> QED BY <1>5, <2>1, <2>2, <2>3, <2>4, <2>5, <2>6, <2>7, <2>8, <2>9, <2>10, <2>11, <2>12,
             <2>13 DEF Work
<1>6. ASSUME NEW k \in Keys, RefundFailed(k) PROVE CallsOff
      BY <1>6 DEF RefundFailed
<1>7. CASE UNCHANGED vars
      BY <1>7 DEF vars
<1> QED BY <1>1, <1>2, <1>3, <1>4, <1>5, <1>6, <1>7 DEF Next

LEMMA RefundingStays ==
    ASSUME SettledStays, MakersStay, RevokersStay, CallsOff, Refunding PROVE Refunding'
<1> SUFFICES ASSUME NEW k \in Keys
             PROVE  /\ status'[k] = "CANCELED" => \/ Settled(k)'
                                                  \/ \E c \in Makers : Maker(c, k)'
                                                  \/ \E c \in Revokers : Revoker(c, k)'
                    /\ status'[k] = "FAILED" /\ k \in Trainings =>
                           Settled(k)' \/ \E c \in Makers : Maker(c, k)'
    BY DEF Refunding
<1>1. CASE status[k] = status'[k]
      BY <1>1 DEF SettledStays, MakersStay, RevokersStay, Refunding
<1>2. CASE status[k] # status'[k]
      BY <1>2 DEF CallsOff, CallsOffAt
<1> QED BY <1>1, <1>2

-----------------------------------------------------------------------------
(***************************************************************************)
(* The invariant and the theorems.                                         *)
(***************************************************************************)
LEMMA RefundInit == Init => RefundInv
<1> SUFFICES ASSUME Init PROVE RefundInv
    OBVIOUS
<1>1. VoiceInv
      BY VoiceInit
<1>2. GivingUpRefunds /\ CanceledIsUndelivered
      BY VoiceAssumption DEF Init, GivingUpRefunds, CanceledIsUndelivered, Actors
<1>3. ReversedIsUndelivered /\ Refunding
      BY DEF Init, ReversedIsUndelivered, Refunding
<1> QED BY <1>1, <1>2, <1>3 DEF RefundInv

LEMMA RefundStep == RefundInv /\ [Next]_vars => RefundInv'
<1> SUFFICES ASSUME RefundInv, [Next]_vars PROVE RefundInv'
    OBVIOUS
<1>1. VoiceInv'
      BY VoiceStep DEF RefundInv
<1>2. GivingUpRefunds' /\ CanceledIsUndelivered' /\ ReversedIsUndelivered'
      BY GivingUpRefundsStays, CanceledIsUndeliveredStays, ReversedIsUndeliveredStays
      DEF RefundInv, VoiceInv, VoiceTypeOK
<1>3. SettledStays /\ MakersStay /\ RevokersStay /\ CallsOff
      BY SettledRemain, MakersRemain, RevokersRemain, OnlyOwedIsCalledOff
      DEF RefundInv, VoiceInv, VoiceTypeOK
<1>4. Refunding'
      BY <1>3, RefundingStays DEF RefundInv
<1> QED BY <1>1, <1>2, <1>4 DEF RefundInv

LEMMA RefundInvariant == Spec => []RefundInv
<1>1. Init => RefundInv BY RefundInit
<1>2. RefundInv /\ [Next]_vars => RefundInv' BY RefundStep
<1> QED BY <1>1, <1>2, PTL DEF Spec

\* The charge of a job that was called off is reversed, or a call that is still
\* there will do it, unless it died or failed at that (voices.ts:1977, 2007).
THEOREM CallingOffPaysBack == Spec => []CalledOffIsRefunded
<1>1. RefundInv => CalledOffIsRefunded
      BY DEF RefundInv, Refunding, Settled, Maker, Revoker, CalledOffIsRefunded, CalledOff, Owed
<1> QED BY <1>1, RefundInvariant, PTL

\* A revocation takes back no charge of a voice that was delivered, however late
\* the delivery is (voices.ts:1977).
THEOREM DeliveryStaysCharged == Spec => []DeliveredIsCharged
<1>1. RefundInv => DeliveredIsCharged
  <2> SUFFICES ASSUME RefundInv, NEW k \in Keys \ withdrawn, status[k] = "SUCCEEDED"
               PROVE  charge[k] = "held"
      BY DEF DeliveredIsCharged
  <2>1. charge[k] # "none"
        BY DEF RefundInv, VoiceInv, JobsHaveCharges
  <2>2. charge[k] # "reversed"
        BY DEF RefundInv, ReversedIsUndelivered, Undelivered
  <2> QED BY <2>1, <2>2 DEF RefundInv, VoiceInv, VoiceTypeOK, JobsOK
<1> QED BY <1>1, RefundInvariant, PTL
=============================================================================
