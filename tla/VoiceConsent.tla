---------------------------- MODULE VoiceConsent ----------------------------
(***************************************************************************)
(* All that goes on under one consent: voices are set up and trained while *)
(* it is revoked. The properties are what the revocation owes the singer   *)
(* and the workspace: nothing comes to life after it, nothing that was     *)
(* made is forgotten at a provider, and what it calls off is paid back.    *)
(***************************************************************************)
EXTENDS VoiceSetup, VoiceTraining

Next ==
    \/ \E c \in Makers : SetUp(c) \/ StartTraining(c) \/ Statement(c) \/ DieMaking(c)
                         \/ Clean(c)
    \/ \E c \in Revokers : Delete(c)
    \/ \E w \in Slots : Work(w)
    \/ \E k \in Keys : RefundFailed(k)

Spec == Init /\ [][Next]_vars
-----------------------------------------------------------------------------
Statuses   == {"none", "QUEUED", "RUNNING"} \cup Terminal
CallPcs    == {"idle", "replay", "profile", "invoke", "job", "drop", "recheck", "giving up",
               "audit", "kickoff", "store", "unstored", "report",
               "profiles", "jobs", "commit", "canceled", "refunds", "record", "done"}
SlotPcs    == {"idle", "train", "mark", "call", "persist", "catch", "blame", "fail", "settle",
               "fail again", "tail"}
Statements == {"cancel", "remove", "refund", "fail", "blame"}

\* Every variable has its type: what a row, a call or a slot names was made at a
\* provider, and a job has no more attempts than BullMQ gives it.
PlacesOK ==
    /\ pc \in [Actors -> CallPcs \cup SlotPcs]
    /\ held \in [Makers \cup Slots -> made \cup {None}]

LeftOK == left \in [attempts : Nat \ {0}, faults : Nat, locks : Nat]

ProfilesOK ==
    /\ revoked \in BOOLEAN
    /\ profile \in [Makers -> Gone \cup Usable \cup {"FAILED", "REVOKED"}]
    /\ voice \in [Makers -> made \cup {None}]
    /\ record \in [Makers -> made \cup {None}]

JobsOK ==
    /\ charge \in [Keys -> {"none", "held", "reversed"}]
    /\ status \in [Keys -> Statuses]
    /\ madeFor \in [Keys -> Makers \cup {None}]
    /\ waiting \in [Keys -> BOOLEAN]
    /\ holder \in [Keys -> Slots \cup {None}]
    /\ tries \in [Keys -> Nat]
    /\ \A k \in Keys : tries[k] < left.attempts

HostsOK == /\ made \subseteq Artefacts /\ hosted \subseteq made
           /\ cleaning \subseteq [of : Makers, begun : BOOLEAN, knows : made \cup {None}]

MakersOK == key \in [Makers -> Keys \cup {None}] /\ todo \in [Makers -> SUBSET Statements]

RevokersOK ==
    /\ seen \in [Revokers -> SUBSET Keys]
    /\ plan \in [Revokers -> UNION {[ps -> made \cup {None}] : ps \in SUBSET Makers}]

SlotsOK == job \in [Slots -> Keys \cup {None}] /\ final \in [Slots -> BOOLEAN]

PastOK == lost \subseteq made /\ stranded \subseteq Keys /\ withdrawn \subseteq Keys

VoiceTypeOK ==
    /\ PlacesOK /\ LeftOK
    /\ ProfilesOK /\ JobsOK /\ HostsOK /\ MakersOK /\ RevokersOK /\ SlotsOK /\ PastOK

\* Once the consent is revoked no profile comes into being or gets ready, and
\* none is marked as in training but by a statement that was under way
\* (voice-profile.ts:181), whatever the routes and the worker read before
\* (voices.ts:590, voice-profile.ts:270, and docs/RESPONSIBLE_AI.md:8).
UnderWay(p) == \E w \in Slots : pc[w] = "mark" /\ madeFor[job[w]] = p

NothingAfterRevocation ==
    [][revoked => \A p \in Makers : profile'[p] # profile[p] =>
           \/ profile'[p] \in {"deleted", "FAILED", "REVOKED"}
           \/ profile'[p] = "TRAINING" /\ UnderWay(p)]_vars

\* A DELETE whose transaction has committed has revoked every profile there is:
\* "the following snapshot contains every committed child and no new authorized
\* child can be created" (voices.ts:1786).
Committed(c) == pc[c] \in {"canceled", "refunds", "record"}

RevocationIsComplete ==
    \A c \in Revokers : Committed(c) => \A p \in Makers : profile[p] \in Gone \cup {"REVOKED"}

\* What is at a provider is named by a profile, on record for the cleanup, or
\* with a call or slot that will store it or take it down, unless a crash, an
\* unheard answer or a failing deletion has lost it: no order of the making,
\* the storing and the revoking forgets a singer's voice at a provider.
Traced(x) ==
    \/ \E p \in Makers : voice[p] = x \/ record[p] = x
    \/ \E a \in Makers \cup Slots : held[a] = x

NothingForgotten == \A x \in hosted \ lost : Traced(x)

\* The charge of a job that was called off has been reversed, or will be by the
\* call that did it, unless that call died or its reversal failed.
CalledOff(k) == status[k] \in IF k \in Trainings THEN {"CANCELED", "FAILED"} ELSE {"CANCELED"}

Owed(k) ==
    \/ \E c \in Makers : key[c] = k /\ pc[c] = "giving up" /\ "refund" \in todo[c]
    \/ \E c \in Revokers : k \in seen[c] /\ pc[c] \in {"canceled", "refunds"}

CalledOffIsRefunded ==
    \A k \in Keys \ stranded : CalledOff(k) => charge[k] = "reversed" \/ Owed(k)

\* A revocation takes no charge back for a voice that was delivered, though jobs
\* end between the moment it reads them and the moment it refunds them. (The
\* refund of a failed job and VoiceSetup.Recheck do not look at the voice.)
DeliveredIsCharged ==
    \A k \in Keys \ withdrawn : status[k] = "SUCCEEDED" => charge[k] = "held"
=============================================================================
