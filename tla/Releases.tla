------------------------------ MODULE Releases ------------------------------
(***************************************************************************)
(* The release of one song: the edits of its metadata and cover, the       *)
(* submission of a staged revision to the distribution partner, the        *)
(* partner's signed events, and the first-party publication and takedown   *)
(* (apps/api/src/routes/release.ts, lib/distribution.ts, and the           *)
(* distributor route of routes/webhooks.ts). All transactions are under    *)
(* the lock of the song; what a handler reads before its transaction may   *)
(* be old by then.                                                         *)
(***************************************************************************)
EXTENDS Naturals, Sequences

CONSTANTS
    Slots,           \* API requests in flight at a time
    MaxRevision,     \* bound: updates of the Release row
    MaxMoves,        \* bound: statuses the partner gives one submission
    MaxTime,         \* bound: of the clock
    Faults           \* bound: requests that die, answers that are lost

ASSUME BoundAssumption ==
    /\ MaxRevision \in Nat /\ MaxMoves \in Nat /\ MaxTime \in Nat \ {0} /\ Faults \in Nat

VARIABLES
    head,            \* the Release row, see HeadType
    song,            \* status of the Song
    log,             \* DistributionEvent rows of the partner's events
    handler,         \* what each API request is doing
    partner,         \* the partner: the history of what was submitted as a revision
    now,             \* the clock, the partner's and ours
    faults           \* faults left

vars == <<head, song, log, handler, partner, now, faults>>

Locked   == {"submitting", "submitted", "accepted", "live"}
Told     == {"accepted", "failed", "live"}
Statuses == Locked \cup Told \cup {"draft"}

(***************************************************************************)
(* The row's status, whose release it is (distributor), the partner's id   *)
(* for it (externalId: the revision submitted, 0 for null), its revision   *)
(* (0: there is no row), the revision its artifacts were staged as, and    *)
(* distributionStatusAt (0 for null).                                      *)
(***************************************************************************)
Revision == 0..MaxRevision
Time     == 0..MaxTime
HeadType == [status : Statuses, by : {"nobody", "us", "partner"}, xid : Revision,
             rev : Revision, staged : Revision, at : Time]

(***************************************************************************)
(* The song is RELEASED by its release going live, or it is anything else, *)
(* RELEASED by hand (PATCH /songs/:id) included: no step here reads which. *)
(* The flag releaseReady is left out: its many writers may turn it on and  *)
(* off at any time.                                                        *)
(***************************************************************************)
SongType == {"released", "other"}

Idle == [does |-> "idle"]

Init ==
    /\ head = [status |-> "draft", by |-> "nobody", xid |-> 0, rev |-> 0, staged |-> 0, at |-> 0]
    /\ song = "other"
    /\ log = {}
    /\ handler = [s \in Slots |-> Idle]
    /\ partner = [r \in 1..MaxRevision |-> <<>>]
    /\ now = 1
    /\ faults = Faults

\* Every update of the row increments its revision (a trigger of the schema).
Write(status, by, xid, staged, at) ==
    /\ head.rev < MaxRevision
    /\ head' = [status |-> status, by |-> by, xid |-> xid, rev |-> head.rev + 1,
                staged |-> staged, at |-> at]

Become(s, work) == handler' = [handler EXCEPT ![s] = work]
Done(s)         == Become(s, Idle)
Fault           == faults > 0 /\ faults' = faults - 1
-----------------------------------------------------------------------------
(***************************************************************************)
(* Edits. They end what a partner or we have told of an older revision.    *)
(***************************************************************************)
\* Mutant: the partner's id of the older revision is kept.
EditKeepingId(staged) ==
    /\ head.status \notin Locked
    /\ Write("draft", "nobody", head.xid, staged, 0)
    /\ UNCHANGED <<song, log, handler, partner, now, faults>>

Edit(staged) ==
    /\ head.status \notin Locked
    /\ Write("draft", "nobody", 0, staged, 0)
    /\ UNCHANGED <<song, log, handler, partner, now, faults>>

EditRights    == Edit(head.staged)
SelectArtwork == Edit(0)

\* The song's other writers: exports, masters, mixes, and edits by hand.
SongWrites ==
    /\ song = "released" /\ song' = "other"
    /\ UNCHANGED <<head, log, handler, partner, now, faults>>
-----------------------------------------------------------------------------
(***************************************************************************)
(* POST /:songId/distribute                                                *)
(***************************************************************************)
Observe(s) ==
    /\ handler[s] = Idle
    /\ head.rev > 0 /\ head.status \notin Locked
    /\ Become(s, [does |-> "stage", rev |-> head.rev, at |-> now])
    /\ UNCHANGED <<head, song, log, partner, now, faults>>

\* The row as observed is staged, if its certificates and package still hold.
Stage(s) ==
    /\ handler[s].does = "stage"
    /\ \/ /\ head.status \notin Locked /\ head.rev = handler[s].rev
          /\ Write("submitting", "nobody", 0, head.rev + 1, handler[s].at)
          /\ Become(s, [does |-> "submit", rev |-> head.rev + 1])
       \/ Done(s) /\ UNCHANGED head
    /\ UNCHANGED <<song, log, partner, now, faults>>

ToRestore(s) == Become(s, [does |-> "restore", rev |-> handler[s].rev])

Refused(s) ==
    /\ handler[s].does = "submit"
    /\ ToRestore(s)
    /\ UNCHANGED <<head, song, log, partner, now, faults>>

\* The partner takes the submission, under an id of its own; the answer may be
\* lost, or later than the timeout.
Submit(s) ==
    /\ handler[s].does = "submit"
    /\ \E status \in {"submitted", "accepted"} :
         /\ partner' = [partner EXCEPT ![handler[s].rev] = Append(@, [status |-> status, at |-> now])]
         /\ \/ /\ Become(s, [does |-> "finalize", rev |-> handler[s].rev,
                             status |-> status, at |-> now])
               /\ UNCHANGED faults
            \/ Fault /\ ToRestore(s)
    /\ UNCHANGED <<head, song, log, now>>

\* Mutant: the draft is restored whatever the row has become.
RestoreAlways(s) ==
    /\ handler[s].does = "restore"
    /\ Write("draft", head.by, head.xid, head.staged, 0)
    /\ Done(s)
    /\ UNCHANGED <<song, log, partner, now, faults>>

Restore(s) ==
    /\ handler[s].does = "restore"
    /\ IF head.status = "submitting" /\ head.rev = handler[s].rev
       THEN Write("draft", head.by, head.xid, head.staged, 0)
       ELSE UNCHANGED head
    /\ Done(s)
    /\ UNCHANGED <<song, log, partner, now, faults>>

\* Mutant: the revision is not compared.
FinalizeSubmitting(s) ==
    /\ handler[s].does = "finalize"
    /\ IF head.status = "submitting"
       THEN /\ \E at \in handler[s].at..now :
                 Write(handler[s].status, "partner", handler[s].rev, head.staged, at)
            /\ song' = "other"
       ELSE UNCHANGED <<head, song>>
    /\ Done(s)
    /\ UNCHANGED <<log, partner, now, faults>>

\* The row gets the partner's id, unless it is another revision by now
\* (release_submission_superseded). It is dated by our clock (submittedAt), at
\* some time between the answer and the transaction.
Finalize(s) ==
    /\ handler[s].does = "finalize"
    /\ LET r == handler[s].rev IN
         IF head.status = "submitting" /\ head.rev = r /\ head.staged = r
         THEN /\ \E at \in handler[s].at..now :
                   Write(handler[s].status, "partner", r, head.staged, at)
              /\ song' = "other"
         ELSE UNCHANGED <<head, song>>
    /\ Done(s)
    /\ UNCHANGED <<log, partner, now, faults>>
-----------------------------------------------------------------------------
(***************************************************************************)
(* First-party publication and takedown: what they are decided by is read  *)
(* outside the lock.                                                       *)
(***************************************************************************)
PartnersRelease == head.by = "partner" /\ head.status \in Locked

PublishRead(s) ==
    /\ handler[s] = Idle
    /\ ~PartnersRelease
    /\ Become(s, [does |-> "publish", at |-> now])
    /\ UNCHANGED <<head, song, log, partner, now, faults>>

Publish(s) ==
    /\ handler[s].does = "publish"
    /\ Write("live", "us", 0, head.staged, handler[s].at)
    /\ song' = "released"
    /\ Done(s)
    /\ UNCHANGED <<log, partner, now, faults>>

TakedownRead(s) ==
    /\ handler[s] = Idle
    /\ ~PartnersRelease
    /\ Become(s, [does |-> "takedown", rev |-> head.rev, at |-> now])
    /\ UNCHANGED <<head, song, log, partner, now, faults>>

\* Mutant: the song keeps its status.
TakedownHiding(s) ==
    /\ handler[s].does = "takedown"
    /\ UNCHANGED song
    /\ IF handler[s].rev > 0 THEN Write("draft", head.by, head.xid, head.staged, handler[s].at)
       ELSE UNCHANGED head
    /\ Done(s)
    /\ UNCHANGED <<log, partner, now, faults>>

\* The row keeps its distributor and the id.
Takedown(s) ==
    /\ handler[s].does = "takedown"
    /\ song' = "other"
    /\ IF handler[s].rev > 0 THEN Write("draft", head.by, head.xid, head.staged, handler[s].at)
       ELSE UNCHANGED head
    /\ Done(s)
    /\ UNCHANGED <<log, partner, now, faults>>
-----------------------------------------------------------------------------
(***************************************************************************)
(* The partner, and its signed events: each status after the answer to the *)
(* submission is told of, late, out of order and repeatedly. It is looked  *)
(* up by the partner's id, and applied in a transaction of its own. What   *)
(* is said of "failed" here is so of "cancelled", too.                     *)
(***************************************************************************)
Follows == [submitted |-> Told, accepted |-> {"failed", "live"}, failed |-> {}, live |-> {"failed"}]

PartnerMove(r) ==
    /\ Len(partner[r]) \in 1..(MaxMoves - 1)
    /\ \E status \in Follows[partner[r][Len(partner[r])].status] :
          partner' = [partner EXCEPT ![r] = Append(@, [status |-> status, at |-> now])]
    /\ UNCHANGED <<head, song, log, handler, now, faults>>

Look(s, r, n) ==
    /\ handler[s] = Idle
    /\ n \in 2..Len(partner[r])
    /\ <<r, n>> \notin log
    /\ head.xid = r
    /\ Become(s, [does |-> "apply", rev |-> r, move |-> n])
    /\ UNCHANGED <<head, song, log, partner, now, faults>>

\* distributionStatusRank
Rank(status) == CASE status = "accepted" -> 1
                  [] status = "failed"   -> 2
                  [] status = "live"     -> 3
                  [] OTHER               -> 0

\* Mutant: only the ranks are compared.
AppliesByRank(status, at) == Rank(status) >= Rank(head.status)

\* shouldApplyDistributionStatus
Applies(status, at) ==
    /\ Rank(status) >= Rank(head.status)
    /\ \/ head.at = 0 \/ at > head.at
       \/ at = head.at /\ Rank(status) > Rank(head.status)

\* The row found by then is the one found before, whatever it names by now. An
\* event that was recorded in between changes nothing (P2002).
Apply(s) ==
    /\ handler[s].does = "apply"
    /\ LET e == <<handler[s].rev, handler[s].move>>
           told == partner[e[1]][e[2]]
       IN  IF e \in log THEN UNCHANGED <<head, song, log>>
           ELSE /\ log' = log \cup {e}
                /\ IF Applies(told.status, told.at)
                   THEN /\ Write(told.status, head.by, head.xid, head.staged, told.at)
                        /\ song' = IF told.status = "live" THEN "released" ELSE song
                   ELSE UNCHANGED <<head, song>>
    /\ Done(s)
    /\ UNCHANGED <<partner, now, faults>>
-----------------------------------------------------------------------------
\* The process of a request goes down, or its transaction is rolled back.
Die(s) ==
    /\ handler[s] # Idle
    /\ Fault
    /\ Done(s)
    /\ UNCHANGED <<head, song, log, partner, now>>

Tick ==
    /\ now < MaxTime
    /\ now' = now + 1
    /\ UNCHANGED <<head, song, log, handler, partner, faults>>

Distribute(s) == Observe(s) \/ Stage(s) \/ Refused(s) \/ Submit(s) \/ Restore(s) \/ Finalize(s)
FirstParty(s) == PublishRead(s) \/ Publish(s) \/ TakedownRead(s) \/ Takedown(s)
Webhook(s)    == Apply(s) \/ \E r \in 1..MaxRevision : \E n \in 1..MaxMoves : Look(s, r, n)

Next ==
    \/ \E s \in Slots : Distribute(s) \/ FirstParty(s) \/ Webhook(s) \/ Die(s)
    \/ EditRights \/ SelectArtwork \/ SongWrites \/ Tick
    \/ \E r \in 1..MaxRevision : PartnerMove(r)

Spec == Init /\ [][Next]_vars
-----------------------------------------------------------------------------
(***************************************************************************)
(* Properties.                                                             *)
(***************************************************************************)
HandlerType ==
    {Idle} \cup [does : {"stage"}, rev : Revision, at : Time]
           \cup [does : {"submit", "restore"}, rev : Revision \ {0}]
           \cup [does : {"finalize"}, rev : Revision \ {0}, status : {"submitted", "accepted"}, at : Time]
           \cup [does : {"publish"}, at : Time]
           \cup [does : {"takedown"}, rev : Revision, at : Time]
           \cup [does : {"apply"}, rev : Revision \ {0}, move : 1..MaxMoves]

ReleaseTypeOK ==
    /\ head \in HeadType
    /\ head.by = "partner" <=> head.xid # 0
    /\ song \in SongType
    /\ log \subseteq (1..MaxRevision) \X (1..MaxMoves)
    /\ handler \in [Slots -> HandlerType]
    /\ partner \in [1..MaxRevision -> Seq([status : Told \cup {"submitted"}, at : Time])]
    /\ now \in Time
    /\ faults \in Nat

(***************************************************************************)
(* What the release says is with the partner is what the partner was       *)
(* given: the id it names was issued for the very revision whose artifacts *)
(* it carries, though the answer may come after publications, takedowns,   *)
(* edits and other submissions.                                            *)
(***************************************************************************)
PartnerHoldsWhatHeadSays ==
    head.by = "partner" => head.xid = head.staged /\ partner[head.xid] # <<>>

(***************************************************************************)
(* "The song remains EXPORTED and non-public until a valid signed event    *)
(* reports live" (docs/RUNBOOK.md): a song that nobody marked by hand is   *)
(* RELEASED only while its release is live.                                *)
(***************************************************************************)
PublicIsLive == song = "released" => head.status = "live"

\* A takedown of a release that is not the partner's, or of one that has
\* become the partner's since the route looked, outside the lock.
TakesDown ==
    \E s \in Slots : /\ handler[s].does = "takedown" /\ handler'[s] = Idle
                     /\ PartnersRelease => handler[s].rev # head.rev

(***************************************************************************)
(* "A failed or cancelled callback cannot downgrade a release already      *)
(* confirmed live" (docs/RUNBOOK.md), nor can anything else but a          *)
(* takedown: an edit, a submission, its late end or its compensation. And  *)
(* "only a first-party release is taken down here": one that is the        *)
(* partner's ends that way only if it became so after the route had looked *)
(* at its distributor.                                                     *)
(***************************************************************************)
LiveOnlyTakenDown ==
    [][head.status = "live" /\ head'.status # "live" => TakesDown]_vars

(***************************************************************************)
(* However the partner's events are delayed and reordered, while the       *)
(* release keeps naming one of the partner's its status goes back neither  *)
(* in rank nor in time, except by a takedown that looked at an older row.  *)
(***************************************************************************)
PartnerStatusAdvances ==
    [][head.by = "partner" /\ head'.by = "partner" /\ head'.xid = head.xid
         => \/ TakesDown
            \/ Rank(head'.status) >= Rank(head.status) /\ head'.at >= head.at]_vars
=============================================================================
