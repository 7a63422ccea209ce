--------------------------- MODULE ReleasesProofs ---------------------------
(***************************************************************************)
(* Theorems about Releases, for any number of requests, revisions, moves   *)
(* of the partner and faults.                                              *)
(***************************************************************************)
EXTENDS Releases, TLAPS

(***************************************************************************)
(* What a request that submits a revision may rely on: as long as the row  *)
(* has that revision, it is the staged one, and nobody has answered for    *)
(* it. The revision only grows, so it does not come back.                  *)
(***************************************************************************)
AwaitsAnswer(s) == handler[s].does \in {"submit", "finalize", "restore"}

SubmissionIsStaged ==
    \A s \in Slots : AwaitsAnswer(s) =>
        /\ handler[s].rev <= head.rev
        /\ handler[s].rev = head.rev =>
              head.status = "submitting" /\ head.staged = head.rev /\ head.by = "nobody"

\* What a takedown has read holds as long as the row has the revision it read.
GuardIsCurrent ==
    \A s \in Slots : handler[s].does = "takedown" =>
        /\ handler[s].rev <= head.rev
        /\ handler[s].rev = head.rev => ~PartnersRelease

\* What a request was told, or read, of the partner is in the partner's books.
PartnerSaidSo ==
    \A s \in Slots :
        /\ handler[s].does = "finalize" => partner[handler[s].rev] # <<>>
        /\ handler[s].does = "apply" => handler[s].move \in DOMAIN partner[handler[s].rev]

Fields(h) ==
    /\ h.does \in {"idle", "stage", "submit", "restore", "finalize", "publish", "takedown", "apply"}
    /\ h.does \in {"stage", "submit", "restore", "finalize", "takedown", "apply"} => h.rev \in Revision
    /\ h.does \in {"submit", "restore", "finalize", "apply"} => h.rev # 0
    /\ h.does \in {"stage", "finalize", "publish", "takedown"} => h.at \in Time
    /\ h.does = "finalize" => h.status \in {"submitted", "accepted"}
    /\ h.does = "apply" => h.move \in 1..MaxMoves

LEMMA HandlerFields ==
    ASSUME NEW h \in HandlerType PROVE Fields(h)
BY DEF HandlerType, Idle, Fields

LEMMA TypeFacts ==
    ASSUME ReleaseTypeOK
    PROVE  /\ head \in HeadType
           /\ head.rev \in Nat /\ head.at \in Nat /\ head.staged \in Revision /\ head.xid \in Revision
           /\ \A s \in Slots : handler[s] \in HandlerType /\ Fields(handler[s])
           /\ now \in Time /\ 0 \in Revision /\ 0 \in Time
<1>1. \A s \in Slots : handler[s] \in HandlerType
      BY DEF ReleaseTypeOK
<1> QED BY <1>1, HandlerFields, BoundAssumption DEF ReleaseTypeOK, HeadType, Revision, Time

(***************************************************************************)
(* Type correctness needs that what a request knows of the partner is      *)
(* there to be read; the two are kept together. A step writes the row, or  *)
(* not, and gives a request its next task.                                 *)
(***************************************************************************)
TypeInv == ReleaseTypeOK /\ PartnerSaidSo

HeadOK == head \in HeadType /\ (head.by = "partner" <=> head.xid # 0)

LEMMA ElementOf ==
    ASSUME NEW T, NEW list \in Seq(T), NEW n \in 1..Len(list)
    PROVE  list[n] \in T
OBVIOUS

LEMMA WriteType ==
    ASSUME head \in HeadType,
           NEW status \in Statuses, NEW by \in {"nobody", "us", "partner"}, NEW xid \in Revision,
           NEW staged, NEW at \in Time, Write(status, by, xid, staged, at),
           head.rev < MaxRevision => staged \in Revision,
           by = "partner" <=> xid # 0
    PROVE  HeadOK'
BY BoundAssumption DEF HeadOK, HeadType, Write, Revision

LEMMA BecomeType ==
    ASSUME TypeInv, NEW s \in Slots, NEW h \in HandlerType, Become(s, h),
           UNCHANGED partner,
           h.does = "finalize" => partner[h.rev] # <<>>,
           h.does = "apply" => h.move \in DOMAIN partner[h.rev]
    PROVE  handler' \in [Slots -> HandlerType] /\ PartnerSaidSo'
<1>1. /\ handler' \in [Slots -> HandlerType]
      /\ \A t \in Slots : handler'[t] = IF t = s THEN h ELSE handler[t]
      BY DEF Become, TypeInv, ReleaseTypeOK
<1> QED BY <1>1 DEF TypeInv, PartnerSaidSo

LEMMA DoneType ==
    ASSUME TypeInv, NEW s \in Slots, Done(s), UNCHANGED partner
    PROVE  handler' \in [Slots -> HandlerType] /\ PartnerSaidSo'
<1>1. Idle \in HandlerType /\ Idle.does = "idle"
      BY DEF HandlerType, Idle
<1> QED BY <1>1, BecomeType DEF Done

LEMMA EditType ==
    ASSUME TypeInv, NEW staged \in Revision, Edit(staged)
    PROVE  TypeInv'
<1>1. HeadOK'
      BY TypeFacts, WriteType DEF TypeInv, Edit, Statuses
<1> QED BY <1>1 DEF HeadOK, TypeInv, ReleaseTypeOK, PartnerSaidSo, Edit

LEMMA StageType ==
    ASSUME TypeInv, NEW s \in Slots, Observe(s) \/ Stage(s)
    PROVE  TypeInv'
<1>1. CASE Observe(s)
  <2>1. [does |-> "stage", rev |-> head.rev, at |-> now] \in HandlerType
        BY TypeFacts DEF TypeInv, HandlerType, HeadType
  <2>2. handler' \in [Slots -> HandlerType] /\ PartnerSaidSo'
        BY <1>1, <2>1, BecomeType DEF Observe
  <2> QED BY <1>1, <2>2 DEF Observe, TypeInv, ReleaseTypeOK
<1>2. CASE Stage(s) /\ Done(s) /\ UNCHANGED head
      BY <1>2, DoneType DEF Stage, TypeInv, ReleaseTypeOK
<1>3. CASE /\ Stage(s)
           /\ Write("submitting", "nobody", 0, head.rev + 1, handler[s].at)
           /\ Become(s, [does |-> "submit", rev |-> head.rev + 1])
  <2>1. head.rev < MaxRevision /\ head.rev + 1 \in Revision \ {0}
        BY <1>3, TypeFacts, BoundAssumption DEF TypeInv, Write, Revision
  <2>2. HeadOK'
        BY <1>3, <2>1, TypeFacts, WriteType DEF TypeInv, Stage, Fields, Statuses, Locked
  <2>3. [does |-> "submit", rev |-> head.rev + 1] \in HandlerType
        BY <2>1 DEF HandlerType
  <2>4. handler' \in [Slots -> HandlerType] /\ PartnerSaidSo'
        BY <1>3, <2>3, BecomeType DEF Stage
  <2> QED BY <1>3, <2>2, <2>4 DEF Stage, HeadOK, TypeInv, ReleaseTypeOK
<1> QED BY <1>1, <1>2, <1>3 DEF Stage

LEMMA PartnerGrows ==
    ASSUME TypeInv, NEW r \in 1..MaxRevision,
           NEW move \in [status : Told \cup {"submitted"}, at : Time],
           partner' = [partner EXCEPT ![r] = Append(@, move)]
    PROVE  /\ partner' \in [1..MaxRevision -> Seq([status : Told \cup {"submitted"}, at : Time])]
           /\ partner'[r] # <<>>
           /\ \A q \in 1..MaxRevision : DOMAIN partner[q] \subseteq DOMAIN partner'[q]
                                      /\ (partner[q] # <<>> => partner'[q] # <<>>)
<1> DEFINE Move == [status : Told \cup {"submitted"}, at : Time]
<1>1. partner \in [1..MaxRevision -> Seq(Move)]
      BY DEF TypeInv, ReleaseTypeOK
<1>2. \A q \in 1..MaxRevision : partner'[q] = IF q = r THEN Append(partner[q], move) ELSE partner[q]
      BY <1>1
<1>3. ASSUME NEW moves \in Seq(Move)
      PROVE  /\ Append(moves, move) \in Seq(Move) /\ Append(moves, move) # <<>>
             /\ DOMAIN moves \subseteq DOMAIN Append(moves, move)
  <2>1. DOMAIN moves = 1..Len(moves) /\ DOMAIN Append(moves, move) = 1..(Len(moves) + 1)
        BY <1>3
  <2> QED BY <1>3, <2>1
<1>4. partner' \in [1..MaxRevision -> Seq(Move)]
      BY <1>1, <1>2, <1>3
<1> QED BY <1>1, <1>2, <1>3, <1>4

LEMMA StillSaidSo ==
    ASSUME TypeInv,
           \A q \in 1..MaxRevision : DOMAIN partner[q] \subseteq DOMAIN partner'[q]
                                   /\ (partner[q] # <<>> => partner'[q] # <<>>),
           NEW s \in Slots, handler'[s] = handler[s]
    PROVE  /\ handler'[s].does = "finalize" => partner'[handler'[s].rev] # <<>>
           /\ handler'[s].does = "apply" => handler'[s].move \in DOMAIN partner'[handler'[s].rev]
<1>1. handler[s].does \in {"finalize", "apply"} => handler[s].rev \in 1..MaxRevision
      BY TypeFacts, BoundAssumption DEF TypeInv, Fields, Revision
<1> QED BY <1>1 DEF TypeInv, PartnerSaidSo

LEMMA AnswerType ==
    ASSUME TypeInv, NEW s \in Slots, Refused(s) \/ Submit(s)
    PROVE  TypeInv'
<1> DEFINE r == handler[s].rev
<1>1. handler[s].does = "submit" /\ r \in 1..MaxRevision
      BY TypeFacts, BoundAssumption DEF TypeInv, Refused, Submit, Fields, Revision
<1>2. [does |-> "restore", rev |-> r] \in HandlerType
      BY <1>1, BoundAssumption DEF HandlerType, Revision
<1>3. CASE Refused(s)
  <2>1. handler' \in [Slots -> HandlerType] /\ PartnerSaidSo'
        BY <1>2, <1>3, BecomeType DEF Refused, ToRestore
  <2> QED BY <1>3, <2>1 DEF Refused, TypeInv, ReleaseTypeOK
<1>4. CASE Submit(s)
  <2>1. PICK status \in {"submitted", "accepted"} :
          /\ partner' = [partner EXCEPT ![r] = Append(@, [status |-> status, at |-> now])]
          /\ \/ /\ Become(s, [does |-> "finalize", rev |-> r, status |-> status, at |-> now])
                /\ UNCHANGED faults
             \/ Fault /\ ToRestore(s)
        BY <1>4 DEF Submit
  <2>2. PICK h \in HandlerType : Become(s, h) /\ h.does \in {"finalize", "restore"} /\ h.rev = r
    <3>1. [does |-> "finalize", rev |-> r, status |-> status, at |-> now] \in HandlerType
          BY <1>1, TypeFacts, BoundAssumption DEF TypeInv, HandlerType, Revision
    <3> QED BY <1>2, <2>1, <3>1 DEF ToRestore
  <2>3. [status |-> status, at |-> now] \in [status : Told \cup {"submitted"}, at : Time]
        BY TypeFacts DEF TypeInv, Told
  <2>4. faults' \in Nat
        BY <2>1 DEF TypeInv, ReleaseTypeOK, Fault
  <2>5. /\ handler' \in [Slots -> HandlerType]
        /\ handler'[s] = h
        /\ \A t \in Slots \ {s} : handler'[t] = handler[t]
        BY <2>2 DEF Become, TypeInv, ReleaseTypeOK
  <2>6. PartnerSaidSo'
        BY <1>1, <2>1, <2>2, <2>3, <2>5, PartnerGrows, StillSaidSo DEF PartnerSaidSo
  <2>7. partner' \in [1..MaxRevision -> Seq([status : Told \cup {"submitted"}, at : Time])]
        BY <1>1, <2>1, <2>3, PartnerGrows
  <2> QED BY <1>4, <2>4, <2>5, <2>6, <2>7 DEF Submit, TypeInv, ReleaseTypeOK
<1> QED BY <1>3, <1>4

LEMMA WrittenType ==
    ASSUME TypeInv, NEW s \in Slots, Restore(s) \/ Finalize(s) \/ Publish(s) \/ Takedown(s)
    PROVE  TypeInv'
<1>1. handler' \in [Slots -> HandlerType] /\ PartnerSaidSo'
      BY DoneType DEF Restore, Finalize, Publish, Takedown
<1>2. song' \in SongType
      BY DEF Restore, Finalize, Publish, Takedown, TypeInv, ReleaseTypeOK, SongType
<1>3. Fields(handler[s]) /\ HeadOK /\ head.by \in {"nobody", "us", "partner"}
      BY TypeFacts DEF TypeInv, ReleaseTypeOK, HeadOK, HeadType
<1>4. HeadOK'
  <2>1. CASE UNCHANGED head
        BY <1>3, <2>1 DEF HeadOK
  <2>2. CASE Restore(s) /\ head' # head
        BY <1>3, <2>2, TypeFacts, WriteType DEF TypeInv, Restore, HeadOK, Statuses
  <2>3. CASE Finalize(s) /\ head' # head
    <3>1. PICK at \in handler[s].at..now :
            Write(handler[s].status, "partner", handler[s].rev, head.staged, at)
          BY <2>3 DEF Finalize
    <3>2. at \in Time
          BY <1>3, <2>3, TypeFacts, BoundAssumption DEF TypeInv, Finalize, Fields, Time
    <3> QED BY <1>3, <2>3, <3>1, <3>2, TypeFacts, WriteType
            DEF TypeInv, Finalize, Fields, Statuses, Locked
  <2>4. CASE Publish(s)
        BY <1>3, <2>4, TypeFacts, WriteType DEF TypeInv, Publish, Fields, Statuses, Locked
  <2>5. CASE Takedown(s) /\ head' # head
        BY <1>3, <2>5, TypeFacts, WriteType DEF TypeInv, Takedown, Fields, HeadOK, Statuses
  <2> QED BY <2>1, <2>2, <2>3, <2>4, <2>5
<1> QED BY <1>1, <1>2, <1>4 DEF Restore, Finalize, Publish, Takedown, TypeInv, ReleaseTypeOK, HeadOK

LEMMA ReadType ==
    ASSUME TypeInv, NEW s \in Slots, PublishRead(s) \/ TakedownRead(s) \/ Die(s)
    PROVE  TypeInv'
<1>1. CASE PublishRead(s)
  <2>1. [does |-> "publish", at |-> now] \in HandlerType
        BY TypeFacts DEF TypeInv, HandlerType
  <2>2. handler' \in [Slots -> HandlerType] /\ PartnerSaidSo'
        BY <1>1, <2>1, BecomeType DEF PublishRead
  <2> QED BY <1>1, <2>2 DEF PublishRead, TypeInv, ReleaseTypeOK
<1>2. CASE TakedownRead(s)
  <2>1. [does |-> "takedown", rev |-> head.rev, at |-> now] \in HandlerType
        BY TypeFacts DEF TypeInv, HandlerType, HeadType
  <2>2. handler' \in [Slots -> HandlerType] /\ PartnerSaidSo'
        BY <1>2, <2>1, BecomeType DEF TakedownRead
  <2> QED BY <1>2, <2>2 DEF TakedownRead, TypeInv, ReleaseTypeOK
<1>3. CASE Die(s)
  <2>1. handler' \in [Slots -> HandlerType] /\ PartnerSaidSo'
        BY <1>3, DoneType DEF Die
  <2>2. faults' \in Nat
        BY <1>3 DEF Die, Fault, TypeInv, ReleaseTypeOK
  <2> QED BY <1>3, <2>1, <2>2 DEF Die, TypeInv, ReleaseTypeOK
<1> QED BY <1>1, <1>2, <1>3

LEMMA PartnerMoveType ==
    ASSUME TypeInv, NEW r \in 1..MaxRevision, PartnerMove(r)
    PROVE  TypeInv'
<1>1. PICK status \in Follows[partner[r][Len(partner[r])].status] :
          partner' = [partner EXCEPT ![r] = Append(@, [status |-> status, at |-> now])]
      BY DEF PartnerMove
<1>2. status \in Told
  <2>1. partner[r] \in Seq([status : Told \cup {"submitted"}, at : Time])
        BY DEF TypeInv, ReleaseTypeOK
  <2>2. partner[r][Len(partner[r])] \in [status : Told \cup {"submitted"}, at : Time]
    <3>1. Len(partner[r]) \in 1..Len(partner[r])
          BY <2>1, BoundAssumption DEF PartnerMove
    <3> QED BY <2>1, <3>1, ElementOf
  <2> QED BY <1>1, <2>2 DEF Follows, Told
<1>3. [status |-> status, at |-> now] \in [status : Told \cup {"submitted"}, at : Time]
      BY <1>2, TypeFacts DEF TypeInv
<1>4. PartnerSaidSo'
      BY <1>1, <1>3, PartnerGrows, StillSaidSo DEF PartnerMove, PartnerSaidSo
<1>5. partner' \in [1..MaxRevision -> Seq([status : Told \cup {"submitted"}, at : Time])]
      BY <1>1, <1>3, PartnerGrows
<1> QED BY <1>4, <1>5 DEF PartnerMove, TypeInv, ReleaseTypeOK

\* The event a request is about to apply.
Event(s) == partner[handler[s].rev][handler[s].move]

LEMMA EventType ==
    ASSUME TypeInv, NEW s \in Slots, handler[s].does = "apply"
    PROVE  /\ Event(s) \in [status : Told \cup {"submitted"}, at : Time]
           /\ <<handler[s].rev, handler[s].move>> \in (1..MaxRevision) \X (1..MaxMoves)
<1>1. handler[s].rev \in 1..MaxRevision /\ handler[s].move \in 1..MaxMoves
      BY TypeFacts, BoundAssumption DEF TypeInv, Fields, Revision
<1>2. handler[s].move \in DOMAIN partner[handler[s].rev]
      BY DEF TypeInv, PartnerSaidSo
<1>3. partner[handler[s].rev] \in Seq([status : Told \cup {"submitted"}, at : Time])
      BY <1>1 DEF TypeInv, ReleaseTypeOK
<1>4. Event(s) \in [status : Told \cup {"submitted"}, at : Time]
  <2>1. handler[s].move \in 1..Len(partner[handler[s].rev])
        BY <1>2, <1>3
  <2> QED BY <1>3, <2>1, ElementOf DEF Event
<1> QED BY <1>1, <1>4

LEMMA WebhookType ==
    ASSUME TypeInv, NEW s \in Slots, Webhook(s)
    PROVE  TypeInv'
<1>1. CASE Apply(s)
  <2>1. /\ Event(s) \in [status : Told \cup {"submitted"}, at : Time]
        /\ <<handler[s].rev, handler[s].move>> \in (1..MaxRevision) \X (1..MaxMoves)
        BY <1>1, EventType DEF Apply
  <2>2. handler' \in [Slots -> HandlerType] /\ PartnerSaidSo'
        BY <1>1, DoneType DEF Apply
  <2>3. song' \in SongType /\ log' \subseteq (1..MaxRevision) \X (1..MaxMoves)
        BY <1>1, <2>1 DEF Apply, TypeInv, ReleaseTypeOK, SongType
  <2>4. HeadOK'
    <3>1. CASE UNCHANGED head
          BY <3>1 DEF HeadOK, TypeInv, ReleaseTypeOK
    <3>2. CASE head' # head
      <4>1. Write(Event(s).status, head.by, head.xid, head.staged, Event(s).at)
            BY <1>1, <3>2 DEF Apply, Event
      <4>2. head.by \in {"nobody", "us", "partner"} /\ (head.by = "partner" <=> head.xid # 0)
            BY DEF TypeInv, ReleaseTypeOK, HeadType
      <4>3. Event(s).status \in Statuses /\ Event(s).at \in Time
            BY <2>1 DEF Statuses, Told, Locked
      <4> QED BY <4>1, <4>2, <4>3, TypeFacts, WriteType DEF TypeInv
    <3> QED BY <3>1, <3>2
  <2> QED BY <1>1, <2>2, <2>3, <2>4 DEF Apply, HeadOK, TypeInv, ReleaseTypeOK
<1>2. ASSUME NEW r \in 1..MaxRevision, NEW n \in 1..MaxMoves, Look(s, r, n)
      PROVE  TypeInv'
  <2> DEFINE h == [does |-> "apply", rev |-> r, move |-> n]
  <2>1. h \in HandlerType
        BY BoundAssumption DEF HandlerType, Revision
  <2>2. n \in DOMAIN partner[r]
    <3>1. partner[r] \in Seq([status : Told \cup {"submitted"}, at : Time])
          BY DEF TypeInv, ReleaseTypeOK
    <3> QED BY <1>2, <3>1 DEF Look
  <2>3. handler' \in [Slots -> HandlerType] /\ PartnerSaidSo'
        BY <1>2, <2>1, <2>2, BecomeType DEF Look
  <2> QED BY <1>2, <2>3 DEF Look, TypeInv, ReleaseTypeOK
<1> QED BY <1>1, <1>2 DEF Webhook

LEMMA StepTypeInv ==
    ASSUME TypeInv, [Next]_vars
    PROVE  TypeInv'
<1>1. ASSUME NEW s \in Slots, Distribute(s) PROVE TypeInv'
      BY <1>1, StageType, AnswerType, WrittenType DEF Distribute
<1>2. ASSUME NEW s \in Slots, FirstParty(s) PROVE TypeInv'
      BY <1>2, ReadType, WrittenType DEF FirstParty
<1>3. CASE EditRights \/ SelectArtwork
      BY <1>3, EditType, TypeFacts DEF EditRights, SelectArtwork, TypeInv
<1>4. CASE SongWrites
      BY <1>4 DEF SongWrites, TypeInv, ReleaseTypeOK, PartnerSaidSo, SongType
<1>5. CASE Tick
  <2>1. now' \in Time
        BY <1>5, BoundAssumption DEF Tick, TypeInv, ReleaseTypeOK, Time
  <2> QED BY <1>5, <2>1 DEF Tick, TypeInv, ReleaseTypeOK, PartnerSaidSo
<1>6. CASE UNCHANGED vars
      BY <1>6 DEF vars, TypeInv, ReleaseTypeOK, PartnerSaidSo
<1> QED BY <1>1, <1>2, <1>3, <1>4, <1>5, <1>6, WebhookType, ReadType, PartnerMoveType DEF Next

LEMMA InitTypeInv == Init => TypeInv
BY BoundAssumption DEF Init, TypeInv, ReleaseTypeOK, PartnerSaidSo, HeadType, Statuses,
                       Revision, Time, SongType, HandlerType, Idle

(***************************************************************************)
(* Every reachable state is well typed.                                    *)
(***************************************************************************)
THEOREM ReleaseTypeCorrect == Spec => []ReleaseTypeOK
<1>1. TypeInv => ReleaseTypeOK
      BY DEF TypeInv
<1> QED BY <1>1, InitTypeInv, StepTypeInv, PTL DEF Spec
-----------------------------------------------------------------------------
(***************************************************************************)
(* The safety properties. A step that writes the row raises its revision,  *)
(* so that those who await an answer for an older one are superseded.      *)
(***************************************************************************)
IInv == /\ TypeInv /\ SubmissionIsStaged /\ GuardIsCurrent
        /\ PublicIsLive /\ PartnerHoldsWhatHeadSays

Rewritten == head'.rev = head.rev + 1

LEMMA StagedKept ==
    ASSUME TypeInv, SubmissionIsStaged, UNCHANGED head \/ Rewritten,
           \A t \in Slots : AwaitsAnswer(t)' => AwaitsAnswer(t) /\ handler'[t].rev = handler[t].rev
    PROVE  SubmissionIsStaged'
<1>1. head.rev \in Nat /\ \A t \in Slots : AwaitsAnswer(t) => handler[t].rev \in Nat
      BY TypeFacts, BoundAssumption DEF TypeInv, AwaitsAnswer, Fields, Revision
<1>2. CASE UNCHANGED head
      BY <1>2 DEF SubmissionIsStaged
<1>3. CASE Rewritten
      BY <1>1, <1>3 DEF SubmissionIsStaged, Rewritten
<1> QED BY <1>2, <1>3

LEMMA SlotBecomes ==
    ASSUME TypeInv, NEW s \in Slots, NEW h, Become(s, h)
    PROVE  handler'[s] = h /\ \A t \in Slots \ {s} : handler'[t] = handler[t]
BY DEF Become, TypeInv, ReleaseTypeOK

LEMMA StepSubmissionIsStaged ==
    ASSUME IInv, Next
    PROVE  SubmissionIsStaged'
<1> USE DEF IInv
<1>1. ASSUME NEW s \in Slots, Stage(s), ~Done(s) PROVE SubmissionIsStaged'
  <2>1. /\ Write("submitting", "nobody", 0, head.rev + 1, handler[s].at)
        /\ handler'[s] = [does |-> "submit", rev |-> head.rev + 1]
        /\ \A t \in Slots \ {s} : handler'[t] = handler[t]
        BY <1>1, SlotBecomes DEF Stage
  <2>2. \A t \in Slots : AwaitsAnswer(t) => handler[t].rev \in Nat /\ handler[t].rev <= head.rev
        BY TypeFacts, BoundAssumption DEF TypeInv, AwaitsAnswer, Fields, Revision, SubmissionIsStaged
  <2>3. head.rev \in Nat
        BY TypeFacts DEF TypeInv
  <2> QED BY <2>1, <2>2, <2>3 DEF Write, AwaitsAnswer, SubmissionIsStaged
<1>2. ASSUME NEW s \in Slots, Refused(s) \/ Submit(s) PROVE SubmissionIsStaged'
  <2>1. /\ AwaitsAnswer(s) /\ handler'[s].rev = handler[s].rev
        /\ \A t \in Slots \ {s} : handler'[t] = handler[t]
        BY <1>2, SlotBecomes DEF Refused, Submit, ToRestore, AwaitsAnswer
  <2>2. UNCHANGED head
        BY <1>2 DEF Refused, Submit
  <2> QED BY <2>1, <2>2, StagedKept DEF AwaitsAnswer
<1>3. ASSUME NEW s \in Slots, Done(s), UNCHANGED head \/ Rewritten PROVE SubmissionIsStaged'
      BY <1>3, SlotBecomes, StagedKept DEF Done, Idle, AwaitsAnswer
<1>4. ASSUME NEW s \in Slots, Restore(s) \/ Finalize(s) \/ Publish(s) \/ Takedown(s) \/ Apply(s) \/ Die(s)
      PROVE  SubmissionIsStaged'
      BY <1>3, <1>4 DEF Restore, Finalize, Publish, Takedown, Apply, Die, Write, Rewritten
<1>5. ASSUME NEW s \in Slots, Observe(s) \/ PublishRead(s) \/ TakedownRead(s)
                              \/ \E r \in 1..MaxRevision : \E n \in 1..MaxMoves : Look(s, r, n)
      PROVE  SubmissionIsStaged'
  <2>1. /\ UNCHANGED head /\ handler'[s].does \in {"stage", "publish", "takedown", "apply"}
        /\ \A t \in Slots \ {s} : handler'[t] = handler[t]
    <3>1. CASE Observe(s)
          BY <3>1, SlotBecomes DEF Observe
    <3>2. CASE PublishRead(s) \/ TakedownRead(s)
          BY <3>2, SlotBecomes DEF PublishRead, TakedownRead
    <3>3. ASSUME NEW r \in 1..MaxRevision, NEW n \in 1..MaxMoves, Look(s, r, n)
          PROVE  /\ UNCHANGED head /\ handler'[s].does = "apply"
                 /\ \A t \in Slots \ {s} : handler'[t] = handler[t]
          BY <3>3, SlotBecomes DEF Look
    <3> QED BY <1>5, <3>1, <3>2, <3>3
  <2> QED BY <2>1, StagedKept DEF AwaitsAnswer
<1>6. CASE EditRights \/ SelectArtwork
      BY <1>6, StagedKept DEF EditRights, SelectArtwork, Edit, Write, Rewritten, AwaitsAnswer
<1>7. CASE SongWrites \/ Tick \/ \E r \in 1..MaxRevision : PartnerMove(r)
      BY <1>7, StagedKept DEF SongWrites, Tick, PartnerMove, AwaitsAnswer
<1>8. ASSUME NEW s \in Slots, Stage(s) PROVE SubmissionIsStaged'
      BY <1>1, <1>3, <1>8 DEF Stage, Write, Rewritten
<1> QED BY <1>2, <1>4, <1>5, <1>6, <1>7, <1>8 DEF Next, Distribute, FirstParty, Webhook

LEMMA StepGuardIsCurrent ==
    ASSUME IInv, Next
    PROVE  GuardIsCurrent'
<1> USE DEF IInv
<1> DEFINE Kept == \A t \in Slots : handler'[t].does = "takedown" => handler'[t] = handler[t]
<1>1. head.rev \in Nat
      /\ \A t \in Slots : handler[t].does = "takedown" => handler[t].rev \in Nat
      BY TypeFacts, BoundAssumption DEF TypeInv, Fields, Revision
<1>2. ASSUME Kept, UNCHANGED head \/ Rewritten PROVE GuardIsCurrent'
      BY <1>1, <1>2 DEF GuardIsCurrent, PartnersRelease, Rewritten
<1>3. ASSUME NEW s \in Slots, TakedownRead(s) PROVE GuardIsCurrent'
  <2>1. /\ handler'[s] = [does |-> "takedown", rev |-> head.rev, at |-> now]
        /\ \A t \in Slots \ {s} : handler'[t] = handler[t]
        /\ UNCHANGED head /\ ~PartnersRelease
        BY <1>3, SlotBecomes DEF TakedownRead
  <2> QED BY <1>1, <2>1 DEF GuardIsCurrent, PartnersRelease
<1>4. ASSUME NEW s \in Slots, Done(s) PROVE Kept
      BY <1>4, SlotBecomes DEF Done, Idle
<1>5. ASSUME NEW s \in Slots,
             Restore(s) \/ Finalize(s) \/ Publish(s) \/ Takedown(s) \/ Apply(s) \/ Die(s)
      PROVE  GuardIsCurrent'
      BY <1>2, <1>4, <1>5 DEF Restore, Finalize, Publish, Takedown, Apply, Die, Write, Rewritten
<1>6. ASSUME NEW s \in Slots, Stage(s) PROVE GuardIsCurrent'
      BY <1>2, <1>4, <1>6, SlotBecomes DEF Stage, Write, Rewritten
<1>7. ASSUME NEW s \in Slots, Observe(s) \/ Refused(s) \/ Submit(s) \/ PublishRead(s)
      PROVE  GuardIsCurrent'
      BY <1>2, <1>7, SlotBecomes DEF Observe, Refused, Submit, ToRestore, PublishRead
<1>8. ASSUME NEW s \in Slots, NEW r \in 1..MaxRevision, NEW n \in 1..MaxMoves, Look(s, r, n)
      PROVE  GuardIsCurrent'
      BY <1>2, <1>8, SlotBecomes DEF Look
<1>9. CASE EditRights \/ SelectArtwork
      BY <1>2, <1>9 DEF EditRights, SelectArtwork, Edit, Write, Rewritten
<1>10. CASE SongWrites \/ Tick \/ \E r \in 1..MaxRevision : PartnerMove(r)
      BY <1>2, <1>10 DEF SongWrites, Tick, PartnerMove
<1> QED BY <1>3, <1>5, <1>6, <1>7, <1>8, <1>9, <1>10 DEF Next, Distribute, FirstParty, Webhook

\* An event whose status is not live does not apply to a live release.
LEMMA AppliesKeepsLive ==
    ASSUME NEW status \in Told \cup {"submitted"}, NEW at, Applies(status, at), head.status = "live"
    PROVE  status = "live"
BY DEF Applies, Rank, Told

LEMMA StepPublicIsLive ==
    ASSUME IInv, Next
    PROVE  PublicIsLive'
<1> USE DEF IInv, PublicIsLive
<1>1. ASSUME NEW s \in Slots, Apply(s) PROVE PublicIsLive'
  <2>1. Event(s).status \in Told \cup {"submitted"}
        BY <1>1, EventType DEF Apply
  <2>2. CASE UNCHANGED <<head, song>>
        BY <2>2
  <2>3. CASE /\ Applies(Event(s).status, Event(s).at)
             /\ Write(Event(s).status, head.by, head.xid, head.staged, Event(s).at)
             /\ song' = IF Event(s).status = "live" THEN "released" ELSE song
        BY <2>1, <2>3, AppliesKeepsLive DEF Write
  <2> QED BY <1>1, <2>2, <2>3 DEF Apply, Event
<1>2. ASSUME NEW s \in Slots, Distribute(s) PROVE PublicIsLive'
  <2>1. CASE Observe(s) \/ Refused(s) \/ Submit(s)
        BY <2>1 DEF Observe, Refused, Submit
  <2>2. CASE Stage(s)
        BY <2>2 DEF Stage, Write, Locked
  <2>3. CASE Restore(s)
        BY <2>3 DEF Restore
  <2>4. CASE Finalize(s)
        BY <2>4 DEF Finalize
  <2> QED BY <1>2, <2>1, <2>2, <2>3, <2>4 DEF Distribute
<1>3. ASSUME NEW s \in Slots, FirstParty(s) PROVE PublicIsLive'
      BY <1>3 DEF FirstParty, PublishRead, Publish, TakedownRead, Takedown, Write
<1>4. CASE EditRights \/ SelectArtwork
      BY <1>4 DEF EditRights, SelectArtwork, Edit, Write, Locked
<1>5. CASE SongWrites \/ Tick \/ (\E r \in 1..MaxRevision : PartnerMove(r)) \/ \E s \in Slots : Die(s)
      BY <1>5 DEF SongWrites, Tick, PartnerMove, Die
<1>6. ASSUME NEW s \in Slots, NEW r \in 1..MaxRevision, NEW n \in 1..MaxMoves, Look(s, r, n)
      PROVE  PublicIsLive'
      BY <1>6 DEF Look
<1> QED BY <1>1, <1>2, <1>3, <1>4, <1>5, <1>6 DEF Next, Webhook

LEMMA XidType ==
    ASSUME TypeInv
    PROVE  head.by = "partner" => head.xid \in 1..MaxRevision
<1>1. head.xid \in Revision
      BY TypeFacts DEF TypeInv
<1>2. head.by = "partner" => head.xid # 0
      BY DEF TypeInv, ReleaseTypeOK
<1> QED BY <1>1, <1>2, BoundAssumption DEF Revision

LEMMA StepPartnerHolds ==
    ASSUME IInv, Next
    PROVE  PartnerHoldsWhatHeadSays'
<1> USE DEF IInv, PartnerHoldsWhatHeadSays
<1>1. ASSUME NEW s \in Slots, Finalize(s) PROVE PartnerHoldsWhatHeadSays'
      BY <1>1 DEF Finalize, Write, PartnerSaidSo, TypeInv
<1>2. ASSUME NEW s \in Slots, Restore(s) \/ Takedown(s) \/ Apply(s)
      PROVE  PartnerHoldsWhatHeadSays'
      BY <1>2 DEF Restore, Takedown, Apply, Write
<1>3. ASSUME NEW s \in Slots, Stage(s) \/ Publish(s) PROVE PartnerHoldsWhatHeadSays'
      BY <1>3 DEF Stage, Publish, Write
<1>4. CASE EditRights \/ SelectArtwork
      BY <1>4 DEF EditRights, SelectArtwork, Edit, Write
<1>5. ASSUME NEW r \in 1..MaxRevision,
             NEW move \in [status : Told \cup {"submitted"}, at : Time],
             partner' = [partner EXCEPT ![r] = Append(@, move)], UNCHANGED head
      PROVE  PartnerHoldsWhatHeadSays'
  <2>1. head.by = "partner" => head.xid \in 1..MaxRevision
        BY XidType
  <2> QED BY <1>5, <2>1, PartnerGrows
<1>6. ASSUME NEW s \in Slots, Submit(s) PROVE PartnerHoldsWhatHeadSays'
  <2>1. handler[s].rev \in 1..MaxRevision /\ now \in Time
        BY <1>6, TypeFacts, BoundAssumption DEF TypeInv, Submit, Fields, Revision
  <2>2. PICK status \in {"submitted", "accepted"} :
            partner' = [partner EXCEPT ![handler[s].rev] = Append(@, [status |-> status, at |-> now])]
        BY <1>6 DEF Submit
  <2>3. [status |-> status, at |-> now] \in [status : Told \cup {"submitted"}, at : Time]
        BY <2>1 DEF Told
  <2> QED BY <1>5, <1>6, <2>1, <2>2, <2>3 DEF Submit
<1>7. ASSUME NEW r \in 1..MaxRevision, PartnerMove(r) PROVE PartnerHoldsWhatHeadSays'
  <2>1. PICK status : partner' = [partner EXCEPT ![r] = Append(@, [status |-> status, at |-> now])]
        BY <1>7 DEF PartnerMove
  <2>2. partner' \in [1..MaxRevision -> Seq([status : Told \cup {"submitted"}, at : Time])]
        BY <1>7, PartnerMoveType DEF TypeInv, ReleaseTypeOK
  <2>3. head.by = "partner" => head.xid \in 1..MaxRevision
        BY XidType
  <2>4. \A q \in 1..MaxRevision : partner[q] # <<>> => partner'[q] # <<>>
        BY <2>1 DEF TypeInv, ReleaseTypeOK
  <2> QED BY <1>7, <2>3, <2>4 DEF PartnerMove
<1>8. ASSUME NEW s \in Slots, Observe(s) \/ Refused(s) \/ PublishRead(s) \/ TakedownRead(s) \/ Die(s)
                              \/ \E r \in 1..MaxRevision : \E n \in 1..MaxMoves : Look(s, r, n)
      PROVE  PartnerHoldsWhatHeadSays'
      BY <1>8 DEF Observe, Refused, PublishRead, TakedownRead, Die, Look
<1>9. CASE SongWrites \/ Tick
      BY <1>9 DEF SongWrites, Tick
<1> QED BY <1>1, <1>2, <1>3, <1>4, <1>6, <1>7, <1>8, <1>9 DEF Next, Distribute, FirstParty, Webhook

LEMMA StepIInv == IInv /\ [Next]_vars => IInv'
<1> SUFFICES ASSUME IInv, [Next]_vars PROVE IInv'
    OBVIOUS
<1>1. CASE UNCHANGED vars
      BY <1>1, StepTypeInv DEF vars, IInv, SubmissionIsStaged, GuardIsCurrent,
         PartnersRelease, AwaitsAnswer, PublicIsLive, PartnerHoldsWhatHeadSays
<1>2. CASE Next
      BY <1>2, StepTypeInv, StepSubmissionIsStaged, StepGuardIsCurrent, StepPublicIsLive, StepPartnerHolds DEF IInv
<1> QED BY <1>1, <1>2

LEMMA InitIInv == Init => IInv
BY InitTypeInv DEF Init, IInv, SubmissionIsStaged, GuardIsCurrent, AwaitsAnswer, Idle, PublicIsLive, PartnerHoldsWhatHeadSays

LEMMA Safe == Spec => []IInv
BY InitIInv, StepIInv, PTL DEF Spec

(***************************************************************************)
(* The id a release names at the partner was issued for the revision whose *)
(* artifacts it carries, whatever the answer had to wait for.              *)
(***************************************************************************)
THEOREM PartnerHoldsTheRelease == Spec => []PartnerHoldsWhatHeadSays
<1>1. IInv => PartnerHoldsWhatHeadSays
      BY DEF IInv
<1> QED BY <1>1, Safe, PTL

(***************************************************************************)
(* A song is RELEASED, other than by hand, only while its release is live. *)
(***************************************************************************)
THEOREM PublicSongIsLive == Spec => []PublicIsLive
<1>1. IInv => PublicIsLive
      BY DEF IInv
<1> QED BY <1>1, Safe, PTL

(***************************************************************************)
(* Nothing but a takedown ends a live release, and one that is the         *)
(* partner's only a takedown that looked at an older row.                  *)
(***************************************************************************)
LEMMA StepLive ==
    ASSUME IInv, Next, head.status = "live", head'.status # "live"
    PROVE  TakesDown
<1> USE DEF IInv
<1>1. ASSUME NEW s \in Slots, Apply(s) PROVE FALSE
  <2>1. Event(s).status \in Told \cup {"submitted"}
        BY <1>1, EventType DEF Apply
  <2>2. Applies(Event(s).status, Event(s).at) /\ head'.status = Event(s).status
        BY <1>1 DEF Apply, Event, Write
  <2> QED BY <2>1, <2>2, AppliesKeepsLive
<1>2. ASSUME NEW s \in Slots, Takedown(s) PROVE TakesDown
      BY <1>2, SlotBecomes DEF Takedown, Done, TakesDown, GuardIsCurrent
<1>3. ASSUME NEW s \in Slots, Distribute(s) PROVE FALSE
  <2>1. CASE Observe(s) \/ Refused(s) \/ Submit(s)
        BY <2>1 DEF Observe, Refused, Submit
  <2>2. CASE Stage(s)
        BY <2>2 DEF Stage, Locked
  <2>3. CASE Restore(s) \/ Finalize(s)
        BY <2>3 DEF Restore, Finalize
  <2> QED BY <1>3, <2>1, <2>2, <2>3 DEF Distribute
<1>4. ASSUME NEW s \in Slots, PublishRead(s) \/ Publish(s) \/ TakedownRead(s) \/ Die(s)
      PROVE  FALSE
      BY <1>4 DEF PublishRead, Publish, TakedownRead, Die, Write
<1>5. ASSUME NEW s \in Slots, NEW r \in 1..MaxRevision, NEW n \in 1..MaxMoves, Look(s, r, n)
      PROVE  FALSE
      BY <1>5 DEF Look
<1>6. CASE EditRights \/ SelectArtwork
      BY <1>6 DEF EditRights, SelectArtwork, Edit, Locked
<1>7. CASE SongWrites \/ Tick \/ \E r \in 1..MaxRevision : PartnerMove(r)
      BY <1>7 DEF SongWrites, Tick, PartnerMove
<1> QED BY <1>1, <1>2, <1>3, <1>4, <1>5, <1>6, <1>7 DEF Next, FirstParty, Webhook

THEOREM LiveEndsByTakedown == Spec => LiveOnlyTakenDown
<1>1. IInv /\ [Next]_vars => [head.status = "live" /\ head'.status # "live" => TakesDown]_vars
      BY StepLive DEF vars
<1> QED BY <1>1, Safe, PTL DEF Spec, LiveOnlyTakenDown

(***************************************************************************)
(* While a release names the same release of the partner's its status goes *)
(* back neither in rank nor in time, except by a takedown that looked at   *)
(* an older row.                                                           *)
(***************************************************************************)
LEMMA StepAdvances ==
    ASSUME IInv, Next, head.by = "partner", head'.by = "partner", head'.xid = head.xid
    PROVE  TakesDown \/ (Rank(head'.status) >= Rank(head.status) /\ head'.at >= head.at)
<1> USE DEF IInv
<1>1. head.at \in Nat /\ Rank(head.status) \in Nat
      BY TypeFacts DEF TypeInv, Rank
<1>2. CASE UNCHANGED head
      BY <1>1, <1>2
<1>3. ASSUME NEW s \in Slots, Apply(s), head' # head
      PROVE  Rank(head'.status) >= Rank(head.status) /\ head'.at >= head.at
  <2>1. Event(s).at \in Nat /\ Rank(Event(s).status) \in Nat
        BY <1>3, EventType, BoundAssumption DEF Apply, Time, Rank
  <2>2. /\ Applies(Event(s).status, Event(s).at)
        /\ head'.status = Event(s).status /\ head'.at = Event(s).at
        BY <1>3 DEF Apply, Event, Write
  <2> QED BY <1>1, <2>1, <2>2 DEF Applies
<1>4. ASSUME NEW s \in Slots, Takedown(s) PROVE TakesDown
      BY <1>4, SlotBecomes DEF Takedown, Done, TakesDown, GuardIsCurrent
<1>5. ASSUME NEW s \in Slots, Restore(s) \/ Finalize(s), head' # head PROVE FALSE
      BY <1>5 DEF Restore, Finalize, SubmissionIsStaged, AwaitsAnswer
<1>6. ASSUME NEW s \in Slots, Stage(s) \/ Publish(s), head' # head PROVE FALSE
      BY <1>6 DEF Stage, Publish, Write
<1>7. ASSUME EditRights \/ SelectArtwork PROVE FALSE
      BY <1>7 DEF EditRights, SelectArtwork, Edit, Write
<1>8. ASSUME NEW s \in Slots,
             Observe(s) \/ Refused(s) \/ Submit(s) \/ PublishRead(s) \/ TakedownRead(s) \/ Die(s)
                \/ \E r \in 1..MaxRevision : \E n \in 1..MaxMoves : Look(s, r, n)
      PROVE  UNCHANGED head
      BY <1>8 DEF Observe, Refused, Submit, PublishRead, TakedownRead, Die, Look
<1>9. CASE SongWrites \/ Tick \/ \E r \in 1..MaxRevision : PartnerMove(r)
      BY <1>2, <1>9 DEF SongWrites, Tick, PartnerMove
<1> QED BY <1>2, <1>3, <1>4, <1>5, <1>6, <1>7, <1>8, <1>9 DEF Next, Distribute, FirstParty, Webhook

THEOREM StatusOfPartnerAdvances == Spec => PartnerStatusAdvances
<1>1. IInv /\ [Next]_vars =>
        [head.by = "partner" /\ head'.by = "partner" /\ head'.xid = head.xid
           => \/ TakesDown
              \/ Rank(head'.status) >= Rank(head.status) /\ head'.at >= head.at]_vars
      BY StepAdvances DEF vars
<1> QED BY <1>1, Safe, PTL DEF Spec, PartnerStatusAdvances
=============================================================================
