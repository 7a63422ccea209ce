------------------------ MODULE SubscriptionsProofs ------------------------
(***************************************************************************)
(* Theorems about Subscriptions, for any checkouts, plans, lives at        *)
(* PayPal, sales, requests and faults.                                     *)
(***************************************************************************)
EXTENDS Subscriptions, FiniteSetTheorems, TLAPS

AllEvents == StatusEvents(life) \cup SaleEvents(life)

IsStatus(e) == /\ e.kind = "status" /\ e.of = <<e.of[1]>> /\ e.of[1] \in Checkouts
               /\ e.n \in DOMAIN life[e.of[1]]
               /\ e = [kind |-> "status", of |-> <<e.of[1]>>, n |-> e.n]
IsSale(e)   == /\ e.kind = "sale" /\ e.of = <<e.of[1]>> /\ e.of[1] \in Checkouts /\ e.n \in 1..Sales
               /\ e = [kind |-> "sale", of |-> <<e.of[1]>>, n |-> e.n]

LEMMA EventKinds ==
    ASSUME NEW e \in AllEvents
    PROVE  IsStatus(e) \/ IsSale(e)
<1>1. CASE e \in StatusEvents(life)
  <2>1. PICK c \in Checkouts : e \in {[kind |-> "status", of |-> <<c>>, n |-> n] : n \in DOMAIN life[c]}
        BY <1>1 DEF StatusEvents
  <2>2. PICK n \in DOMAIN life[c] : e = [kind |-> "status", of |-> <<c>>, n |-> n]
        BY <2>1
  <2> QED BY <2>2 DEF IsStatus
<1>2. CASE e \in SaleEvents(life)
  <2>1. PICK c \in Checkouts, n \in 1..Sales : e = [kind |-> "sale", of |-> <<c>>, n |-> n]
        BY <1>2 DEF SaleEvents
  <2> QED BY <2>1 DEF IsSale
<1> QED BY <1>1, <1>2 DEF AllEvents

(***************************************************************************)
(* What has been written stays: an intent stays, a granted cycle stays     *)
(* granted, and the status of a subscription gives way only to later ones. *)
(***************************************************************************)
Changes   == [status : {"ACTIVE"} \cup Ended, at : Nat \ {0}]
Statuses  == Billable \cup Ended \cup {"none"}
Intents   == [status : Open \cup {"none", "CANCELED", "COMPLETED"}, bound : BOOLEAN]
Records   == [status : Statuses, at : Nat, born : Nat]

\* A row that an event of this status and time leaves as it is.
Outdates(row, new) ==
    /\ row.at # 0
    /\ \/ row.at = new.at /\ row.status = new.status
       \/ ~Precedes(row, new)

Applied(e) ==
    /\ e.kind = "status" => Outdates(subscription[e.of[1]], life[e.of[1]][e.n])
    /\ e.kind = "sale"   => cycles[e.of[1]][e.n] = 1

LifeOK ==
    /\ life \in Lives
    /\ \A c \in Checkouts : /\ stage[c] \in 0..Len(life[c])
                            /\ life[c] \in Seq(Changes)
                            /\ \A m, n \in DOMAIN life[c] : m < n => Precedes(life[c][m], life[c][n])

\* The status of a row is one the subscription has had at PayPal.
RowFrom(c) ==
    /\ subscription[c].at = 0 <=> subscription[c].status \in {"none", "PENDING"}
    /\ subscription[c].at # 0 => \E n \in 1..stage[c] : /\ life[c][n].status = subscription[c].status
                                                        /\ life[c][n].at = subscription[c].at

BooksOK ==
    /\ intent \in [Checkouts -> Intents]
    /\ subscription \in [Checkouts -> Records]
    /\ workspace \in [current : Checkouts \cup {None}, plan : {Plan[c] : c \in Checkouts} \cup {"STARTER"}]
    /\ cycles \in [Checkouts -> [1..Sales -> {0, 1}]]
    /\ stage \in [Checkouts -> Nat]
    /\ LifeOK
    /\ \A c \in Checkouts : RowFrom(c)
    /\ \A c \in Checkouts : intent[c].status = "none" => subscription[c].status = "none"
    /\ PlanFollowsSubscription /\ OpenCheckoutIsLive

Results == {"processed", "unmatched", "retryable", "failed"}

RequestOK(h) ==
    /\ h.does \in {"idle", "bind", "confirm", "apply", "settle"}
    /\ h.does \in {"bind", "confirm"} => h.checkout \in Checkouts
    /\ h.does = "bind" => intent[h.checkout].status # "none"
    /\ h.does \in {"apply", "settle"} => h.event \in AllEvents /\ Happened(h.event)
    /\ h.does = "settle" =>
          h.result \in Results /\ (h.result = "processed" => Applied(h.event))

RequestsOK == \A s \in Slots : RequestOK(handler[s])

Rows == [row: Results \cup {"none", "processing"}, stale: BOOLEAN, acked: BOOLEAN]
InboxOK == DOMAIN handler = Slots /\ inbox \in [AllEvents -> Rows] /\ faults \in Nat
ProcessedOK == \A e \in AllEvents : inbox[e].row = "processed" => Applied(e)

Inv == InboxOK /\ BooksOK /\ RequestsOK /\ ProcessedOK

Grows ==
    /\ life' = life
    /\ \A c \in Checkouts : stage'[c] \in Nat /\ stage'[c] >= stage[c]
    /\ \A c \in Checkouts : intent[c].status # "none" => intent'[c].status # "none"
    /\ \A c \in Checkouts : \A n \in 1..Sales : cycles[c][n] = 1 => cycles'[c][n] = 1
    /\ \A c \in Checkouts : \A new \in Changes :
           Outdates(subscription[c], new) => Outdates(subscription'[c], new)

LEMMA AppliedGrows ==
    ASSUME BooksOK, Grows, NEW e \in AllEvents
    PROVE  /\ AllEvents' = AllEvents
           /\ Happened(e) => Happened(e)'
           /\ Applied(e) => Applied(e)'
<1>1. AllEvents' = AllEvents
      BY DEF Grows, AllEvents
<1>2. PICK c \in Checkouts : c = e.of[1]
      BY EventKinds DEF IsStatus, IsSale
<1>i. PICK i : i = e.n
      OBVIOUS
<1>3. stage[c] \in Nat /\ stage'[c] \in Nat /\ stage'[c] >= stage[c]
      BY DEF BooksOK, Grows
<1>4. CASE IsStatus(e)
  <2>1. e.kind = "status" /\ i \in DOMAIN life[c] /\ life[c][i] \in Changes /\ i \in Nat
        BY <1>i, <1>2, <1>4 DEF IsStatus, BooksOK, LifeOK
  <2>2. Applied(e) => Applied(e)'
        BY <1>i, <1>2, <2>1 DEF Grows, Applied
  <2>3. Happened(e) => Happened(e)'
    <3>1. Happened(e) => i <= stage[c]
          BY <1>i, <1>2, <2>1 DEF Happened
    <3>2. i <= stage'[c] => Happened(e)'
          BY <1>i, <1>2, <2>1 DEF Happened
    <3> QED BY <1>3, <2>1, <3>1, <3>2
  <2> QED BY <1>1, <2>2, <2>3
<1>5. CASE IsSale(e)
  <2>1. e.kind = "sale" /\ i \in 1..Sales
        BY <1>i, <1>2, <1>5 DEF IsSale
  <2>2. Applied(e) => Applied(e)'
        BY <1>i, <1>2, <2>1 DEF Grows, Applied
  <2>3. Happened(e) => Happened(e)'
    <3>1. Happened(e) => stage[c] > 0
          BY <1>i, <1>2, <2>1 DEF Happened
    <3>2. stage'[c] > 0 => Happened(e)'
          BY <1>i, <1>2, <2>1 DEF Happened
    <3> QED BY <1>3, <2>1, <3>1, <3>2
  <2> QED BY <1>1, <2>2, <2>3
<1> QED BY <1>4, <1>5, EventKinds

LEMMA RequestGrows ==
    ASSUME BooksOK, Grows, NEW h, RequestOK(h)
    PROVE  RequestOK(h)'
<1>1. h.does \in {"apply", "settle"} =>
          /\ h.event \in AllEvents'
          /\ Happened(h.event)'
          /\ Applied(h.event) => Applied(h.event)'
      BY AppliedGrows DEF RequestOK
<1> QED BY <1>1 DEF RequestOK, Grows

LEMMA BecomeOK ==
    ASSUME Inv, Grows, NEW s \in Slots, NEW h, Become(s, h), RequestOK(h)'
    PROVE  DOMAIN handler' = Slots /\ RequestsOK'
<1>1. /\ DOMAIN handler' = Slots
      /\ \A t \in Slots : handler'[t] = IF t = s THEN h ELSE handler[t]
      BY DEF Become, Inv, InboxOK
<1>2. SUFFICES ASSUME NEW t \in Slots, NEW g, g = handler'[t]
               PROVE  RequestOK(g)'
      BY <1>1 DEF RequestsOK, RequestOK
<1>3. CASE g = h
      BY <1>3
<1>4. CASE g = handler[t]
  <2>1. RequestOK(g)
        BY <1>4 DEF Inv, RequestsOK
  <2> QED BY <2>1, RequestGrows DEF Inv
<1> QED BY <1>1, <1>2, <1>3, <1>4

LEMMA ProcessedGrows ==
    ASSUME Inv, Grows, inbox' = inbox, faults' = faults
    PROVE  /\ ProcessedOK'
           /\ DOMAIN handler' = Slots => InboxOK'
<1>1. AllEvents' = AllEvents
      BY DEF Grows, AllEvents
<1>2. \A e \in AllEvents : Applied(e) => Applied(e)'
      BY AppliedGrows DEF Inv
<1> QED BY <1>1, <1>2 DEF Inv, InboxOK, ProcessedOK

LEMMA BooksStep ==
    ASSUME Inv, Grows, BooksOK', UNCHANGED <<inbox, faults>>,
           NEW s \in Slots, NEW h, Become(s, h), RequestOK(h)'
    PROVE  Inv'
<1>1. DOMAIN handler' = Slots /\ RequestsOK' /\ ProcessedOK' /\ InboxOK'
      BY BecomeOK, ProcessedGrows
<1> QED BY <1>1 DEF Inv

LEMMA IdleOK == RequestOK(Idle) /\ RequestOK(Idle)'
BY DEF RequestOK, Idle

LEMMA SameBooks ==
    ASSUME BooksOK, UNCHANGED <<books, stage, life>>
    PROVE  Grows /\ BooksOK'
BY DEF BooksOK, LifeOK, RowFrom, PlanFollowsSubscription, OpenCheckoutIsLive, Grows, Outdates, books

(***************************************************************************)
(* The intents: one is never reopened after its subscription has ended.    *)
(***************************************************************************)
LEMMA IntentType ==
    ASSUME BooksOK, NEW c \in Checkouts, NEW status \in Open \cup {"CANCELED", "COMPLETED"},
           SetIntent(c, status)
    PROVE  /\ intent' \in [Checkouts -> Intents]
           /\ \A d \in Checkouts : intent'[d].status = IF d = c THEN status ELSE intent[d].status
BY DEF SetIntent, BooksOK, Intents

LEMMA IntentBooks ==
    ASSUME BooksOK, UNCHANGED <<subscription, workspace, cycles, stage, life>>,
           intent' \in [Checkouts -> Intents],
           \A d \in Checkouts : \/ intent'[d].status = intent[d].status
                                \/ /\ intent'[d].status # "none"
                                   /\ intent'[d].status \in Open => subscription[d].status \notin Ended
    PROVE  Grows /\ BooksOK'
<1>1. Grows
      BY DEF BooksOK, Grows
<1>2. OpenCheckoutIsLive'
      BY DEF BooksOK, OpenCheckoutIsLive
<1>3. LifeOK' /\ \A c \in Checkouts : RowFrom(c)'
      BY DEF BooksOK, LifeOK, RowFrom
<1>4. PlanFollowsSubscription'
      BY DEF BooksOK, PlanFollowsSubscription
<1> QED BY <1>1, <1>2, <1>3, <1>4 DEF BooksOK

LEMMA ReserveStep ==
    ASSUME Inv, NEW s \in Slots, NEW c \in Checkouts, Reserve(s, c)
    PROVE  Inv'
<1>1. /\ intent' \in [Checkouts -> Intents]
      /\ \A d \in Checkouts : \/ intent'[d].status = intent[d].status
                              \/ d = c /\ intent[c].status = "none" /\ intent'[c].status = "CREATED"
      /\ intent'[c].status # "none"
  <2>1. CASE intent[c].status = "none"
    <3>1. SetIntent(c, "CREATED")
          BY <2>1 DEF Reserve
    <3> QED BY <2>1, <3>1, IntentType DEF Inv, Open
  <2>2. CASE intent[c].status # "none"
        BY <2>2 DEF Reserve, Inv, BooksOK
  <2> QED BY <2>1, <2>2
<1>2. subscription[c].status \in Ended => intent[c].status # "none"
      BY DEF Inv, BooksOK, Ended
<1>3. Grows /\ BooksOK'
      BY <1>1, <1>2, IntentBooks DEF Inv, Reserve
<1>4. RequestOK([does |-> "bind", checkout |-> c])'
      BY <1>1 DEF RequestOK
<1> QED BY <1>3, <1>4, BooksStep DEF Reserve

LEMMA ReturnStep ==
    ASSUME Inv, NEW s \in Slots, NEW c \in Checkouts, Return(s, c)
    PROVE  Inv'
<1>1. Grows /\ BooksOK'
      BY SameBooks DEF Return, Inv
<1>2. PICK h : h = [does |-> "confirm", checkout |-> c, active |-> ActiveAtPayPal(c)]
      OBVIOUS
<1>3. h.does = "confirm" /\ h.checkout = c
      BY <1>2
<1>4. RequestOK(h)'
      BY <1>3 DEF RequestOK
<1> QED BY <1>1, <1>2, <1>4, BooksStep DEF Return

LEMMA ConfirmStep ==
    ASSUME Inv, NEW s \in Slots, Confirm(s)
    PROVE  Inv'
<1>1. PICK c \in Checkouts : c = handler[s].checkout
      BY DEF Confirm, Inv, RequestsOK, RequestOK
<1>2. Grows /\ BooksOK'
  <2>1. CASE intent[c].status \in Open
    <3>1. PICK status \in Open : SetIntent(c, status)
          BY <1>1, <2>1 DEF Confirm, Open
    <3>2. subscription[c].status \notin Ended
          BY <2>1 DEF Inv, BooksOK, OpenCheckoutIsLive
    <3>3. status # "none"
          BY DEF Open
    <3> QED BY <3>1, <3>2, <3>3, IntentType, IntentBooks DEF Confirm, Inv
  <2>2. CASE intent[c].status \notin Open
        BY <1>1, <2>2, SameBooks DEF Confirm, Inv, books
  <2> QED BY <2>1, <2>2
<1> QED BY <1>2, IdleOK, BooksStep DEF Confirm

LEMMA AdvanceStep ==
    ASSUME Inv, NEW c \in Checkouts, Advance(c)
    PROVE  Inv'
<1>1. /\ stage' \in [Checkouts -> Nat]
      /\ \A d \in Checkouts : stage'[d] = IF d = c THEN stage[c] + 1 ELSE stage[d]
      BY DEF Advance, Inv, BooksOK
<1>2. Len(life[c]) \in Nat /\ stage[c] < Len(life[c])
      BY DEF Advance, Inv, BooksOK, LifeOK
<1>3. Grows
      BY <1>1 DEF Advance, Inv, BooksOK, Grows, Outdates, books
<1>4. LifeOK'
      BY <1>1, <1>2 DEF Advance, Inv, BooksOK, LifeOK
<1>5. \A d \in Checkouts : RowFrom(d)'
      BY <1>1 DEF Advance, Inv, BooksOK, RowFrom, books
<1>6. BooksOK'
      BY <1>1, <1>4, <1>5 DEF Advance, Inv, BooksOK, PlanFollowsSubscription, OpenCheckoutIsLive, books
<1>7. RequestsOK'
  <2>1. SUFFICES ASSUME NEW t \in Slots, NEW g, g = handler'[t]
                 PROVE  RequestOK(g)'
        BY DEF RequestsOK, RequestOK
  <2>2. RequestOK(g)
        BY <2>1 DEF Advance, inboxVars, Inv, RequestsOK
  <2> QED BY <1>3, <2>2, RequestGrows DEF Inv
<1> QED BY <1>3, <1>6, <1>7, ProcessedGrows DEF Inv, InboxOK, Advance, inboxVars

LEMMA BindStep ==
    ASSUME Inv, NEW s \in Slots, Bind(s)
    PROVE  Inv'
<1>1. PICK c \in Checkouts : c = handler[s].checkout /\ intent[c].status # "none"
      BY DEF Bind, Inv, RequestsOK, RequestOK
<1>2. /\ intent' \in [Checkouts -> Intents]
      /\ \A d \in Checkouts : \/ intent'[d].status = intent[d].status
                              \/ /\ d = c /\ intent[c].status = "CREATED"
                                 /\ intent'[c].status = "PENDING_APPROVAL"
      /\ intent'[c].status # "none"
  <2> DEFINE new == [status |-> IF intent[c].status = "CREATED" THEN "PENDING_APPROVAL" ELSE intent[c].status,
                     bound  |-> TRUE]
  <2>1. intent' = [intent EXCEPT ![c] = new]
        BY <1>1 DEF Bind
  <2>2. new \in Intents /\ new.status = IF intent[c].status = "CREATED" THEN "PENDING_APPROVAL"
                                        ELSE intent[c].status
        BY DEF Inv, BooksOK, Intents, Open
  <2> HIDE DEF new
  <2> QED BY <1>1, <2>1, <2>2 DEF Inv, BooksOK
<1>3. CASE subscription' = subscription
  <2>1. \A d \in Checkouts : subscription[d].status \in Ended /\ intent'[d].status \in Open
                                => intent[d].status \in Open /\ intent'[d].status # "none"
        BY <1>2 DEF Open
  <2>2. Grows /\ BooksOK'
        BY <1>2, <1>3, <2>1, IntentBooks DEF Bind, Inv, BooksOK, OpenCheckoutIsLive
  <2> QED BY <2>2, IdleOK, BooksStep DEF Bind
<1>4. CASE subscription' # subscription
  <2>1. PICK born \in Nat : subscription' = [subscription EXCEPT ![c] =
                                [status |-> "PENDING", at |-> 0, born |-> born]]
    <3> DEFINE Born == {d \in Checkouts : subscription[d].born > 0}
    <3>1. Cardinality(Born) \in Nat
          BY CheckoutAssumption, FS_Subset, FS_CardinalityType
    <3> HIDE DEF Born
    <3>2. subscription' = [subscription EXCEPT ![c] =
                              [status |-> "PENDING", at |-> 0, born |-> Cardinality(Born) + 1]]
          BY <1>1, <1>4 DEF Bind, Born
    <3>3. PICK born \in Nat : born = Cardinality(Born) + 1
          BY <3>1
    <3> QED BY <3>2, <3>3
  <2>2. subscription[c].status = "none"
        BY <1>1, <1>4 DEF Bind
  <2>3. /\ subscription' \in [Checkouts -> Records]
        /\ \A d \in Checkouts \ {c} : subscription'[d] = subscription[d]
        /\ subscription'[c].status = "PENDING" /\ subscription'[c].at = 0
        BY <2>1 DEF Inv, BooksOK, Records, Statuses, Billable
  <2>4. subscription[c].at = 0
        BY <2>2 DEF Inv, BooksOK, RowFrom
  <2>5. Grows
    <3>1. \A d \in Checkouts : intent[d].status # "none" => intent'[d].status # "none"
          BY <1>2
    <3>2. \A d \in Checkouts : \A new \in Changes :
             Outdates(subscription[d], new) => Outdates(subscription'[d], new)
          BY <2>3, <2>4 DEF Outdates
    <3>3. \A d \in Checkouts : stage[d] \in Nat /\ stage[d] >= stage[d]
          BY DEF Inv, BooksOK
    <3> QED BY <3>1, <3>2, <3>3 DEF Bind, Grows
  <2>6. LifeOK' /\ \A d \in Checkouts : RowFrom(d)'
        BY <2>3 DEF Bind, Inv, BooksOK, LifeOK, RowFrom
  <2>7. PlanFollowsSubscription'
    <3>1. \A d \in Checkouts : subscription'[d].status = "ACTIVE" <=> subscription[d].status = "ACTIVE"
          BY <2>2, <2>3
    <3> QED BY <3>1 DEF Bind, Inv, BooksOK, PlanFollowsSubscription
  <2>8. OpenCheckoutIsLive'
        BY <1>2, <2>3 DEF Inv, BooksOK, OpenCheckoutIsLive, Open, Ended
  <2>9. BooksOK'
        BY <1>2, <2>3, <2>6, <2>7, <2>8 DEF Bind, Inv, BooksOK
  <2> QED BY <2>5, <2>9, IdleOK, BooksStep DEF Bind
<1> QED BY <1>3, <1>4

(***************************************************************************)
(* The handlers of the webhook events.                                     *)
(***************************************************************************)
LEMMA SettleOK ==
    ASSUME BooksOK, Grows, NEW e \in AllEvents, Happened(e), Applied(e)'
    PROVE  RequestOK([does |-> "settle", event |-> e, result |-> "processed"])'
<1>1. e \in AllEvents' /\ Happened(e)'
      BY AppliedGrows
<1> QED BY <1>1 DEF RequestOK, Results

LEMMA SaleStep ==
    ASSUME Inv, NEW s \in Slots, ApplySale(s)
    PROVE  Inv'
<1>1. PICK e \in AllEvents : e = handler[s].event /\ Happened(e) /\ e.kind = "sale"
      BY DEF ApplySale, Inv, RequestsOK, RequestOK
<1>2. PICK c \in Checkouts : c = e.of[1]
      BY <1>1, EventKinds DEF IsSale, IsStatus
<1>3. PICK n \in 1..Sales : n = e.n
      BY <1>1, EventKinds DEF IsSale, IsStatus
<1>4. GrantCycle(c, n) /\ Become(s, [does |-> "settle", event |-> e, result |-> "processed"])
      BY <1>1, <1>2, <1>3 DEF ApplySale, ToSettle
<1>5. /\ cycles' \in [Checkouts -> [1..Sales -> {0, 1}]]
      /\ \A d \in Checkouts : \A m \in 1..Sales :
            cycles'[d][m] = IF d = c /\ m = n THEN 1 ELSE cycles[d][m]
  <2>1. CASE UNCHANGED cycles /\ cycles[c][n] > 0
    <3>1. cycles[c][n] \in {0, 1}
          BY DEF Inv, BooksOK
    <3> QED BY <2>1, <3>1 DEF Inv, BooksOK
  <2>2. CASE cycles' = [cycles EXCEPT ![c] = [@ EXCEPT ![n] = 1]]
    <3>1. PICK row : row = [cycles[c] EXCEPT ![n] = 1]
          OBVIOUS
    <3>2. cycles[c] \in [1..Sales -> {0, 1}]
          BY DEF Inv, BooksOK
    <3>3. row \in [1..Sales -> {0, 1}] /\ \A m \in 1..Sales : row[m] = IF m = n THEN 1 ELSE cycles[c][m]
          BY <3>1, <3>2
    <3>4. cycles' = [cycles EXCEPT ![c] = row]
          BY <2>2, <3>1
    <3> QED BY <3>3, <3>4 DEF Inv, BooksOK
  <2> QED BY <1>4, <2>1, <2>2 DEF GrantCycle
<1>6. /\ intent' \in [Checkouts -> Intents]
      /\ \A d \in Checkouts : \/ intent'[d].status = intent[d].status
                              \/ intent'[d].status = "COMPLETED"
  <2>1. CASE UNCHANGED intent
        BY <2>1 DEF Inv, BooksOK
  <2>2. CASE SetIntent(c, "COMPLETED")
        BY <2>2, IntentType DEF Inv
  <2> QED BY <1>4, <2>1, <2>2 DEF GrantCycle
<1>7. Grows
  <2>1. \A d \in Checkouts : intent[d].status # "none" => intent'[d].status # "none"
        BY <1>6
  <2>2. \A d \in Checkouts : \A m \in 1..Sales : cycles[d][m] = 1 => cycles'[d][m] = 1
        BY <1>5
  <2>3. \A d \in Checkouts : stage[d] \in Nat /\ stage[d] >= stage[d]
        BY DEF Inv, BooksOK
  <2> QED BY <2>1, <2>2, <2>3 DEF ApplySale, Grows
<1>8. BooksOK'
  <2>1. OpenCheckoutIsLive'
        BY <1>6 DEF ApplySale, Inv, BooksOK, OpenCheckoutIsLive, Open
  <2>2. LifeOK' /\ (\A d \in Checkouts : RowFrom(d)') /\ PlanFollowsSubscription'
        BY DEF ApplySale, Inv, BooksOK, LifeOK, RowFrom, PlanFollowsSubscription
  <2> QED BY <1>5, <1>6, <2>1, <2>2 DEF ApplySale, Inv, BooksOK
<1>9. Applied(e)'
      BY <1>1, <1>2, <1>3, <1>5 DEF Applied
<1>10. RequestOK([does |-> "settle", event |-> e, result |-> "processed"])'
      BY <1>1, <1>7, <1>9, SettleOK DEF Inv
<1> QED BY <1>4, <1>7, <1>8, <1>10, BooksStep DEF ApplySale

LEMMA PrecedenceType ==
    ASSUME NEW status \in {"PENDING", "ACTIVE"} \cup Ended
    PROVE  Precedence[status] \in Nat
BY DEF Precedence, Ended

\* Of a row's status and an event's, Precedes is a strict total order.
LEMMA PrecedesOrder ==
    ASSUME NEW row, row.status \in {"PENDING", "ACTIVE"} \cup Ended, row.at \in Nat,
           NEW new \in Changes, NEW other \in Changes
    PROVE  /\ ~(Precedes(row, new) /\ Precedes(new, row))
           /\ Precedes(row, new) /\ Precedes(new, other) => Precedes(row, other)
           /\ ~Precedes(new, new)
<1>1. /\ new.at \in Nat /\ other.at \in Nat
      /\ new.status \in {"PENDING", "ACTIVE"} \cup Ended /\ other.status \in {"PENDING", "ACTIVE"} \cup Ended
      BY DEF Changes
<1>2. PICK p \in Nat, q \in Nat, r \in Nat :
         p = Precedence[row.status] /\ q = Precedence[new.status] /\ r = Precedence[other.status]
      BY <1>1, PrecedenceType
<1> QED BY <1>1, <1>2 DEF Precedes

LEMMA OutdatesLater ==
    ASSUME NEW row, row.status \in Statuses, row.at \in Nat,
           row.at = 0 <=> row.status \in {"none", "PENDING"},
           NEW new \in Changes, Supersedes(new, row),
           NEW written, written.status = new.status, written.at = new.at,
           NEW other \in Changes, Outdates(row, other)
    PROVE  Outdates(written, other)
<1>1. row.at # 0 /\ row.status \in {"PENDING", "ACTIVE"} \cup Ended
      BY DEF Outdates, Statuses, Billable
<1>2. Precedes(row, new)
      BY <1>1 DEF Supersedes
<1>3. written.at # 0
      BY DEF Changes
<1>4. ~Precedes(new, other)
  <2>1. CASE ~Precedes(row, other)
        BY <1>1, <1>2, <2>1, PrecedesOrder
  <2>2. CASE row.at = other.at /\ row.status = other.status
    <3>1. Precedes(other, new)
          BY <1>2, <2>2 DEF Precedes
    <3>2. ~(Precedes(row, new) /\ Precedes(new, row))
          BY <1>1, PrecedesOrder
    <3> QED BY <1>2, <2>2, <3>2 DEF Precedes
  <2> QED BY <2>1, <2>2 DEF Outdates
<1>5. ~Precedes(written, other)
      BY <1>4 DEF Precedes
<1> QED BY <1>3, <1>5 DEF Outdates

LEMMA FollowPlan ==
    ASSUME NEW rows, rows = subscription', NEW c \in Checkouts, Follow(rows, c)
    PROVE  /\ PlanFollowsSubscription'
           /\ workspace' \in [current : Checkouts \cup {None}, plan : {Plan[d] : d \in Checkouts} \cup {"STARTER"}]
<1> DEFINE active == {d \in Checkouts : rows[d].status = "ACTIVE"}
<1>1. CASE active = {}
      BY <1>1 DEF Follow, PlanFollowsSubscription
<1>2. CASE active # {}
  <2>1. PICK d \in active : workspace' = [current |-> d, plan |-> Plan[d]]
        BY <1>2 DEF Follow
  <2> QED BY <2>1 DEF PlanFollowsSubscription
<1> QED BY <1>1, <1>2

LEMMA StatusStep ==
    ASSUME Inv, NEW s \in Slots, ApplyStatus(s)
    PROVE  Inv'
<1>1. PICK e \in AllEvents : e = handler[s].event /\ Happened(e) /\ e.kind = "status"
      BY DEF ApplyStatus, Inv, RequestsOK, RequestOK
<1>2. PICK c \in Checkouts : c = e.of[1]
      BY <1>1, EventKinds DEF IsSale, IsStatus
<1>3. PICK n \in DOMAIN life[c] : n = e.n
      BY <1>1, <1>2, EventKinds DEF IsSale, IsStatus
<1>4. PICK new \in Changes : new = life[c][n]
      BY DEF Inv, BooksOK, LifeOK
<1>5. n \in 1..stage[c]
  <2>1. n \in Nat /\ n >= 1
        BY DEF Inv, BooksOK, LifeOK
  <2>2. n <= stage[c]
        BY <1>1, <1>2, <1>3 DEF Happened
  <2> QED BY <2>1, <2>2 DEF Inv, BooksOK
<1>6. /\ subscription' = IF Supersedes(new, subscription[c]) THEN Updated(c, new) ELSE subscription
      /\ Follow(subscription', c)
      /\ IF subscription' = subscription THEN UNCHANGED intent
         ELSE IF new.status # "ACTIVE" THEN SetIntent(c, "CANCELED")
         ELSE IF intent[c].status # "COMPLETED" THEN SetIntent(c, "APPROVED")
         ELSE UNCHANGED intent
      /\ Become(s, [does |-> "settle", event |-> e, result |-> "processed"])
      /\ UNCHANGED <<inbox, faults, cycles, stage, life>>
      BY <1>1, <1>2, <1>3, <1>4 DEF ApplyStatus, ToSettle
<1>7. /\ PlanFollowsSubscription'
      /\ workspace' \in [current : Checkouts \cup {None}, plan : {Plan[d] : d \in Checkouts} \cup {"STARTER"}]
  <2>1. PICK rows : rows = subscription'
        OBVIOUS
  <2>2. Follow(rows, c)
        BY <1>6, <2>1
  <2> QED BY <2>1, <2>2, FollowPlan
<1>8. /\ subscription' \in [Checkouts -> Records]
      /\ \A d \in Checkouts \ {c} : subscription'[d] = subscription[d]
      /\ \/ subscription' = subscription /\ ~Supersedes(new, subscription[c])
         \/ /\ Supersedes(new, subscription[c])
            /\ subscription'[c].status = new.status /\ subscription'[c].at = new.at
  <2>1. CASE ~Supersedes(new, subscription[c])
        BY <1>6, <2>1 DEF Inv, BooksOK
  <2>2. CASE Supersedes(new, subscription[c])
    <3>1. subscription' = [subscription EXCEPT ![c] =
                              [status |-> new.status, at |-> new.at, born |-> subscription[c].born]]
          BY <1>6, <2>2 DEF Updated
    <3>2. [status |-> new.status, at |-> new.at, born |-> subscription[c].born] \in Records
          BY DEF Inv, BooksOK, Records, Changes, Statuses, Billable
    <3> QED BY <2>2, <3>1, <3>2 DEF Inv, BooksOK
  <2> QED BY <2>1, <2>2
<1>9. /\ intent' \in [Checkouts -> Intents]
      /\ \A d \in Checkouts \ {c} : intent'[d].status = intent[d].status
      /\ intent[c].status # "none" => intent'[c].status # "none"
      /\ subscription' # subscription => intent'[c].status # "none"
      /\ subscription' # subscription /\ new.status # "ACTIVE" => intent'[c].status = "CANCELED"
      /\ subscription' = subscription => intent' = intent
  <2>1. CASE SetIntent(c, "CANCELED") /\ subscription' # subscription
        BY <2>1, IntentType DEF Inv
  <2>2. CASE SetIntent(c, "APPROVED") /\ subscription' # subscription /\ new.status = "ACTIVE"
        BY <2>2, IntentType DEF Inv, Open
  <2>3. CASE UNCHANGED intent /\ subscription' = subscription
        BY <2>3 DEF Inv, BooksOK
  <2>4. CASE UNCHANGED intent /\ intent[c].status = "COMPLETED" /\ new.status = "ACTIVE"
        BY <2>4 DEF Inv, BooksOK
  <2>5. CASE subscription' = subscription
        BY <1>6, <2>3, <2>5
  <2>6. CASE subscription' # subscription /\ new.status # "ACTIVE"
        BY <1>6, <2>1, <2>6
  <2>7. CASE subscription' # subscription /\ new.status = "ACTIVE"
        BY <1>6, <2>2, <2>4, <2>7
  <2> QED BY <2>5, <2>6, <2>7
<1>10. /\ subscription[c].status \in Statuses /\ subscription[c].at \in Nat
       /\ subscription[c].at = 0 <=> subscription[c].status \in {"none", "PENDING"}
       BY DEF Inv, BooksOK, Records, RowFrom
<1>11. Grows
  <2>1. ASSUME NEW d \in Checkouts, NEW other \in Changes, Outdates(subscription[d], other)
        PROVE  Outdates(subscription'[d], other)
        BY <1>8, <1>10, <2>1, OutdatesLater
  <2>2. \A d \in Checkouts : intent[d].status # "none" => intent'[d].status # "none"
        BY <1>9
  <2>3. \A d \in Checkouts : stage[d] \in Nat /\ stage[d] >= stage[d]
        BY DEF Inv, BooksOK
  <2> QED BY <1>6, <2>1, <2>2, <2>3 DEF Grows
<1>12. Applied(e)'
  <2>1. Outdates(subscription'[c], new)
    <3>1. CASE ~Supersedes(new, subscription[c])
          BY <1>8, <3>1 DEF Supersedes, Outdates
    <3>2. CASE Supersedes(new, subscription[c])
          BY <1>8, <3>2 DEF Outdates, Changes
    <3> QED BY <3>1, <3>2
  <2> QED BY <1>1, <1>2, <1>3, <1>4, <1>6, <2>1 DEF Applied
<1>13. BooksOK'
  <2>1. \A d \in Checkouts : RowFrom(d)'
    <3>1. ASSUME NEW d \in Checkouts, subscription'[d] = subscription[d]
          PROVE  RowFrom(d)'
          BY <1>6, <3>1 DEF Inv, BooksOK, RowFrom
    <3>2. ASSUME subscription'[c].status = new.status, subscription'[c].at = new.at
          PROVE  RowFrom(c)'
      <4>1. new.at # 0 /\ new.status \notin {"none", "PENDING"}
            BY DEF Changes, Ended
      <4> QED BY <1>4, <1>5, <1>6, <3>2, <4>1 DEF RowFrom
    <3> QED BY <1>8, <3>1, <3>2
  <2>2. OpenCheckoutIsLive'
    <3>1. CASE subscription' = subscription
          BY <1>9, <3>1 DEF Inv, BooksOK, OpenCheckoutIsLive
    <3>2. CASE subscription' # subscription
      <4>1. subscription'[c].status = new.status /\ (intent'[c].status = "CANCELED" \/ new.status = "ACTIVE")
            BY <1>8, <1>9, <3>2
      <4>2. \A d \in Checkouts \ {c} : intent'[d].status \in Open => subscription'[d].status \notin Ended
            BY <1>8, <1>9 DEF Inv, BooksOK, OpenCheckoutIsLive
      <4> QED BY <4>1, <4>2 DEF OpenCheckoutIsLive, Open, Ended
    <3> QED BY <3>1, <3>2
  <2>3. LifeOK'
        BY <1>6 DEF Inv, BooksOK, LifeOK
  <2>4. \A d \in Checkouts : intent'[d].status = "none" => subscription'[d].status = "none"
        BY <1>8, <1>9 DEF Inv, BooksOK
  <2> QED BY <1>6, <1>7, <1>8, <1>9, <2>1, <2>2, <2>3, <2>4 DEF Inv, BooksOK
<1>14. RequestOK([does |-> "settle", event |-> e, result |-> "processed"])'
       BY <1>1, <1>11, <1>12, SettleOK DEF Inv
<1> QED BY <1>6, <1>11, <1>13, <1>14, BooksStep

(***************************************************************************)
(* The inbox. Only Settle makes a row processed, and its request knows     *)
(* that the event has been applied.                                        *)
(***************************************************************************)
LEMMA InboxStep ==
    ASSUME Inv, UNCHANGED <<books, stage, life>>,
           inbox' \in [AllEvents -> Rows], faults' \in Nat,
           \A e \in AllEvents :
               inbox'[e].row = "processed" => inbox[e].row = "processed" \/ Applied(e),
           \/ handler' = handler
           \/ \E s \in Slots : \E h : Become(s, h) /\ RequestOK(h)
    PROVE  Inv'
<1>1. Grows /\ BooksOK'
      BY SameBooks DEF Inv
<1>2. DOMAIN handler' = Slots /\ RequestsOK'
  <2>1. CASE handler' = handler
    <3>1. SUFFICES ASSUME NEW t \in Slots, NEW g, g = handler'[t]
                   PROVE  RequestOK(g)'
          BY <2>1 DEF RequestsOK, RequestOK, Inv, InboxOK
    <3>2. RequestOK(g)
          BY <2>1, <3>1 DEF Inv, RequestsOK
    <3> QED BY <1>1, <3>2, RequestGrows DEF Inv
  <2>2. ASSUME NEW s \in Slots, NEW h, Become(s, h), RequestOK(h)
        PROVE  DOMAIN handler' = Slots /\ RequestsOK'
    <3>1. RequestOK(h)'
          BY <1>1, <2>2, RequestGrows DEF Inv
    <3> QED BY <1>1, <2>2, <3>1, BecomeOK
  <2> QED BY <2>1, <2>2
<1>3. ASSUME NEW e \in AllEvents, inbox'[e].row = "processed"
      PROVE  Applied(e)'
  <2>1. Applied(e)
        BY <1>3 DEF Inv, InboxOK, ProcessedOK
  <2> QED BY <1>1, <2>1, AppliedGrows DEF Inv
<1>4. AllEvents' = AllEvents
      BY <1>1 DEF Grows, AllEvents
<1> QED BY <1>1, <1>2, <1>3, <1>4 DEF Inv, InboxOK, ProcessedOK

LEMMA ClaimStep ==
    ASSUME Inv, UNCHANGED <<books, stage, life>>, NEW s \in Slots,
           NEW e \in AllEvents, Happened(e), Claim(s, e)
    PROVE  Inv'
<1>1. PICK h : h = [does |-> "apply", event |-> e, rest |-> e.of]
      OBVIOUS
<1>2. h.does = "apply" /\ h.event = e /\ h.rest = e.of
      BY <1>1
<1>3. RequestOK(h)
      BY <1>2 DEF RequestOK
<1>4. inbox' = [inbox EXCEPT ![e] = [row |-> "processing", stale |-> FALSE, acked |-> inbox[e].acked]]
      BY DEF Claim
<1>5. inbox' \in [AllEvents -> Rows]
      BY <1>4 DEF Inv, InboxOK, Rows
<1>6. \A f \in AllEvents : inbox'[f].row = "processed" => inbox[f].row = "processed"
      BY <1>4 DEF Inv, InboxOK
<1> QED BY <1>1, <1>3, <1>5, <1>6, InboxStep DEF Claim, Inv, InboxOK

LEMMA EventStep ==
    ASSUME Inv, UNCHANGED <<books, stage, life>>, NEW e \in AllEvents,
           AnswerAtOnce(e) \/ Age(e)
    PROVE  Inv'
<1>1. inbox' \in [AllEvents -> Rows]
      BY DEF AnswerAtOnce, Age, Inv, InboxOK, Rows
<1>2. \A f \in AllEvents : inbox'[f].row = inbox[f].row
      BY DEF AnswerAtOnce, Age, Inv, InboxOK, Rows
<1> QED BY <1>1, <1>2, InboxStep DEF AnswerAtOnce, Age, Inv, InboxOK

LEMMA SettleStep ==
    ASSUME Inv, UNCHANGED <<books, stage, life>>, NEW s \in Slots,
           Settle(s) \/ SettleFails(s)
    PROVE  Inv'
<1>1. PICK e \in AllEvents : e = handler[s].event
      BY DEF Settle, SettleFails, Inv, RequestsOK, RequestOK
<1>2. PICK result \in Results : /\ result = handler[s].result
                                /\ result = "processed" => Applied(e)
      BY <1>1 DEF Settle, SettleFails, Inv, RequestsOK, RequestOK
<1>3. Become(s, Idle) /\ faults' \in Nat
      BY DEF Settle, SettleFails, Fault, Inv, InboxOK
<1>4. CASE inbox' = inbox
      BY <1>3, <1>4, IdleOK, InboxStep DEF Inv, InboxOK
<1>5. ASSUME NEW row \in Results, row = "processed" => Applied(e), NEW acked \in BOOLEAN,
             inbox' = [inbox EXCEPT ![e] = [row |-> row, stale |-> FALSE, acked |-> acked]]
      PROVE  Inv'
  <2>1. inbox' \in [AllEvents -> Rows]
        BY <1>5 DEF Inv, InboxOK, Rows
  <2>2. \A f \in AllEvents :
            inbox'[f].row = "processed" => inbox[f].row = "processed" \/ Applied(f)
        BY <1>5 DEF Inv, InboxOK
  <2> QED BY <1>3, <2>1, <2>2, IdleOK, InboxStep
<1>6. inbox[e].acked \in BOOLEAN
      BY DEF Inv, InboxOK, Rows
<1>7. CASE Settle(s)
  <2>1. inbox' = [inbox EXCEPT ![e] = [row |-> result, stale |-> FALSE,
                     acked |-> inbox[e].acked \/ result \in {"processed", "unmatched"}]]
        BY <1>1, <1>2, <1>7 DEF Settle
  <2> QED BY <1>2, <1>5, <1>6, <2>1
<1>8. CASE SettleFails(s) /\ inbox' # inbox
  <2>1. inbox' = [inbox EXCEPT ![e] = [row |-> "failed", stale |-> FALSE, acked |-> inbox[e].acked]]
        BY <1>1, <1>8 DEF SettleFails
  <2> QED BY <1>5, <1>6, <2>1 DEF Results
<1> QED BY <1>4, <1>7, <1>8

LEMMA EndStep ==
    ASSUME Inv, UNCHANGED <<books, stage, life>>, NEW s \in Slots,
           Throw(s) \/ Die(s)
    PROVE  Inv'
<1>1. faults' \in Nat /\ inbox' = inbox
      BY DEF Throw, Die, Fault, Inv, InboxOK
<1>2. CASE Die(s)
      BY <1>1, <1>2, IdleOK, InboxStep DEF Die, Inv, InboxOK
<1>3. CASE Throw(s)
  <2>1. PICK e \in AllEvents : e = handler[s].event /\ Happened(e)
        BY <1>3 DEF Throw, Inv, RequestsOK, RequestOK
  <2>2. PICK h : h = [does |-> "settle", event |-> e, result |-> "failed"]
        OBVIOUS
  <2>3. RequestOK(h)
        BY <2>1, <2>2 DEF RequestOK, Results
  <2>4. Become(s, h)
        BY <1>3, <2>1, <2>2 DEF Throw, ToSettle
  <2> QED BY <1>1, <2>3, <2>4, InboxStep DEF Inv, InboxOK
<1> QED BY <1>2, <1>3

(***************************************************************************)
(* The theorems.                                                           *)
(***************************************************************************)

(***************************************************************************)
(* The theorems.                                                           *)
(***************************************************************************)
LEMMA Initially == Init => Inv
<1> SUFFICES ASSUME Init PROVE Inv
    OBVIOUS
<1>1. InboxOK
      BY FaultAssumption DEF Init, InboxInit, InboxOK, Rows, AllEvents
<1>2. LifeOK
  <2>1. \A c \in Checkouts : life[c] \in Life /\ life[c] \in Seq(Changes)
        BY LifeAssumption DEF Init, Life, Changes
  <2> QED BY <2>1 DEF Init, LifeOK, Life
<1>3. \A c \in Checkouts : RowFrom(c)
      BY DEF Init, RowFrom
<1>4. PlanFollowsSubscription /\ OpenCheckoutIsLive
      BY DEF Init, PlanFollowsSubscription, OpenCheckoutIsLive, Open
<1>5. BooksOK
      BY <1>2, <1>3, <1>4 DEF Init, BooksOK, Intents, Records, Statuses
<1>6. RequestsOK
      BY IdleOK DEF Init, InboxInit, RequestsOK
<1>7. ProcessedOK
      BY DEF Init, InboxInit, ProcessedOK, AllEvents
<1> QED BY <1>1, <1>5, <1>6, <1>7 DEF Inv

LEMMA Inductive == Inv /\ [Next]_vars => Inv'
<1> SUFFICES ASSUME Inv, [Next]_vars PROVE Inv'
    OBVIOUS
<1>1. DOMAIN inbox = AllEvents
      BY DEF Inv, InboxOK
<1>2. ASSUME NEW s \in Slots, Work(s)
      PROVE  Inv'
      BY <1>2, BindStep, ConfirmStep, StatusStep, SaleStep DEF Work
<1>3. ASSUME NEW s \in Slots, NEW c \in Checkouts, Reserve(s, c) \/ Return(s, c)
      PROVE  Inv'
      BY <1>3, ReserveStep, ReturnStep
<1>4. CASE InboxNext({e \in DOMAIN inbox : Happened(e)}) /\ UNCHANGED <<books, stage, life>>
  <2>1. ASSUME NEW e \in DOMAIN inbox, Happened(e), NEW s \in Slots, Claim(s, e)
        PROVE  Inv'
        BY <1>1, <1>4, <2>1, ClaimStep
  <2>2. ASSUME NEW e \in DOMAIN inbox, AnswerAtOnce(e) \/ Age(e)
        PROVE  Inv'
        BY <1>1, <1>4, <2>2, EventStep
  <2>3. ASSUME NEW s \in Slots, Throw(s) \/ Settle(s) \/ SettleFails(s) \/ Die(s)
        PROVE  Inv'
        BY <1>4, <2>3, EndStep, SettleStep
  <2> QED BY <1>4, <2>1, <2>2, <2>3 DEF InboxNext
<1>5. CASE UNCHANGED vars
      BY <1>1, <1>5, InboxStep DEF vars, inboxVars, Inv, InboxOK
<1> QED BY <1>2, <1>3, <1>4, <1>5, AdvanceStep DEF Next

LEMMA Always == SafeSpec => []Inv
BY Initially, Inductive, PTL DEF SafeSpec

(***************************************************************************)
(* The records of subscriptions keep their types, and a row has an event   *)
(* time exactly when an event has given it its status.                     *)
(***************************************************************************)
THEOREM SubscriptionTypeCorrect == SafeSpec => []SubscriptionsTypeOK
<1>1. Inv => SubscriptionsTypeOK
  <2> SUFFICES ASSUME Inv PROVE SubscriptionsTypeOK
      OBVIOUS
  <2>1. \A c \in Checkouts : cycles[c] \in [1..Sales -> Nat]
    <3>1. ASSUME NEW c \in Checkouts PROVE cycles[c] \in [1..Sales -> Nat]
      <4>1. cycles[c] \in [1..Sales -> {0, 1}]
            BY DEF Inv, BooksOK
      <4> QED BY <4>1
    <3> QED BY <3>1
  <2> QED BY <2>1 DEF Inv, BooksOK, LifeOK, RowFrom, Intents, Records, Statuses, SubscriptionsTypeOK
<1> QED BY <1>1, Always, PTL

(***************************************************************************)
(* In whatever order the events of a subscription are handled, once all    *)
(* that have happened are on record as processed its status is PayPal's.   *)
(***************************************************************************)
THEOREM StatusIsPayPals == SafeSpec => []StatusFollowsPayPal
<1>1. ASSUME Inv, NEW c \in Checkouts, stage[c] > 0,
             \A e \in DOMAIN inbox : e.kind = "status" /\ e.of = <<c>> /\ Happened(e)
                                        => inbox[e].row = "processed"
      PROVE  subscription[c].status = life[c][stage[c]].status
  <2>1. PICK k \in DOMAIN life[c] : k = stage[c]
        BY <1>1 DEF Inv, BooksOK, LifeOK
  <2>2. PICK e : e = [kind |-> "status", of |-> <<c>>, n |-> k]
        OBVIOUS
  <2>3. e \in AllEvents
        BY <2>1, <2>2 DEF AllEvents, StatusEvents
  <2>4. e.kind = "status" /\ e.of = <<c>> /\ e.of[1] = c /\ e.n = k
        BY <2>2
  <2>5. k \in Nat /\ k <= stage[c]
        BY <1>1, <2>1 DEF Inv, BooksOK
  <2>6. Happened(e)
        BY <2>4, <2>5 DEF Happened
  <2>7. Outdates(subscription[c], life[c][k])
    <3>1. inbox[e].row = "processed"
          BY <1>1, <2>3, <2>4, <2>6 DEF Inv, InboxOK
    <3> QED BY <1>1, <2>3, <2>4, <3>1 DEF Inv, ProcessedOK, Applied
  <2>8. PICK n \in 1..stage[c] : /\ life[c][n].status = subscription[c].status
                                 /\ life[c][n].at = subscription[c].at
        BY <1>1, <2>7 DEF Inv, BooksOK, RowFrom, Outdates
  <2>9. n \in DOMAIN life[c] /\ n \in Nat /\ n <= k
        BY <1>1, <2>1, <2>5 DEF Inv, BooksOK, LifeOK
  <2>10. CASE n = k
         BY <2>1, <2>8, <2>10
  <2>11. CASE n < k
    <3>1. Precedes(life[c][n], life[c][k])
          BY <1>1, <2>1, <2>9, <2>11 DEF Inv, BooksOK, LifeOK
    <3>2. Precedes(subscription[c], life[c][k])
          BY <2>8, <3>1 DEF Precedes
    <3> QED BY <2>1, <2>7, <3>2 DEF Outdates
  <2> QED BY <2>5, <2>9, <2>10, <2>11
<1>2. Inv => StatusFollowsPayPal
      BY <1>1 DEF StatusFollowsPayPal
<1> QED BY <1>2, Always, PTL

(***************************************************************************)
(* The workspace has the plan of an active subscription as long as there   *)
(* is one, and STARTER otherwise.                                          *)
(***************************************************************************)
THEOREM PlanIsOfSubscription == SafeSpec => []PlanFollowsSubscription
<1>1. Inv => PlanFollowsSubscription
      BY DEF Inv, BooksOK
<1> QED BY <1>1, Always, PTL

(***************************************************************************)
(* A checkout whose subscription has ended does not keep the workspace     *)
(* from another, however late the buyer returns or a sale is told.         *)
(***************************************************************************)
THEOREM EndedCheckoutIsClosed == SafeSpec => []OpenCheckoutIsLive
<1>1. Inv => OpenCheckoutIsLive
      BY DEF Inv, BooksOK
<1> QED BY <1>1, Always, PTL

(***************************************************************************)
(* A sale is granted at most once by however many requests, and at least   *)
(* once when it is on record as processed.                                 *)
(***************************************************************************)
THEOREM CycleGrantedOnce == SafeSpec => []CyclesGrantedOnce
<1>1. ASSUME Inv, NEW c \in Checkouts, NEW n \in 1..Sales,
             NEW e, e = [kind |-> "sale", of |-> <<c>>, n |-> n]
      PROVE  /\ cycles[c][n] <= 1
             /\ e \in DOMAIN inbox /\ inbox[e].row = "processed" => cycles[c][n] = 1
  <2>1. cycles[c][n] \in {0, 1}
        BY <1>1 DEF Inv, BooksOK
  <2>2. e.kind = "sale" /\ e.of[1] = c /\ e.n = n
        BY <1>1
  <2>3. e \in DOMAIN inbox /\ inbox[e].row = "processed" => Applied(e)
        BY <1>1 DEF Inv, InboxOK, ProcessedOK
  <2> QED BY <2>1, <2>2, <2>3 DEF Applied
<1>2. Inv => CyclesGrantedOnce
      BY <1>1 DEF CyclesGrantedOnce
<1> QED BY <1>2, Always, PTL

(***************************************************************************)
(* One subscription at a time. Of two checkouts one was reserved when the  *)
(* other was there already and was closed: its subscription has ended, and *)
(* what has ended at PayPal has ended for ever, even when it is revived.   *)
(***************************************************************************)
HasEnded(c) == \E n \in 1..stage[c] : life[c][n].status \in Ended

Closed == {"COMPLETED", "CANCELED"}

CheckoutsExclude ==
    /\ \A c \in Checkouts : /\ stage[c] > 0 => intent[c].bound
                            /\ intent[c].bound => intent[c].status # "none" /\ subscription[c].status # "none"
                            /\ intent[c].status \in Closed => subscription[c].status # "none"
    /\ \A c, d \in Checkouts : c # d /\ intent[c].status # "none" /\ intent[d].status # "none"
                                  => HasEnded(c) \/ HasEnded(d)

LEMMA SetIntentKeeps ==
    ASSUME BooksOK, NEW c \in Checkouts, NEW status \in Open \cup Closed, SetIntent(c, status)
    PROVE  /\ \A d \in Checkouts : /\ intent'[d].bound = intent[d].bound
                                   /\ intent'[d].status = IF d = c THEN status ELSE intent[d].status
           /\ status # "none"
BY DEF SetIntent, BooksOK, Intents, Open, Closed

LEMMA ReserveExcludes ==
    ASSUME Inv, CheckoutsExclude, NEW s \in Slots, NEW c \in Checkouts, Reserve(s, c)
    PROVE  CheckoutsExclude'
<1>1. CASE intent[c].status # "none"
      BY <1>1 DEF Reserve, CheckoutsExclude, HasEnded
<1>2. CASE intent[c].status = "none"
  <2>1. /\ \A d \in Checkouts : intent'[d].bound = intent[d].bound
        /\ \A d \in Checkouts \ {c} : intent'[d].status = intent[d].status
        /\ intent'[c].status = "CREATED"
    <3>1. SetIntent(c, "CREATED")
          BY <1>2 DEF Reserve
    <3>2. "CREATED" \in Open \cup Closed
          BY DEF Open
    <3> QED BY <3>1, <3>2, SetIntentKeeps DEF Inv
  <2>2. ASSUME NEW d \in Checkouts \ {c}, intent[d].status # "none"
        PROVE  HasEnded(d)
    <3>1. subscription[d].status \notin Billable /\ intent[d].status \notin Open
          BY DEF Reserve, Unrivalled
    <3>2. intent[d].status \in Closed
          BY <2>2, <3>1 DEF Inv, BooksOK, Intents, Closed
    <3>3. subscription[d].status \in Ended
          BY <3>1, <3>2 DEF CheckoutsExclude, Inv, BooksOK, Records, Statuses
    <3>4. subscription[d].at # 0
          BY <3>3 DEF Inv, BooksOK, RowFrom, Ended
    <3> QED BY <3>3, <3>4 DEF Inv, BooksOK, RowFrom, HasEnded
  <2>3. UNCHANGED <<subscription, stage, life>>
        BY DEF Reserve
  <2>4. \A d \in Checkouts : HasEnded(d)' <=> HasEnded(d)
        BY <2>3 DEF HasEnded
  <2>5. ~intent[c].bound
        BY <1>2 DEF CheckoutsExclude
  <2> QED BY <2>1, <2>2, <2>3, <2>4, <2>5 DEF CheckoutsExclude, Closed
<1> QED BY <1>1, <1>2

LEMMA BindExcludes ==
    ASSUME Inv, CheckoutsExclude, NEW s \in Slots, Bind(s)
    PROVE  CheckoutsExclude'
<1>1. PICK c \in Checkouts : c = handler[s].checkout /\ intent[c].status # "none"
      BY DEF Bind, Inv, RequestsOK, RequestOK
<1>2. /\ \A d \in Checkouts \ {c} : intent'[d] = intent[d]
      /\ intent'[c].status \in Closed => intent[c].status \in Closed
      /\ intent'[c].status # "none" /\ intent'[c].bound
  <2> DEFINE new == [status |-> IF intent[c].status = "CREATED" THEN "PENDING_APPROVAL" ELSE intent[c].status,
                     bound  |-> TRUE]
  <2>1. intent' = [intent EXCEPT ![c] = new]
        BY <1>1 DEF Bind
  <2>2. /\ new.status = IF intent[c].status = "CREATED" THEN "PENDING_APPROVAL" ELSE intent[c].status
        /\ new.bound
        OBVIOUS
  <2> HIDE DEF new
  <2> QED BY <1>1, <2>1, <2>2 DEF Inv, BooksOK, Closed
<1>3. /\ \A d \in Checkouts \ {c} : subscription'[d] = subscription[d]
      /\ subscription'[c].status # "none"
  <2>1. PICK row : /\ row.status = "PENDING"
                   /\ \/ subscription' = subscription /\ subscription[c].status # "none"
                      \/ subscription' = [subscription EXCEPT ![c] = row]
    <3>1. CASE subscription' = subscription /\ subscription[c].status # "none"
      <4>1. [status |-> "PENDING"].status = "PENDING"
            OBVIOUS
      <4> QED BY <3>1, <4>1
    <3>2. CASE subscription[c].status = "none"
      <4> DEFINE made == [status |-> "PENDING", at |-> 0,
                          born |-> Cardinality({d \in Checkouts : subscription[d].born > 0}) + 1]
      <4>1. made.status = "PENDING"
            OBVIOUS
      <4>2. subscription' = [subscription EXCEPT ![c] = made]
            BY <1>1, <3>2 DEF Bind
      <4> QED BY <4>1, <4>2
    <3> QED BY <1>1, <3>1, <3>2 DEF Bind
  <2> QED BY <2>1 DEF Inv, BooksOK
<1>4. \A d \in Checkouts : HasEnded(d)' <=> HasEnded(d)
      BY DEF Bind, HasEnded
<1>5. stage' = stage
      BY DEF Bind
<1> QED BY <1>1, <1>2, <1>3, <1>4, <1>5 DEF CheckoutsExclude

\* A step that may set the status of one known intent.
LEMMA IntentExcludes ==
    ASSUME Inv, CheckoutsExclude, UNCHANGED <<stage, life>>,
           \A d \in Checkouts : subscription[d].status # "none" => subscription'[d].status # "none",
           NEW c \in Checkouts, intent[c].bound,
           UNCHANGED intent \/ \E status \in Open \cup Closed : SetIntent(c, status)
    PROVE  CheckoutsExclude'
<1>1. \A d \in Checkouts : HasEnded(d)' <=> HasEnded(d)
      BY DEF HasEnded
<1>2. CASE UNCHANGED intent
      BY <1>1, <1>2 DEF CheckoutsExclude
<1>3. ASSUME NEW status \in Open \cup Closed, SetIntent(c, status)
      PROVE  CheckoutsExclude'
  <2>1. /\ \A d \in Checkouts : /\ intent'[d].bound = intent[d].bound
                                /\ intent'[d].status = IF d = c THEN status ELSE intent[d].status
        /\ status # "none"
        BY <1>3, SetIntentKeeps DEF Inv
  <2> QED BY <1>1, <2>1 DEF CheckoutsExclude
<1> QED BY <1>2, <1>3

LEMMA WorkExcludes ==
    ASSUME Inv, CheckoutsExclude, NEW s \in Slots, Confirm(s) \/ ApplySale(s) \/ ApplyStatus(s)
    PROVE  CheckoutsExclude'
<1>1. CASE Confirm(s)
  <2>1. PICK c \in Checkouts : c = handler[s].checkout
        BY <1>1 DEF Confirm, Inv, RequestsOK, RequestOK
  <2>2. CASE intent[c].status \in Open
    <3>1. PICK status \in Open : SetIntent(c, status)
          BY <1>1, <2>1, <2>2 DEF Confirm, Open
    <3>2. /\ \A d \in Checkouts : /\ intent'[d].bound = intent[d].bound
                                  /\ intent'[d].status = IF d = c THEN status ELSE intent[d].status
          /\ status # "none" /\ status \notin Closed /\ intent[c].status # "none"
          BY <2>2, <3>1, SetIntentKeeps DEF Inv, Open, Closed
    <3>3. \A d \in Checkouts : HasEnded(d)' <=> HasEnded(d)
          BY <1>1 DEF Confirm, HasEnded
    <3> QED BY <1>1, <3>2, <3>3 DEF Confirm, CheckoutsExclude
  <2>3. CASE intent[c].status \notin Open
        BY <1>1, <2>1, <2>3 DEF Confirm, CheckoutsExclude, HasEnded
  <2> QED BY <2>2, <2>3
<1>2. ASSUME ApplySale(s) \/ ApplyStatus(s)
      PROVE  \E c \in Checkouts : /\ c = handler[s].event.of[1]
                                  /\ intent[c].bound
                                  /\ handler[s].event.kind = "sale" => handler[s].event.n \in 1..Sales
                                  /\ handler[s].event.kind = "status" =>
                                        life[c][handler[s].event.n].status # "none"
  <2>1. PICK e \in AllEvents : e = handler[s].event /\ Happened(e)
        BY <1>2 DEF ApplySale, ApplyStatus, Inv, RequestsOK, RequestOK
  <2>2. PICK c \in Checkouts : /\ c = e.of[1]
                               /\ e.kind = "sale" => e.n \in 1..Sales
                               /\ e.kind = "status" => e.n \in DOMAIN life[c]
        BY EventKinds DEF IsSale, IsStatus
  <2>3. stage[c] > 0
    <3>1. CASE e.kind = "status"
      <4>1. PICK n \in DOMAIN life[c] : n = e.n
            BY <2>2, <3>1
      <4>2. n \in Nat /\ n >= 1 /\ stage[c] \in Nat
            BY DEF Inv, BooksOK, LifeOK
      <4>3. n <= stage[c]
            BY <2>1, <2>2, <3>1, <4>1 DEF Happened
      <4> QED BY <4>2, <4>3
    <3>2. CASE e.kind # "status"
          BY <2>1, <2>2, <3>2 DEF Happened
    <3> QED BY <3>1, <3>2
  <2>4. e.kind = "status" => life[c][e.n].status # "none"
    <3>1. ASSUME NEW n \in DOMAIN life[c] PROVE life[c][n].status # "none"
      <4>1. life[c][n] \in Changes
            BY DEF Inv, BooksOK, LifeOK
      <4> QED BY <4>1 DEF Changes, Ended
    <3> QED BY <2>2, <3>1
  <2> QED BY <2>1, <2>2, <2>3, <2>4 DEF CheckoutsExclude
<1>3. CASE ApplySale(s)
  <2>1. PICK c \in Checkouts : c = handler[s].event.of[1] /\ intent[c].bound
        BY <1>2, <1>3
  <2>2. UNCHANGED intent \/ SetIntent(c, "COMPLETED")
        BY <1>3, <2>1 DEF ApplySale, GrantCycle
  <2>3. UNCHANGED <<subscription, stage, life>>
        BY <1>3 DEF ApplySale
  <2>4. "COMPLETED" \in Open \cup Closed
        BY DEF Closed
  <2> QED BY <2>1, <2>2, <2>3, <2>4, IntentExcludes
<1>4. CASE ApplyStatus(s)
  <2>1. PICK c \in Checkouts : /\ c = handler[s].event.of[1] /\ intent[c].bound
                               /\ life[c][handler[s].event.n].status # "none"
        BY <1>2, <1>4 DEF ApplyStatus
  <2>2. PICK new : new = life[c][handler[s].event.n] /\ new.status # "none"
        BY <2>1
  <2>3. /\ subscription' = subscription \/ subscription' = Updated(c, new)
        /\ UNCHANGED intent \/ SetIntent(c, "CANCELED") \/ SetIntent(c, "APPROVED")
        /\ UNCHANGED <<stage, life>>
        BY <1>4, <2>1, <2>2 DEF ApplyStatus
  <2>4. \A d \in Checkouts : subscription[d].status # "none" => subscription'[d].status # "none"
    <3>1. CASE subscription' = Updated(c, new)
      <4>1. subscription' = [subscription EXCEPT ![c] =
                                [status |-> new.status, at |-> new.at, born |-> subscription[c].born]]
            BY <3>1 DEF Updated
      <4> QED BY <2>2, <4>1 DEF Inv, BooksOK
    <3> QED BY <2>3, <3>1
  <2>5. "CANCELED" \in Open \cup Closed /\ "APPROVED" \in Open \cup Closed
        BY DEF Open, Closed
  <2> QED BY <2>1, <2>3, <2>4, <2>5, IntentExcludes
<1> QED BY <1>1, <1>3, <1>4

LEMMA AdvanceExcludes ==
    ASSUME Inv, CheckoutsExclude, NEW c \in Checkouts, Advance(c)
    PROVE  CheckoutsExclude'
<1>1. \A d \in Checkouts : stage'[d] = IF d = c THEN stage[c] + 1 ELSE stage[d]
      BY DEF Advance, Inv, BooksOK
<1>2. UNCHANGED <<intent, subscription, life>> /\ intent[c].bound
      BY DEF Advance, books
<1>3. \A d \in Checkouts : stage[d] \in Nat
      BY DEF Inv, BooksOK
<1>4. \A d \in Checkouts : HasEnded(d) => HasEnded(d)'
      BY <1>1, <1>2, <1>3 DEF HasEnded
<1> QED BY <1>1, <1>2, <1>4 DEF CheckoutsExclude

LEMMA ExcludesInductive == Inv /\ CheckoutsExclude /\ [Next]_vars => CheckoutsExclude'
<1> SUFFICES ASSUME Inv, CheckoutsExclude, [Next]_vars PROVE CheckoutsExclude'
    OBVIOUS
<1>1. ASSUME UNCHANGED <<intent, subscription, stage, life>>
      PROVE  CheckoutsExclude'
      BY <1>1 DEF CheckoutsExclude, HasEnded
<1>2. ASSUME NEW s \in Slots, Work(s)
      PROVE  CheckoutsExclude'
      BY <1>2, BindExcludes, WorkExcludes DEF Work
<1>3. ASSUME NEW s \in Slots, NEW c \in Checkouts, Reserve(s, c) \/ Return(s, c)
      PROVE  CheckoutsExclude'
      BY <1>1, <1>3, ReserveExcludes DEF Return, books
<1>4. CASE (UNCHANGED <<books, stage, life>>) \/ UNCHANGED vars
      BY <1>1, <1>4 DEF books, vars
<1> QED BY <1>2, <1>3, <1>4, AdvanceExcludes DEF Next

(***************************************************************************)
(* Of two subscriptions of a workspace that are active at PayPal one was   *)
(* revived there after it had ended.                                       *)
(***************************************************************************)
THEOREM OneAtATime == SafeSpec => []OneSubscriptionAtATime
<1>1. Init => CheckoutsExclude
      BY DEF Init, CheckoutsExclude, Closed
<1>2. ASSUME Inv, NEW c \in Checkouts, HasEnded(c), ActiveAtPayPal(c)
      PROVE  Revived(c)
  <2>1. PICK m \in 1..stage[c] : life[c][m].status \in Ended
        BY <1>2 DEF HasEnded
  <2>2. stage[c] \in 1..stage[c] /\ life[c][stage[c]].status = "ACTIVE" /\ m <= stage[c]
        BY <1>2 DEF ActiveAtPayPal, Inv, BooksOK
  <2>3. m # stage[c]
        BY <2>1, <2>2 DEF Ended
  <2>4. m < stage[c]
        BY <1>2, <2>2, <2>3 DEF Inv, BooksOK
  <2> QED BY <2>1, <2>2, <2>4 DEF Revived
<1>3. Inv /\ CheckoutsExclude => OneSubscriptionAtATime
  <2> SUFFICES ASSUME Inv, CheckoutsExclude,
                      NEW c \in Checkouts, NEW d \in Checkouts, c # d, ActiveAtPayPal(c), ActiveAtPayPal(d)
               PROVE  Revived(c) \/ Revived(d)
      BY DEF OneSubscriptionAtATime
  <2>1. intent[c].status # "none" /\ intent[d].status # "none"
        BY DEF CheckoutsExclude, ActiveAtPayPal
  <2> QED BY <1>2, <2>1 DEF CheckoutsExclude
<1>4. SafeSpec => []CheckoutsExclude
      BY <1>1, Always, ExcludesInductive, PTL DEF SafeSpec
<1> QED BY <1>3, <1>4, Always, PTL
=============================================================================
