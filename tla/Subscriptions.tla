---------------------------- MODULE Subscriptions ----------------------------
(***************************************************************************)
(* One workspace's PayPal subscriptions: the checkout, the return URL, and *)
(* the webhook events that tell of a subscription's status and of the sale *)
(* of each cycle (apps/api/src/routes/billing.ts, routes/webhooks.ts and   *)
(* lib/billing-service.ts). A checkout is one BillingIntent of kind        *)
(* SUBSCRIPTION, made under one idempotency key, with the one PayPal       *)
(* subscription of its request id (sub-<intent>).                          *)
(***************************************************************************)
EXTENDS WebhookInbox, FiniteSets

CONSTANTS
    Checkouts,
    None,            \* no subscription
    Plan,            \* the plan of a checkout
    Lives,           \* what may become of the subscriptions at PayPal, see below
    Sales            \* cycles PayPal charges a subscription for

\* A life is the list of the statuses a subscription passes through, with the
\* time of each, in seconds: of two in one second the more final is taken to be
\* the later one, nothing else tells them apart.
Ended      == {"SUSPENDED", "EXPIRED", "CANCELED"}
Precedence == [PENDING |-> 0, ACTIVE |-> 1, SUSPENDED |-> 2, EXPIRED |-> 3, CANCELED |-> 4]
Precedes(a, b) == \/ a.at < b.at
                  \/ a.at = b.at /\ Precedence[a.status] < Precedence[b.status]
Life == {list \in Seq([status : {"ACTIVE"} \cup Ended, at : Nat \ {0}]) :
            \A m, n \in DOMAIN list : m < n => Precedes(list[m], list[n])}

ASSUME CheckoutAssumption == /\ IsFiniteSet(Checkouts) /\ None \notin Checkouts
                             /\ DOMAIN Plan = Checkouts /\ Sales \in Nat
ASSUME LifeAssumption     == \A l \in Lives : DOMAIN l = Checkouts /\ \A c \in Checkouts : l[c] \in Life

VARIABLES
    intent,          \* BillingIntent: its status, and whether it carries PayPal's id
    subscription,    \* BillingSubscription: its status, the event time of that, when created
    workspace,       \* the subscription and the plan of the Workspace
    cycles,          \* entitlements written for a sale
    stage,           \* PayPal: how far a subscription has come in its life
    life             \* PayPal: what becomes of the subscriptions in the end

books == <<intent, subscription, workspace, cycles>>
vars  == <<inboxVars, books, stage, life>>

StatusEvents(l) == UNION {{[kind |-> "status", of |-> <<c>>, n |-> n] : n \in DOMAIN l[c]} : c \in Checkouts}
SaleEvents(l)   == {[kind |-> "sale", of |-> <<c>>, n |-> n] :
                       c \in {d \in Checkouts : l[d] # <<>>}, n \in 1..Sales}

Happened(e) == LET c == e.of[1] IN
    IF e.kind = "status" THEN e.n <= stage[c] ELSE stage[c] > 0

Init ==
    /\ life \in Lives
    /\ InboxInit(StatusEvents(life) \cup SaleEvents(life))
    /\ intent = [c \in Checkouts |-> [status |-> "none", bound |-> FALSE]]
    /\ subscription = [c \in Checkouts |-> [status |-> "none", at |-> 0, born |-> 0]]
    /\ workspace = [current |-> None, plan |-> "STARTER"]
    /\ cycles = [c \in Checkouts |-> [n \in 1..Sales |-> 0]]
    /\ stage = [c \in Checkouts |-> 0]
-----------------------------------------------------------------------------
(***************************************************************************)
(* PayPal: the buyer approves the subscription on the page the checkout    *)
(* led to, and from then on it lives, be it that the buyer or the cancel   *)
(* route ends it, be it PayPal.                                            *)
(***************************************************************************)
Advance(c) ==
    /\ stage[c] < Len(life[c])
    /\ intent[c].bound
    /\ stage' = [stage EXCEPT ![c] = @ + 1]
    /\ UNCHANGED <<inboxVars, books, life>>

ActiveAtPayPal(c) == stage[c] > 0 /\ life[c][stage[c]].status = "ACTIVE"
-----------------------------------------------------------------------------
(***************************************************************************)
(* The checkout and the return URL.                                        *)
(***************************************************************************)
Open       == {"CREATED", "PENDING_APPROVAL", "APPROVED"}
Billable   == {"PENDING", "ACTIVE"}
SetIntent(c, status) == intent' = [intent EXCEPT ![c].status = status]

\* Mutant: other open checkouts are not looked for.
UnrivalledByRow(c) ==
    /\ \A d \in Checkouts \ {c} : subscription[d].status \notin Billable
    /\ workspace.current # None => intent[c].bound /\ workspace.current = c

Unrivalled(c) ==
    /\ \A d \in Checkouts \ {c} : /\ subscription[d].status \notin Billable
                                  /\ intent[d].status \notin Open
    /\ workspace.current # None => intent[c].bound /\ workspace.current = c

\* The reservation, a transaction under the lock of the workspace.
Reserve(s, c) ==
    /\ handler[s] = Idle
    /\ intent[c].status # "CANCELED" /\ ~intent[c].bound
    /\ Unrivalled(c)
    /\ IF intent[c].status = "none" THEN SetIntent(c, "CREATED") ELSE UNCHANGED intent
    /\ Become(s, [does |-> "bind", checkout |-> c])
    /\ UNCHANGED <<inbox, faults, subscription, workspace, cycles, stage, life>>

\* PayPal's subscription is made, and bindSubscriptionIdentity stores it.
Bind(s) ==
    /\ handler[s].does = "bind"
    /\ LET c == handler[s].checkout IN
         /\ subscription' =
              IF subscription[c].status # "none" THEN subscription
              ELSE [subscription EXCEPT ![c] =
                      [status |-> "PENDING", at |-> 0,
                       born |-> Cardinality({d \in Checkouts : subscription[d].born > 0}) + 1]]
         /\ intent' = [intent EXCEPT ![c] =
                         [status |-> IF @.status = "CREATED" THEN "PENDING_APPROVAL" ELSE @.status,
                          bound |-> TRUE]]
    /\ Become(s, Idle)
    /\ UNCHANGED <<inbox, faults, workspace, cycles, stage, life>>

\* The buyer comes back; PayPal is asked for the status.
Return(s, c) ==
    /\ handler[s] = Idle
    /\ intent[c].bound
    /\ Become(s, [does |-> "confirm", checkout |-> c, active |-> ActiveAtPayPal(c)])
    /\ UNCHANGED <<inbox, faults, books, stage, life>>

\* Mutant: the status is written whatever the intent has become.
ConfirmAlways(s) ==
    /\ handler[s].does = "confirm"
    /\ SetIntent(handler[s].checkout, IF handler[s].active THEN "APPROVED" ELSE "PENDING_APPROVAL")
    /\ Become(s, Idle)
    /\ UNCHANGED <<inbox, faults, subscription, workspace, cycles, stage, life>>

Confirm(s) ==
    /\ handler[s].does = "confirm"
    /\ LET c == handler[s].checkout IN
         IF intent[c].status \in Open
         THEN SetIntent(c, IF handler[s].active THEN "APPROVED" ELSE "PENDING_APPROVAL")
         ELSE UNCHANGED intent
    /\ Become(s, Idle)
    /\ UNCHANGED <<inbox, faults, subscription, workspace, cycles, stage, life>>
-----------------------------------------------------------------------------
(***************************************************************************)
(* The handlers of the webhook events. The identity they look for is there *)
(* since the checkout sent the buyer to PayPal.                            *)
(***************************************************************************)
\* Mutant: the event that comes last counts.
SupersedesAlways(new, row) == TRUE

\* shouldApplySubscriptionStatus
Supersedes(new, row) == row.at = 0 \/ Precedes(row, new)

\* Mutant: the workspace follows the subscription the event is about.
FollowEvent(rows, c) ==
    workspace' = IF rows[c].status = "ACTIVE" THEN [current |-> c, plan |-> Plan[c]]
                 ELSE [current |-> None, plan |-> "STARTER"]

\* reconcileWorkspaceSubscription: the active subscription of the latest event
\* time, and then of the latest creation.
Follow(rows, c) ==
    LET active == {d \in Checkouts : rows[d].status = "ACTIVE"}
        newer(d, e) == \/ rows[d].at > rows[e].at
                       \/ rows[d].at = rows[e].at /\ rows[d].born >= rows[e].born
    IN  IF active = {} THEN workspace' = [current |-> None, plan |-> "STARTER"]
        ELSE \E d \in active : /\ \A e \in active : newer(d, e)
                               /\ workspace' = [current |-> d, plan |-> Plan[d]]

\* Mutant: the event time of the status is not written.
UpdatedUntimed(c, new) == [subscription EXCEPT ![c].status = new.status]

Updated(c, new) ==
    [subscription EXCEPT ![c] = [status |-> new.status, at |-> new.at, born |-> @.born]]

\* applySubscriptionStatus, a transaction under the lock of the workspace.
ApplyStatus(s) ==
    /\ handler[s].does = "apply" /\ handler[s].event.kind = "status"
    /\ LET c      == handler[s].event.of[1]
           new    == life[c][handler[s].event.n]
           rows   == IF Supersedes(new, subscription[c])
                     THEN Updated(c, new) ELSE subscription
       IN  /\ subscription' = rows
           /\ IF rows = subscription THEN UNCHANGED intent
              ELSE IF new.status # "ACTIVE" THEN SetIntent(c, "CANCELED")
              ELSE IF intent[c].status # "COMPLETED" THEN SetIntent(c, "APPROVED")
              ELSE UNCHANGED intent
           /\ Follow(rows, c)
    /\ ToSettle(s, "processed")
    /\ UNCHANGED <<inbox, faults, cycles, stage, life>>

\* Mutant: the entitlement of the sale is not looked for.
GrantCycleAgain(c, n) ==
    /\ cycles' = [cycles EXCEPT ![c][n] = @ + 1]
    /\ IF intent[c].status = "CANCELED" THEN UNCHANGED intent ELSE SetIntent(c, "COMPLETED")

GrantCycle(c, n) ==
    IF cycles[c][n] > 0 THEN UNCHANGED <<cycles, intent>>
    ELSE /\ cycles' = [cycles EXCEPT ![c] = [@ EXCEPT ![n] = 1]]
         /\ IF intent[c].status = "CANCELED" THEN UNCHANGED intent ELSE SetIntent(c, "COMPLETED")

\* applySubscriptionSale, a transaction under the lock of the sale: balance,
\* ledger, entitlement and intent.
ApplySale(s) ==
    /\ handler[s].does = "apply" /\ handler[s].event.kind = "sale"
    /\ GrantCycle(handler[s].event.of[1], handler[s].event.n)
    /\ ToSettle(s, "processed")
    /\ UNCHANGED <<inbox, faults, subscription, workspace, stage, life>>

Work(s) == Bind(s) \/ Confirm(s) \/ ApplyStatus(s) \/ ApplySale(s)

Next ==
    \/ \E s \in Slots : Work(s) \/ \E c \in Checkouts : Reserve(s, c) \/ Return(s, c)
    \/ \E c \in Checkouts : Advance(c)
    \/ InboxNext({e \in DOMAIN inbox : Happened(e)}) /\ UNCHANGED <<books, stage, life>>

SafeSpec == Init /\ [][Next]_vars
-----------------------------------------------------------------------------
(***************************************************************************)
(* Properties.                                                             *)
(***************************************************************************)
SubscriptionsTypeOK ==
    /\ intent \in [Checkouts -> [status : Open \cup {"none", "CANCELED", "COMPLETED"}, bound : BOOLEAN]]
    /\ subscription \in [Checkouts -> [status : Billable \cup Ended \cup {"none"}, at : Nat, born : Nat]]
    /\ \A c \in Checkouts : subscription[c].at = 0 <=> subscription[c].status \in {"none", "PENDING"}
    /\ workspace \in [current : Checkouts \cup {None}, plan : {Plan[c] : c \in Checkouts} \cup {"STARTER"}]
    /\ \A c \in Checkouts : cycles[c] \in [1..Sales -> Nat] /\ stage[c] \in 0..Len(life[c])

(***************************************************************************)
(* However the events of a subscription were ordered, repeated and         *)
(* retried, once all that have happened are applied its status is the last *)
(* one at PayPal.                                                          *)
(***************************************************************************)
StatusFollowsPayPal ==
    \A c \in Checkouts :
        /\ stage[c] > 0
        /\ \A e \in DOMAIN inbox : e.kind = "status" /\ e.of = <<c>> /\ Happened(e)
                                      => inbox[e].row = "processed"
        => subscription[c].status = life[c][stage[c]].status

(***************************************************************************)
(* The workspace has the plan of a subscription that is active, and is on  *)
(* STARTER only while none is: the end of one subscription, told of late,  *)
(* takes nothing from another.                                             *)
(***************************************************************************)
PlanFollowsSubscription ==
    IF \A c \in Checkouts : subscription[c].status # "ACTIVE"
    THEN workspace = [current |-> None, plan |-> "STARTER"]
    ELSE \E c \in Checkouts : /\ subscription[c].status = "ACTIVE"
                              /\ workspace = [current |-> c, plan |-> Plan[c]]

(***************************************************************************)
(* A workspace does not pay for two subscriptions at a time                *)
(* ("subscription_already_pending_or_active"), unless PayPal revives one   *)
(* that had ended when the other was checked out.                          *)
(***************************************************************************)
Revived(c) == \E m, n \in 1..stage[c] : m < n /\ life[c][m].status \in Ended
                                              /\ life[c][n].status = "ACTIVE"

OneSubscriptionAtATime ==
    \A c, d \in Checkouts :
        c # d /\ ActiveAtPayPal(c) /\ ActiveAtPayPal(d) => Revived(c) \/ Revived(d)

(***************************************************************************)
(* A checkout that still keeps the workspace from another is not that of a *)
(* subscription that has ended: neither a late return from PayPal nor a    *)
(* late sale opens it again.                                               *)
(***************************************************************************)
OpenCheckoutIsLive ==
    \A c \in Checkouts : intent[c].status \in Open => subscription[c].status \notin Ended

(***************************************************************************)
(* "Activation plus the first-cycle sale cannot double-credit the          *)
(* workspace" (routes/webhooks.ts): a cycle is granted once, whatever      *)
(* requests handle its sale, and a sale on record as processed is granted. *)
(***************************************************************************)
CyclesGrantedOnce ==
    \A c \in Checkouts : \A n \in 1..Sales :
        LET e == [kind |-> "sale", of |-> <<c>>, n |-> n] IN
          /\ cycles[c][n] <= 1
          /\ e \in DOMAIN inbox /\ inbox[e].row = "processed" => cycles[c][n] = 1
=============================================================================
