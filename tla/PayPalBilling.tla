--------------------------- MODULE PayPalBilling ---------------------------
(***************************************************************************)
(* Credit packs bought through PayPal: the checkout, the return URL that   *)
(* captures the order, the webhook events about the capture and about      *)
(* refunds, reversals and a dispute, and the grants and adjustments they   *)
(* make (apps/api/src/routes/billing.ts, routes/webhooks.ts and            *)
(* lib/billing-service.ts). A purchase is one BillingIntent of kind        *)
(* CREDIT_PACK with its one PayPal order (requestId order-<intent>).       *)
(***************************************************************************)
EXTENDS WebhookInbox, FiniteSetsExt, Integers

CONSTANTS
    Purchases,
    Pack, Gross,     \* credits in a pack, its price
    Histories,       \* what may come of the payments at PayPal, see below
    MaxPrices        \* bound: price lists deployed after the first

(***************************************************************************)
(* PayPal's records of the payments made: the refunds of each, told of one *)
(* by one or as totals so far (snapshots), whether it was reversed, and one   *)
(* dispute over some payments: the amounts claimed when it was opened and  *)
(* updated, how it was decided, and the time of each stage; the claim on   *)
(* some of them may be in another currency than they were made in          *)
(* (foreign). A dispute stands unless it is decided for the seller.        *)
(***************************************************************************)
Payment == [parts: Seq(1..Gross), snapshots: BOOLEAN, reversed: BOOLEAN]
Dispute == [of: Seq(Purchases), claims: Seq(1..Gross), times: Seq(Nat),
            foreign: SUBSET Purchases, decided: {"no", "buyer", "seller"}]

ASSUME PackAssumption    == Pack \in Nat \ {0} /\ Gross \in Nat \ {0}
ASSUME BoundAssumption   == MaxPrices \in Nat
ASSUME HistoryAssumption ==
    \A h \in Histories : /\ h.dispute \in Dispute
                         /\ h.dispute.claims # <<>> <=> h.dispute.of # <<>>
                         /\ h.dispute.decided # "no" => h.dispute.claims # <<>>
                         /\ DOMAIN h.payment \subseteq Purchases
                         /\ \A p \in DOMAIN h.payment : h.payment[p] \in Payment

(***************************************************************************)
(* PayPal's clock: no stage of a dispute is dated before the one it        *)
(* follows, and two updates of a claim, which only their times tell apart, *)
(* have different times.                                                   *)
(***************************************************************************)
InOrder(d) ==
    /\ Len(d.times) = Len(d.claims) + (IF d.decided = "no" THEN 0 ELSE 1)
    /\ \A j, k \in DOMAIN d.times : j < k => d.times[j] <= d.times[k]
    /\ \A j, k \in DOMAIN d.claims \ {1} : j < k => d.times[j] < d.times[k]

ASSUME ClockAssumption == \A h \in Histories : InOrder(h.dispute)

VARIABLES
    intent,          \* BillingIntent: status, whether the order id is stored, price list
    granted,         \* entitlements (with their ledger row) written for a purchase
    adjustments,     \* BillingAdjustment rows of a purchase, in order of creation
    prices,          \* the price list in force (CREDIT_PACKS)
    captured,        \* PayPal: purchases whose order was captured
    history          \* PayPal: what comes of the payments in the end

books   == <<intent, granted, adjustments>>
outside == <<prices, captured, history>>
vars    == <<inboxVars, books, outside>>
-----------------------------------------------------------------------------
(***************************************************************************)
(* PayPal's events. One names the payments it is about, the item it tells  *)
(* of (source), the amount at stake and its time. No two totals of a       *)
(* payment have the same time; stages of a dispute may, and then the more  *)
(* final one counts: created, updated, resolved (adjustmentPrecedence).    *)
(***************************************************************************)
Event(kind, n, of, amount, at, stage, release) ==
    [source |-> <<kind, n>>, of |-> of, amount |-> amount,
     at |-> at, stage |-> stage, release |-> release]

Total(parts) == FoldFunction(+, 0, parts)

RefundEvents(p, pay) ==
    {IF pay.snapshots
     THEN Event("TOTAL", 0, <<p>>, Total(SubSeq(pay.parts, 1, k)), k, 1, FALSE)
     ELSE Event("REFUND", k, <<p>>, pay.parts[k], 0, 1, FALSE) : k \in DOMAIN pay.parts}

PaymentEvents(p, pay) ==
    {Event("CAPTURE", 0, <<p>>, Gross, 0, 1, FALSE)}
    \cup RefundEvents(p, pay)
    \cup (IF pay.reversed THEN {Event("REVERSAL", 0, <<p>>, Gross, 0, 1, FALSE)} ELSE {})

DisputeEvents(d) ==
    {Event("DISPUTE", 0, d.of, d.claims[k], d.times[k], IF k = 1 THEN 1 ELSE 2, FALSE)
        : k \in DOMAIN d.claims}
    \cup (IF d.decided = "no" THEN {}
          ELSE {Event("DISPUTE", 0, d.of, d.claims[Len(d.claims)], d.times[Len(d.claims) + 1],
                      3, d.decided = "seller")})

Events(h) == DisputeEvents(h.dispute)
             \cup UNION {PaymentEvents(p, h.payment[p]) : p \in DOMAIN h.payment}

Paid(p)  == p \in captured
Sent(e)  == \A k \in DOMAIN e.of : Paid(e.of[k])

Init ==
    /\ history \in Histories
    /\ InboxInit(Events(history))
    /\ intent = [p \in Purchases |-> [status |-> "none", bound |-> FALSE, prices |-> 0]]
    /\ granted = [p \in Purchases |-> 0]
    /\ adjustments = [p \in Purchases |-> <<>>]
    /\ prices = 0
    /\ captured = {}
-----------------------------------------------------------------------------
(***************************************************************************)
(* The checkout and the return URL.                                        *)
(***************************************************************************)
\* The intent of the client's key, made or found, and the PayPal order of its
\* request id.
Checkout(s, p) ==
    /\ handler[s] = Idle
    /\ p \in DOMAIN history.payment /\ ~intent[p].bound
    /\ intent' = IF intent[p].status = "none"
                 THEN [intent EXCEPT ![p] = [status |-> "CREATED", bound |-> FALSE, prices |-> prices]]
                 ELSE intent
    /\ Become(s, [does |-> "bind", purchase |-> p])
    /\ UNCHANGED <<inbox, faults, granted, adjustments, outside>>

\* The order id is stored, whatever happened to the intent since it was read;
\* the buyer is sent to PayPal.
BindOrder(s) ==
    /\ handler[s].does = "bind"
    /\ intent' = [intent EXCEPT ![handler[s].purchase] =
                     [status |-> "PENDING_APPROVAL", bound |-> TRUE, prices |-> @.prices]]
    /\ Become(s, Idle)
    /\ UNCHANGED <<inbox, faults, granted, adjustments, outside>>

\* The buyer comes back from approving the order: it is captured, which
\* succeeds once and is answered alike ever after.
CaptureOrder(s, p) ==
    /\ handler[s] = Idle
    /\ intent[p].bound
    /\ captured' = captured \cup {p}
    /\ Become(s, [does |-> "grant", purchase |-> p])
    /\ UNCHANGED <<inbox, faults, books, prices, history>>

\* resolveCreditIntent: what was paid is what the catalogue asks for today and
\* what the intent promised.
Resolves(p) == intent[p].bound /\ intent[p].prices = prices

\* Mutant: the entitlement that is there already is not looked for.
GrantAgain(p) ==
    /\ granted' = [granted EXCEPT ![p] = @ + 1]
    /\ intent' = [intent EXCEPT ![p].status = "COMPLETED"]

\* applyCreditCapture, one transaction under the lock of the intent: balance,
\* ledger, entitlement and intent.
Grant(p) ==
    IF granted[p] > 0 THEN UNCHANGED <<granted, intent>>
    ELSE /\ granted' = [granted EXCEPT ![p] = 1]
         /\ intent' = [intent EXCEPT ![p].status = "COMPLETED"]

ReturnGrant(s) ==
    /\ handler[s].does = "grant"
    /\ LET p == handler[s].purchase IN
         IF Resolves(p) THEN Grant(p) ELSE UNCHANGED <<granted, intent>>
    /\ Become(s, Idle)
    /\ UNCHANGED <<inbox, faults, adjustments, outside>>

Reprice ==
    /\ prices < MaxPrices
    /\ prices' = prices + 1
    /\ UNCHANGED <<inboxVars, books, captured, history>>
-----------------------------------------------------------------------------
(***************************************************************************)
(* The handlers of the webhook events.                                     *)
(***************************************************************************)
CreditCapture(s) ==
    /\ handler[s].does = "apply" /\ handler[s].event.source[1] = "CAPTURE"
    /\ LET p == handler[s].event.of[1] IN
         IF Resolves(p) THEN Grant(p) /\ ToSettle(s, "processed")
         ELSE UNCHANGED <<granted, intent>> /\ ToSettle(s, "unmatched")
    /\ UNCHANGED <<inbox, faults, adjustments, outside>>

\* creditsAtRisk: the share of the pack, rounded up.
AtRisk(e) == IF e.release THEN 0
             ELSE Min({Pack, (Pack * e.amount + Gross - 1) \div Gross})

\* isLaterAdjustment for rows j and k of a list: time, then how final the
\* status is, then the order of creation.
Later(rows, j, k) ==
    LET a == rows[j].event
        b == rows[k].event
    IN  \/ a.at > b.at
        \/ a.at = b.at /\ a.stage > b.stage
        \/ a.at = b.at /\ a.stage = b.stage /\ j > k

\* Mutant: the row written last counts.
LatestWritten(rows) ==
    {k \in DOMAIN rows : \A j \in DOMAIN rows :
        rows[j].event.source = rows[k].event.source => j <= k}

\* latestBySource
Latest(rows) ==
    {k \in DOMAIN rows : \A j \in DOMAIN rows :
        rows[j].event.source = rows[k].event.source => ~Later(rows, j, k)}

RiskOf(rows, kinds) ==
    MapThenSumSet(LAMBDA k : AtRisk(rows[k].event),
                  {k \in Latest(rows) : rows[k].event.source[1] \in kinds})

Target(rows) ==
    Min({Pack, RiskOf(rows, {"REVERSAL", "DISPUTE"})
               + Max({RiskOf(rows, {"TOTAL"}), RiskOf(rows, {"REFUND"})})})

Revoked(p) == 0 - FoldFunction(LAMBDA row, sum : row.delta + sum, 0, adjustments[p])

\* The amount claimed on the payment is not in the entitlement's currency.
Foreign(p, e) == e.source[1] = "DISPUTE" /\ p \in history.dispute.foreign

\* Mutant: an event is not looked for among the rows.
AdjustAgain(p, e) ==
    LET held == Min({Pack, Max({0, Revoked(p)})})
        new  == Target(Append(adjustments[p], [event |-> e, delta |-> 0]))
    IN  adjustments' = [adjustments EXCEPT ![p] =
                           Append(@, [event |-> e, delta |-> held - new])]

\* applyBillingAdjustment, one transaction under the lock of the entitlement; a
\* claim in another currency is passed over.
Adjust(p, e) ==
    LET rows == adjustments[p]
        held == Min({Pack, Max({0, Revoked(p)})})
        new  == Target(Append(rows, [event |-> e, delta |-> 0]))
    IN  IF Foreign(p, e) \/ \E k \in DOMAIN rows : rows[k].event = e
        THEN UNCHANGED adjustments
        ELSE adjustments' = [adjustments EXCEPT ![p] =
                                Append(@, [event |-> e, delta |-> held - new])]

\* An event is matched by any of its payments that was not passed over.
Outcome(e) == IF \A k \in DOMAIN e.of : Foreign(e.of[k], e) THEN "unmatched" ELSE "processed"

\* Mutant: a payment without an entitlement is passed over.
AdjustKnown(s) ==
    /\ handler[s].does = "apply" /\ handler[s].event.source[1] # "CAPTURE"
    /\ LET e == handler[s].event
           p == Head(handler[s].rest)
       IN  /\ IF granted[p] = 0 THEN UNCHANGED adjustments ELSE Adjust(p, e)
           /\ IF Len(handler[s].rest) = 1 THEN ToSettle(s, Outcome(e))
              ELSE Become(s, [does |-> "apply", event |-> e, rest |-> Tail(handler[s].rest)])
    /\ UNCHANGED <<inbox, faults, intent, granted, outside>>

\* The next payment the event is about. Those before it stay adjusted when this
\* one has no entitlement and the event is left for a retry.
AdjustNext(s) ==
    /\ handler[s].does = "apply" /\ handler[s].event.source[1] # "CAPTURE"
    /\ LET e == handler[s].event
           p == Head(handler[s].rest)
       IN  IF granted[p] = 0
           THEN UNCHANGED adjustments /\ ToSettle(s, "retryable")
           ELSE /\ Adjust(p, e)
                /\ IF Len(handler[s].rest) = 1 THEN ToSettle(s, Outcome(e))
                   ELSE Become(s, [does |-> "apply", event |-> e, rest |-> Tail(handler[s].rest)])
    /\ UNCHANGED <<inbox, faults, intent, granted, outside>>

Route(s) == BindOrder(s) \/ ReturnGrant(s)
Handle(s) == CreditCapture(s) \/ AdjustNext(s)

Next ==
    \/ \E s \in Slots : Route(s) \/ Handle(s) \/ \E p \in Purchases : Checkout(s, p) \/ CaptureOrder(s, p)
    \/ Reprice
    \/ InboxNext({e \in DOMAIN inbox : Sent(e)}) /\ UNCHANGED <<books, outside>>

Spec == Init /\ [][Next]_vars
-----------------------------------------------------------------------------
(***************************************************************************)
(* Properties.                                                             *)
(***************************************************************************)
BillingTypeOK ==
    /\ intent \in [Purchases -> [status: {"none", "CREATED", "PENDING_APPROVAL", "COMPLETED"},
                                 bound: BOOLEAN, prices: Nat]]
    /\ granted \in [Purchases -> Nat]
    /\ prices \in Nat
    /\ \A p \in Purchases : \A j, k \in DOMAIN adjustments[p] :
          adjustments[p][j].event = adjustments[p][k].event => j = k
    /\ captured \subseteq Purchases
    /\ history \in Histories
    /\ inbox \in [Events(history) ->
                  [row: {"none", "processing", "processed", "unmatched", "retryable", "failed"},
                   stale: BOOLEAN, acked: BOOLEAN]]
    /\ DOMAIN handler = Slots
    /\ faults \in Nat

(***************************************************************************)
(* "Duplicate webhooks are expected and must not duplicate credits. Never  *)
(* grant credit from [...] a browser success redirect" (docs/RUNBOOK.md):  *)
(* a pack is granted at most once, and only for a captured order.          *)
(***************************************************************************)
GrantedOnceForPayment ==
    \A p \in Purchases : granted[p] <= 1 /\ (granted[p] = 1 => Paid(p))

\* What a payment no longer covers, by PayPal's own records.
Share(amount) == (Pack * amount + Gross - 1) \div Gross

RefundRisk(pay) ==
    IF pay.snapshots THEN Share(Total(pay.parts))
    ELSE FoldFunction(LAMBDA part, sum : Share(part) + sum, 0, pay.parts)

DisputeRisk(p, d) ==
    IF d.decided = "seller" \/ p \in d.foreign \/ \A k \in DOMAIN d.of : d.of[k] # p THEN 0
    ELSE Share(d.claims[Len(d.claims)])

NotCovered(p) ==
    LET pay == history.payment[p]
    IN  Min({Pack, RefundRisk(pay) + DisputeRisk(p, history.dispute)
                   + (IF pay.reversed THEN Pack ELSE 0)})

Adjusted(p, e) == \E k \in DOMAIN adjustments[p] : adjustments[p][k].event = e

About(p, e) == /\ e.source[1] # "CAPTURE" /\ ~Foreign(p, e)
               /\ \E k \in DOMAIN e.of : e.of[k] = p

(***************************************************************************)
(* However PayPal's events were ordered, repeated and retried, once all of *)
(* those about a payment have been applied the credits taken back are what *)
(* refunds, reversals and disputes leave uncovered by PayPal's records:    *)
(* late snapshots, stale dispute states and claims in another currency do  *)
(* not count, and a dispute that is won gives back what it held.           *)
(***************************************************************************)
RevokedAgreesWithPayPal ==
    \A p \in Purchases :
        p \in DOMAIN history.payment /\ (\A e \in DOMAIN inbox : About(p, e) => Adjusted(p, e)) => Revoked(p) = NotCovered(p)

Effective(e) ==
    IF e.source[1] = "CAPTURE" THEN granted[e.of[1]] = 1
    ELSE \A k \in DOMAIN e.of : Foreign(e.of[k], e) \/ Adjusted(e.of[k], e)

(***************************************************************************)
(* A row that says processed is right: everything its event asks for is in *)
(* the books, but for claims in another currency, whichever of several     *)
(* requests, dead, slow or retried, got there and in whatever order they   *)
(* settled the row.                                                        *)
(***************************************************************************)
ProcessedIsEffective == \A e \in DOMAIN inbox : inbox[e].row = "processed" => Effective(e)

(***************************************************************************)
(* "The webhook is the safety net for the case where the user closes the   *)
(* tab before this fires" (routes/billing.ts): once PayPal's call about a  *)
(* capture is answered 200, which ends its calls, the pack is granted, the *)
(* event is on record as not matching, or a request is at work on it.      *)
(***************************************************************************)
AnsweredIsGranted ==
    \A e \in DOMAIN inbox :
        /\ e.source[1] = "CAPTURE"
        /\ inbox[e].acked
        => \/ Effective(e)
           \/ inbox[e].row = "unmatched"
           \/ \E s \in Slots : \/ handler[s].does \in {"apply", "settle"} /\ handler[s].event = e
                               \/ handler[s].does = "grant" /\ <<handler[s].purchase>> = e.of
=============================================================================
