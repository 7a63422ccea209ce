------------------------ MODULE PayPalBillingProofs ------------------------
(***************************************************************************)
(* Theorems about PayPalBilling, for any purchases, histories at PayPal,   *)
(* price lists, requests and faults.                                       *)
(***************************************************************************)
EXTENDS PayPalBilling, SumTheorems, SequenceTheorems, TLAPS

(***************************************************************************)
(* The events: what each is about.                                         *)
(***************************************************************************)
WellFormed(e) ==
    /\ e.of \in Seq(Purchases) /\ e.of # <<>>
    /\ e.source[1] = "CAPTURE" => e.of = <<e.of[1]>>

LEMMA EventsWellFormed ==
    ASSUME NEW h \in Histories, NEW e \in Events(h)
    PROVE  WellFormed(e)
<1>1. CASE e \in DisputeEvents(h.dispute)
  <2> DEFINE d == h.dispute
  <2>1. /\ d.of \in Seq(Purchases)
        /\ d.claims # <<>> => d.of # <<>>
        /\ d.decided # "no" => d.claims # <<>>
        BY HistoryAssumption DEF Dispute
  <2>2. CASE e \in {Event("DISPUTE", 0, d.of, d.claims[k], d.times[k], IF k = 1 THEN 1 ELSE 2, FALSE) : k \in DOMAIN d.claims}
    <3>1. PICK k \in DOMAIN d.claims : e = Event("DISPUTE", 0, d.of, d.claims[k], d.times[k], IF k = 1 THEN 1 ELSE 2, FALSE)
          BY <2>2
    <3>2. d.claims # <<>>
          BY <3>1
    <3>3. e.of = d.of
          BY <3>1 DEF Event
    <3>4. e.source = <<"DISPUTE", 0>>
          BY <3>1 DEF Event
    <3> QED BY <2>1, <3>2, <3>3, <3>4 DEF WellFormed
  <2>3. CASE /\ d.decided # "no"
             /\ e = Event("DISPUTE", 0, d.of, d.claims[Len(d.claims)], d.times[Len(d.claims) + 1],
                          3, d.decided = "seller")
    <3>1. e.of = d.of
          BY <2>3 DEF Event
    <3>2. e.source = <<"DISPUTE", 0>>
          BY <2>3 DEF Event
    <3> QED BY <2>1, <2>3, <3>1, <3>2 DEF WellFormed
  <2> QED BY <1>1, <2>2, <2>3 DEF DisputeEvents
<1>2. ASSUME NEW p \in DOMAIN h.payment, e \in PaymentEvents(p, h.payment[p])
      PROVE  WellFormed(e)
  <2> DEFINE pay == h.payment[p]
  <2>1. p \in Purchases
        BY HistoryAssumption
  <2>2. e.of = <<p>>
    <3>1. CASE e \in RefundEvents(p, pay)
          BY <3>1 DEF RefundEvents, Event
    <3>2. CASE e = Event("CAPTURE", 0, <<p>>, Gross, 0, 1, FALSE)
          BY <3>2 DEF Event
    <3>3. CASE e = Event("REVERSAL", 0, <<p>>, Gross, 0, 1, FALSE)
          BY <3>3 DEF Event
    <3> QED BY <1>2, <3>1, <3>2, <3>3 DEF PaymentEvents
  <2> QED BY <2>1, <2>2 DEF WellFormed
<1> QED BY <1>1, <1>2 DEF Events

(***************************************************************************)
(* The rows of adjustments, and the payments a handler still has to        *)
(* adjust.                                                                 *)
(***************************************************************************)
IsList(q) == \E T : q \in Seq(T)

LEMMA EmptyList == IsList(<<>>)
BY DEF IsList

LEMMA AppendList ==
    ASSUME NEW q, IsList(q), NEW r
    PROVE  /\ IsList(Append(q, r))
           /\ DOMAIN Append(q, r) = DOMAIN q \cup {Len(q) + 1}
           /\ Len(q) + 1 \notin DOMAIN q
           /\ Append(q, r)[Len(q) + 1] = r
           /\ \A k \in DOMAIN q : Append(q, r)[k] = q[k]
<1>1. PICK T : q \in Seq(T)
      BY DEF IsList
<1>2. q \in Seq(T \cup {r})
      BY <1>1
<1>3. Append(q, r) \in Seq(T \cup {r})
      BY <1>2
<1> QED BY <1>2, <1>3 DEF IsList

LEMMA TailOf ==
    ASSUME NEW T, NEW q \in Seq(T), q # <<>>, Len(q) # 1
    PROVE  /\ Tail(q) \in Seq(T) /\ Tail(q) # <<>>
           /\ \A k \in DOMAIN q : q[k] = Head(q) \/ \E j \in DOMAIN Tail(q) : Tail(q)[j] = q[k]
<1>1. Len(q) \in Nat /\ DOMAIN q = 1..Len(q) /\ Len(q) # 0
      BY EmptySeq
<1>2. /\ Tail(q) \in Seq(T)
      /\ DOMAIN Tail(q) = 1..(Len(q) - 1)
      /\ \A j \in 1..(Len(q) - 1) : Tail(q)[j] = q[j + 1]
      BY <1>1, HeadTailProperties
<1>3. Tail(q) # <<>>
      BY <1>1, <1>2, 1 \in DOMAIN Tail(q)
<1>4. ASSUME NEW k \in DOMAIN q, k # 1
      PROVE  k - 1 \in DOMAIN Tail(q) /\ Tail(q)[k - 1] = q[k]
      BY <1>1, <1>2, <1>4
<1>5. Head(q) = q[1]
      BY HeadTailProperties
<1> QED BY <1>2, <1>3, <1>4, <1>5

LEMMA SingleOf ==
    ASSUME NEW T, NEW q \in Seq(T), Len(q) = 1
    PROVE  \A k \in DOMAIN q : q[k] = Head(q)
OBVIOUS

(***************************************************************************)
(* What each request may rely on. Nothing of it is ever taken back: a      *)
(* captured order stays captured, a granted pack granted, a written row    *)
(* written. Hence a request that has done its work settles rightly however *)
(* long it took and whoever else was at the event.                         *)
(***************************************************************************)
Work == {"idle", "bind", "grant", "apply", "settle"}
Results == {"processed", "unmatched", "retryable", "failed"}

\* The event has its row, or was passed over.
Handled(p, e) == Foreign(p, e) \/ Adjusted(p, e)

RequestOK(h) ==
    /\ h.does \in Work
    /\ h.does = "bind" => h.purchase \in Purchases
    /\ h.does = "grant" => h.purchase \in captured
    /\ h.does \in {"apply", "settle"} => h.event \in Events(history) /\ Sent(h.event)
    /\ h.does = "apply" =>
          /\ h.rest \in Seq(Purchases) /\ h.rest # <<>>
          /\ \A k \in DOMAIN h.event.of :
                \/ \E j \in DOMAIN h.rest : h.rest[j] = h.event.of[k]
                \/ Handled(h.event.of[k], h.event)
    /\ h.does = "settle" =>
          h.result \in Results /\ (h.result = "processed" => Effective(h.event))

RequestsOK == \A s \in Slots : RequestOK(handler[s])

Rows == [row: Results \cup {"none", "processing"}, stale: BOOLEAN, acked: BOOLEAN]
Intents == [status: {"none", "CREATED", "PENDING_APPROVAL", "COMPLETED"}, bound: BOOLEAN, prices: Nat]

InboxOK == DOMAIN handler = Slots /\ inbox \in [Events(history) -> Rows] /\ faults \in Nat

BooksOK ==
    /\ intent \in [Purchases -> Intents]
    /\ granted \in [Purchases -> {0, 1}]
    /\ \A p \in Purchases : granted[p] = 1 => Paid(p)
    /\ DOMAIN adjustments = Purchases
    /\ \A p \in Purchases : /\ IsList(adjustments[p])
                            /\ \A j, k \in DOMAIN adjustments[p] :
                                  adjustments[p][j].event = adjustments[p][k].event => j = k
    /\ prices \in Nat /\ captured \subseteq Purchases /\ history \in Histories

Inv == InboxOK /\ BooksOK /\ RequestsOK /\ ProcessedIsEffective

Grows ==
    /\ captured \subseteq captured'
    /\ \A p \in Purchases : granted[p] = 1 => granted'[p] = 1
    /\ \A p \in Purchases : \A e : Adjusted(p, e) => Adjusted(p, e)'
    /\ history' = history

LEMMA EventFacts ==
    ASSUME BooksOK, NEW e \in Events(history)
    PROVE  /\ e.of \in Seq(Purchases) /\ e.of # <<>>
           /\ \A k \in DOMAIN e.of : e.of[k] \in Purchases
           /\ e.of[1] \in Purchases /\ 1 \in DOMAIN e.of
           /\ e.source[1] = "CAPTURE" => e.of = <<e.of[1]>>
<1>1. WellFormed(e)
      BY EventsWellFormed DEF BooksOK
<1> QED BY <1>1 DEF WellFormed

LEMMA EffectiveGrows ==
    ASSUME BooksOK, Grows, NEW e \in Events(history)
    PROVE  /\ Sent(e) => Sent(e)'
           /\ Effective(e) => Effective(e)'
<1>1. /\ \A k \in DOMAIN e.of : e.of[k] \in Purchases
      /\ e.of[1] \in Purchases
      BY EventFacts
<1> QED BY <1>1 DEF Grows, Effective, Foreign, Sent, Paid

LEMMA RequestGrows ==
    ASSUME BooksOK, Grows, NEW h, RequestOK(h)
    PROVE  RequestOK(h)'
<1>1. h.does \in {"apply", "settle"} =>
          /\ h.event \in Events(history)
          /\ Sent(h.event)'
          /\ Effective(h.event) => Effective(h.event)'
          /\ \A k \in DOMAIN h.event.of : h.event.of[k] \in Purchases
      BY EffectiveGrows, EventFacts DEF RequestOK
<1>2. h.does = "apply" => \A k \in DOMAIN h.event.of :
          Handled(h.event.of[k], h.event) => Handled(h.event.of[k], h.event)'
      BY <1>1 DEF Grows, Handled, Foreign
<1> QED BY <1>1, <1>2 DEF RequestOK, Grows

LEMMA BecomeOK ==
    ASSUME Inv, Grows, NEW s \in Slots, NEW h, Become(s, h), RequestOK(h)'
    PROVE  DOMAIN handler' = Slots /\ RequestsOK'
<1>1. /\ DOMAIN handler' = Slots
      /\ \A t \in Slots : handler'[t] = IF t = s THEN h ELSE handler[t]
      BY DEF Become, Inv, InboxOK
<1>2. SUFFICES ASSUME NEW t \in Slots, NEW g, g = handler'[t]
               PROVE  RequestOK(g)'
      BY <1>1 DEF RequestsOK, RequestOK
<1>3. CASE g = h
      BY <1>3
<1>4. CASE g = handler[t]
  <2>1. RequestOK(g)
        BY <1>4 DEF Inv, RequestsOK
  <2> QED BY <2>1, RequestGrows DEF Inv
<1> QED BY <1>1, <1>2, <1>3, <1>4

LEMMA ProcessedGrows ==
    ASSUME Inv, Grows, inbox' = inbox
    PROVE  ProcessedIsEffective'
<1>1. DOMAIN inbox = Events(history)
      BY DEF Inv, InboxOK
<1>2. \A e \in Events(history) : Effective(e) => Effective(e)'
      BY EffectiveGrows DEF Inv
<1> QED BY <1>1, <1>2 DEF Inv, ProcessedIsEffective

LEMMA BooksStep ==
    ASSUME Inv, Grows, BooksOK', UNCHANGED <<inbox, faults>>,
           NEW s \in Slots, NEW h, Become(s, h), RequestOK(h)'
    PROVE  Inv'
<1>1. DOMAIN handler' = Slots /\ RequestsOK' /\ ProcessedIsEffective'
      BY BecomeOK, ProcessedGrows
<1> QED BY <1>1 DEF Inv, InboxOK, Grows

LEMMA IdleOK == RequestOK(Idle) /\ RequestOK(Idle)'
BY DEF RequestOK, Idle, Work

(***************************************************************************)
(* The books at each of the steps that write them.                         *)
(***************************************************************************)
LEMMA BindBooks ==
    ASSUME BooksOK, NEW p \in Purchases, NEW new \in Intents,
           intent' = [intent EXCEPT ![p] = new] \/ intent' = intent,
           UNCHANGED <<granted, adjustments, outside>>
    PROVE  Grows /\ BooksOK'
BY DEF BooksOK, Grows, Adjusted, Paid, outside

LEMMA GrantBooks ==
    ASSUME BooksOK, NEW p \in captured, Grant(p),
           UNCHANGED <<adjustments, outside>>
    PROVE  Grows /\ BooksOK' /\ granted'[p] = 1
<1>1. p \in Purchases /\ granted[p] \in {0, 1}
      BY DEF BooksOK
<1>2. CASE granted[p] > 0
      BY <1>1, <1>2 DEF Grant, BooksOK, Grows, Adjusted, Paid, outside
<1>3. CASE ~(granted[p] > 0)
  <2>1. intent' \in [Purchases -> Intents]
        BY <1>1, <1>3 DEF Grant, BooksOK, Intents
  <2>2. /\ granted' \in [Purchases -> {0, 1}]
        /\ \A q \in Purchases : granted'[q] = IF q = p THEN 1 ELSE granted[q]
        BY <1>1, <1>3 DEF Grant, BooksOK
  <2> QED BY <1>1, <2>1, <2>2 DEF BooksOK, Grows, Adjusted, Paid, outside
<1> QED BY <1>2, <1>3

LEMMA AdjustBooks ==
    ASSUME BooksOK, NEW p \in Purchases, NEW e, Adjust(p, e),
           UNCHANGED <<intent, granted, outside>>
    PROVE  Grows /\ BooksOK' /\ Handled(p, e)'
<1>1. CASE Foreign(p, e) \/ \E k \in DOMAIN adjustments[p] : adjustments[p][k].event = e
      BY <1>1 DEF Adjust, BooksOK, Grows, Handled, Foreign, Adjusted, Paid, outside
<1>2. CASE ~(Foreign(p, e) \/ \E k \in DOMAIN adjustments[p] : adjustments[p][k].event = e)
  <2> DEFINE rows == adjustments[p]
  <2>1. PICK r : r.event = e /\ adjustments' = [adjustments EXCEPT ![p] = Append(adjustments[p], r)]
    <3>1. PICK d : adjustments' = [adjustments EXCEPT ![p] = Append(adjustments[p], [event |-> e, delta |-> d])]
          BY <1>2 DEF Adjust
    <3>2. [event |-> e, delta |-> d].event = e
          OBVIOUS
    <3> QED BY <3>1, <3>2
  <2>2. /\ DOMAIN adjustments' = Purchases
        /\ \A q \in Purchases : adjustments'[q] = IF q = p THEN Append(rows, r) ELSE adjustments[q]
        BY <2>1 DEF BooksOK
  <2>3. /\ IsList(Append(rows, r))
        /\ DOMAIN Append(rows, r) = DOMAIN rows \cup {Len(rows) + 1}
        /\ Len(rows) + 1 \notin DOMAIN rows
        /\ Append(rows, r)[Len(rows) + 1] = r
        /\ \A k \in DOMAIN rows : Append(rows, r)[k] = rows[k]
        BY AppendList DEF BooksOK
  <2>4. Adjusted(p, e)'
        BY <2>1, <2>2, <2>3 DEF Adjusted
  <2>5. Grows
        BY <2>2, <2>3 DEF Grows, Adjusted, outside
  <2>6. \A j, k \in DOMAIN Append(rows, r) :
           Append(rows, r)[j].event = Append(rows, r)[k].event => j = k
        BY <1>2, <2>1, <2>3 DEF BooksOK
  <2>7. \A q \in Purchases : /\ IsList(adjustments'[q])
                             /\ \A j, k \in DOMAIN adjustments'[q] :
                                   adjustments'[q][j].event = adjustments'[q][k].event => j = k
        BY <2>2, <2>3, <2>6 DEF BooksOK
  <2> QED BY <2>2, <2>4, <2>5, <2>7 DEF BooksOK, Handled, Paid, outside
<1> QED BY <1>1, <1>2

(***************************************************************************)
(* The checkout and the return URL.                                        *)
(***************************************************************************)
LEMMA SameBooks ==
    ASSUME BooksOK, UNCHANGED <<books, outside>>
    PROVE  Grows /\ BooksOK'
BY DEF BooksOK, Grows, Adjusted, Paid, books, outside

LEMMA CheckoutStep ==
    ASSUME Inv, NEW s \in Slots, NEW p \in Purchases, Checkout(s, p)
    PROVE  Inv'
<1>1. PICK new \in Intents : intent' = [intent EXCEPT ![p] = new] \/ intent' = intent
  <2>1. CASE intent[p].status = "none"
    <3> DEFINE new == [status |-> "CREATED", bound |-> FALSE, prices |-> prices]
    <3>1. new \in Intents /\ intent' = [intent EXCEPT ![p] = new]
          BY <2>1 DEF Checkout, Inv, BooksOK, Intents
    <3> QED BY <3>1
  <2>2. CASE intent[p].status # "none"
        BY <2>2 DEF Checkout, Inv, BooksOK
  <2> QED BY <2>1, <2>2
<1>2. Grows /\ BooksOK'
      BY <1>1, BindBooks DEF Checkout, Inv
<1>3. RequestOK([does |-> "bind", purchase |-> p])'
      BY DEF RequestOK, Work
<1> QED BY <1>2, <1>3, BooksStep DEF Checkout

LEMMA BindStep ==
    ASSUME Inv, NEW s \in Slots, BindOrder(s)
    PROVE  Inv'
<1>1. PICK p \in Purchases : p = handler[s].purchase
      BY DEF BindOrder, Inv, RequestsOK, RequestOK
<1>2. PICK new \in Intents : intent' = [intent EXCEPT ![p] = new]
  <2> DEFINE new == [status |-> "PENDING_APPROVAL", bound |-> TRUE, prices |-> intent[p].prices]
  <2>1. new \in Intents /\ intent' = [intent EXCEPT ![p] = new]
        BY <1>1 DEF BindOrder, Inv, BooksOK, Intents
  <2> QED BY <2>1
<1>3. Grows /\ BooksOK'
      BY <1>2, BindBooks DEF BindOrder, Inv
<1> QED BY <1>3, IdleOK, BooksStep DEF BindOrder

LEMMA CaptureStep ==
    ASSUME Inv, NEW s \in Slots, NEW p \in Purchases, CaptureOrder(s, p)
    PROVE  Inv'
<1>1. Grows /\ BooksOK'
      BY DEF CaptureOrder, Inv, BooksOK, Grows, Adjusted, Paid, books
<1>2. RequestOK([does |-> "grant", purchase |-> p])'
      BY DEF RequestOK, Work, CaptureOrder
<1> QED BY <1>1, <1>2, BooksStep DEF CaptureOrder

LEMMA ReturnStep ==
    ASSUME Inv, NEW s \in Slots, ReturnGrant(s)
    PROVE  Inv'
<1>1. PICK p \in captured : p = handler[s].purchase
      BY DEF ReturnGrant, Inv, RequestsOK, RequestOK
<1>2. Grows /\ BooksOK'
  <2>1. CASE Grant(p)
        BY <2>1, GrantBooks DEF ReturnGrant, Inv
  <2>2. CASE UNCHANGED <<granted, intent>>
        BY <2>2, SameBooks DEF ReturnGrant, Inv, books
  <2> QED BY <1>1, <2>1, <2>2 DEF ReturnGrant
<1> QED BY <1>2, IdleOK, BooksStep DEF ReturnGrant

LEMMA RepriceStep ==
    ASSUME Inv, Reprice
    PROVE  Inv'
<1>1. Grows /\ BooksOK'
      BY BoundAssumption DEF Reprice, Inv, BooksOK, Grows, Adjusted, Paid, books
<1>2. RequestsOK'
  <2>1. SUFFICES ASSUME NEW t \in Slots, NEW g, g = handler'[t]
                 PROVE  RequestOK(g)'
        BY DEF RequestsOK, RequestOK
  <2>2. RequestOK(g)
        BY <2>1 DEF Reprice, inboxVars, Inv, RequestsOK
  <2> QED BY <1>1, <2>2, RequestGrows DEF Inv
<1> QED BY <1>1, <1>2, ProcessedGrows DEF Inv, InboxOK, Reprice, inboxVars

(***************************************************************************)
(* The handlers of the webhook events.                                     *)
(***************************************************************************)
LEMMA SettleOK ==
    ASSUME NEW e, NEW result \in Results, e \in Events(history)', Sent(e)',
           result = "processed" => Effective(e)'
    PROVE  RequestOK([does |-> "settle", event |-> e, result |-> result])'
BY DEF RequestOK, Work

LEMMA CreditCaptureStep ==
    ASSUME Inv, NEW s \in Slots, CreditCapture(s)
    PROVE  Inv'
<1>1. PICK e \in Events(history) : e = handler[s].event
      BY DEF CreditCapture, Inv, RequestsOK, RequestOK
<1>2. Sent(e) /\ e.source[1] = "CAPTURE"
      BY <1>1 DEF CreditCapture, Inv, RequestsOK, RequestOK
<1>3. PICK p : p = e.of[1] /\ p \in captured
      BY <1>2, EventFacts DEF Inv, Sent, Paid
<1>4. CASE Resolves(p)
  <2>1. Grant(p) /\ Become(s, [does |-> "settle", event |-> e, result |-> "processed"])
        BY <1>1, <1>3, <1>4 DEF CreditCapture, ToSettle
  <2>2. Grows /\ BooksOK' /\ granted'[p] = 1
        BY <2>1, <1>3, GrantBooks DEF CreditCapture, Inv
  <2>3. Effective(e)' /\ Sent(e)'
        BY <1>2, <1>3, <2>2, EffectiveGrows DEF Inv, Effective
  <2>4. RequestOK([does |-> "settle", event |-> e, result |-> "processed"])'
        BY <2>2, <2>3, SettleOK DEF Results, Grows
  <2> QED BY <2>1, <2>2, <2>4, BooksStep DEF CreditCapture
<1>5. CASE ~Resolves(p)
  <2>1. /\ UNCHANGED <<granted, intent>>
        /\ Become(s, [does |-> "settle", event |-> e, result |-> "unmatched"])
        BY <1>1, <1>3, <1>5 DEF CreditCapture, ToSettle
  <2>2. Grows /\ BooksOK'
        BY <2>1, SameBooks DEF CreditCapture, Inv, books
  <2>3. Sent(e)'
        BY <1>2, <2>2, EffectiveGrows DEF Inv
  <2>4. RequestOK([does |-> "settle", event |-> e, result |-> "unmatched"])'
        BY <2>2, <2>3, SettleOK DEF Results, Grows
  <2> QED BY <2>1, <2>2, <2>4, BooksStep DEF CreditCapture
<1> QED BY <1>4, <1>5

LEMMA AdjustStep ==
    ASSUME Inv, NEW s \in Slots, AdjustNext(s)
    PROVE  Inv'
<1>1. PICK h : h = handler[s]
      OBVIOUS
<1>2. PICK e \in Events(history) : e = h.event
      BY <1>1 DEF AdjustNext, Inv, RequestsOK, RequestOK
<1>3. /\ h.does = "apply" /\ Sent(e) /\ e.source[1] # "CAPTURE"
      /\ h.rest \in Seq(Purchases) /\ h.rest # <<>>
      /\ \A k \in DOMAIN e.of : \/ \E j \in DOMAIN h.rest : h.rest[j] = e.of[k]
                                \/ Handled(e.of[k], e)
      BY <1>1, <1>2 DEF AdjustNext, Inv, RequestsOK, RequestOK
<1>4. PICK p \in Purchases : p = Head(h.rest)
      BY <1>3, HeadTailProperties
<1>5. \A k \in DOMAIN e.of : e.of[k] \in Purchases
      BY EventFacts DEF Inv
<1>6. CASE granted[p] = 0
  <2>1. /\ UNCHANGED adjustments
        /\ Become(s, [does |-> "settle", event |-> e, result |-> "retryable"])
        BY <1>1, <1>2, <1>4, <1>6 DEF AdjustNext, ToSettle
  <2>2. Grows /\ BooksOK'
        BY <2>1, SameBooks DEF AdjustNext, Inv, books
  <2>3. Sent(e)'
        BY <1>3, <2>2, EffectiveGrows DEF Inv
  <2>4. RequestOK([does |-> "settle", event |-> e, result |-> "retryable"])'
        BY <2>2, <2>3, SettleOK DEF Results, Grows
  <2> QED BY <2>1, <2>2, <2>4, BooksStep DEF AdjustNext
<1>7. CASE granted[p] # 0
  <2>0. PICK outcome \in Results : outcome = Outcome(e)
        BY DEF Outcome, Results
  <2>1. /\ Adjust(p, e)
        /\ Len(h.rest) = 1 => Become(s, [does |-> "settle", event |-> e, result |-> outcome])
        /\ Len(h.rest) # 1 => Become(s, [does |-> "apply", event |-> e, rest |-> Tail(h.rest)])
        BY <1>1, <1>2, <1>4, <1>7, <2>0 DEF AdjustNext, ToSettle
  <2>2. Grows /\ BooksOK' /\ Handled(p, e)'
        BY <2>1, AdjustBooks DEF AdjustNext, Inv
  <2>3. Sent(e)' /\ \A k \in DOMAIN e.of : Handled(e.of[k], e) => Handled(e.of[k], e)'
        BY <1>3, <1>5, <2>2, EffectiveGrows DEF Inv, Grows, Handled, Foreign
  <2>4. CASE Len(h.rest) = 1
    <3>1. \A k \in DOMAIN e.of : e.of[k] = p \/ Handled(e.of[k], e)
          BY <1>3, <1>4, <2>4, SingleOf
    <3>2. \A k \in DOMAIN e.of : Handled(e.of[k], e)'
          BY <3>1, <2>2, <2>3
    <3>3. Effective(e)'
          BY <3>2, <1>3 DEF Effective, Handled
    <3>4. RequestOK([does |-> "settle", event |-> e, result |-> outcome])'
          BY <2>2, <2>3, <3>3, SettleOK DEF Grows
    <3> QED BY <2>1, <2>2, <2>4, <3>4, BooksStep DEF AdjustNext
  <2>5. CASE Len(h.rest) # 1
    <3> DEFINE g == [does |-> "apply", event |-> e, rest |-> Tail(h.rest)]
    <3>1. g.does = "apply" /\ g.event = e /\ g.rest = Tail(h.rest)
          OBVIOUS
    <3>2. /\ Tail(h.rest) \in Seq(Purchases) /\ Tail(h.rest) # <<>>
          /\ \A j \in DOMAIN h.rest : \/ h.rest[j] = p
                                      \/ \E i \in DOMAIN Tail(h.rest) : Tail(h.rest)[i] = h.rest[j]
          BY <1>3, <1>4, <2>5, TailOf
    <3>3. \A k \in DOMAIN e.of : \/ \E j \in DOMAIN g.rest : g.rest[j] = e.of[k]
                                 \/ Handled(e.of[k], e)'
          BY <1>3, <2>2, <2>3, <3>1, <3>2
    <3>4. RequestOK(g)'
          BY <1>3, <2>2, <2>3, <3>1, <3>2, <3>3 DEF RequestOK, Work, Grows
    <3> QED BY <2>1, <2>2, <2>5, <3>4, BooksStep DEF AdjustNext
  <2> QED BY <2>4, <2>5
<1> QED BY <1>6, <1>7

(***************************************************************************)
(* The inbox. Only Settle makes a row processed, and its request knows     *)
(* that the event has been given effect.                                   *)
(***************************************************************************)
LEMMA InboxStep ==
    ASSUME Inv, UNCHANGED <<books, outside>>,
           inbox' \in [Events(history) -> Rows], faults' \in Nat,
           \A e \in Events(history) :
               inbox'[e].row = "processed" => inbox[e].row = "processed" \/ Effective(e),
           \/ handler' = handler
           \/ \E s \in Slots : \E h : Become(s, h) /\ RequestOK(h)
    PROVE  Inv'
<1>1. Grows /\ BooksOK'
      BY SameBooks DEF Inv
<1>2. DOMAIN handler' = Slots /\ RequestsOK'
  <2>1. CASE handler' = handler
    <3>1. SUFFICES ASSUME NEW t \in Slots, NEW g, g = handler'[t]
                   PROVE  RequestOK(g)'
          BY <2>1 DEF RequestsOK, RequestOK, Inv, InboxOK
    <3>2. RequestOK(g)
          BY <2>1, <3>1 DEF Inv, RequestsOK
    <3> QED BY <1>1, <3>2, RequestGrows DEF Inv
  <2>2. ASSUME NEW s \in Slots, NEW h, Become(s, h), RequestOK(h)
        PROVE  DOMAIN handler' = Slots /\ RequestsOK'
    <3>1. RequestOK(h)'
          BY <1>1, <2>2, RequestGrows DEF Inv
    <3> QED BY <1>1, <2>2, <3>1, BecomeOK
  <2> QED BY <2>1, <2>2
<1>3. ASSUME NEW e \in Events(history), inbox'[e].row = "processed"
      PROVE  Effective(e)'
  <2>1. Effective(e)
        BY <1>3 DEF Inv, InboxOK, ProcessedIsEffective
  <2> QED BY <1>1, <2>1, EffectiveGrows DEF Inv
<1> QED BY <1>1, <1>2, <1>3 DEF Inv, InboxOK, ProcessedIsEffective, Grows

LEMMA ClaimStep ==
    ASSUME Inv, UNCHANGED <<books, outside>>, NEW s \in Slots,
           NEW e \in Events(history), Sent(e), Claim(s, e)
    PROVE  Inv'
<1>1. PICK h : h = [does |-> "apply", event |-> e, rest |-> e.of]
      OBVIOUS
<1>2. h.does = "apply" /\ h.event = e /\ h.rest = e.of
      BY <1>1
<1>3. RequestOK(h)
      BY <1>2, EventFacts DEF Inv, RequestOK, Work
<1>4. inbox' = [inbox EXCEPT ![e] = [row |-> "processing", stale |-> FALSE, acked |-> inbox[e].acked]]
      BY DEF Claim
<1>5. inbox' \in [Events(history) -> Rows]
      BY <1>4 DEF Inv, InboxOK, Rows
<1>6. \A f \in Events(history) : inbox'[f].row = "processed" => inbox[f].row = "processed"
      BY <1>4 DEF Inv, InboxOK
<1> QED BY <1>1, <1>3, <1>5, <1>6, InboxStep DEF Claim, Inv, InboxOK

LEMMA EventStep ==
    ASSUME Inv, UNCHANGED <<books, outside>>, NEW e \in Events(history),
           AnswerAtOnce(e) \/ Age(e)
    PROVE  Inv'
<1>1. inbox' \in [Events(history) -> Rows]
      BY DEF AnswerAtOnce, Age, Inv, InboxOK, Rows
<1>2. \A f \in Events(history) : inbox'[f].row = inbox[f].row
      BY DEF AnswerAtOnce, Age, Inv, InboxOK, Rows
<1> QED BY <1>1, <1>2, InboxStep DEF AnswerAtOnce, Age, Inv, InboxOK

LEMMA SettleStep ==
    ASSUME Inv, UNCHANGED <<books, outside>>, NEW s \in Slots,
           Settle(s) \/ SettleFails(s)
    PROVE  Inv'
<1>1. PICK e \in Events(history) : e = handler[s].event
      BY DEF Settle, SettleFails, Inv, RequestsOK, RequestOK
<1>2. PICK result \in Results : /\ result = handler[s].result
                                /\ result = "processed" => Effective(e)
      BY <1>1 DEF Settle, SettleFails, Inv, RequestsOK, RequestOK
<1>3. Become(s, Idle) /\ faults' \in Nat
      BY DEF Settle, SettleFails, Fault, Inv, InboxOK
<1>4. CASE inbox' = inbox
      BY <1>3, <1>4, IdleOK, InboxStep DEF Inv, InboxOK
<1>5. ASSUME NEW row \in Results, row = "processed" => Effective(e), NEW acked \in BOOLEAN,
             inbox' = [inbox EXCEPT ![e] = [row |-> row, stale |-> FALSE, acked |-> acked]]
      PROVE  Inv'
  <2>1. inbox' \in [Events(history) -> Rows]
        BY <1>5 DEF Inv, InboxOK, Rows
  <2>2. \A f \in Events(history) :
            inbox'[f].row = "processed" => inbox[f].row = "processed" \/ Effective(f)
        BY <1>5 DEF Inv, InboxOK
  <2> QED BY <1>3, <2>1, <2>2, IdleOK, InboxStep
<1>6. inbox[e].acked \in BOOLEAN
      BY DEF Inv, InboxOK, Rows
<1>7. CASE Settle(s)
  <2>1. inbox' = [inbox EXCEPT ![e] = [row |-> result, stale |-> FALSE,
                     acked |-> inbox[e].acked \/ result \in {"processed", "unmatched"}]]
        BY <1>1, <1>2, <1>7 DEF Settle
  <2> QED BY <1>2, <1>5, <1>6, <2>1
<1>8. CASE SettleFails(s) /\ inbox' # inbox
  <2>1. inbox' = [inbox EXCEPT ![e] = [row |-> "failed", stale |-> FALSE, acked |-> inbox[e].acked]]
        BY <1>1, <1>8 DEF SettleFails
  <2> QED BY <1>5, <1>6, <2>1 DEF Results
<1> QED BY <1>4, <1>7, <1>8

LEMMA EndStep ==
    ASSUME Inv, UNCHANGED <<books, outside>>, NEW s \in Slots,
           Throw(s) \/ Die(s)
    PROVE  Inv'
<1>1. faults' \in Nat /\ inbox' = inbox
      BY DEF Throw, Die, Fault, Inv, InboxOK
<1>2. CASE Die(s)
      BY <1>1, <1>2, IdleOK, InboxStep DEF Die, Inv, InboxOK
<1>3. CASE Throw(s)
  <2>1. PICK e \in Events(history) : e = handler[s].event /\ Sent(e)
        BY <1>3 DEF Throw, Inv, RequestsOK, RequestOK
  <2>2. PICK h : h = [does |-> "settle", event |-> e, result |-> "failed"]
        OBVIOUS
  <2>3. RequestOK(h)
        BY <2>1, <2>2 DEF RequestOK, Work, Results
  <2>4. Become(s, h)
        BY <1>3, <2>1, <2>2 DEF Throw, ToSettle
  <2> QED BY <1>1, <2>3, <2>4, InboxStep DEF Inv, InboxOK
<1> QED BY <1>2, <1>3

(***************************************************************************)
(* The theorems.                                                           *)
(***************************************************************************)
LEMMA Initially == Init => Inv
<1> SUFFICES ASSUME Init PROVE Inv
    OBVIOUS
<1>1. InboxOK
      BY FaultAssumption DEF Init, InboxInit, InboxOK, Rows
<1>2. BooksOK
      BY EmptyList DEF Init, BooksOK, Intents
<1>3. RequestsOK
      BY IdleOK DEF Init, InboxInit, RequestsOK
<1>4. ProcessedIsEffective
      BY DEF Init, InboxInit, ProcessedIsEffective
<1> QED BY <1>1, <1>2, <1>3, <1>4 DEF Inv

LEMMA Inductive == Inv /\ [Next]_vars => Inv'
<1> SUFFICES ASSUME Inv, [Next]_vars PROVE Inv'
    OBVIOUS
<1>1. DOMAIN inbox = Events(history)
      BY DEF Inv, InboxOK
<1>2. ASSUME NEW s \in Slots, Route(s) \/ Handle(s)
      PROVE  Inv'
      BY <1>2, BindStep, ReturnStep, CreditCaptureStep, AdjustStep DEF Route, Handle
<1>3. ASSUME NEW s \in Slots, NEW p \in Purchases, Checkout(s, p) \/ CaptureOrder(s, p)
      PROVE  Inv'
      BY <1>3, CheckoutStep, CaptureStep
<1>4. CASE InboxNext({e \in DOMAIN inbox : Sent(e)}) /\ UNCHANGED <<books, outside>>
  <2>1. ASSUME NEW e \in DOMAIN inbox, Sent(e), NEW s \in Slots, Claim(s, e)
        PROVE  Inv'
        BY <1>1, <1>4, <2>1, ClaimStep
  <2>2. ASSUME NEW e \in DOMAIN inbox, AnswerAtOnce(e) \/ Age(e)
        PROVE  Inv'
        BY <1>1, <1>4, <2>2, EventStep
  <2>3. ASSUME NEW s \in Slots, Throw(s) \/ Settle(s) \/ SettleFails(s) \/ Die(s)
        PROVE  Inv'
        BY <1>4, <2>3, EndStep, SettleStep
  <2> QED BY <1>4, <2>1, <2>2, <2>3 DEF InboxNext
<1>5. CASE UNCHANGED vars
  <2> QED BY <1>5, <1>1, InboxStep DEF vars, inboxVars, Inv, InboxOK
<1> QED BY <1>2, <1>3, <1>4, <1>5, RepriceStep DEF Next

LEMMA Always == Spec => []Inv
BY Initially, Inductive, PTL DEF Spec

(***************************************************************************)
(* The records of billing keep their types, and no event is written twice  *)
(* among the adjustments of a purchase.                                    *)
(***************************************************************************)
THEOREM BillingTypeCorrect == Spec => []BillingTypeOK
<1>1. Inv => BillingTypeOK
      BY DEF Inv, InboxOK, BooksOK, BillingTypeOK, Rows, Results, Intents
<1> QED BY <1>1, Always, PTL

(***************************************************************************)
(* Whatever calls PayPal repeats, whoever else returns from PayPal, and    *)
(* whichever requests die or lose their lease, a pack is granted at most   *)
(* once, and only when its order was captured.                             *)
(***************************************************************************)
THEOREM GrantOncePerPayment == Spec => []GrantedOnceForPayment
<1>1. Inv => GrantedOnceForPayment
      BY DEF Inv, BooksOK, GrantedOnceForPayment
<1> QED BY <1>1, Always, PTL

(***************************************************************************)
(* An event on record as processed has had its effect, although several    *)
(* requests may be at it and the one that settles need not hold the lease. *)
(***************************************************************************)
THEOREM ProcessedEventsCount == Spec => []ProcessedIsEffective
<1>1. Inv => ProcessedIsEffective
      BY DEF Inv
<1> QED BY <1>1, Always, PTL
-----------------------------------------------------------------------------
(***************************************************************************)
(* Arithmetic of the shares.                                               *)
(***************************************************************************)
LEMMA MinOf == ASSUME NEW a \in Int, NEW b \in Int
               PROVE  Min({a, b}) = IF a <= b THEN a ELSE b
BY DEF Min

LEMMA MaxOf == ASSUME NEW a \in Int, NEW b \in Int
               PROVE  Max({a, b}) = IF a >= b THEN a ELSE b
BY DEF Max

LEMMA Products ==
    ASSUME NEW a \in Nat, NEW b \in Int, NEW c \in Int, b <= c
    PROVE  a * b \in Int /\ a * c \in Int /\ a * b <= a * c
OBVIOUS

LEMMA ShareIs ==
    ASSUME NEW n \in Nat
    PROVE  /\ Share(n) \in Nat
           /\ Gross * Share(n) <= Pack * n + Gross - 1
           /\ Pack * n + Gross - 1 < Gross * (Share(n) + 1)
BY PackAssumption DEF Share

LEMMA ShareRange ==
    ASSUME NEW n \in 0..Gross
    PROVE  Share(n) \in 0..Pack
<1>1. n \in Nat /\ Gross \in Nat /\ Gross > 0 /\ Pack \in Nat
      BY PackAssumption
<1>2. Share(n) \in Nat /\ Gross * Share(n) <= Pack * n + Gross - 1
      BY <1>1, ShareIs
<1>3. Pack * n <= Pack * Gross
      BY <1>1, Products
<1>4. CASE Share(n) >= Pack + 1
  <2>1. Gross * (Pack + 1) <= Gross * Share(n)
        BY <1>1, <1>2, <1>4, Products
  <2>2. Gross * (Pack + 1) = Pack * Gross + Gross
        BY <1>1
  <2>3. Pack * Gross \in Int /\ Pack * n \in Int /\ Gross * Share(n) \in Int
        BY <1>1, <1>2
  <2> QED BY <1>1, <1>2, <1>3, <2>1, <2>2, <2>3
<1> QED BY <1>1, <1>2, <1>4

LEMMA WholeShare == Share(Gross) = Pack /\ Share(0) = 0
<1>1. Gross \in Nat /\ Gross > 0 /\ Pack \in Nat /\ Pack > 0
      BY PackAssumption
<1>2. Share(Gross) >= Pack
  <2>1. Share(Gross) \in Nat /\ Pack * Gross + Gross - 1 < Gross * (Share(Gross) + 1)
        BY <1>1, ShareIs
  <2>2. CASE Share(Gross) + 1 <= Pack
    <3>1. Gross * (Share(Gross) + 1) <= Gross * Pack
          BY <1>1, <2>1, <2>2, Products
    <3>2. Gross * Pack = Pack * Gross /\ Pack * Gross \in Int /\ Gross * (Share(Gross) + 1) \in Int
          BY <1>1, <2>1
    <3> QED BY <1>1, <2>1, <3>1, <3>2
  <2> QED BY <1>1, <2>1, <2>2
<1>3. Share(Gross) <= Pack
      BY <1>1, ShareRange
<1>4. Share(0) = 0
  <2>1. Share(0) \in Nat /\ Gross * Share(0) <= Gross - 1
        BY <1>1, ShareIs
  <2>2. CASE Share(0) >= 1
    <3>1. Gross * 1 <= Gross * Share(0)
          BY <1>1, <2>1, <2>2, Products
    <3> QED BY <1>1, <2>1, <3>1
  <2> QED BY <2>1, <2>2
<1>5. Share(Gross) \in Nat
      BY <1>1, ShareIs
<1> QED BY <1>1, <1>2, <1>3, <1>4, <1>5

LEMMA AtRiskIs ==
    ASSUME NEW e, e.amount \in Nat
    PROVE  AtRisk(e) = (IF e.release THEN 0 ELSE IF Pack <= Share(e.amount) THEN Pack ELSE Share(e.amount))
           /\ AtRisk(e) \in 0..Pack
<1>1. Share(e.amount) \in Nat /\ Pack \in Nat
      BY ShareIs, PackAssumption
<1>2. (Pack * e.amount + Gross - 1) \div Gross = Share(e.amount)
      BY DEF Share
<1>3. Min({Pack, Share(e.amount)}) = IF Pack <= Share(e.amount) THEN Pack ELSE Share(e.amount)
      BY <1>1, MinOf
<1> QED BY <1>1, <1>2, <1>3 DEF AtRisk

(***************************************************************************)
(* The folds of the module are sums.                                       *)
(***************************************************************************)
Deltas(rows) == [k \in DOMAIN rows |-> rows[k].delta]
Risks(rows)  == [k \in DOMAIN rows |-> AtRisk(rows[k].event)]
Shares(parts) == [k \in DOMAIN parts |-> Share(parts[k])]
OfKind(rows, kinds) == {k \in Latest(rows) : rows[k].event.source[1] \in kinds}

LEMMA DeltasAreSummed ==
    ASSUME NEW rows, IsFiniteSet(DOMAIN rows)
    PROVE  FoldFunction(LAMBDA row, sum : row.delta + sum, 0, rows) = SumOver(Deltas(rows), DOMAIN rows)
<1> DEFINE S == DOMAIN rows
           Solves(h) == h = [s \in SUBSET S |-> IF s = {} THEN 0 ELSE rows[First(s)].delta + h[Rest(s)]]
           sum == CHOOSE h : Solves(h)
<1>1. FoldFunction(LAMBDA row, acc : row.delta + acc, 0, rows) = sum[S]
      BY DEF FoldFunction, FoldFunctionOnSet, MapThenFoldSet, First, Rest
<1>2. \A s \in SUBSET S : s # {} => Deltas(rows)[First(s)] = rows[First(s)].delta
      BY FirstIn DEF Deltas
<1>3. \A h : Sums(Deltas(rows), h, S) <=> Solves(h)
      BY <1>2 DEF Sums
<1>4. \E h : Solves(h)
      BY <1>3, SumsExist
<1>5. Solves(sum)
      BY <1>4
<1>6. Sums(Deltas(rows), sum, S)
      BY <1>3, <1>5
<1> HIDE DEF sum, S
<1>7. IsFiniteSet(S)
      BY DEF S
<1>8. SumOver(Deltas(rows), S) = sum[S]
      BY <1>6, <1>7, SumIs
<1> QED BY <1>1, <1>8 DEF S

LEMMA RevokedIsSum ==
    ASSUME NEW p
    PROVE  /\ IsFiniteSet(DOMAIN adjustments[p]) =>
                 Revoked(p) = 0 - SumOver(Deltas(adjustments[p]), DOMAIN adjustments[p])
           /\ IsFiniteSet(DOMAIN adjustments'[p]) =>
                 Revoked(p)' = 0 - SumOver(Deltas(adjustments'[p]), DOMAIN adjustments'[p])
<1>1. Revoked(p) = 0 - FoldFunction(LAMBDA row, sum : row.delta + sum, 0, adjustments[p])
      BY DEF Revoked
<1>2. Revoked(p)' = 0 - FoldFunction(LAMBDA row, sum : row.delta + sum, 0, adjustments'[p])
      BY DEF Revoked, FoldFunction, FoldFunctionOnSet, MapThenFoldSet
<1>3. IsFiniteSet(DOMAIN adjustments[p]) =>
          FoldFunction(LAMBDA row, sum : row.delta + sum, 0, adjustments[p])
              = SumOver(Deltas(adjustments[p]), DOMAIN adjustments[p])
      BY DeltasAreSummed
<1>4. IsFiniteSet(DOMAIN adjustments'[p]) =>
          FoldFunction(LAMBDA row, sum : row.delta + sum, 0, adjustments'[p])
              = SumOver(Deltas(adjustments'[p]), DOMAIN adjustments'[p])
      BY DeltasAreSummed
<1> QED BY <1>1, <1>2, <1>3, <1>4

LEMMA RiskIsSum ==
    ASSUME NEW rows, NEW kinds, IsFiniteSet(DOMAIN rows)
    PROVE  RiskOf(rows, kinds) = SumOver(Risks(rows), OfKind(rows, kinds))
<1> DEFINE S == OfKind(rows, kinds)
           Solves(h) == h = [s \in SUBSET S |-> IF s = {} THEN 0 ELSE AtRisk(rows[First(s)].event) + h[Rest(s)]]
           sum == CHOOSE h : Solves(h)
<1>1. RiskOf(rows, kinds) = sum[S]
      BY DEF RiskOf, MapThenSumSet, MapThenFoldSet, First, Rest, OfKind
<1>2. S \subseteq DOMAIN rows
      BY DEF OfKind, Latest
<1>3. \A s \in SUBSET S : s # {} => Risks(rows)[First(s)] = AtRisk(rows[First(s)].event)
      BY <1>2, FirstIn DEF Risks
<1>4. \A h : Sums(Risks(rows), h, S) <=> Solves(h)
      BY <1>3 DEF Sums
<1> HIDE DEF S
<1>5. IsFiniteSet(S)
      BY <1>2, FS_Subset
<1>6. \E h : Solves(h)
      BY <1>4, <1>5, SumsExist
<1>7. Solves(sum)
      BY <1>6
<1>8. Sums(Risks(rows), sum, S)
      BY <1>4, <1>7
<1> HIDE DEF sum
<1>9. SumOver(Risks(rows), S) = sum[S]
      BY <1>5, <1>8, SumIs
<1> QED BY <1>1, <1>9 DEF S

LEMMA TotalIsSum ==
    ASSUME NEW parts, IsFiniteSet(DOMAIN parts)
    PROVE  Total(parts) = SumOver(parts, DOMAIN parts)
<1> DEFINE S == DOMAIN parts
           sum == CHOOSE h : Sums(parts, h, S)
<1>1. Total(parts) = sum[S]
      BY DEF Total, FoldFunction, FoldFunctionOnSet, MapThenFoldSet, First, Rest, Sums
<1>2. Sums(parts, sum, S)
      BY SumsExist
<1> HIDE DEF sum, S
<1>3. IsFiniteSet(S)
      BY DEF S
<1>4. SumOver(parts, S) = sum[S]
      BY <1>2, <1>3, SumIs
<1> QED BY <1>1, <1>4 DEF S

LEMMA RefundRiskIsSum ==
    ASSUME NEW pay, ~pay.snapshots, IsFiniteSet(DOMAIN pay.parts)
    PROVE  RefundRisk(pay) = SumOver(Shares(pay.parts), DOMAIN pay.parts)
<1> DEFINE parts == pay.parts
           S == DOMAIN parts
           Solves(h) == h = [s \in SUBSET S |-> IF s = {} THEN 0 ELSE Share(parts[First(s)]) + h[Rest(s)]]
           sum == CHOOSE h : Solves(h)
<1>1. RefundRisk(pay) = sum[S]
      BY DEF RefundRisk, FoldFunction, FoldFunctionOnSet, MapThenFoldSet, First, Rest
<1>2. \A s \in SUBSET S : s # {} => Shares(parts)[First(s)] = Share(parts[First(s)])
      BY FirstIn DEF Shares
<1>3. \A h : Sums(Shares(parts), h, S) <=> Solves(h)
      BY <1>2 DEF Sums
<1>4. \E h : Solves(h)
      BY <1>3, SumsExist
<1>5. Solves(sum)
      BY <1>4
<1>6. Sums(Shares(parts), sum, S)
      BY <1>3, <1>5
<1> HIDE DEF sum, S
<1>7. IsFiniteSet(S)
      BY DEF S
<1>8. SumOver(Shares(parts), S) = sum[S]
      BY <1>6, <1>7, SumIs
<1> QED BY <1>1, <1>8 DEF S

(***************************************************************************)
(* What is at stake never exceeds the pack, and depends on the events of   *)
(* the rows only.                                                          *)
(***************************************************************************)
LEMMA ListDomain ==
    ASSUME NEW q, IsList(q)
    PROVE  /\ Len(q) \in Nat /\ DOMAIN q = 1..Len(q) /\ IsFiniteSet(DOMAIN q)
<1>1. PICK T : q \in Seq(T)
      BY DEF IsList
<1>2. Len(q) \in Nat /\ DOMAIN q = 1..Len(q)
      BY <1>1
<1> QED BY <1>2, FS_Interval

RowsOf(rows) == IsList(rows) /\ \A k \in DOMAIN rows : rows[k].event.amount \in Nat

LEMMA RiskRange ==
    ASSUME NEW rows, RowsOf(rows), NEW kinds
    PROVE  /\ RiskOf(rows, kinds) = SumOver(Risks(rows), OfKind(rows, kinds))
           /\ RiskOf(rows, kinds) \in Nat
           /\ IsFiniteSet(OfKind(rows, kinds))
           /\ \A k \in OfKind(rows, kinds) : k \in DOMAIN rows /\ Risks(rows)[k] \in 0..Pack
<1>1. IsFiniteSet(DOMAIN rows)
      BY ListDomain DEF RowsOf
<1>2. OfKind(rows, kinds) \subseteq DOMAIN rows
      BY DEF OfKind, Latest
<1>3. \A k \in DOMAIN rows : Risks(rows)[k] \in 0..Pack
      BY AtRiskIs DEF Risks, RowsOf
<1>4. IsFiniteSet(OfKind(rows, kinds))
      BY <1>1, <1>2, FS_Subset
<1>5. \A k \in OfKind(rows, kinds) : Risks(rows)[k] \in Nat
      BY <1>2, <1>3, PackAssumption
<1>6. SumOver(Risks(rows), OfKind(rows, kinds)) \in Nat
      BY <1>4, <1>5, SumType
<1> QED BY <1>1, <1>2, <1>3, <1>4, <1>6, RiskIsSum

LEMMA TargetIs ==
    ASSUME NEW rows, RowsOf(rows)
    PROVE  LET held   == RiskOf(rows, {"REVERSAL", "DISPUTE"})
               total  == RiskOf(rows, {"TOTAL"})
               refund == RiskOf(rows, {"REFUND"})
               risk   == held + (IF total >= refund THEN total ELSE refund)
           IN  Target(rows) = (IF Pack <= risk THEN Pack ELSE risk) /\ Target(rows) \in 0..Pack
<1> DEFINE held   == RiskOf(rows, {"REVERSAL", "DISPUTE"})
           total  == RiskOf(rows, {"TOTAL"})
           refund == RiskOf(rows, {"REFUND"})
           risk   == held + (IF total >= refund THEN total ELSE refund)
<1>1. held \in Nat /\ total \in Nat /\ refund \in Nat
      BY RiskRange
<1>2. Target(rows) = Min({Pack, held + Max({total, refund})})
      BY DEF Target
<1> HIDE DEF held, total, refund
<1>3. Max({total, refund}) = IF total >= refund THEN total ELSE refund
      BY <1>1, MaxOf
<1>4. Min({Pack, risk}) = IF Pack <= risk THEN Pack ELSE risk
      BY <1>1, MinOf, PackAssumption
<1>5. Target(rows) = Min({Pack, risk}) /\ risk \in Nat
      BY <1>1, <1>2, <1>3
<1> HIDE DEF risk
<1>6. Target(rows) = (IF Pack <= risk THEN Pack ELSE risk) /\ Target(rows) \in 0..Pack
      BY <1>4, <1>5, PackAssumption
<1> QED BY <1>6 DEF held, total, refund, risk

LEMMA TargetByEvents ==
    ASSUME NEW q, NEW r, RowsOf(q), RowsOf(r), DOMAIN q = DOMAIN r,
           \A k \in DOMAIN q : q[k].event = r[k].event
    PROVE  Target(q) = Target(r)
<1>1. Risks(q) = Risks(r)
      BY DEF Risks
<1>2. \A j, k \in DOMAIN q : Later(q, j, k) <=> Later(r, j, k)
      BY DEF Later
<1>3. Latest(q) = Latest(r)
      BY <1>2 DEF Latest
<1>4. \A kinds : OfKind(q, kinds) = OfKind(r, kinds)
      BY <1>3 DEF OfKind, Latest
<1>5. \A kinds : RiskOf(q, kinds) = RiskOf(r, kinds)
      BY <1>1, <1>4, RiskRange
<1> QED BY <1>5 DEF Target

LEMMA TargetNone == Target(<<>>) = 0
<1>1. RowsOf(<<>>)
      BY EmptyList DEF RowsOf
<1>2. \A kinds : RiskOf(<<>>, kinds) = 0
  <2>1. \A kinds : OfKind(<<>>, kinds) = {}
        BY DEF OfKind, Latest
  <2> QED BY <1>1, <2>1, RiskRange, SumEmpty
<1> QED BY <1>1, <1>2, TargetIs, PackAssumption

(***************************************************************************)
(* The credits taken back follow the rows: each adjustment moves them to   *)
(* the target of all rows so far.                                          *)
(***************************************************************************)
RevokedOK ==
    \A p \in Purchases : /\ \A k \in DOMAIN adjustments[p] :
                               adjustments[p][k].event.amount \in Nat /\ adjustments[p][k].delta \in Int
                         /\ Revoked(p) = Target(adjustments[p])

LEMMA RevokedNone ==
    ASSUME NEW p, adjustments[p] = <<>>
    PROVE  Revoked(p) = 0
<1>1. DOMAIN adjustments[p] = {} /\ IsFiniteSet({})
      BY FS_EmptySet
<1> QED BY <1>1, RevokedIsSum, SumEmpty

LEMMA AppendRevoked ==
    ASSUME BooksOK, RevokedOK, NEW p \in Purchases, NEW e, e.amount \in Nat,
           NEW delta, delta = Revoked(p) - Target(Append(adjustments[p], [event |-> e, delta |-> 0])),
           adjustments'[p] = Append(adjustments[p], [event |-> e, delta |-> delta])
    PROVE  /\ \A k \in DOMAIN adjustments'[p] :
                 adjustments'[p][k].event.amount \in Nat /\ adjustments'[p][k].delta \in Int
           /\ Revoked(p)' = Target(adjustments'[p])
<1> DEFINE rows == adjustments[p]
           row == [event |-> e, delta |-> delta]
           draft == [event |-> e, delta |-> 0]
           n == Len(rows) + 1
<1>1. IsList(rows) /\ \A k \in DOMAIN rows : rows[k].event.amount \in Nat /\ rows[k].delta \in Int
      BY DEF BooksOK, RevokedOK
<1>2. /\ IsList(Append(rows, row)) /\ IsList(Append(rows, draft))
      /\ DOMAIN Append(rows, row) = DOMAIN rows \cup {n}
      /\ DOMAIN Append(rows, draft) = DOMAIN rows \cup {n}
      /\ n \notin DOMAIN rows
      /\ Append(rows, row)[n] = row /\ Append(rows, draft)[n] = draft
      /\ \A k \in DOMAIN rows : Append(rows, row)[k] = rows[k] /\ Append(rows, draft)[k] = rows[k]
      BY <1>1, AppendList
<1>3. row.event = e /\ row.delta = delta /\ draft.event = e
      OBVIOUS
<1> DEFINE new == Append(rows, row)
           drafted == Append(rows, draft)
<1>4. RowsOf(rows) /\ RowsOf(new) /\ RowsOf(drafted)
      BY <1>1, <1>2, <1>3 DEF RowsOf
<1>5. \A k \in DOMAIN new : new[k].event = drafted[k].event
      BY <1>2, <1>3
<1>6. Target(new) = Target(drafted)
      BY <1>2, <1>4, <1>5, TargetByEvents
<1>7. Target(rows) \in Int /\ Target(new) \in Int
      BY <1>4, TargetIs, PackAssumption
<1>8. delta = Target(rows) - Target(new)
      BY <1>6 DEF RevokedOK
<1>9. IsFiniteSet(DOMAIN rows) /\ IsFiniteSet(DOMAIN rows \cup {n})
      BY <1>1, ListDomain, FS_AddElement
<1>10. \A k \in DOMAIN new : new[k].event.amount \in Nat /\ new[k].delta \in Int
       BY <1>1, <1>2, <1>3, <1>7, <1>8
<1>11. SumOver(Deltas(new), DOMAIN new) = SumOver(Deltas(rows), DOMAIN rows) + delta
  <2>1. /\ \A k \in DOMAIN rows : Deltas(new)[k] = Deltas(rows)[k] /\ Deltas(new)[k] \in Int
        /\ Deltas(new)[n] = delta /\ delta \in Int
        BY <1>1, <1>2, <1>3, <1>7, <1>8 DEF Deltas
  <2> HIDE DEF n, new
  <2>2. SumOver(Deltas(new), DOMAIN rows \cup {n}) = SumOver(Deltas(new), DOMAIN rows) + delta
        BY <1>2, <1>9, <2>1, SumAdd
  <2>3. SumOver(Deltas(new), DOMAIN rows) = SumOver(Deltas(rows), DOMAIN rows)
        BY <1>9, <2>1, SumCongruent
  <2>4. DOMAIN new = DOMAIN rows \cup {n}
        BY <1>2 DEF new
  <2> QED BY <2>2, <2>3, <2>4
<1>12. Revoked(p) = 0 - SumOver(Deltas(rows), DOMAIN rows) /\ SumOver(Deltas(rows), DOMAIN rows) \in Int
  <2>1. \A k \in DOMAIN rows : Deltas(rows)[k] \in Int
        BY <1>1 DEF Deltas
  <2>2. SumOver(Deltas(rows), DOMAIN rows) \in Int
        BY <1>9, <2>1, SumType
  <2> QED BY <1>9, <2>2, RevokedIsSum
<1>13. adjustments'[p] = new
       OBVIOUS
<1>14. Revoked(p)' = 0 - SumOver(Deltas(new), DOMAIN new)
  <2>1. IsFiniteSet(DOMAIN adjustments'[p])
        BY <1>2, <1>9, <1>13
  <2> QED BY <1>13, <2>1, RevokedIsSum
<1>15. Revoked(p) = Target(rows)
       BY DEF RevokedOK
<1> HIDE DEF new, rows, row, drafted, draft, n
<1>16. Revoked(p)' = Target(new)
       BY <1>7, <1>8, <1>11, <1>12, <1>14, <1>15
<1> QED BY <1>10, <1>13, <1>16

(***************************************************************************)
(* The events PayPal sends, kind by kind.                                  *)
(***************************************************************************)
LEMMA TotalRange ==
    ASSUME NEW parts \in Seq(1..Gross), NEW k \in 0..Len(parts)
    PROVE  Total(SubSeq(parts, 1, k)) \in Nat
<1> DEFINE q == SubSeq(parts, 1, k)
<1>1. Len(parts) \in Nat /\ \A i \in 1..Len(parts) : parts[i] \in Nat
      BY PackAssumption
<1>2. q = [i \in 1..k |-> parts[i]]
      BY <1>1, SubSeqProperties
<1>3. DOMAIN q = 1..k /\ \A i \in 1..k : q[i] \in Nat
      BY <1>1, <1>2
<1> HIDE DEF q
<1>4. IsFiniteSet(DOMAIN q)
      BY <1>3, FS_Interval
<1>5. SumOver(q, DOMAIN q) \in Nat
      BY <1>3, <1>4, SumType
<1> QED BY <1>4, <1>5, TotalIsSum DEF q

LEMMA WholeTotal ==
    ASSUME NEW parts \in Seq(1..Gross)
    PROVE  /\ SubSeq(parts, 1, Len(parts)) = parts
           /\ Total(parts) \in Nat
<1> DEFINE n == Len(parts)
<1>1. n \in Nat /\ n \in 0..n /\ SubSeq(parts, 1, n) = parts
      BY SubSeqProperties
<1>2. \A k \in 0..n : Total(SubSeq(parts, 1, k)) \in Nat
      BY TotalRange
<1>3. Total(SubSeq(parts, 1, n)) \in Nat
      BY <1>1, <1>2
<1> QED BY <1>1, <1>3

DisputeEvent(d, k) ==
    IF k \in DOMAIN d.claims
    THEN Event("DISPUTE", 0, d.of, d.claims[k], d.times[k], IF k = 1 THEN 1 ELSE 2, FALSE)
    ELSE Event("DISPUTE", 0, d.of, d.claims[Len(d.claims)], d.times[k], 3, d.decided = "seller")

RefundEvent(p, pay, k) ==
    IF pay.snapshots
    THEN Event("TOTAL", 0, <<p>>, Total(SubSeq(pay.parts, 1, k)), k, 1, FALSE)
    ELSE Event("REFUND", k, <<p>>, pay.parts[k], 0, 1, FALSE)

StagesOf(d, n) == {DisputeEvent(d, k) : k \in 1..n}

LEMMA DisputeEventsAre ==
    ASSUME NEW d, NEW n \in Nat, DOMAIN d.claims = 1..Len(d.claims), Len(d.claims) \in Nat,
           n = Len(d.claims) + (IF d.decided = "no" THEN 0 ELSE 1)
    PROVE  DisputeEvents(d) = StagesOf(d, n)
<1> DEFINE stage(k) == Event("DISPUTE", 0, d.of, d.claims[k], d.times[k], IF k = 1 THEN 1 ELSE 2, FALSE)
           verdict == Event("DISPUTE", 0, d.of, d.claims[Len(d.claims)], d.times[Len(d.claims) + 1],
                            3, d.decided = "seller")
<1>1. \A k \in DOMAIN d.claims : DisputeEvent(d, k) = stage(k)
      BY DEF DisputeEvent
<1>2. DisputeEvents(d) = {stage(k) : k \in DOMAIN d.claims}
                         \cup (IF d.decided = "no" THEN {} ELSE {verdict})
      BY DEF DisputeEvents
<1>3. d.decided # "no" => DisputeEvent(d, n) = verdict /\ 1..n = DOMAIN d.claims \cup {n}
  <2> SUFFICES ASSUME d.decided # "no"
               PROVE  DisputeEvent(d, n) = verdict /\ 1..n = DOMAIN d.claims \cup {n}
      OBVIOUS
  <2>1. n = Len(d.claims) + 1 /\ n \notin DOMAIN d.claims /\ 1..n = DOMAIN d.claims \cup {n}
        OBVIOUS
  <2> QED BY <2>1 DEF DisputeEvent
<1>4. d.decided = "no" => 1..n = DOMAIN d.claims
      OBVIOUS
<1> HIDE DEF stage, verdict
<1> QED BY <1>1, <1>2, <1>3, <1>4 DEF StagesOf

LEMMA DisputeFacts ==
    ASSUME NEW h \in Histories, NEW d, d = h.dispute, NEW n, n = Len(d.times)
    PROVE  /\ n \in Nat /\ DOMAIN d.times = 1..n
           /\ Len(d.claims) \in Nat /\ DOMAIN d.claims = 1..Len(d.claims)
           /\ n = Len(d.claims) + (IF d.decided = "no" THEN 0 ELSE 1)
           /\ d.claims # <<>> => Len(d.claims) >= 1
           /\ n >= 1 <=> Len(d.claims) >= 1
           /\ d.claims # <<>> => n >= 1
           /\ \A k \in 1..n : d.times[k] \in Nat
           /\ \A k \in DOMAIN d.claims : d.claims[k] \in 1..Gross
           /\ DisputeEvents(d) = StagesOf(d, n)
<1>1. /\ d.claims \in Seq(1..Gross) /\ d.times \in Seq(Nat) /\ d.decided \in {"no", "buyer", "seller"}
      /\ d.decided # "no" => d.claims # <<>>
      BY HistoryAssumption DEF Dispute
<1>2. n = Len(d.claims) + (IF d.decided = "no" THEN 0 ELSE 1)
      BY ClockAssumption DEF InOrder
<1>3. /\ n \in Nat /\ Len(d.claims) \in Nat
      /\ DOMAIN d.times = 1..n /\ DOMAIN d.claims = 1..Len(d.claims)
      BY <1>1
<1>4. d.claims # <<>> => Len(d.claims) >= 1
      BY <1>1, <1>3, EmptySeq
<1>5. n >= 1 <=> Len(d.claims) >= 1
  <2>1. CASE d.decided = "no"
        BY <1>2, <1>3, <2>1
  <2>2. CASE d.decided # "no"
    <3>1. n = Len(d.claims) + 1
          BY <1>2, <2>2
    <3>2. Len(d.claims) >= 1
          BY <1>1, <1>4, <2>2
    <3> QED BY <1>3, <3>1, <3>2
  <2> QED BY <2>1, <2>2
<1>6. DisputeEvents(d) = StagesOf(d, n)
      BY <1>2, <1>3, DisputeEventsAre
<1>7. \A k \in 1..n : d.times[k] \in Nat
      BY <1>1, <1>3
<1>8. \A k \in DOMAIN d.claims : d.claims[k] \in 1..Gross
  <2>1. PICK q : q = d.claims
        OBVIOUS
  <2>2. q \in Seq(1..Gross)
        BY <1>1, <2>1, Zenon
  <2>3. \A k \in DOMAIN q : q[k] \in 1..Gross
    <3> DEFINE S == 1..Gross
    <3> HIDE DEF S
    <3>1. q \in Seq(S)
          BY <2>2 DEF S
    <3>2. \A k \in DOMAIN q : q[k] \in S
          BY <3>1
    <3> QED BY <3>2 DEF S
  <2> QED BY <2>1, <2>3
<1> QED BY <1>2, <1>3, <1>4, <1>5, <1>6, <1>7, <1>8

Reversal(p) == Event("REVERSAL", 0, <<p>>, Gross, 0, 1, FALSE)

LEMMA PaymentFacts ==
    ASSUME NEW h \in Histories, NEW p \in DOMAIN h.payment
    PROVE  LET pay == h.payment[p] IN
           /\ pay.parts \in Seq(1..Gross) /\ pay.snapshots \in BOOLEAN /\ pay.reversed \in BOOLEAN
           /\ Len(pay.parts) \in Nat /\ DOMAIN pay.parts = 1..Len(pay.parts)
           /\ RefundEvents(p, pay) = {RefundEvent(p, pay, k) : k \in DOMAIN pay.parts}
<1>1. h.payment[p] \in Payment
      BY HistoryAssumption
<1> QED BY <1>1 DEF Payment, RefundEvents, RefundEvent

LEMMA EventTyped ==
    ASSUME NEW h \in Histories, NEW e \in Events(h)
    PROVE  e.amount \in Nat
<1>1. CASE e \in DisputeEvents(h.dispute)
  <2>1. PICK d, n : d = h.dispute /\ n = Len(d.times)
        OBVIOUS
  <2>2. PICK k \in 1..n : e = DisputeEvent(d, k)
    <3>1. DisputeEvents(d) = StagesOf(d, n)
          BY <2>1, DisputeFacts
    <3> QED BY <1>1, <2>1, <3>1 DEF StagesOf
  <2>3. /\ \A i \in DOMAIN d.claims : d.claims[i] \in Nat
        /\ Len(d.claims) \in DOMAIN d.claims
    <3>1. /\ \A i \in DOMAIN d.claims : d.claims[i] \in 1..Gross
          /\ n \in Nat /\ Len(d.claims) \in Nat /\ DOMAIN d.claims = 1..Len(d.claims)
          /\ n >= 1 => Len(d.claims) >= 1
          BY <2>1, DisputeFacts
    <3> QED BY <2>2, <3>1, PackAssumption
  <2> QED BY <2>2, <2>3 DEF DisputeEvent, Event
<1>2. ASSUME NEW p \in DOMAIN h.payment, e \in PaymentEvents(p, h.payment[p])
      PROVE  e.amount \in Nat
  <2> DEFINE pay == h.payment[p]
  <2>1. CASE e \in RefundEvents(p, pay)
    <3>1. PICK k \in DOMAIN pay.parts : e = RefundEvent(p, pay, k)
          BY <2>1, PaymentFacts
    <3>2. pay.parts \in Seq(1..Gross) /\ k \in 0..Len(pay.parts) /\ pay.parts[k] \in Nat
          BY PaymentFacts, PackAssumption
    <3>3. Total(SubSeq(pay.parts, 1, k)) \in Nat
          BY <3>2, TotalRange
    <3> QED BY <3>1, <3>2, <3>3 DEF RefundEvent, Event
  <2>2. CASE e = Event("CAPTURE", 0, <<p>>, Gross, 0, 1, FALSE) \/ e = Reversal(p)
        BY <2>2, PackAssumption DEF Event, Reversal
  <2> QED BY <1>2, <2>1, <2>2 DEF PaymentEvents, Reversal
<1> QED BY <1>1, <1>2 DEF Events

(***************************************************************************)
(* The rows of a payment tell of events PayPal sent about it, and the      *)
(* credits taken back are the target of those rows.                        *)
(***************************************************************************)
RestOf(h) ==
    h.does = "apply" =>
        \A j \in DOMAIN h.rest : \E k \in DOMAIN h.event.of : h.event.of[k] = h.rest[j]

RowsAbout ==
    \A p \in Purchases : \A k \in DOMAIN adjustments[p] :
        adjustments[p][k].event \in Events(history) /\ About(p, adjustments[p][k].event)

RestsAbout == \A s \in Slots : RestOf(handler[s])

TakenBack == RevokedOK /\ RowsAbout /\ RestsAbout

LEMMA SameRevoked ==
    ASSUME BooksOK, RevokedOK, NEW p \in Purchases, adjustments'[p] = adjustments[p]
    PROVE  Revoked(p)' = Revoked(p)
<1>1. IsFiniteSet(DOMAIN adjustments[p])
      BY ListDomain DEF BooksOK
<1> QED BY <1>1, RevokedIsSum

LEMMA SameTakenBack ==
    ASSUME BooksOK, TakenBack, UNCHANGED <<adjustments, history>>,
           \A s \in Slots : RestOf(handler'[s])
    PROVE  TakenBack'
<1>1. \A p \in Purchases : Revoked(p)' = Revoked(p)
      BY SameRevoked DEF TakenBack
<1>2. RevokedOK'
      BY <1>1 DEF TakenBack, RevokedOK
<1>3. RowsAbout' /\ RestsAbout'
      BY DEF TakenBack, RowsAbout, RestsAbout, RestOf, About, Foreign
<1> QED BY <1>2, <1>3 DEF TakenBack

LEMMA BecomeRest ==
    ASSUME InboxOK, RestsAbout, NEW s \in Slots, NEW h, Become(s, h), RestOf(h)
    PROVE  \A t \in Slots : RestOf(handler'[t])
<1>1. \A t \in Slots : handler'[t] = IF t = s THEN h ELSE handler[t]
      BY DEF Become, InboxOK
<1> QED BY <1>1 DEF RestsAbout

LEMMA RestsIdle ==
    /\ RestOf(Idle)
    /\ \A p : RestOf([does |-> "bind", purchase |-> p]) /\ RestOf([does |-> "grant", purchase |-> p])
    /\ \A e, r : RestOf([does |-> "settle", event |-> e, result |-> r])
    /\ \A e : RestOf([does |-> "apply", event |-> e, rest |-> e.of])
BY DEF RestOf, Idle

LEMMA AdjustRevoked ==
    ASSUME BooksOK, RevokedOK, RowsAbout, NEW p \in Purchases, NEW e \in Events(history),
           About(p, e) \/ Foreign(p, e), Adjust(p, e), history' = history
    PROVE  RevokedOK' /\ RowsAbout'
<1>1. CASE Foreign(p, e) \/ \E k \in DOMAIN adjustments[p] : adjustments[p][k].event = e
  <2>1. adjustments' = adjustments
        BY <1>1 DEF Adjust
  <2>2. \A q \in Purchases : Revoked(q)' = Revoked(q)
        BY <2>1, SameRevoked
  <2> QED BY <2>1, <2>2 DEF RevokedOK, RowsAbout, About, Foreign
<1>2. CASE ~(Foreign(p, e) \/ \E k \in DOMAIN adjustments[p] : adjustments[p][k].event = e)
  <2> DEFINE rows == adjustments[p]
             held == Min({Pack, Max({0, Revoked(p)})})
             new  == Target(Append(rows, [event |-> e, delta |-> 0]))
  <2>1. IsList(rows) /\ RowsOf(rows)
        BY DEF BooksOK, RevokedOK, RowsOf
  <2>2. Revoked(p) \in 0..Pack
        BY <2>1, TargetIs DEF RevokedOK
  <2>3. held = Revoked(p)
    <3>1. Max({0, Revoked(p)}) = Revoked(p)
          BY <2>2, MaxOf, PackAssumption
    <3>2. Min({Pack, Revoked(p)}) = Revoked(p)
      <4>1. Revoked(p) \in Int /\ Pack \in Int /\ Revoked(p) <= Pack
            BY <2>2, PackAssumption
      <4> QED BY <4>1, MinOf
    <3> QED BY <3>1, <3>2
  <2>4. PICK delta : /\ delta = Revoked(p) - new
                     /\ adjustments' = [adjustments EXCEPT ![p] = Append(rows, [event |-> e, delta |-> delta])]
        BY <1>2, <2>3 DEF Adjust
  <2>5. PICK row : row = [event |-> e, delta |-> delta] /\ row.event = e
    <3>1. [event |-> e, delta |-> delta].event = e
          OBVIOUS
    <3> QED BY <3>1
  <2>6. \A q \in Purchases : adjustments'[q] = IF q = p THEN Append(rows, row) ELSE adjustments[q]
        BY <2>4, <2>5 DEF BooksOK
  <2>7. e.amount \in Nat
        BY EventTyped DEF BooksOK
  <2>8. /\ \A k \in DOMAIN adjustments'[p] :
              adjustments'[p][k].event.amount \in Nat /\ adjustments'[p][k].delta \in Int
        /\ Revoked(p)' = Target(adjustments'[p])
        BY <2>4, <2>5, <2>6, <2>7, AppendRevoked
  <2>9. \A q \in Purchases : q # p => Revoked(q)' = Revoked(q) /\ adjustments'[q] = adjustments[q]
        BY <2>6, SameRevoked
  <2>10. RevokedOK'
         BY <2>8, <2>9 DEF RevokedOK
  <2>11. \A k \in DOMAIN adjustments'[p] :
            adjustments'[p][k].event \in Events(history) /\ About(p, adjustments'[p][k].event)
    <3>1. /\ DOMAIN Append(rows, row) = DOMAIN rows \cup {Len(rows) + 1}
          /\ Append(rows, row)[Len(rows) + 1] = row
          /\ \A k \in DOMAIN rows : Append(rows, row)[k] = rows[k]
          BY <2>1, AppendList
    <3>2. \A k \in DOMAIN rows : rows[k].event \in Events(history) /\ About(p, rows[k].event)
          BY DEF RowsAbout
    <3> QED BY <1>2, <2>5, <2>6, <3>1, <3>2
  <2>12. RowsAbout'
         BY <2>6, <2>11 DEF RowsAbout, About, Foreign
  <2> QED BY <2>10, <2>12
<1> QED BY <1>1, <1>2

LEMMA AdjustTakenBack ==
    ASSUME Inv, TakenBack, NEW s \in Slots, AdjustNext(s)
    PROVE  TakenBack'
<1>1. PICK h : h = handler[s]
      OBVIOUS
<1>2. PICK e \in Events(history) : e = h.event
      BY <1>1 DEF AdjustNext, Inv, RequestsOK, RequestOK
<1>3. /\ h.does = "apply" /\ e.source[1] # "CAPTURE"
      /\ h.rest \in Seq(Purchases) /\ h.rest # <<>>
      BY <1>1, <1>2 DEF AdjustNext, Inv, RequestsOK, RequestOK
<1>4. \A j \in DOMAIN h.rest : \E k \in DOMAIN e.of : e.of[k] = h.rest[j]
      BY <1>1, <1>2, <1>3 DEF TakenBack, RestsAbout, RestOf
<1>5. PICK p \in Purchases : p = Head(h.rest)
      BY <1>3, HeadTailProperties
<1>6. Head(h.rest) = h.rest[1] /\ 1 \in DOMAIN h.rest
      BY <1>3, HeadTailProperties, EmptySeq
<1>7. About(p, e) \/ Foreign(p, e)
      BY <1>3, <1>4, <1>5, <1>6 DEF About
<1>8. history' = history
      BY DEF AdjustNext, outside
<1>9. CASE granted[p] = 0
  <2>1. /\ UNCHANGED adjustments
        /\ Become(s, [does |-> "settle", event |-> e, result |-> "retryable"])
        BY <1>1, <1>2, <1>5, <1>9 DEF AdjustNext, ToSettle
  <2>2. \A t \in Slots : RestOf(handler'[t])
        BY <2>1, BecomeRest, RestsIdle DEF Inv, TakenBack
  <2> QED BY <1>8, <2>1, <2>2, SameTakenBack DEF Inv
<1>10. CASE granted[p] # 0
  <2>1. /\ Adjust(p, e)
        /\ Len(h.rest) = 1 => Become(s, [does |-> "settle", event |-> e, result |-> Outcome(e)])
        /\ Len(h.rest) # 1 => Become(s, [does |-> "apply", event |-> e, rest |-> Tail(h.rest)])
        BY <1>1, <1>2, <1>5, <1>10 DEF AdjustNext, ToSettle
  <2>2. RevokedOK' /\ RowsAbout'
        BY <1>7, <1>8, <2>1, AdjustRevoked DEF Inv, TakenBack
  <2>3. \A t \in Slots : RestOf(handler'[t])
    <3>1. CASE Len(h.rest) = 1
          BY <2>1, <3>1, BecomeRest, RestsIdle DEF Inv, TakenBack
    <3>2. CASE Len(h.rest) # 1
      <4>1. PICK g : /\ g = [does |-> "apply", event |-> e, rest |-> Tail(h.rest)]
                     /\ g.event = e /\ g.rest = Tail(h.rest)
        <5> DEFINE g == [does |-> "apply", event |-> e, rest |-> Tail(h.rest)]
        <5>1. g.event = e /\ g.rest = Tail(h.rest)
              OBVIOUS
        <5> QED BY <5>1
      <4>2. \A j \in DOMAIN Tail(h.rest) : \E i \in DOMAIN h.rest : Tail(h.rest)[j] = h.rest[i]
        <5>1. /\ Len(h.rest) \in Nat /\ Len(h.rest) # 0
              /\ DOMAIN h.rest = 1..Len(h.rest) /\ DOMAIN Tail(h.rest) = 1..(Len(h.rest) - 1)
              /\ \A j \in 1..(Len(h.rest) - 1) : Tail(h.rest)[j] = h.rest[j + 1]
              BY <1>3, EmptySeq, HeadTailProperties
        <5> QED BY <5>1
      <4>3. RestOf(g)
            BY <1>4, <4>1, <4>2 DEF RestOf
      <4> QED BY <2>1, <3>2, <4>1, <4>3, BecomeRest DEF Inv, TakenBack
    <3> QED BY <3>1, <3>2
  <2>4. RestsAbout'
        BY <2>3 DEF RestsAbout, RestOf
  <2> QED BY <2>2, <2>4 DEF TakenBack
<1> QED BY <1>9, <1>10

LEMMA OthersTakenBack ==
    ASSUME Inv, TakenBack, [Next]_vars,
           \A s \in Slots : ~AdjustNext(s)
    PROVE  UNCHANGED <<adjustments, history>> /\ \A t \in Slots : RestOf(handler'[t])
<1>1. ASSUME NEW s \in Slots, NEW h, Become(s, h), RestOf(h)
      PROVE  \A t \in Slots : RestOf(handler'[t])
      BY <1>1, BecomeRest DEF Inv, TakenBack
<1>2. ASSUME UNCHANGED handler
      PROVE  \A t \in Slots : RestOf(handler'[t])
      BY <1>2 DEF TakenBack, RestsAbout
<1>3. ASSUME NEW s \in Slots, NEW p \in Purchases, Checkout(s, p) \/ CaptureOrder(s, p)
      PROVE  UNCHANGED <<adjustments, history>> /\ \A t \in Slots : RestOf(handler'[t])
      BY <1>1, <1>3, RestsIdle DEF Checkout, CaptureOrder, books, outside
<1>4. ASSUME NEW s \in Slots, BindOrder(s) \/ ReturnGrant(s) \/ CreditCapture(s)
      PROVE  UNCHANGED <<adjustments, history>> /\ \A t \in Slots : RestOf(handler'[t])
  <2>1. CASE BindOrder(s) \/ ReturnGrant(s)
        BY <1>1, <2>1, RestsIdle DEF BindOrder, ReturnGrant, outside
  <2>2. CASE CreditCapture(s)
        BY <1>1, <2>2, RestsIdle DEF CreditCapture, ToSettle, outside
  <2> QED BY <1>4, <2>1, <2>2
<1>5. CASE InboxNext({e \in DOMAIN inbox : Sent(e)}) /\ UNCHANGED <<books, outside>>
  <2>1. ASSUME NEW s \in Slots, NEW e, Claim(s, e)
        PROVE  \A t \in Slots : RestOf(handler'[t])
        BY <1>1, <2>1, RestsIdle DEF Claim
  <2>2. ASSUME NEW e, AnswerAtOnce(e) \/ Age(e)
        PROVE  \A t \in Slots : RestOf(handler'[t])
        BY <1>2, <2>2 DEF AnswerAtOnce, Age
  <2>3. ASSUME NEW s \in Slots, Throw(s) \/ Settle(s) \/ SettleFails(s) \/ Die(s)
        PROVE  \A t \in Slots : RestOf(handler'[t])
        BY <1>1, <2>3, RestsIdle DEF Throw, ToSettle, Settle, SettleFails, Die
  <2> QED BY <1>5, <2>1, <2>2, <2>3 DEF InboxNext, books, outside
<1>6. CASE Reprice \/ UNCHANGED vars
      BY <1>2, <1>6 DEF Reprice, vars, inboxVars, books, outside
<1> QED BY <1>3, <1>4, <1>5, <1>6 DEF Next, Route, Handle

LEMMA TakenBackAlways == Spec => [](Inv /\ TakenBack)
<1>1. Init => TakenBack
  <2> SUFFICES ASSUME Init PROVE TakenBack
      OBVIOUS
  <2>1. \A p \in Purchases : adjustments[p] = <<>> /\ Revoked(p) = 0
        BY RevokedNone DEF Init
  <2>2. RevokedOK /\ RowsAbout
        BY <2>1, TargetNone DEF RevokedOK, RowsAbout
  <2>3. RestsAbout
        BY RestsIdle DEF Init, InboxInit, RestsAbout
  <2> QED BY <2>2, <2>3 DEF TakenBack
<1>2. Inv /\ TakenBack /\ [Next]_vars => TakenBack'
  <2> SUFFICES ASSUME Inv, TakenBack, [Next]_vars PROVE TakenBack'
      OBVIOUS
  <2>1. CASE \E s \in Slots : AdjustNext(s)
        BY <2>1, AdjustTakenBack
  <2>2. CASE \A s \in Slots : ~AdjustNext(s)
    <3>1. UNCHANGED <<adjustments, history>> /\ \A t \in Slots : RestOf(handler'[t])
          BY <2>2, OthersTakenBack
    <3> QED BY <3>1, SameTakenBack DEF Inv
  <2> QED BY <2>1, <2>2
<1> QED BY <1>1, <1>2, Initially, Inductive, PTL DEF Spec

(***************************************************************************)
(* Which row of a kind counts.                                             *)
(***************************************************************************)
Before(a, b) == a.at < b.at \/ (a.at = b.at /\ a.stage < b.stage)

Outdates(a, b) ==
    a.source = b.source /\ b.at \in Nat /\ b.stage \in Nat /\ (a = b \/ Before(b, a))

Counts(rows, kind, k0) ==
    /\ k0 \in DOMAIN rows /\ DOMAIN rows \subseteq Nat
    /\ \A j, k \in DOMAIN rows : rows[j].event = rows[k].event => j = k
    /\ rows[k0].event.source[1] = kind
    /\ \A k \in DOMAIN rows :
          rows[k].event.source[1] = kind => Outdates(rows[k0].event, rows[k].event)

LEMMA LatestOne ==
    ASSUME NEW rows, NEW kind, NEW k0, Counts(rows, kind, k0)
    PROVE  OfKind(rows, {kind}) = {k0}
<1> USE DEF Counts
<1>0. \A k \in DOMAIN rows : rows[k].event.source[1] = kind =>
               /\ rows[k].event.source = rows[k0].event.source
               /\ rows[k].event.at \in Nat /\ rows[k].event.stage \in Nat
               /\ k = k0 \/ Before(rows[k].event, rows[k0].event)
      BY DEF Outdates
<1>1. \A j \in DOMAIN rows : rows[j].event.source = rows[k0].event.source => ~Later(rows, j, k0)
      BY <1>0 DEF Later, Before
<1>2. k0 \in OfKind(rows, {kind})
      BY <1>1 DEF OfKind, Latest
<1>3. ASSUME NEW k \in OfKind(rows, {kind}), k # k0
      PROVE  FALSE
  <2>1. k \in DOMAIN rows /\ rows[k].event.source[1] = kind
        BY DEF OfKind, Latest
  <2>2. ~Later(rows, k0, k)
        BY <1>0, <2>1 DEF OfKind, Latest
  <2>3. Before(rows[k].event, rows[k0].event)
        BY <1>0, <1>3, <2>1
  <2> QED BY <2>1, <2>2, <2>3 DEF Later, Before
<1> QED BY <1>2, <1>3

LEMMA RiskOne ==
    ASSUME NEW rows, RowsOf(rows), NEW kinds, NEW k, OfKind(rows, kinds) = {k}
    PROVE  RiskOf(rows, kinds) = AtRisk(rows[k].event)
<1>1. RiskOf(rows, kinds) = SumOver(Risks(rows), {k}) /\ k \in DOMAIN rows /\ Risks(rows)[k] \in Int
      BY RiskRange, PackAssumption
<1>2. SumOver(Risks(rows), {k}) = Risks(rows)[k]
      BY <1>1, SumSingle
<1> QED BY <1>1, <1>2 DEF Risks

LEMMA RiskNone ==
    ASSUME NEW rows, RowsOf(rows), NEW kind, \A k \in DOMAIN rows : rows[k].event.source[1] # kind
    PROVE  OfKind(rows, {kind}) = {} /\ RiskOf(rows, {kind}) = 0
<1>1. OfKind(rows, {kind}) = {}
      BY DEF OfKind, Latest
<1> QED BY <1>1, RiskRange, SumEmpty

LEMMA RiskAdds ==
    ASSUME NEW rows, RowsOf(rows), NEW a, NEW b, a # b,
           OfKind(rows, {b}) = {} \/ \E k : OfKind(rows, {b}) = {k}
    PROVE  RiskOf(rows, {a, b}) = RiskOf(rows, {a}) + RiskOf(rows, {b})
<1>1. /\ OfKind(rows, {a, b}) = OfKind(rows, {a}) \cup OfKind(rows, {b})
      /\ OfKind(rows, {a}) \cap OfKind(rows, {b}) = {}
      BY DEF OfKind
<1>2. /\ RiskOf(rows, {a, b}) = SumOver(Risks(rows), OfKind(rows, {a, b}))
      /\ RiskOf(rows, {a}) = SumOver(Risks(rows), OfKind(rows, {a})) /\ RiskOf(rows, {a}) \in Nat
      /\ IsFiniteSet(OfKind(rows, {a}))
      /\ \A k \in OfKind(rows, {a, b}) : Risks(rows)[k] \in Int
      BY RiskRange, PackAssumption
<1>3. CASE OfKind(rows, {b}) = {}
  <2>1. RiskOf(rows, {b}) = 0
        BY <1>3, RiskRange, SumEmpty
  <2>2. OfKind(rows, {a, b}) = OfKind(rows, {a})
        BY <1>1, <1>3
  <2>3. RiskOf(rows, {a, b}) = RiskOf(rows, {a})
        BY <1>2, <2>2
  <2>4. RiskOf(rows, {a}) \in Nat
        BY <1>2
  <2> DEFINE x == RiskOf(rows, {a, b})
             y == RiskOf(rows, {a})
             z == RiskOf(rows, {b})
  <2>5. z = 0 /\ x = y /\ y \in Nat
        BY <2>1, <2>3, <2>4
  <2> HIDE DEF x, y, z
  <2>6. x = y + z
        BY <2>5
  <2> QED BY <2>6 DEF x, y, z
<1>4. ASSUME NEW k, OfKind(rows, {b}) = {k}
      PROVE  RiskOf(rows, {a, b}) = RiskOf(rows, {a}) + RiskOf(rows, {b})
  <2>1. RiskOf(rows, {b}) = Risks(rows)[k]
    <3>1. RiskOf(rows, {b}) = SumOver(Risks(rows), {k}) /\ Risks(rows)[k] \in Int
          BY <1>1, <1>2, <1>4, RiskRange
    <3> QED BY <3>1, SumSingle
  <2>2. OfKind(rows, {a, b}) = OfKind(rows, {a}) \cup {k} /\ k \notin OfKind(rows, {a})
        BY <1>1, <1>4
  <2>3. Risks(rows)[k] \in Int /\ \A j \in OfKind(rows, {a}) : Risks(rows)[j] \in Int
        BY <1>1, <1>2, <2>2
  <2>4. SumOver(Risks(rows), OfKind(rows, {a}) \cup {k})
            = SumOver(Risks(rows), OfKind(rows, {a})) + Risks(rows)[k]
        BY <1>2, <2>2, <2>3, SumAdd
  <2>5. RiskOf(rows, {a, b}) = SumOver(Risks(rows), OfKind(rows, {a}) \cup {k})
        BY <1>2, <2>2
  <2> QED BY <1>2, <2>1, <2>4, <2>5
<1> QED BY <1>3, <1>4

(***************************************************************************)
(* The rows of a payment all of whose events have been applied.            *)
(***************************************************************************)
\* The claim on the payment counts.
Disputed(p, d) == p \notin d.foreign /\ \E k \in DOMAIN d.of : d.of[k] = p

Complete(rows, p, pay, d, n) ==
    /\ RowsOf(rows)
    /\ \A j, k \in DOMAIN rows : rows[j].event = rows[k].event => j = k
    /\ \A k \in DOMAIN rows :
          \/ \E i \in DOMAIN pay.parts : rows[k].event = RefundEvent(p, pay, i)
          \/ pay.reversed /\ rows[k].event = Reversal(p)
          \/ Disputed(p, d) /\ \E i \in 1..n : rows[k].event = DisputeEvent(d, i)
    /\ \A i \in DOMAIN pay.parts : \E k \in DOMAIN rows : rows[k].event = RefundEvent(p, pay, i)
    /\ pay.reversed => \E k \in DOMAIN rows : rows[k].event = Reversal(p)
    /\ Disputed(p, d) => \A i \in 1..n : \E k \in DOMAIN rows : rows[k].event = DisputeEvent(d, i)

LEMMA TotalEventIs ==
    ASSUME NEW p, NEW pay, NEW i, NEW e, e = RefundEvent(p, pay, i), pay.snapshots
    PROVE  /\ e.source = <<"TOTAL", 0>> /\ e.source[1] = "TOTAL"
           /\ e.of = <<p>> /\ e.release = FALSE /\ e.stage = 1 /\ e.at = i
           /\ e.amount = Total(SubSeq(pay.parts, 1, i))
BY DEF RefundEvent, Event

LEMMA PartEventIs ==
    ASSUME NEW p, NEW pay, NEW i, NEW e, e = RefundEvent(p, pay, i), ~pay.snapshots
    PROVE  /\ e.source = <<"REFUND", i>> /\ e.source[1] = "REFUND"
           /\ e.of = <<p>> /\ e.release = FALSE /\ e.stage = 1 /\ e.at = 0
           /\ e.amount = pay.parts[i]
BY DEF RefundEvent, Event

LEMMA ReversalIs ==
    ASSUME NEW p, NEW e, e = Reversal(p)
    PROVE  /\ e.source = <<"REVERSAL", 0>> /\ e.source[1] = "REVERSAL" /\ e.of = <<p>> /\ e.release = FALSE
           /\ e.stage = 1 /\ e.at = 0 /\ e.amount = Gross
BY DEF Reversal, Event

LEMMA DisputeEventIs ==
    ASSUME NEW d, NEW i, NEW e, e = DisputeEvent(d, i)
    PROVE  /\ e.source = <<"DISPUTE", 0>> /\ e.source[1] = "DISPUTE" /\ e.of = d.of /\ e.at = d.times[i]
           /\ e.stage = (IF i \in DOMAIN d.claims THEN IF i = 1 THEN 1 ELSE 2 ELSE 3)
           /\ e.amount = (IF i \in DOMAIN d.claims THEN d.claims[i] ELSE d.claims[Len(d.claims)])
           /\ e.release = (i \notin DOMAIN d.claims /\ d.decided = "seller")
<1>1. CASE i \in DOMAIN d.claims
      BY <1>1 DEF DisputeEvent, Event
<1>2. CASE i \notin DOMAIN d.claims
      BY <1>2 DEF DisputeEvent, Event
<1> QED BY <1>1, <1>2

LEMMA CompleteKinds ==
    ASSUME NEW rows, NEW p, NEW pay, NEW d, NEW n, Complete(rows, p, pay, d, n)
    PROVE  \A k \in DOMAIN rows :
              LET kind == rows[k].event.source[1] IN
              /\ kind \in {"TOTAL", "REFUND", "REVERSAL", "DISPUTE"}
              /\ kind = "TOTAL" => pay.snapshots
              /\ kind = "REFUND" => ~pay.snapshots
              /\ kind \in {"TOTAL", "REFUND"} =>
                    \E i \in DOMAIN pay.parts : rows[k].event = RefundEvent(p, pay, i)
              /\ kind = "REVERSAL" => pay.reversed /\ rows[k].event = Reversal(p)
              /\ kind = "DISPUTE" =>
                    Disputed(p, d) /\ \E i \in 1..n : rows[k].event = DisputeEvent(d, i)
<1> SUFFICES ASSUME NEW k \in DOMAIN rows, NEW e, e = rows[k].event
             PROVE  /\ e.source[1] \in {"TOTAL", "REFUND", "REVERSAL", "DISPUTE"}
                    /\ e.source[1] = "TOTAL" => pay.snapshots
                    /\ e.source[1] = "REFUND" => ~pay.snapshots
                    /\ e.source[1] \in {"TOTAL", "REFUND"} =>
                          \E i \in DOMAIN pay.parts : e = RefundEvent(p, pay, i)
                    /\ e.source[1] = "REVERSAL" => pay.reversed /\ e = Reversal(p)
                    /\ e.source[1] = "DISPUTE" =>
                          Disputed(p, d) /\ \E i \in 1..n : e = DisputeEvent(d, i)
    OBVIOUS
<1>1. CASE \E i \in DOMAIN pay.parts : e = RefundEvent(p, pay, i)
  <2>1. PICK i \in DOMAIN pay.parts : e = RefundEvent(p, pay, i)
        BY <1>1
  <2>2. e.source[1] = IF pay.snapshots THEN "TOTAL" ELSE "REFUND"
        BY <2>1 DEF RefundEvent, Event
  <2> QED BY <1>1, <2>2
<1>2. CASE pay.reversed /\ e = Reversal(p)
  <2>1. e.source = <<"REVERSAL", 0>>
        BY <1>2, ReversalIs
  <2> QED BY <1>2, <2>1
<1>3. CASE Disputed(p, d) /\ \E i \in 1..n : e = DisputeEvent(d, i)
  <2>1. e.source = <<"DISPUTE", 0>>
        BY <1>3, DisputeEventIs
  <2> QED BY <1>3, <2>1
<1> QED BY <1>1, <1>2, <1>3 DEF Complete

Capped(share) == IF Pack <= share THEN Pack ELSE share

LEMMA CompleteRows ==
    ASSUME NEW rows, NEW p, NEW pay, NEW d, NEW n, Complete(rows, p, pay, d, n)
    PROVE  /\ RowsOf(rows) /\ DOMAIN rows \subseteq Nat /\ IsFiniteSet(DOMAIN rows)
           /\ \A j, k \in DOMAIN rows : rows[j].event = rows[k].event => j = k
           /\ \A k \in DOMAIN rows : rows[k].event.amount \in Nat
<1>1. RowsOf(rows)
      BY DEF Complete
<1>2. DOMAIN rows = 1..Len(rows) /\ Len(rows) \in Nat /\ IsFiniteSet(DOMAIN rows)
      BY <1>1, ListDomain DEF RowsOf
<1> QED BY <1>1, <1>2 DEF Complete, RowsOf

LEMMA TotalRisk ==
    ASSUME NEW rows, NEW p, NEW pay, NEW d, NEW n, Complete(rows, p, pay, d, n),
           pay.parts \in Seq(1..Gross), pay.snapshots \in BOOLEAN
    PROVE  /\ ~pay.snapshots => RiskOf(rows, {"TOTAL"}) = 0
           /\ pay.snapshots => RiskOf(rows, {"TOTAL"}) = Capped(Share(Total(pay.parts)))
<1> DEFINE m == Len(pay.parts)
<1>1. RowsOf(rows) /\ DOMAIN rows \subseteq Nat
      BY CompleteRows
<1>2. m \in Nat /\ DOMAIN pay.parts = 1..m
      OBVIOUS
<1>3. \A k \in DOMAIN rows : rows[k].event.source[1] = "TOTAL" =>
          pay.snapshots /\ \E i \in 1..m : rows[k].event = RefundEvent(p, pay, i)
      BY <1>2, CompleteKinds
<1>4. CASE ~pay.snapshots
  <2>1. \A k \in DOMAIN rows : rows[k].event.source[1] # "TOTAL"
        BY <1>3, <1>4
  <2> QED BY <1>1, <1>4, <2>1, RiskNone
<1>5. CASE pay.snapshots /\ m = 0
  <2>1. \A k \in DOMAIN rows : rows[k].event.source[1] # "TOTAL"
        BY <1>3, <1>5
  <2>2. Total(pay.parts) = 0
    <3>1. DOMAIN pay.parts = {} /\ IsFiniteSet({})
          BY <1>2, <1>5, FS_EmptySet
    <3> QED BY <3>1, TotalIsSum, SumEmpty
  <2>3. Capped(Share(Total(pay.parts))) = 0
        BY <2>2, WholeShare, PackAssumption DEF Capped
  <2> QED BY <1>1, <1>5, <2>1, <2>3, RiskNone
<1>6. CASE pay.snapshots /\ m # 0
  <2>1. m \in DOMAIN pay.parts
        BY <1>2, <1>6
  <2>2. PICK k0 \in DOMAIN rows : rows[k0].event = RefundEvent(p, pay, m)
        BY <2>1 DEF Complete
  <2>3. PICK e : e = rows[k0].event
        OBVIOUS
  <2>4. /\ e.source = <<"TOTAL", 0>> /\ e.source[1] = "TOTAL" /\ e.release = FALSE
        /\ e.stage = 1 /\ e.at = m /\ e.amount = Total(SubSeq(pay.parts, 1, m))
    <3>1. e = RefundEvent(p, pay, m)
          BY <2>2, <2>3
    <3> HIDE DEF m
    <3> QED BY <1>6, <3>1 DEF RefundEvent, Event
  <2>5. OfKind(rows, {"TOTAL"}) = {k0}
    <3>1. ASSUME NEW k \in DOMAIN rows, NEW f, f = rows[k].event, f.source[1] = "TOTAL"
          PROVE  Outdates(e, f)
      <4>1. PICK i \in 1..m : f = RefundEvent(p, pay, i)
            BY <1>3, <3>1
      <4>2. f.source = <<"TOTAL", 0>> /\ f.stage = 1 /\ f.at = i
            BY <1>6, <4>1 DEF RefundEvent, Event
      <4>3. i = m => f = e
            BY <2>2, <2>3, <4>1
      <4>4. i # m => f.at < e.at
            BY <1>2, <2>4, <4>2
      <4>5. f.source = e.source /\ f.at \in Nat /\ f.stage \in Nat
            BY <1>2, <2>4, <4>2
      <4>6. i = m \/ i # m
            OBVIOUS
      <4>7. f = e \/ f.at < e.at
            BY <4>3, <4>4, <4>6
      <4> QED BY <4>5, <4>7 DEF Outdates, Before
    <3>2. \A k \in DOMAIN rows : rows[k].event.source[1] = "TOTAL" => Outdates(e, rows[k].event)
          BY <3>1
    <3>3. \A j, k \in DOMAIN rows : rows[j].event = rows[k].event => j = k
          BY CompleteRows
    <3>4. e.source[1] = "TOTAL"
          BY <2>4
    <3>5. Counts(rows, "TOTAL", k0)
          BY <1>1, <2>3, <3>2, <3>3, <3>4 DEF Counts
    <3> QED BY <3>5, LatestOne
  <2>6. RiskOf(rows, {"TOTAL"}) = AtRisk(e)
        BY <1>1, <2>3, <2>5, RiskOne
  <2>7. e.amount = Total(pay.parts) /\ e.amount \in Nat
        BY <2>4, WholeTotal
  <2> QED BY <1>6, <2>4, <2>6, <2>7, AtRiskIs DEF Capped
<1> QED BY <1>4, <1>5, <1>6

LEMMA ReversalRisk ==
    ASSUME NEW rows, NEW p, NEW pay, NEW d, NEW n, Complete(rows, p, pay, d, n)
    PROVE  /\ RiskOf(rows, {"REVERSAL"}) = IF pay.reversed THEN Pack ELSE 0
<1>1. RowsOf(rows) /\ DOMAIN rows \subseteq Nat
      BY CompleteRows
<1>2. \A k \in DOMAIN rows : rows[k].event.source[1] = "REVERSAL" =>
          pay.reversed /\ rows[k].event = Reversal(p)
      BY CompleteKinds
<1>3. CASE ~pay.reversed
      BY <1>1, <1>2, <1>3, RiskNone
<1>4. CASE pay.reversed
  <2>1. PICK k0 \in DOMAIN rows : rows[k0].event = Reversal(p)
        BY <1>4 DEF Complete
  <2>2. PICK e : e = rows[k0].event
        OBVIOUS
  <2>3. /\ e.source = <<"REVERSAL", 0>> /\ e.source[1] = "REVERSAL"
        /\ e.release = FALSE /\ e.stage = 1 /\ e.at = 0 /\ e.amount = Gross
        BY <2>1, <2>2, ReversalIs
  <2>4. OfKind(rows, {"REVERSAL"}) = {k0}
    <3>1. ASSUME NEW k \in DOMAIN rows, NEW f, f = rows[k].event, f.source[1] = "REVERSAL"
          PROVE  Outdates(e, f)
      <4>1. f = e
            BY <1>2, <2>1, <2>2, <3>1
      <4> QED BY <2>3, <4>1 DEF Outdates
    <3>2. \A k \in DOMAIN rows : rows[k].event.source[1] = "REVERSAL" => Outdates(e, rows[k].event)
          BY <3>1
    <3>3. \A j, k \in DOMAIN rows : rows[j].event = rows[k].event => j = k
          BY CompleteRows
    <3>4. e.source[1] = "REVERSAL"
          BY <2>3
    <3>5. Counts(rows, "REVERSAL", k0)
          BY <1>1, <2>2, <3>2, <3>3, <3>4 DEF Counts
    <3> QED BY <3>5, LatestOne
  <2>5. RiskOf(rows, {"REVERSAL"}) = AtRisk(e)
        BY <1>1, <2>2, <2>4, RiskOne
  <2>6. e.amount \in Nat /\ Share(e.amount) = Pack
        BY <2>3, PackAssumption, WholeShare
  <2>7. AtRisk(e) = Pack
        BY <2>3, <2>6, AtRiskIs, PackAssumption
  <2> QED BY <1>4, <2>5, <2>7
<1> QED BY <1>3, <1>4

LEMMA LastStage ==
    ASSUME NEW h \in Histories, NEW d, d = h.dispute, NEW n, n = Len(d.times), n >= 1
    PROVE  LET e == DisputeEvent(d, n) IN
           /\ e.amount = d.claims[Len(d.claims)] /\ e.amount \in 1..Gross
           /\ e.release = (d.decided = "seller")
           /\ \A i \in 1..n : Outdates(e, DisputeEvent(d, i))
<1>1. /\ n \in Nat /\ Len(d.claims) \in Nat /\ DOMAIN d.claims = 1..Len(d.claims)
      /\ DOMAIN d.times = 1..n
      /\ n = Len(d.claims) + (IF d.decided = "no" THEN 0 ELSE 1)
      /\ Len(d.claims) >= 1
      /\ \A k \in 1..n : d.times[k] \in Nat
      /\ \A k \in DOMAIN d.claims : d.claims[k] \in 1..Gross
      BY DisputeFacts
<1>2. PICK e : e = DisputeEvent(d, n)
      OBVIOUS
<1>3. /\ e.source = <<"DISPUTE", 0>> /\ e.at = d.times[n]
      /\ e.stage = (IF n \in DOMAIN d.claims THEN IF n = 1 THEN 1 ELSE 2 ELSE 3)
      /\ e.amount = (IF n \in DOMAIN d.claims THEN d.claims[n] ELSE d.claims[Len(d.claims)])
      /\ e.release = (n \notin DOMAIN d.claims /\ d.decided = "seller")
  <2>1. e.source = <<"DISPUTE", 0>> /\ e.at = d.times[n]
        BY <1>2, DisputeEventIs
  <2>2. e.stage = (IF n \in DOMAIN d.claims THEN IF n = 1 THEN 1 ELSE 2 ELSE 3)
    <3>1. CASE n \in DOMAIN d.claims
      <4>1. e.stage = IF n = 1 THEN 1 ELSE 2
            BY <1>2, <3>1 DEF DisputeEvent, Event
      <4> QED BY <3>1, <4>1
    <3>2. CASE n \notin DOMAIN d.claims
      <4>1. e.stage = 3
            BY <1>2, <3>2 DEF DisputeEvent, Event
      <4> QED BY <3>2, <4>1
    <3> QED BY <3>1, <3>2
  <2>3. e.amount = (IF n \in DOMAIN d.claims THEN d.claims[n] ELSE d.claims[Len(d.claims)])
        BY <1>2, DisputeEventIs
  <2>4. e.release = (n \notin DOMAIN d.claims /\ d.decided = "seller")
        BY <1>2, DisputeEventIs
  <2> QED BY <2>1, <2>2, <2>3, <2>4
<1>4. n \in DOMAIN d.claims <=> d.decided = "no"
  <2>1. CASE d.decided = "no"
        BY <1>1, <2>1
  <2>2. CASE d.decided # "no"
        BY <1>1, <2>2
  <2> QED BY <2>1, <2>2
<1>5. d.decided = "no" => n = Len(d.claims)
      BY <1>1
<1>6. e.amount = d.claims[Len(d.claims)] /\ e.amount \in 1..Gross
  <2>1. e.amount = d.claims[Len(d.claims)]
        BY <1>3, <1>4, <1>5
  <2>2. Len(d.claims) \in DOMAIN d.claims
        BY <1>1
  <2> QED BY <1>1, <2>1, <2>2
<1>7. e.release = (d.decided = "seller")
      BY <1>3, <1>4
<1>8. ASSUME NEW i \in 1..n, NEW f, f = DisputeEvent(d, i)
      PROVE  Outdates(e, f)
  <2>1. /\ f.source = <<"DISPUTE", 0>> /\ f.at = d.times[i]
        /\ f.stage = (IF i \in DOMAIN d.claims THEN IF i = 1 THEN 1 ELSE 2 ELSE 3)
        BY <1>8, DisputeEventIs
  <2>2. f.source = e.source /\ f.at \in Nat /\ f.stage \in Nat /\ e.at \in Nat
    <3>1. f.source = e.source
          BY <1>3, <2>1
    <3>2. f.at \in Nat /\ e.at \in Nat
      <4>1. i \in 1..n /\ n \in 1..n
        <5>1. n \in Nat
              BY <1>1
        <5>2. i \in 1..n
              OBVIOUS
        <5> QED BY <5>1, <5>2
      <4>2. d.times[i] \in Nat /\ d.times[n] \in Nat
            BY <1>1, <4>1
      <4> QED BY <1>3, <2>1, <4>2
    <3>3. f.stage \in {1, 2, 3}
          BY <2>1
    <3> QED BY <3>1, <3>2, <3>3
  <2>3. CASE i = n
        BY <1>2, <1>8, <2>2, <2>3 DEF Outdates
  <2>4. CASE i # n
    <3>1. i \in DOMAIN d.claims /\ i < n /\ i \in DOMAIN d.times /\ n \in DOMAIN d.times
      <4>1. CASE d.decided = "no"
            BY <1>1, <2>4, <4>1
      <4>2. CASE d.decided # "no"
            BY <1>1, <2>4, <4>2
      <4> QED BY <4>1, <4>2
    <3>2. f.at <= e.at
      <4>1. \A j, k \in DOMAIN d.times : j < k => d.times[j] <= d.times[k]
            BY ClockAssumption DEF InOrder
      <4> QED BY <1>3, <2>1, <3>1, <4>1
    <3>3. f.at < e.at \/ f.stage < e.stage
      <4>1. CASE d.decided # "no"
            BY <1>3, <1>4, <2>1, <3>1, <4>1
      <4>2. CASE d.decided = "no" /\ i = 1
            BY <1>3, <1>4, <2>1, <3>1, <4>2
      <4>3. CASE d.decided = "no" /\ i # 1
        <5>1. \A j, k \in DOMAIN d.claims \ {1} : j < k => d.times[j] < d.times[k]
              BY ClockAssumption DEF InOrder
        <5>2. n \in DOMAIN d.claims \ {1} /\ i \in DOMAIN d.claims \ {1}
              BY <1>1, <1>4, <3>1, <4>3
        <5> QED BY <1>3, <2>1, <3>1, <5>1, <5>2
      <4> QED BY <4>1, <4>2, <4>3
    <3> QED BY <2>2, <3>2, <3>3 DEF Outdates, Before
  <2> QED BY <2>3, <2>4
<1> QED BY <1>2, <1>6, <1>7, <1>8

LEMMA DisputeRiskIs ==
    ASSUME NEW rows, NEW p, NEW pay, NEW h \in Histories, NEW d, d = h.dispute,
           NEW n, n = Len(d.times), Complete(rows, p, pay, d, n)
    PROVE  /\ RiskOf(rows, {"DISPUTE"}) = DisputeRisk(p, d) /\ DisputeRisk(p, d) \in 0..Pack
           /\ OfKind(rows, {"DISPUTE"}) = {} \/ \E k : OfKind(rows, {"DISPUTE"}) = {k}
<1>1. RowsOf(rows) /\ DOMAIN rows \subseteq Nat
      BY CompleteRows
<1>2. \A k \in DOMAIN rows : rows[k].event.source[1] = "DISPUTE" =>
          Disputed(p, d) /\ \E i \in 1..n : rows[k].event = DisputeEvent(d, i)
      BY CompleteKinds
<1>3. CASE ~Disputed(p, d)
  <2>1. OfKind(rows, {"DISPUTE"}) = {} /\ RiskOf(rows, {"DISPUTE"}) = 0
        BY <1>1, <1>2, <1>3, RiskNone
  <2>2. DisputeRisk(p, d) = 0
        BY <1>3 DEF DisputeRisk, Disputed
  <2> QED BY <2>1, <2>2, PackAssumption
<1>4. CASE Disputed(p, d)
  <2>1. n >= 1
    <3>1. d.of # <<>>
          BY <1>4 DEF Disputed
    <3>2. d.claims # <<>>
          BY <3>1, HistoryAssumption
    <3> QED BY <3>2, DisputeFacts
  <2>2. n \in Nat /\ n \in 1..n
        BY <2>1, DisputeFacts
  <2>3. PICK k0 \in DOMAIN rows : rows[k0].event = DisputeEvent(d, n)
        BY <1>4, <2>2 DEF Complete
  <2>4. PICK e : e = rows[k0].event
        OBVIOUS
  <2>5. /\ e.amount = d.claims[Len(d.claims)] /\ e.amount \in 1..Gross
        /\ e.release = (d.decided = "seller")
        /\ \A i \in 1..n : Outdates(e, DisputeEvent(d, i))
        BY <2>1, <2>3, <2>4, LastStage
  <2>6. OfKind(rows, {"DISPUTE"}) = {k0}
    <3>1. \A k \in DOMAIN rows : rows[k].event.source[1] = "DISPUTE" => Outdates(e, rows[k].event)
          BY <1>2, <2>5
    <3>2. e.source[1] = "DISPUTE"
          BY <2>3, <2>4, DisputeEventIs
    <3>3. \A j, k \in DOMAIN rows : rows[j].event = rows[k].event => j = k
          BY CompleteRows
    <3>4. Counts(rows, "DISPUTE", k0)
          BY <1>1, <2>4, <3>1, <3>2, <3>3 DEF Counts
    <3> QED BY <3>4, LatestOne
  <2>7. RiskOf(rows, {"DISPUTE"}) = AtRisk(e)
        BY <1>1, <2>4, <2>6, RiskOne
  <2>8. e.amount \in Nat /\ Share(e.amount) \in 0..Pack
        BY <2>5, ShareRange, PackAssumption
  <2>9. AtRisk(e) = IF e.release THEN 0 ELSE Share(e.amount)
        BY <2>8, AtRiskIs, PackAssumption
  <2>10. DisputeRisk(p, d) = IF d.decided = "seller" THEN 0 ELSE Share(e.amount)
         BY <1>4, <2>5 DEF DisputeRisk, Disputed
  <2>11. RiskOf(rows, {"DISPUTE"}) = DisputeRisk(p, d)
         BY <2>5, <2>7, <2>9, <2>10
  <2>12. DisputeRisk(p, d) \in 0..Pack
         BY <2>8, <2>10, PackAssumption
  <2> QED BY <2>6, <2>11, <2>12
<1> QED BY <1>3, <1>4

LEMMA PartEventsDiffer ==
    ASSUME NEW p, NEW pay, ~pay.snapshots, NEW i, NEW j
    PROVE  RefundEvent(p, pay, i).source = RefundEvent(p, pay, j).source => i = j
<1>1. /\ RefundEvent(p, pay, i).source = <<"REFUND", i>>
      /\ RefundEvent(p, pay, j).source = <<"REFUND", j>>
      BY DEF RefundEvent, Event
<1> QED BY <1>1

LEMMA PartsRisk ==
    ASSUME NEW rows, NEW p, NEW pay, NEW d, NEW n, Complete(rows, p, pay, d, n),
           pay.parts \in Seq(1..Gross), pay.snapshots \in BOOLEAN
    PROVE  /\ pay.snapshots => RiskOf(rows, {"REFUND"}) = 0
           /\ ~pay.snapshots => RiskOf(rows, {"REFUND"}) = RefundRisk(pay)
<1> DEFINE S == OfKind(rows, {"REFUND"})
           T == DOMAIN pay.parts
<1>1. /\ RowsOf(rows) /\ DOMAIN rows \subseteq Nat
      /\ \A j, k \in DOMAIN rows : rows[j].event = rows[k].event => j = k
      BY CompleteRows
<1>2. \A k \in DOMAIN rows : rows[k].event.source[1] = "REFUND" =>
          ~pay.snapshots /\ \E i \in T : rows[k].event = RefundEvent(p, pay, i)
      BY CompleteKinds
<1>3. CASE pay.snapshots
  <2>1. \A k \in DOMAIN rows : rows[k].event.source[1] # "REFUND"
        BY <1>2, <1>3
  <2> QED BY <1>1, <1>3, <2>1, RiskNone
<1>4. CASE ~pay.snapshots
  <2>1. \A i \in T : \E k \in DOMAIN rows : rows[k].event = RefundEvent(p, pay, i)
        BY DEF Complete
  <2>2. IsFiniteSet(T) /\ \A i \in T : pay.parts[i] \in 0..Gross /\ pay.parts[i] \in Nat
    <3>1. Len(pay.parts) \in Nat /\ T = 1..Len(pay.parts)
          OBVIOUS
    <3>2. \A i \in T : pay.parts[i] \in 1..Gross
      <4> DEFINE G == 1..Gross
                 parts == pay.parts
      <4>1. parts \in Seq(G)
            OBVIOUS
      <4> HIDE DEF G, parts
      <4>2. \A i \in DOMAIN parts : parts[i] \in G
            BY <4>1
      <4> QED BY <4>2 DEF G, parts
    <3>3. IsFiniteSet(T)
          BY <3>1, FS_Interval
    <3>4. \A x \in 1..Gross : x \in 0..Gross /\ x \in Nat
          BY PackAssumption
    <3> QED BY <3>2, <3>3, <3>4
  <2>3. ASSUME NEW k \in DOMAIN rows, NEW i \in T, rows[k].event = RefundEvent(p, pay, i)
        PROVE  k \in S /\ Risks(rows)[k] = Shares(pay.parts)[i]
    <3>1. PICK e : e = rows[k].event
          OBVIOUS
    <3>2. /\ e.source[1] = "REFUND" /\ e.at = 0 /\ e.stage = 1
          /\ e.release = FALSE /\ e.amount = pay.parts[i]
          BY <1>4, <2>3, <3>1 DEF RefundEvent, Event
    <3>3. ASSUME NEW j \in DOMAIN rows, rows[j].event.source = e.source
          PROVE  j = k
      <4>1. rows[j].event.source[1] = "REFUND"
            BY <3>2, <3>3
      <4>2. PICK g \in T : rows[j].event = RefundEvent(p, pay, g)
            BY <1>2, <4>1
      <4>3. g = i
            BY <1>4, <2>3, <3>1, <3>3, <4>2, PartEventsDiffer
      <4> QED BY <1>1, <2>3, <4>2, <4>3
    <3>4. ~Later(rows, k, k)
          BY <1>1, <3>1, <3>2 DEF Later
    <3>5. k \in Latest(rows)
          BY <3>1, <3>3, <3>4 DEF Latest
    <3>6. k \in S
          BY <3>1, <3>2, <3>5 DEF OfKind
    <3>7. e.amount \in Nat /\ Share(e.amount) \in 0..Pack
          BY <2>2, <3>2, ShareRange
    <3>8. AtRisk(e) = Share(e.amount)
          BY <3>2, <3>7, AtRiskIs, PackAssumption
    <3>9. Risks(rows)[k] = AtRisk(e) /\ Shares(pay.parts)[i] = Share(e.amount)
          BY <3>1, <3>2 DEF Risks, Shares
    <3> QED BY <3>6, <3>8, <3>9
  <2> DEFINE b == [k \in S |-> CHOOSE i \in T : rows[k].event = RefundEvent(p, pay, i)]
  <2>4. \A k \in S : k \in DOMAIN rows /\ b[k] \in T /\ rows[k].event = RefundEvent(p, pay, b[k])
    <3>1. \A k \in S : k \in DOMAIN rows /\ rows[k].event.source[1] = "REFUND"
          BY DEF OfKind, Latest
    <3> QED BY <1>2, <3>1
  <2>5. b \in [S -> T]
        BY <2>4
  <2> HIDE DEF b
  <2>6. \A j, k \in S : b[j] = b[k] => j = k
        BY <1>1, <2>4
  <2>7. \A i \in T : \E k \in S : b[k] = i
    <3> SUFFICES ASSUME NEW i \in T PROVE \E k \in S : b[k] = i
        OBVIOUS
    <3>1. PICK k \in DOMAIN rows : rows[k].event = RefundEvent(p, pay, i)
          BY <2>1
    <3>2. k \in S
          BY <2>3, <3>1
    <3>3. b[k] = i
          BY <1>4, <2>4, <3>1, <3>2, PartEventsDiffer
    <3> QED BY <3>2, <3>3
  <2>8. \A k \in S : Risks(rows)[k] = Shares(pay.parts)[b[k]]
        BY <2>3, <2>4
  <2>9. \A i \in T : Shares(pay.parts)[i] \in Int
    <3>1. \A i \in T : Share(pay.parts[i]) \in Nat
          BY <2>2, ShareIs
    <3> QED BY <3>1 DEF Shares
  <2>10. IsFiniteSet(S) /\ RiskOf(rows, {"REFUND"}) = SumOver(Risks(rows), S)
         BY <1>1, RiskRange
  <2>11. RefundRisk(pay) = SumOver(Shares(pay.parts), T)
         BY <1>4, <2>2, RefundRiskIsSum
  <2> HIDE DEF S, T
  <2>12. SumOver(Risks(rows), S) = SumOver(Shares(pay.parts), T)
         BY <2>2, <2>5, <2>6, <2>7, <2>8, <2>9, <2>10, SumReindex
  <2> QED BY <1>4, <2>10, <2>11, <2>12
<1> QED BY <1>3, <1>4

(***************************************************************************)
(* When every event about a payment has been applied, its rows are         *)
(* complete, and their target is what PayPal's records leave uncovered.    *)
(***************************************************************************)
TellsOf(e, p, pay, d, n) ==
    \/ \E i \in DOMAIN pay.parts : e = RefundEvent(p, pay, i)
    \/ pay.reversed /\ e = Reversal(p)
    \/ Disputed(p, d) /\ \E i \in 1..n : e = DisputeEvent(d, i)

LEMMA EventsAbout ==
    ASSUME NEW h \in Histories, NEW p \in DOMAIN h.payment, NEW pay, pay = h.payment[p],
           NEW d, d = h.dispute, NEW n, n = Len(d.times), NEW e,
           h = history
    PROVE  (e \in Events(h) /\ About(p, e)) <=> TellsOf(e, p, pay, d, n)
<1> USE DEF TellsOf
<1>1. DisputeEvents(d) = StagesOf(d, n)
      BY DisputeFacts
<1>2. \A q \in DOMAIN h.payment :
          PaymentEvents(q, h.payment[q]) =
              {Event("CAPTURE", 0, <<q>>, Gross, 0, 1, FALSE)}
              \cup {RefundEvent(q, h.payment[q], i) : i \in DOMAIN h.payment[q].parts}
              \cup (IF h.payment[q].reversed THEN {Reversal(q)} ELSE {})
      BY DEF PaymentEvents, RefundEvents, RefundEvent, Reversal
<1>3. ASSUME e \in DisputeEvents(d), About(p, e)
      PROVE  Disputed(p, d) /\ \E i \in 1..n : e = DisputeEvent(d, i)
  <2>1. PICK i \in 1..n : e = DisputeEvent(d, i)
        BY <1>1, <1>3 DEF StagesOf
  <2>2. e.of = d.of
        BY <2>1, DisputeEventIs
  <2>3. e.source[1] = "DISPUTE"
        BY <2>1, DisputeEventIs
  <2> QED BY <1>3, <2>1, <2>2, <2>3 DEF About, Foreign, Disputed
<1>4. ASSUME NEW q \in DOMAIN h.payment, e \in PaymentEvents(q, h.payment[q]), About(p, e)
      PROVE  \/ \E i \in DOMAIN pay.parts : e = RefundEvent(p, pay, i)
             \/ pay.reversed /\ e = Reversal(p)
  <2>1. e # Event("CAPTURE", 0, <<q>>, Gross, 0, 1, FALSE)
    <3>1. Event("CAPTURE", 0, <<q>>, Gross, 0, 1, FALSE).source[1] = "CAPTURE"
          BY DEF Event
    <3> QED BY <1>4, <3>1 DEF About
  <2>2. CASE \E i \in DOMAIN h.payment[q].parts : e = RefundEvent(q, h.payment[q], i)
    <3>1. e.of = <<q>>
          BY <2>2 DEF RefundEvent, Event
    <3>2. q = p
          BY <1>4, <3>1 DEF About
    <3> QED BY <2>2, <3>2
  <2>3. CASE h.payment[q].reversed /\ e = Reversal(q)
    <3>1. e.of = <<q>>
          BY <2>3, ReversalIs
    <3>2. q = p
          BY <1>4, <3>1 DEF About
    <3> QED BY <2>3, <3>2
  <2>4. \/ e = Event("CAPTURE", 0, <<q>>, Gross, 0, 1, FALSE)
        \/ \E i \in DOMAIN h.payment[q].parts : e = RefundEvent(q, h.payment[q], i)
        \/ h.payment[q].reversed /\ e = Reversal(q)
        BY ONLY <1>2, <1>4
  <2> QED BY <2>1, <2>2, <2>3, <2>4
<1>5. ASSUME NEW i \in DOMAIN pay.parts, e = RefundEvent(p, pay, i)
      PROVE  e \in Events(h) /\ About(p, e)
  <2>1. e \in {RefundEvent(p, h.payment[p], j) : j \in DOMAIN h.payment[p].parts}
        BY <1>5
  <2>2. e \in PaymentEvents(p, h.payment[p])
        BY <1>2, <2>1
  <2>3. e.of = <<p>> /\ e.source[1] \in {"TOTAL", "REFUND"}
        BY <1>5 DEF RefundEvent, Event
  <2> QED BY <2>2, <2>3 DEF Events, About, Foreign
<1>6. ASSUME pay.reversed, e = Reversal(p)
      PROVE  e \in Events(h) /\ About(p, e)
  <2>1. e \in PaymentEvents(p, h.payment[p])
        BY <1>2, <1>6
  <2>2. e.of = <<p>> /\ e.source[1] = "REVERSAL"
        BY <1>6, ReversalIs
  <2> QED BY <2>1, <2>2 DEF Events, About, Foreign
<1>7. ASSUME Disputed(p, d), NEW i \in 1..n, e = DisputeEvent(d, i)
      PROVE  e \in Events(h) /\ About(p, e)
  <2>1. e \in DisputeEvents(d)
        BY <1>1, <1>7 DEF StagesOf
  <2>2. e.of = d.of /\ e.source[1] = "DISPUTE"
        BY <1>7, DisputeEventIs
  <2> QED BY <1>7, <2>1, <2>2 DEF Events, About, Foreign, Disputed
<1> QED BY <1>3, <1>4, <1>5, <1>6, <1>7 DEF Events

LEMMA RowsComplete ==
    ASSUME Inv, TakenBack, NEW p \in DOMAIN history.payment,
           \A e \in DOMAIN inbox : About(p, e) => Adjusted(p, e)
    PROVE  Complete(adjustments[p], p, history.payment[p], history.dispute, Len(history.dispute.times))
<1>1. history \in Histories /\ p \in Purchases /\ DOMAIN inbox = Events(history)
      BY HistoryAssumption DEF Inv, BooksOK, InboxOK
<1>2. PICK pay, d, n, rows : /\ pay = history.payment[p] /\ d = history.dispute /\ n = Len(d.times)
                             /\ rows = adjustments[p]
      OBVIOUS
<1>3. \A e : (e \in Events(history) /\ About(p, e)) <=> TellsOf(e, p, pay, d, n)
      BY <1>1, <1>2, EventsAbout
<1>4. \A e \in Events(history) : About(p, e) => \E k \in DOMAIN rows : rows[k].event = e
      BY <1>1, <1>2 DEF Adjusted
<1>5. \A k \in DOMAIN rows : rows[k].event \in Events(history) /\ About(p, rows[k].event)
      BY <1>1, <1>2 DEF TakenBack, RowsAbout
<1>6. RowsOf(rows) /\ \A j, k \in DOMAIN rows : rows[j].event = rows[k].event => j = k
      BY <1>1, <1>2 DEF Inv, BooksOK, TakenBack, RevokedOK, RowsOf
<1>7. \A k \in DOMAIN rows :
          \/ \E i \in DOMAIN pay.parts : rows[k].event = RefundEvent(p, pay, i)
          \/ pay.reversed /\ rows[k].event = Reversal(p)
          \/ Disputed(p, d) /\ \E i \in 1..n : rows[k].event = DisputeEvent(d, i)
      BY <1>3, <1>5 DEF TellsOf
<1>8. /\ \A i \in DOMAIN pay.parts : \E k \in DOMAIN rows : rows[k].event = RefundEvent(p, pay, i)
      /\ pay.reversed => \E k \in DOMAIN rows : rows[k].event = Reversal(p)
      /\ Disputed(p, d) => \A i \in 1..n : \E k \in DOMAIN rows : rows[k].event = DisputeEvent(d, i)
      BY <1>3, <1>4 DEF TellsOf
<1>9. Complete(rows, p, pay, d, n)
      BY <1>6, <1>7, <1>8 DEF Complete
<1> QED BY <1>2, <1>9

LEMMA TargetIsUncovered ==
    ASSUME NEW rows, NEW p \in DOMAIN history.payment, history \in Histories,
           Complete(rows, p, history.payment[p], history.dispute, Len(history.dispute.times))
    PROVE  Target(rows) = NotCovered(p)
<1>1. PICK pay, d, n : pay = history.payment[p] /\ d = history.dispute /\ n = Len(d.times)
      OBVIOUS
<1>2. pay.parts \in Seq(1..Gross) /\ pay.snapshots \in BOOLEAN /\ Complete(rows, p, pay, d, n)
      BY <1>1, PaymentFacts
<1> DEFINE total    == RiskOf(rows, {"TOTAL"})
           refund   == RiskOf(rows, {"REFUND"})
           reversal == RiskOf(rows, {"REVERSAL"})
           dispute  == RiskOf(rows, {"DISPUTE"})
           back     == IF pay.reversed THEN Pack ELSE 0
<1>3. RowsOf(rows) /\ total \in Nat /\ refund \in Nat
      BY <1>2, RiskRange, CompleteRows
<1>4. reversal = back /\ back \in {0, Pack}
      BY <1>2, ReversalRisk
<1>5. /\ dispute = DisputeRisk(p, d) /\ DisputeRisk(p, d) \in 0..Pack
      /\ RiskOf(rows, {"REVERSAL", "DISPUTE"}) = reversal + dispute
  <2>1. /\ dispute = DisputeRisk(p, d) /\ DisputeRisk(p, d) \in 0..Pack
        /\ OfKind(rows, {"DISPUTE"}) = {} \/ \E k : OfKind(rows, {"DISPUTE"}) = {k}
        BY <1>1, <1>2, DisputeRiskIs
  <2>2. RiskOf(rows, {"REVERSAL", "DISPUTE"}) = reversal + dispute
        BY <1>3, <2>1, RiskAdds
  <2> QED BY <2>1, <2>2
<1>6. /\ RefundRisk(pay) \in Nat
      /\ \/ total = Capped(RefundRisk(pay)) /\ refund = 0
         \/ total = 0 /\ refund = RefundRisk(pay)
  <2>1. CASE pay.snapshots
    <3>1. total = Capped(Share(Total(pay.parts))) /\ refund = 0
          BY <1>2, <2>1, TotalRisk, PartsRisk
    <3>2. RefundRisk(pay) = Share(Total(pay.parts))
          BY <2>1 DEF RefundRisk
    <3>3. Share(Total(pay.parts)) \in Nat
          BY <1>2, WholeTotal, ShareIs
    <3> QED BY <3>1, <3>2, <3>3
  <2>2. CASE ~pay.snapshots
        BY <1>2, <1>3, <2>2, TotalRisk, PartsRisk
  <2> QED BY <2>1, <2>2
<1>7. LET held == reversal + dispute
          risk == held + (IF total >= refund THEN total ELSE refund)
      IN  Target(rows) = (IF Pack <= risk THEN Pack ELSE risk)
      BY <1>3, <1>5, TargetIs
<1>8. NotCovered(p) = Min({Pack, RefundRisk(pay) + DisputeRisk(p, d) + back})
      BY <1>1 DEF NotCovered
<1> HIDE DEF total, refund, reversal, dispute, back
<1> DEFINE r == RefundRisk(pay)
           c == DisputeRisk(p, d)
<1>9. r \in Nat /\ c \in Nat /\ back \in Nat /\ Pack \in Nat
      BY <1>4, <1>5, <1>6, PackAssumption
<1> HIDE DEF r, c
<1>10. NotCovered(p) = IF Pack <= r + c + back THEN Pack ELSE r + c + back
  <2>1. r + c + back \in Int /\ NotCovered(p) = Min({Pack, r + c + back})
        BY <1>8, <1>9 DEF r, c
  <2> QED BY <1>9, <2>1, MinOf
<1>11. \/ total = (IF Pack <= r THEN Pack ELSE r) /\ refund = 0
       \/ total = 0 /\ refund = r
       BY <1>6 DEF Capped, r
<1>12. reversal = back /\ dispute = c
       BY <1>4, <1>5 DEF c
<1> QED BY <1>7, <1>9, <1>10, <1>11, <1>12

(***************************************************************************)
(* However PayPal's events about a payment are ordered, repeated and       *)
(* retried, once all of them have been applied the credits taken back are  *)
(* what its records leave uncovered, for any refunds, disputes and clock.  *)
(***************************************************************************)
THEOREM RevokedAgrees == Spec => []RevokedAgreesWithPayPal
<1>1. Inv /\ TakenBack => RevokedAgreesWithPayPal
  <2> SUFFICES ASSUME Inv, TakenBack, NEW p \in Purchases, p \in DOMAIN history.payment,
                      \A e \in DOMAIN inbox : About(p, e) => Adjusted(p, e)
               PROVE  Revoked(p) = NotCovered(p)
      BY DEF RevokedAgreesWithPayPal
  <2>1. Target(adjustments[p]) = NotCovered(p)
        BY RowsComplete, TargetIsUncovered DEF Inv, BooksOK
  <2> QED BY <2>1 DEF TakenBack, RevokedOK
<1> QED BY <1>1, TakenBackAlways, PTL

(***************************************************************************)
(* At no time, whatever has been applied so far and in whatever order, are *)
(* more credits taken back than the pack has, or fewer than none.          *)
(***************************************************************************)
THEOREM TakenBackWithinPack == Spec => [](\A p \in Purchases : Revoked(p) \in 0..Pack)
<1>1. Inv /\ TakenBack => \A p \in Purchases : Revoked(p) \in 0..Pack
  <2> SUFFICES ASSUME Inv, TakenBack, NEW p \in Purchases
               PROVE  Revoked(p) \in 0..Pack
      OBVIOUS
  <2>1. RowsOf(adjustments[p])
        BY DEF Inv, BooksOK, TakenBack, RevokedOK, RowsOf
  <2> QED BY <2>1, TargetIs DEF TakenBack, RevokedOK
<1> QED BY <1>1, TakenBackAlways, PTL
=============================================================================
