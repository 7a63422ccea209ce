---------------------------- MODULE WebhookInbox ----------------------------
(***************************************************************************)
(* The PayPal webhook route (apps/api/src/routes/webhooks.ts): a           *)
(* BillingEvent row per event, claimed with a 15 minute lease, handled and *)
(* settled. PayPal sends an event again and again, without waiting for an  *)
(* answer, until one of its calls is answered 200; among events it keeps   *)
(* no order.                                                               *)
(*                                                                         *)
(* What a handler does to the books is left to the modules that extend     *)
(* this one: they move a slot from "apply" to "settle", or let it throw.   *)
(***************************************************************************)
EXTENDS Naturals, Sequences

CONSTANTS
    Slots,           \* API requests in flight at a time
    Faults           \* bound: failing statements, dying or unheard requests

ASSUME FaultAssumption == Faults \in Nat

VARIABLES
    inbox,           \* for every event PayPal will send: its row and its answer
    handler,         \* what each API request is doing
    faults           \* faults left

inboxVars == <<inbox, handler, faults>>

Idle == [does |-> "idle"]

InboxInit(events) ==
    /\ inbox   = [e \in events |-> [row |-> "none", stale |-> FALSE, acked |-> FALSE]]
    /\ handler = [s \in Slots |-> Idle]
    /\ faults  = Faults

Become(s, work) == handler' = [handler EXCEPT ![s] = work]
Fault           == faults > 0 /\ faults' = faults - 1
-----------------------------------------------------------------------------
\* The row can be created, or leased: it is not settled for good, and nobody
\* has held it for less than 15 minutes.
Claimable(e) ==
    /\ inbox[e].row # "processed"
    /\ inbox[e].row = "processing" => inbox[e].stale

Claim(s, e) ==
    /\ handler[s] = Idle
    /\ ~inbox[e].acked /\ Claimable(e)
    /\ inbox' = [inbox EXCEPT ![e] = [row |-> "processing", stale |-> FALSE, acked |-> @.acked]]
    /\ Become(s, [does |-> "apply", event |-> e, rest |-> e.of])
    /\ UNCHANGED faults

\* 200 without a claim: processed before, or held by somebody at the moment.
AnswerAtOnce(e) ==
    /\ ~inbox[e].acked /\ ~Claimable(e)
    /\ inbox' = [inbox EXCEPT ![e].acked = TRUE]
    /\ UNCHANGED <<handler, faults>>

ToSettle(s, result) ==
    Become(s, [does |-> "settle", event |-> handler[s].event, result |-> result])

\* A statement of the handler throws: the handler ends as "failed".
Throw(s) ==
    /\ handler[s].does = "apply"
    /\ Fault
    /\ ToSettle(s, "failed")
    /\ UNCHANGED inbox

\* The row gets its status, whatever it is by then, and PayPal its answer:
\* 200 for "processed" and "unmatched", else an error.
Settle(s) ==
    /\ handler[s].does = "settle"
    /\ LET e == handler[s].event IN
       LET result == handler[s].result IN
         inbox' = [inbox EXCEPT ![e] =
             [row |-> result, stale |-> FALSE,
              acked |-> @.acked \/ result \in {"processed", "unmatched"}]]
    /\ Become(s, Idle)
    /\ UNCHANGED faults

\* The status cannot be written: a row that was to be final is marked failed, or,
\* when that does not succeed either, stays as it is. PayPal gets an error.
SettleFails(s) ==
    /\ handler[s].does = "settle"
    /\ Fault
    /\ \/ /\ handler[s].result \in {"processed", "unmatched"}
          /\ inbox' = [inbox EXCEPT ![handler[s].event] =
                          [row |-> "failed", stale |-> FALSE, acked |-> @.acked]]
       \/ UNCHANGED inbox
    /\ Become(s, Idle)

\* The API process of a request goes down.
Die(s) ==
    /\ handler[s] # Idle
    /\ Fault
    /\ Become(s, Idle)
    /\ UNCHANGED inbox

\* Fifteen minutes pass over a held row; nothing hurries its holder.
Age(e) ==
    /\ inbox[e].row = "processing" /\ ~inbox[e].stale
    /\ inbox' = [inbox EXCEPT ![e].stale = TRUE]
    /\ UNCHANGED <<handler, faults>>

\* The events PayPal sends are those that have happened.
InboxNext(happened) ==
    \/ \E e \in happened : AnswerAtOnce(e) \/ \E s \in Slots : Claim(s, e)
    \/ \E e \in DOMAIN inbox : Age(e)
    \/ \E s \in Slots : Throw(s) \/ Settle(s) \/ SettleFails(s) \/ Die(s)
=============================================================================
