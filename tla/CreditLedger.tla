---------------------------- MODULE CreditLedger ----------------------------
(***************************************************************************)
(* One workspace's prepaid balance and its ledger                          *)
(* (packages/db/src/credit-charge.ts) under the switches that             *)
(* apps/api/src/middleware/credits.ts and the worker choose. Charges,      *)
(* reversals and the orphan sweep's reversals are transactions under the   *)
(* workspace advisory lock, hence one step each. A key of Keys stands for  *)
(* one (workspace, idempotency key) and for the debit row it can have.     *)
(***************************************************************************)
EXTENDS Integers, FiniteSetsExt

CONSTANTS
    Keys,            \* operations the workspace asks for
    Media,           \* those charged for queue-bound media work
    Free,            \* those charged with multiplier 0
    Cost, Units,     \* price and billed units of a key
    Deployments,     \* the switches a deployment may start with, see below
    Start,           \* opening balance
    GrantSize,       \* credits bought by one purchase
    DailyCap, MonthlyCap, SpendCeiling, PlanCap,   \* 0 disables the first three
    DaysPerMonth,
    MaxDay, Grants   \* bounds: days that pass, purchases

\* "internal": AUTH_MODE=internal; "enforced": BILLING_ENFORCEMENT=on;
\* "firstParty": the workspace is the house's own (isFirstPartyBilling).
Switches == {"internal", "enforced", "firstParty"}

ASSUME KeyAssumption    == Media \subseteq Keys /\ Free \subseteq Keys
ASSUME PriceAssumption  == Cost \in [Keys -> Nat \ {0}] /\ Units \in [Keys -> Nat \ {0}]
ASSUME SwitchAssumption == Deployments \subseteq SUBSET Switches
ASSUME NumberAssumption == /\ Start \in Nat /\ GrantSize \in Nat
                           /\ DailyCap \in Nat /\ MonthlyCap \in Nat /\ SpendCeiling \in Nat
                           /\ PlanCap \in Nat /\ DaysPerMonth \in Nat \ {0}
                           /\ MaxDay \in Nat /\ Grants \in Nat

VARIABLES
    balance,     \* Workspace.creditsCents
    ledger,      \* the row of a key: "none", "free" (delta 0) or "debit" (delta < 0)
    day,         \* the day the row was written
    reversed,    \* keys whose debit has a reversal row
    bound,       \* keys whose row a provider job carries (chargedJob)
    switches,    \* configuration of the deployment: as it opened, and now
    today,       \* UTC days since the start
    aged,        \* rows old enough for the orphan sweep
    suspects,    \* debits the orphan sweep has read as candidates
    granted,     \* credits bought so far
    debited,     \* history: keys whose charge lowered the balance
    credited     \* history: keys whose reversal raised it

account    == <<balance, ledger, day, reversed, debited, credited>>
ledgerVars == <<account, bound, switches, today, aged, suspects, granted>>

LedgerInit ==
    /\ balance  = Start
    /\ ledger   = [k \in Keys |-> "none"]
    /\ day      = [k \in Keys |-> 0]
    /\ \E d \in Deployments : switches = [opening |-> d, now |-> d]
    /\ today    = 0
    /\ granted  = 0
    /\ reversed = {} /\ bound = {} /\ aged = {} /\ suspects = {}
    /\ debited  = {} /\ credited = {}
-----------------------------------------------------------------------------
Internal   == "internal" \in switches.now
FirstParty == "firstParty" \in switches.now
Beta       == ~FirstParty /\ "enforced" \notin switches.now

\* Beta, first-party and internal workspaces are charged without a debit.
ChargesInternally == Beta \/ FirstParty \/ Internal

\* refundCredits knows first-party workspaces and AUTH_MODE, the worker only
\* AUTH_MODE; neither looks at BILLING_ENFORCEMENT.
\* Mutant: AUTH_MODE is forgotten.
RefundsInternallyForHouse(caller) == caller = "api" /\ FirstParty

RefundsInternally(caller) == Internal \/ (caller = "api" /\ FirstParty)

Total(f, S) == MapThenSumSet(LAMBDA k : f[k], S)

\* Debits that still count: what the usage aggregates of a period add up.
Counted     == {k \in Keys : ledger[k] = "debit" /\ k \notin reversed}
SinceDay    == {k \in Counted : day[k] = today}
SinceMonth  == {k \in Counted : day[k] \div DaysPerMonth = today \div DaysPerMonth}

\* The generation caps bind internal charges, except that first-party ones
\* default to 0; the spend ceiling belongs to the beta.
Capped == ChargesInternally /\ ~FirstParty

\* Mutant: the caps compare what was used before this charge.
WithinCapsBefore(k) ==
    /\ Capped /\ DailyCap > 0     => Total(Units, SinceDay) <= DailyCap
    /\ Capped /\ MonthlyCap > 0   => Total(Units, SinceMonth) <= MonthlyCap
    /\ Beta /\ SpendCeiling > 0   => Total(Cost, SinceDay) <= SpendCeiling

WithinCaps(k) ==
    /\ Capped /\ DailyCap > 0     => Total(Units, SinceDay) + Units[k] <= DailyCap
    /\ Capped /\ MonthlyCap > 0   => Total(Units, SinceMonth) + Units[k] <= MonthlyCap
    /\ Beta /\ SpendCeiling > 0   => Total(Cost, SinceDay) + Cost[k] <= SpendCeiling

WithinPlan(k) == Total(Units, SinceMonth) + Units[k] <= PlanCap

\* Mutant: the debit does not ask for the balance.
AffordableUnchecked(k) == IF ChargesInternally THEN WithinCaps(k) ELSE WithinPlan(k)

Affordable(k) == IF ChargesInternally THEN WithinCaps(k) ELSE WithinPlan(k) /\ balance >= Cost[k]

\* chargeWorkspaceCredits answers a key it has a debit for without charging.
Replays(k) == ledger[k] = IF k \in Free THEN "free" ELSE "debit"
Accepts(k) == ledger[k] = "none" /\ (k \in Free \/ Affordable(k))

Record(k) ==
    /\ ledger' = [ledger EXCEPT ![k] = IF k \in Free THEN "free" ELSE "debit"]
    /\ day'    = [day EXCEPT ![k] = today]
    /\ IF k \in Free \/ ChargesInternally
       THEN UNCHANGED <<balance, debited>>
       ELSE balance' = balance - Cost[k] /\ debited' = debited \cup {k}
    /\ UNCHANGED <<reversed, credited>>

\* Mutant: the debit row is rewritten in place of a reversal row.
ReverseInPlace(k, caller) ==
    /\ ledger' = [ledger EXCEPT ![k] = IF @ = "debit" THEN "reversed" ELSE @]
    /\ UNCHANGED <<balance, day, reversed, debited, credited>>

\* refundWorkspaceCharge: nothing to do without a debit, or with a reversal.
Reverse(k, caller) ==
    IF ledger[k] # "debit" \/ k \in reversed
    THEN UNCHANGED account
    ELSE /\ reversed' = reversed \cup {k}
         /\ IF RefundsInternally(caller)
            THEN UNCHANGED <<balance, credited>>
            ELSE balance' = balance + Cost[k] /\ credited' = credited \cup {k}
         /\ UNCHANGED <<ledger, day, debited>>
-----------------------------------------------------------------------------
(***************************************************************************)
(* The operations.                                                         *)
(***************************************************************************)

Charge(k) ==
    /\ Accepts(k)
    /\ Record(k)
    /\ UNCHANGED <<bound, switches, today, aged, suspects, granted>>

\* A caller that holds the charge gives it back: the API on its error paths,
\* the worker for a job that failed for good.
Refund(k, caller) ==
    /\ ledger[k] # "none"
    /\ caller = "worker" => k \in bound
    /\ Reverse(k, caller)
    /\ UNCHANGED <<bound, switches, today, aged, suspects, granted>>

\* A provider job is committed with the row as its charge; the column is unique.
Bind(k) ==
    /\ ledger[k] # "none"
    /\ k \notin bound
    /\ bound' = bound \cup {k}
    /\ UNCHANGED <<account, switches, today, aged, suspects, granted>>

\* The orphan sweep looks for old media debits that no job carries, outside
\* the locks.
Orphan(k) == ledger[k] = "debit" /\ k \in Media \cap aged /\ k \notin bound \cup reversed

SweepRead ==
    /\ suspects = {}
    /\ suspects' = {k \in Keys : Orphan(k)}
    /\ suspects' # {}
    /\ UNCHANGED <<account, bound, switches, today, aged, granted>>

\* Mutants: the candidate is reversed as it was read; or without a look at its
\* job; or a candidate that is no orphan any more is never done with.
SweepRefundStale(k) ==
    /\ k \in suspects
    /\ suspects' = suspects \ {k}
    /\ reversed' = reversed \cup {k}
    /\ balance'  = balance + Cost[k]
    /\ credited' = credited \cup {k}
    /\ UNCHANGED <<ledger, day, debited, bound, switches, today, aged, granted>>

SweepRefundBound(k) ==
    /\ k \in suspects
    /\ suspects' = suspects \ {k}
    /\ Reverse(k, "worker")
    /\ UNCHANGED <<bound, switches, today, aged, granted>>

SweepRefundStuck(k) ==
    /\ k \in suspects
    /\ Orphan(k)
    /\ suspects' = suspects \ {k}
    /\ Reverse(k, "worker")
    /\ UNCHANGED <<bound, switches, today, aged, granted>>

\* It reverses them one by one, each re-read under the locks.
SweepRefund(k) ==
    /\ k \in suspects
    /\ suspects' = suspects \ {k}
    /\ IF Orphan(k) THEN Reverse(k, "worker") ELSE UNCHANGED account
    /\ UNCHANGED <<bound, switches, today, aged, granted>>

\* A captured PayPal order, or a subscription payment.
Grant ==
    /\ granted < Grants * GrantSize
    /\ granted' = granted + GrantSize
    /\ balance' = balance + GrantSize
    /\ UNCHANGED <<ledger, day, reversed, debited, credited, bound, switches, today,
                   aged, suspects>>

NextDay ==
    /\ today < MaxDay
    /\ today' = today + 1
    /\ UNCHANGED <<account, bound, switches, aged, suspects, granted>>

\* An hour has passed since a debit the sweep may look at was written.
Age(k) ==
    /\ ledger[k] = "debit" /\ k \in Media \ aged
    /\ aged' = aged \cup {k}
    /\ UNCHANGED <<account, bound, switches, today, suspects, granted>>

\* The operator ends the beta: BILLING_ENFORCEMENT=on.
Launch ==
    /\ "enforced" \notin switches.now
    /\ switches' = [switches EXCEPT !.now = @ \cup {"enforced"}]
    /\ UNCHANGED <<account, bound, today, aged, suspects, granted>>

Environment == Grant \/ NextDay \/ Launch
Sweep       == SweepRead \/ \E k \in Keys : SweepRefund(k)

LedgerNext == \/ \E k \in Keys : Charge(k) \/ Bind(k) \/ Age(k)
              \/ \E k \in Keys, caller \in {"api", "worker"} : Refund(k, caller)
              \/ Sweep
              \/ Environment

LedgerSpec == LedgerInit /\ [][LedgerNext]_ledgerVars
-----------------------------------------------------------------------------
(***************************************************************************)
(* Properties.                                                             *)
(***************************************************************************)

LedgerTypeOK ==
    /\ balance  \in Int
    /\ ledger   \in [Keys -> {"none", "free", "debit"}]
    /\ day      \in [Keys -> Nat]
    /\ reversed \subseteq Keys
    /\ bound    \subseteq Keys
    /\ switches \in [opening : SUBSET Switches, now : SUBSET Switches]
    /\ today    \in Nat
    /\ aged     \subseteq Keys
    /\ suspects \subseteq Keys
    /\ granted  \in Nat
    /\ debited  \subseteq Keys
    /\ credited \subseteq Keys

(***************************************************************************)
(* "Owner mode restores cap units without changing balance" (markFailed),  *)
(* "owner-mode refunds restore cap units without changing the workspace    *)
(* balance" (docs/RUNBOOK.md): a reversal raises the balance only by what  *)
(* its charge took from it.                                                *)
(***************************************************************************)
CreditsOnlyWhatWasDebited == credited \subseteq debited

\* Deployments whose charges and reversals go by the same rule: those with
\* AUTH_MODE=internal, and those that bill a customer from the first day.
Agrees(S) == "internal" \in S \/ ("enforced" \in S /\ "firstParty" \notin S)

\* The same where it does hold: in every deployment that agrees with itself.
AgreeingRefundsMakeNoCredits == Agrees(switches.opening) => CreditsOnlyWhatWasDebited

\* Deployments in which every charge is paid from the balance.
Bills(S) == "enforced" \in S /\ S \cap {"internal", "firstParty"} = {}

(***************************************************************************)
(* The balance against the rows of the ledger. Where every charge is paid  *)
(* for, it is what was bought less the debit rows that no reversal row     *)
(* cancels; where AUTH_MODE is internal the rows, deltas and all, never    *)
(* touch it. In between (a beta, its launch, a house workspace) debit rows *)
(* are written beside an untouched balance, and credits may be made        *)
(* (CreditsOnlyWhatWasDebited fails there); but none is ever lost: the     *)
(* balance is at least what the standing rows leave of what was bought.    *)
(***************************************************************************)
BalanceMatchesLedger ==
    /\ Bills(switches.opening) => balance = Start + granted - Total(Cost, Counted)
    /\ Internal => balance = Start + granted
    /\ balance >= Start + granted - Total(Cost, Counted)

(***************************************************************************)
(* Spending alone never overdraws the account (the conditional debit).     *)
(***************************************************************************)
NeverOverdrawn == balance >= 0

(***************************************************************************)
(* The caps hold at every moment and not only when a charge is made:       *)
(* reversals give their units back on the day they were spent, midnight    *)
(* and the first of the month start afresh. The plan's allowance is no     *)
(* cap of the beta, so a launch can find a month above it; nothing is      *)
(* debited on top of that.                                                 *)
(***************************************************************************)
CapsHold ==
    /\ Capped /\ DailyCap > 0   => Total(Units, SinceDay) <= DailyCap
    /\ Capped /\ MonthlyCap > 0 => Total(Units, SinceMonth) <= MonthlyCap
    /\ Beta /\ SpendCeiling > 0   => Total(Cost, SinceDay) <= SpendCeiling
    /\ ~ChargesInternally         => \/ Total(Units, SinceMonth) <= PlanCap
                                     \/ SinceMonth \cap debited = {}

(***************************************************************************)
(* The sweep never takes back the charge of a committed job, however long  *)
(* ago it read that there was none.                                        *)
(***************************************************************************)
SweepSparesJobs ==
    [][\A k \in Keys : k \in suspects /\ k \notin suspects' /\ k \in bound
                         => (k \in reversed' => k \in reversed)]_ledgerVars
=============================================================================
