------------------------ MODULE JobAdmissionProofs ------------------------
(***************************************************************************)
(* Theorems about JobAdmission, for any number of requests under any keys, *)
(* and any number of failing statements and crashes. The requests are a    *)
(* way of using the account: JobAdmission implements CreditLedger, whose   *)
(* theorems then hold of it. What the requests promise their clients is    *)
(* proved on top.                                                          *)
(***************************************************************************)
EXTENDS JobAdmission, CreditLedgerProofs

\* A request that has come past the charge has a row to bind or to give back.
Holding == {"lookup", "guard", "insert", "abort"}
Charged == \A r \in Requests : step[r] \in Holding => ledger[KeyOf[r]] # "none"

RequestsOK ==
    /\ step   \in [Requests -> Holding \cup {"charge", "done"}]
    /\ answer \in [Requests -> {"none", "job", "refused", "error"}]
    /\ faults \in 0..Faults

\* What a step of request r does to the account, seen from the ledger ...
OnAccount(k) == Charge(k) \/ Bind(k) \/ Refund(k, "api") \/ UNCHANGED ledgerVars

RequestStep(r) == Step(r) \/ TransactionFails(r) \/ Stop(r)

\* ... and to the requests: r goes on holding the charge, or is answered, with a
\* job that is there, a charge that was never made, or an error; and then the
\* debit was given back unless a fault came in between.
Answered(r) ==
    \/ answer'[r] = "job" /\ KeyOf[r] \in bound'
    \/ answer'[r] = "refused" /\ step[r] = "charge" /\ UNCHANGED ledger
    \/ answer'[r] = "error" /\ (KeyOf[r] \notin Counted' \/ faults' < faults)

Moved(r) ==
    /\ step'   = [step EXCEPT ![r] = step'[r]]
    /\ answer' = [answer EXCEPT ![r] = answer'[r]]
    /\ step[r] # "done"
    /\ \/ step'[r] \in Holding /\ UNCHANGED answer
       \/ step'[r] = "done" /\ Answered(r)
    /\ step[r] = "charge" /\ step'[r] \in Holding => ledger'[KeyOf[r]] # "none"
    /\ faults' \in {faults, faults - 1} /\ (faults' # faults => faults > 0)

LEMMA RequestMoves ==
    ASSUME LedgerTypeOK, RequestsOK, NEW r \in Requests, RequestStep(r)
    PROVE  Moved(r)
<1> USE RequestAssumption, FaultAssumption
        DEF RequestsOK, Moved, Answered, Holding, Goto, Respond, Fault
<1>1. CASE ChargeKey(r)
  <2>1. faults' = faults /\ step[r] = "charge"
        BY <1>1 DEF ChargeKey
  <2>2. CASE Replays(KeyOf[r]) /\ UNCHANGED account /\ Goto(r, "lookup")
        BY <2>1, <2>2 DEF Replays, account
  <2>3. CASE Record(KeyOf[r]) /\ Goto(r, "guard")
    <3>1. ledger'[KeyOf[r]] # "none"
          BY <2>3 DEF Record, LedgerTypeOK
    <3> QED BY <2>1, <2>3, <3>1
  <2>4. CASE Respond(r, "refused") /\ UNCHANGED account
        BY <2>1, <2>4 DEF account
  <2> QED BY <1>1, <2>2, <2>3, <2>4 DEF ChargeKey
<1>2. CASE LookUp(r)           BY <1>2 DEF LookUp, AccountUnchanged
<1>3. CASE Guard(r)            BY <1>3 DEF Guard
<1>4. CASE Insert(r)           BY <1>4 DEF Insert
<1>5. CASE TransactionFails(r) BY <1>5 DEF TransactionFails
<1>6. CASE Abort(r)
  <2>1. KeyOf[r] \notin Counted'
        BY <1>6 DEF Abort, Reverse, account, Counted
  <2> QED BY <1>6, <2>1 DEF Abort
<1>7. CASE Stop(r)             BY <1>7 DEF Stop
<1> QED BY <1>1, <1>2, <1>3, <1>4, <1>5, <1>6, <1>7 DEF RequestStep, Step

LEMMA RequestOnAccount ==
    ASSUME Charged, NEW r \in Requests, RequestStep(r)
    PROVE  OnAccount(KeyOf[r])
<1> USE RequestAssumption DEF OnAccount, ContextUnchanged, AccountUnchanged, ledgerVars,
        Charged, Holding
<1>1. CASE ChargeKey(r)
      BY <1>1 DEF ChargeKey, Charge
<1>2. CASE LookUp(r) \/ Guard(r) \/ Stop(r)
      BY <1>2 DEF LookUp, Guard, Stop
<1>3. CASE Insert(r) \/ TransactionFails(r)
  <2>1. /\ step[r] \in {"guard", "insert"} /\ ContextUnchanged /\ UNCHANGED account
        /\ bound' \in {bound, bound \cup {KeyOf[r]}}
        BY <1>3 DEF Insert, TransactionFails
  <2>2. CASE KeyOf[r] \in bound
        BY <2>1, <2>2
  <2>3. CASE KeyOf[r] \notin bound
        BY <2>1, <2>3 DEF Bind
  <2> QED BY <2>2, <2>3
<1>4. CASE Abort(r)
      BY <1>4 DEF Abort, Refund
<1> QED BY <1>1, <1>2, <1>3, <1>4 DEF RequestStep, Step

\* No step takes a row away, or a job, or a reversal.
LEMMA AccountGrows ==
    ASSUME LedgerTypeOK, [LedgerNext]_ledgerVars
    PROVE  /\ \A k \in Keys : ledger[k] # "none" => ledger'[k] = ledger[k]
           /\ bound \subseteq bound' /\ reversed \subseteq reversed'
<1> USE DEF LedgerTypeOK
<1>1. ASSUME NEW k \in Keys, Charge(k)
      PROVE  /\ \A i \in Keys : ledger[i] # "none" => ledger'[i] = ledger[i]
             /\ UNCHANGED <<bound, reversed>>
      BY <1>1 DEF Charge, Accepts, Record
<1>2. ASSUME NEW k \in Keys, NEW caller, Reverse(k, caller)
      PROVE  UNCHANGED ledger /\ reversed \subseteq reversed'
      BY <1>2 DEF Reverse, account
<1>3. ASSUME NEW k \in Keys, NEW caller, Refund(k, caller) \/ SweepRefund(k)
      PROVE  UNCHANGED <<ledger, bound>> /\ reversed \subseteq reversed'
      BY <1>2, <1>3 DEF Refund, SweepRefund, account
<1>4. ASSUME NEW k \in Keys, Bind(k) \/ Age(k)
      PROVE  UNCHANGED <<ledger, reversed>> /\ bound \subseteq bound'
      BY <1>4 DEF Bind, Age, account
<1>5. SweepRead \/ Environment \/ UNCHANGED ledgerVars => UNCHANGED <<ledger, bound, reversed>>
      BY DEF SweepRead, Environment, Grant, NextDay, Launch, ledgerVars, account
<1> QED BY <1>1, <1>3, <1>4, <1>5 DEF LedgerNext, Sweep
-----------------------------------------------------------------------------
(***************************************************************************)
(* JobAdmission implements CreditLedger.                                   *)
(***************************************************************************)
Admitted == LedgerTypeOK /\ RequestsOK /\ Charged

LEMMA StepLedger ==
    ASSUME Admitted, [Next]_vars
    PROVE  [LedgerNext]_ledgerVars
<1>1. ASSUME NEW r \in Requests, RequestStep(r) PROVE [LedgerNext]_ledgerVars
  <2>1. KeyOf[r] \in Keys
        BY RequestAssumption
  <2> QED BY <1>1, <2>1, RequestOnAccount DEF OnAccount, LedgerNext, Admitted
<1>2. CASE Background(Sweep) \/ Background(Environment)
      BY <1>2 DEF Background, LedgerNext
<1>3. ASSUME NEW k \in Keys, Background(AgeIdle(k)) PROVE LedgerNext
      BY <1>3 DEF Background, AgeIdle, LedgerNext
<1>4. CASE UNCHANGED vars
      BY <1>4 DEF vars
<1> QED BY <1>1, <1>2, <1>3, <1>4 DEF Next, RequestStep

LEMMA RequestsMove ==
    ASSUME Admitted, [Next]_vars
    PROVE  (\E r \in Requests : Moved(r)) \/ UNCHANGED <<step, answer, faults>>
<1>1. ASSUME NEW r \in Requests, RequestStep(r) PROVE Moved(r)
      BY <1>1, RequestMoves DEF Admitted
<1>2. ASSUME ~\E r \in Requests : RequestStep(r) PROVE UNCHANGED <<step, answer, faults>>
      BY <1>2 DEF Next, RequestStep, Background, vars
<1> QED BY <1>1, <1>2

LEMMA StepAdmitted ==
    ASSUME Admitted, [Next]_vars
    PROVE  Admitted'
<1> USE DEF Admitted
<1>1. LedgerTypeOK'
      BY StepLedger, StepLedgerTypeOK
<1>2. \A k \in Keys : ledger[k] # "none" => ledger'[k] # "none"
      BY StepLedger, AccountGrows
<1>3. RequestsOK' /\ Charged'
  <2>1. CASE UNCHANGED <<step, answer, faults>>
        BY <1>2, <2>1, RequestAssumption DEF RequestsOK, Charged
  <2>2. ASSUME NEW r \in Requests, Moved(r) PROVE RequestsOK' /\ Charged'
    <3>1. RequestsOK'
          BY <2>2, FaultAssumption DEF Moved, Answered, RequestsOK
    <3>2. Charged'
          BY <1>2, <2>2, RequestAssumption DEF Moved, RequestsOK, Charged
    <3> QED BY <3>1, <3>2
  <2> QED BY <2>1, <2>2, RequestsMove
<1> QED BY <1>1, <1>3

LEMMA InitAdmitted == Init => Admitted /\ LedgerInit
BY InitLedgerTypeOK, FaultAssumption DEF Init, Admitted, RequestsOK, Charged, Holding

LEMMA AlwaysAdmitted == SafeSpec => []Admitted
<1> QED BY InitAdmitted, StepAdmitted, PTL DEF SafeSpec

(***************************************************************************)
(* Requests, their failures and crashes use the account only as the ledger *)
(* allows: every behaviour of the admission is one of CreditLedger's.      *)
(***************************************************************************)
THEOREM AdmissionUsesLedger == SafeSpec => LedgerSpec
<1> QED BY InitAdmitted, StepLedger, AlwaysAdmitted, PTL DEF SafeSpec, LedgerSpec

(***************************************************************************)
(* Type correctness of the account and of the requests.                    *)
(***************************************************************************)
THEOREM AdmissionTypeCorrect == SafeSpec => []AdmissionTypeOK
<1>1. Admitted => AdmissionTypeOK
      BY FaultAssumption DEF Admitted, RequestsOK, Holding, AdmissionTypeOK
<1> QED BY <1>1, AlwaysAdmitted, PTL
-----------------------------------------------------------------------------
(***************************************************************************)
(* What the clients are told.                                              *)
(***************************************************************************)
LEMMA StepAnswer ==
    ASSUME Admitted, AnswerNamesJob, [Next]_vars
    PROVE  AnswerNamesJob'
<1> USE DEF AnswerNamesJob
<1>1. bound \subseteq bound'
      BY StepLedger, AccountGrows DEF Admitted
<1>2. CASE UNCHANGED <<step, answer, faults>>
      BY <1>1, <1>2
<1>3. ASSUME NEW r \in Requests, Moved(r) PROVE AnswerNamesJob'
      BY <1>1, <1>3 DEF Moved, Answered, Admitted, RequestsOK
<1> QED BY <1>2, <1>3, RequestsMove

(***************************************************************************)
(* A client is told of a job only when one is committed on its key's       *)
(* charge, whichever of several requests committed it                      *)
(* (createQueuedProviderJob answers a lost race with the first job).       *)
(***************************************************************************)
THEOREM AnswersNameJobs == SafeSpec => []AnswerNamesJob
<1>1. Init => AnswerNamesJob
      BY DEF Init, AnswerNamesJob
<1> QED BY <1>1, AlwaysAdmitted, StepAnswer, PTL DEF SafeSpec

(***************************************************************************)
(* A debit that counts and has no job is in the hands of a request, or a   *)
(* fault took it out of them. The environment makes no debits: only a      *)
(* request that goes on to hold the charge does.                           *)
(***************************************************************************)
InHands(k) ==
    \E r \in Requests : /\ KeyOf[r] = k
                        /\ \/ step[r] \in Holding
                           \/ step[r] = "done" /\ answer[r] = "error" /\ faults < Faults

DebitsInHands == \A k \in Keys : k \in Counted \ bound => InHands(k)

LEMMA NewDebits ==
    ASSUME Admitted, [Next]_vars, NEW k \in Keys, k \in Counted' \ bound', k \notin Counted \ bound
    PROVE  \E r \in Requests : KeyOf[r] = k /\ step'[r] \in Holding
<1> USE DEF Admitted, Counted
<1>1. ledger[k] # "debit"
      BY StepLedger, AccountGrows
<1>2. ledger'[k] = "debit"
      OBVIOUS
<1>3. PICK r \in Requests : RequestStep(r)
  <2>1. Background(Sweep) \/ Background(Environment) \/ UNCHANGED vars => UNCHANGED ledger
        BY DEF Background, Sweep, SweepRead, SweepRefund, Reverse, Environment, Grant, NextDay,
               Launch, vars, ledgerVars, account
  <2>2. ASSUME NEW i \in Keys, Background(AgeIdle(i)) PROVE UNCHANGED ledger
        BY <2>2 DEF Background, AgeIdle, Age, account
  <2> QED BY <1>1, <1>2, <2>1, <2>2 DEF Next, RequestStep
<1>4. ChargeKey(r)
      BY <1>1, <1>2, <1>3 DEF RequestStep, Step, LookUp, Guard, Insert, TransactionFails, Abort,
                              Stop, Reverse, AccountUnchanged, account
<1>5. Record(KeyOf[r]) /\ Goto(r, "guard")
      BY <1>1, <1>2, <1>4 DEF ChargeKey, account
<1>6. KeyOf[r] = k
      BY <1>1, <1>2, <1>5, RequestAssumption DEF Record, LedgerTypeOK
<1> QED BY <1>5, <1>6 DEF Goto, Holding, RequestsOK

LEMMA StepHands ==
    ASSUME Admitted, DebitsInHands, [Next]_vars
    PROVE  DebitsInHands'
<1> SUFFICES ASSUME NEW k \in Keys, k \in Counted' \ bound' PROVE InHands(k)'
    BY DEF DebitsInHands
<1>1. CASE k \notin Counted \ bound
      BY <1>1, NewDebits DEF InHands
<1>2. CASE k \in Counted \ bound
  <2>1. PICK o \in Requests : /\ KeyOf[o] = k
                              /\ \/ step[o] \in Holding
                                 \/ step[o] = "done" /\ answer[o] = "error" /\ faults < Faults
        BY <1>2 DEF DebitsInHands, InHands
  <2>2. CASE UNCHANGED <<step, answer, faults>>
        BY <2>1, <2>2 DEF InHands
  <2>3. ASSUME NEW r \in Requests, Moved(r) PROVE InHands(k)'
    <3>1. faults' <= faults /\ faults \in Nat /\ faults' \in Int /\ faults <= Faults /\ Faults \in Nat
          BY <2>3, FaultAssumption DEF Moved, Admitted, RequestsOK
    <3>2. CASE r # o
      <4>1. step'[o] = step[o] /\ answer'[o] = answer[o]
            BY <2>3, <3>2 DEF Moved, Admitted, RequestsOK
      <4> QED BY <2>1, <3>1, <4>1 DEF InHands
    <3>3. CASE r = o
      <4>1. step[o] \in Holding
            BY <2>1, <2>3, <3>3 DEF Moved
      <4>2. CASE step'[o] \in Holding
            BY <2>1, <4>2 DEF InHands
      <4>3. CASE step'[o] = "done" /\ Answered(o)
        <5>1. answer'[o] = "error" /\ faults' < faults
              BY <2>1, <4>1, <4>3 DEF Answered, Holding
        <5>2. faults' < Faults
              BY <3>1, <5>1
        <5> QED BY <2>1, <4>3, <5>1, <5>2 DEF InHands
      <4> QED BY <2>3, <3>3, <4>2, <4>3 DEF Moved
    <3> QED BY <3>2, <3>3
  <2> QED BY <2>2, <2>3, RequestsMove
<1> QED BY <1>1, <1>2

(***************************************************************************)
(* Once every request for a key has its answer, a debit without a job is   *)
(* the work of a fault: with no failing statement and no crash every       *)
(* charge has its job or is given back, whatever else the requests, the    *)
(* sweep and the clock do in between.                                      *)
(***************************************************************************)
THEOREM NoDebitIsStranded == SafeSpec => []NoStrandedDebit
<1>1. Init => DebitsInHands
      BY DEF Init, LedgerInit, DebitsInHands, Counted
<1>2. DebitsInHands => NoStrandedDebit
      BY DEF DebitsInHands, InHands, NoStrandedDebit, Holding
<1> QED BY <1>1, <1>2, AlwaysAdmitted, StepHands, PTL DEF SafeSpec

(***************************************************************************)
(* What holds of every account holds of this one: the balance is what was  *)
(* bought less the standing rows wherever every charge is paid for, loses  *)
(* no credits elsewhere and is never overdrawn, the caps hold, and the     *)
(* sweep spares the jobs the requests commit.                              *)
(***************************************************************************)
THEOREM AdmissionKeepsBooks ==
    SafeSpec => /\ [](BalanceMatchesLedger /\ NeverOverdrawn /\ CapsHold)
                /\ SweepSparesJobs
<1> QED BY AdmissionUsesLedger, BalanceIsTheLedger, NeverBelowZero, CapsAlwaysHold, SweepIsSafe, PTL
=============================================================================
