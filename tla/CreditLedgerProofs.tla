------------------------ MODULE CreditLedgerProofs ------------------------
(***************************************************************************)
(* Theorems about CreditLedger, for any set of operations and prices, any  *)
(* caps and any number of days and purchases.                              *)
(***************************************************************************)
EXTENDS CreditLedger, SumTheorems

LEMMA RecordTypeOK ==
    ASSUME LedgerTypeOK, NEW k \in Keys, Record(k),
           UNCHANGED <<bound, switches, today, aged, suspects, granted>>
    PROVE  LedgerTypeOK'
<1>1. Cost[k] \in Nat
      BY PriceAssumption
<1> QED BY <1>1 DEF LedgerTypeOK, Record

LEMMA ReverseTypeOK ==
    ASSUME LedgerTypeOK, NEW k \in Keys, NEW caller, Reverse(k, caller),
           UNCHANGED <<bound, switches, today, aged, granted>>, suspects' \subseteq suspects
    PROVE  LedgerTypeOK'
<1>1. Cost[k] \in Nat
      BY PriceAssumption
<1> QED BY <1>1 DEF LedgerTypeOK, Reverse, account

LEMMA StepLedgerTypeOK ==
    ASSUME LedgerTypeOK, [LedgerNext]_ledgerVars
    PROVE  LedgerTypeOK'
<1>1. ASSUME NEW k \in Keys, Charge(k) PROVE LedgerTypeOK'
      BY <1>1, RecordTypeOK DEF Charge
<1>2. ASSUME NEW k \in Keys, Bind(k) \/ Age(k) PROVE LedgerTypeOK'
      BY <1>2 DEF Bind, Age, account, LedgerTypeOK
<1>3. ASSUME NEW k \in Keys, NEW caller \in {"api", "worker"}, Refund(k, caller)
      PROVE  LedgerTypeOK'
      BY <1>3, ReverseTypeOK DEF Refund
<1>4. CASE SweepRead
      BY <1>4 DEF SweepRead, account, LedgerTypeOK
<1>5. ASSUME NEW k \in Keys, SweepRefund(k) PROVE LedgerTypeOK'
  <2>1. CASE Orphan(k)
        BY <1>5, <2>1, ReverseTypeOK DEF SweepRefund
  <2>2. CASE ~Orphan(k)
        BY <1>5, <2>2 DEF SweepRefund, account, LedgerTypeOK
  <2> QED BY <2>1, <2>2
<1>6. CASE Grant
      BY <1>6, NumberAssumption DEF Grant, LedgerTypeOK
<1>7. CASE NextDay \/ Launch
  <2>1. CASE NextDay
        BY <2>1 DEF NextDay, account, LedgerTypeOK
  <2>2. CASE Launch
    <3>1. switches' \in [opening : SUBSET Switches, now : SUBSET Switches]
          BY <2>2 DEF Launch, LedgerTypeOK, Switches
    <3> QED BY <2>2, <3>1 DEF Launch, account, LedgerTypeOK
  <2> QED BY <1>7, <2>1, <2>2
<1>8. CASE UNCHANGED ledgerVars
      BY <1>8 DEF ledgerVars, account, LedgerTypeOK
<1> QED BY <1>1, <1>2, <1>3, <1>4, <1>5, <1>6, <1>7, <1>8
        DEF LedgerNext, Sweep, Environment

LEMMA InitLedgerTypeOK == LedgerInit => LedgerTypeOK
BY NumberAssumption, SwitchAssumption DEF LedgerInit, LedgerTypeOK

(***************************************************************************)
(* Type correctness of the account, under every mix of operations.         *)
(***************************************************************************)
THEOREM LedgerTypeCorrect == LedgerSpec => []LedgerTypeOK
<1> QED BY InitLedgerTypeOK, StepLedgerTypeOK, PTL DEF LedgerSpec
-----------------------------------------------------------------------------
(***************************************************************************)
(* The balance never goes below zero: the only debit is conditional        *)
(* (chargeWorkspaceCredits), in every deployment.                          *)
(***************************************************************************)
THEOREM NeverBelowZero == LedgerSpec => []NeverOverdrawn
<1>1. LedgerInit => NeverOverdrawn
      BY NumberAssumption DEF LedgerInit, NeverOverdrawn
<1>2. ASSUME LedgerTypeOK, NeverOverdrawn, [LedgerNext]_ledgerVars
      PROVE  NeverOverdrawn'
  <2> USE DEF NeverOverdrawn, LedgerTypeOK
  <2>1. ASSUME NEW k \in Keys, Charge(k) PROVE NeverOverdrawn'
    <3>1. CASE k \in Free \/ ChargesInternally
          BY <1>2, <2>1, <3>1 DEF Charge, Record
    <3>2. CASE k \notin Free /\ ~ChargesInternally
      <4>1. balance >= Cost[k] /\ Cost[k] \in Nat
            BY <2>1, <3>2, PriceAssumption DEF Charge, Accepts, Affordable
      <4>2. balance' = balance - Cost[k]
            BY <2>1, <3>2 DEF Charge, Record
      <4> QED BY <1>2, <4>1, <4>2
    <3> QED BY <3>1, <3>2
  <2>2. ASSUME NEW k \in Keys, NEW caller, Reverse(k, caller) PROVE NeverOverdrawn'
        BY <1>2, <2>2, PriceAssumption DEF Reverse, account
  <2>3. CASE UNCHANGED balance
        BY <1>2, <2>3
  <2>4. ASSUME NEW k \in Keys, SweepRefund(k) PROVE NeverOverdrawn'
        BY <2>2, <2>3, <2>4 DEF SweepRefund, account
  <2>5. CASE Grant
        BY <1>2, <2>5, NumberAssumption DEF Grant
  <2>6. ASSUME NEW k \in Keys, NEW caller \in {"api", "worker"}, Refund(k, caller)
        PROVE  NeverOverdrawn'
        BY <2>2, <2>6 DEF Refund
  <2>7. ASSUME NEW k \in Keys, Bind(k) \/ Age(k) PROVE UNCHANGED balance
        BY <2>7 DEF Bind, Age, account
  <2>8. SweepRead \/ NextDay \/ Launch \/ UNCHANGED ledgerVars => UNCHANGED balance
        BY DEF SweepRead, NextDay, Launch, ledgerVars, account
  <2> QED BY <1>2, <2>1, <2>3, <2>4, <2>5, <2>6, <2>7, <2>8
          DEF LedgerNext, Sweep, Environment
<1> QED BY <1>1, <1>2, LedgerTypeCorrect, PTL DEF LedgerSpec
-----------------------------------------------------------------------------
\* Where balances move at all, every debit row moved one.
DebitsWereTaken == "internal" \notin switches.now => \A k \in Keys : ledger[k] = "debit" => k \in debited

Sound == /\ LedgerTypeOK /\ Agrees(switches.opening) /\ Agrees(switches.now)
         /\ DebitsWereTaken /\ CreditsOnlyWhatWasDebited

LEMMA ReverseSound ==
    ASSUME Sound, NEW k \in Keys, NEW caller, Reverse(k, caller), UNCHANGED switches
    PROVE  DebitsWereTaken' /\ CreditsOnlyWhatWasDebited'
<1> USE DEF Sound, Agrees, DebitsWereTaken, CreditsOnlyWhatWasDebited, Reverse, account,
            RefundsInternally, Internal
<1>1. CASE ledger[k] # "debit" \/ k \in reversed
      BY <1>1
<1>2. CASE ledger[k] = "debit" /\ k \notin reversed
      BY <1>2
<1> QED BY <1>1, <1>2

Agreed == Agrees(switches.opening) /\ Agrees(switches.now)

LEMMA StepSound ==
    ASSUME Sound, [LedgerNext]_ledgerVars
    PROVE  Sound'
<1> USE DEF Sound, Agreed
<1>1. LedgerTypeOK'
      BY StepLedgerTypeOK
<1> SUFFICES Agreed' /\ DebitsWereTaken' /\ CreditsOnlyWhatWasDebited'
      BY <1>1
<1>2. ASSUME NEW k \in Keys, Charge(k)
      PROVE  Agreed' /\ DebitsWereTaken' /\ CreditsOnlyWhatWasDebited'
      BY <1>2 DEF Charge, Record, Agrees, DebitsWereTaken, CreditsOnlyWhatWasDebited,
                  ChargesInternally, Beta, Internal, FirstParty, LedgerTypeOK
<1>3. ASSUME NEW k \in Keys, NEW caller \in {"api", "worker"}, Refund(k, caller)
      PROVE  Agreed' /\ DebitsWereTaken' /\ CreditsOnlyWhatWasDebited'
      BY <1>3, ReverseSound DEF Refund, Agrees
<1>4. CASE /\ UNCHANGED <<ledger, debited, credited>>
           /\ switches' \in {switches, [switches EXCEPT !.now = @ \cup {"enforced"}]}
      BY <1>4 DEF Agrees, DebitsWereTaken, CreditsOnlyWhatWasDebited, LedgerTypeOK
<1>5. ASSUME NEW k \in Keys, SweepRefund(k)
      PROVE  Agreed' /\ DebitsWereTaken' /\ CreditsOnlyWhatWasDebited'
  <2>1. CASE Orphan(k)
        BY <1>5, <2>1, ReverseSound DEF SweepRefund, Agrees
  <2>2. CASE ~Orphan(k)
        BY <1>4, <1>5, <2>2 DEF SweepRefund, account
  <2> QED BY <2>1, <2>2
<1>6. ASSUME NEW k \in Keys, Bind(k) \/ Age(k)
      PROVE  UNCHANGED <<ledger, debited, credited, switches>>
      BY <1>6 DEF Bind, Age, account
<1>7. SweepRead \/ NextDay \/ Grant \/ UNCHANGED ledgerVars
      => UNCHANGED <<ledger, debited, credited, switches>>
      BY DEF SweepRead, NextDay, Grant, ledgerVars, account
<1>8. CASE Launch
      BY <1>4, <1>8 DEF Launch, account
<1> QED BY <1>2, <1>3, <1>4, <1>5, <1>6, <1>7, <1>8 DEF LedgerNext, Sweep, Environment

(***************************************************************************)
(* "Owner-mode refunds restore cap units without changing the workspace    *)
(* balance" (docs/RUNBOOK.md), and no other refund makes credits either,   *)
(* in every deployment that agrees with itself. The run                    *)
(* found_minted_credits shows that the premise cannot be dropped.          *)
(***************************************************************************)
THEOREM RefundsMakeNoCredits == LedgerSpec => []AgreeingRefundsMakeNoCredits
<1> DEFINE Inv == LedgerTypeOK /\ (Agrees(switches.opening) => Sound)
<1>1. LedgerInit => Inv
      BY InitLedgerTypeOK DEF LedgerInit, Sound, DebitsWereTaken, CreditsOnlyWhatWasDebited
<1>2. Inv /\ [LedgerNext]_ledgerVars => Inv'
  <2> SUFFICES ASSUME Inv, [LedgerNext]_ledgerVars PROVE Inv'
      OBVIOUS
  <2>1. LedgerTypeOK'
        BY StepLedgerTypeOK
  <2>2. switches'.opening = switches.opening
    <3>1. UNCHANGED switches \/ Launch
          BY DEF LedgerNext, Charge, Bind, Age, Refund, Sweep, SweepRead, SweepRefund,
                 Environment, Grant, NextDay, ledgerVars
    <3> QED BY <3>1 DEF Launch, LedgerTypeOK
  <2>3. CASE Agrees(switches.opening)
        BY <2>1, <2>3, StepSound
  <2>4. CASE ~Agrees(switches.opening)
        BY <2>1, <2>2, <2>4
  <2> QED BY <2>3, <2>4
<1>3. Inv => AgreeingRefundsMakeNoCredits
      BY DEF Sound, AgreeingRefundsMakeNoCredits
<1> QED BY <1>1, <1>2, <1>3, PTL DEF LedgerSpec
-----------------------------------------------------------------------------
(***************************************************************************)
(* The orphan sweep never reverses the charge of a committed job, however  *)
(* old the read it works from (refundOrphanedQueueBoundMediaCharges reads  *)
(* each candidate again under the locks).                                  *)
(***************************************************************************)
THEOREM SweepIsSafe == LedgerSpec => SweepSparesJobs
<1> DEFINE Spares == \A k \in Keys : k \in suspects /\ k \notin suspects' /\ k \in bound
                                       => (k \in reversed' => k \in reversed)
<1>1. ASSUME LedgerNext PROVE Spares
  <2> SUFFICES ASSUME NEW k \in Keys, k \in suspects, k \notin suspects', k \in bound,
                      k \in reversed'
               PROVE  k \in reversed
      OBVIOUS
  <2>1. PICK s \in Keys : SweepRefund(s)
        BY <1>1 DEF LedgerNext, Sweep, Environment, Charge, Bind, Age, Refund, SweepRead,
                    Grant, NextDay, Launch
  <2>2. s = k
        BY <2>1 DEF SweepRefund
  <2> QED BY <2>1, <2>2 DEF SweepRefund, Orphan, account
<1>2. [LedgerNext]_ledgerVars => [Spares]_ledgerVars
      BY <1>1
<1> QED BY <1>2, PTL DEF LedgerSpec, SweepSparesJobs
-----------------------------------------------------------------------------
(***************************************************************************)
(* The books. Debit rows are finitely many whatever the set of operations, *)
(* each row that moved the balance is one of them, and so is each that was *)
(* given back: this is what makes the sums over them change by one price   *)
(* at a time.                                                              *)
(***************************************************************************)
Rows == {k \in Keys : ledger[k] = "debit"}

BooksOK == /\ IsFiniteSet(Rows)
           /\ debited \subseteq Rows /\ reversed \subseteq Rows
           /\ credited \subseteq reversed

\* What a step does to the account, and with what.
Moves == \/ \E k \in Keys : Charge(k)
         \/ \E k \in Keys, caller \in {"api", "worker"} :
               Reverse(k, caller) /\ UNCHANGED <<switches, today, granted>>
         \/ Grant
         \/ UNCHANGED <<account, granted>> /\ (NextDay \/ Launch \/ UNCHANGED <<switches, today>>)

LEMMA LedgerMoves == [LedgerNext]_ledgerVars => Moves
<1> SUFFICES ASSUME [LedgerNext]_ledgerVars PROVE Moves
    OBVIOUS
<1>1. ASSUME NEW k \in Keys, Charge(k) \/ Bind(k) \/ Age(k) PROVE Moves
      BY <1>1 DEF Bind, Age, Moves
<1>2. ASSUME NEW k \in Keys, NEW caller \in {"api", "worker"}, Refund(k, caller) PROVE Moves
      BY <1>2 DEF Refund, Moves
<1>3. ASSUME NEW k \in Keys, SweepRefund(k) PROVE Moves
      BY <1>3 DEF SweepRefund, Moves
<1>4. SweepRead \/ Grant \/ NextDay \/ Launch \/ UNCHANGED ledgerVars => Moves
      BY DEF SweepRead, NextDay, Launch, ledgerVars, Moves
<1> QED BY <1>1, <1>2, <1>3, <1>4 DEF LedgerNext, Sweep, Environment

LEMMA TotalIsSum == \A f, S : Total(f, S) = SumOver(f, S)
BY DEF Total, SumOver

LEMMA Prices == \A S \in SUBSET Keys : \A k \in S : Cost[k] \in Nat /\ Units[k] \in Nat
BY PriceAssumption

LEMMA StepBooksOK ==
    ASSUME LedgerTypeOK, BooksOK, Moves
    PROVE  BooksOK'
<1> USE DEF BooksOK, Rows, LedgerTypeOK
<1>1. ASSUME NEW k \in Keys, Charge(k) PROVE BooksOK'
  <2> DEFINE R == Rows
  <2>1. Rows' = R \/ Rows' = R \cup {k}
    <3>1. CASE k \in Free  BY <1>1, <3>1 DEF Charge, Accepts, Record
    <3>2. CASE k \notin Free BY <1>1, <3>2 DEF Charge, Record
    <3> QED BY <3>1, <3>2
  <2>2. IsFiniteSet(R)
        OBVIOUS
  <2>3. debited' \subseteq debited \cup {k} /\ (k \in Free => debited' = debited)
        /\ UNCHANGED <<reversed, credited>>
        BY <1>1 DEF Charge, Record
  <2>4. k \notin Free => k \in Rows'
        BY <1>1 DEF Charge, Record
  <2>5. debited \subseteq R /\ reversed \subseteq R
        OBVIOUS
  <2> HIDE DEF R, Rows
  <2>6. IsFiniteSet(Rows')
        BY <2>1, <2>2, FS_AddElement
  <2> QED BY <2>1, <2>3, <2>4, <2>5, <2>6
<1>2. ASSUME NEW k \in Keys, NEW caller \in {"api", "worker"}, Reverse(k, caller) PROVE BooksOK'
      BY <1>2 DEF Reverse, account
<1>3. CASE Grant
      BY <1>3 DEF Grant
<1>4. CASE UNCHANGED account
      BY <1>4 DEF account
<1> QED BY <1>1, <1>2, <1>3, <1>4 DEF Moves

LEMMA BooksAreFinite == ASSUME BooksOK PROVE IsFiniteSet(debited) /\ IsFiniteSet(credited)
BY FS_Subset DEF BooksOK

\* What moved the balance, by the histories of the charges and reversals.
BalanceMatchesHistory ==
    balance = Start + granted - Total(Cost, debited) + Total(Cost, credited)

LEMMA StepBalance ==
    ASSUME LedgerTypeOK, BooksOK, BalanceMatchesHistory, Moves
    PROVE  BalanceMatchesHistory'
<1> DEFINE S == Total(Cost, debited)
           C == Total(Cost, credited)
<1>1. S \in Int /\ C \in Int /\ balance = Start + granted - S + C /\ granted \in Nat /\ Start \in Nat
  <2>1. \A k \in debited \cup credited : Cost[k] \in Int
        BY Prices DEF LedgerTypeOK
  <2> QED BY <2>1, BooksAreFinite, SumType, TotalIsSum, NumberAssumption
          DEF BalanceMatchesHistory, LedgerTypeOK
<1>2. ASSUME NEW k \in Keys, Charge(k) PROVE BalanceMatchesHistory'
  <2>1. CASE UNCHANGED <<balance, debited>>
        BY <1>2, <2>1 DEF Charge, Record, BalanceMatchesHistory
  <2>2. CASE balance' = balance - Cost[k] /\ debited' = debited \cup {k}
    <3>1. k \notin debited
          BY <1>2 DEF Charge, Accepts, BooksOK, Rows
    <3>2. Cost[k] \in Int /\ \A x \in debited : Cost[x] \in Int
          BY Prices DEF LedgerTypeOK
    <3>3. Total(Cost, debited') = S + Cost[k]
          BY <2>2, <3>1, <3>2, BooksAreFinite, SumAdd, TotalIsSum
    <3>4. credited' = credited /\ granted' = granted
          BY <1>2 DEF Charge, Record
    <3> HIDE DEF S, C
    <3>5. balance' = Start + granted' - Total(Cost, debited') + C
          BY <1>1, <2>2, <3>2, <3>3, <3>4
    <3> QED BY <3>4, <3>5 DEF BalanceMatchesHistory, C
  <2> QED BY <1>2, <2>1, <2>2 DEF Charge, Record
<1>3. ASSUME NEW k \in Keys, NEW caller \in {"api", "worker"}, Reverse(k, caller), UNCHANGED granted
      PROVE BalanceMatchesHistory'
  <2>1. CASE UNCHANGED <<balance, debited, credited>>
        BY <1>3, <2>1 DEF BalanceMatchesHistory
  <2>2. CASE /\ balance' = balance + Cost[k] /\ credited' = credited \cup {k}
             /\ k \notin reversed /\ UNCHANGED debited
    <3>1. k \notin credited
          BY <2>2 DEF BooksOK
    <3>2. Cost[k] \in Int /\ \A x \in credited : Cost[x] \in Int
          BY Prices DEF LedgerTypeOK
    <3>3. Total(Cost, credited') = C + Cost[k]
          BY <2>2, <3>1, <3>2, BooksAreFinite, SumAdd, TotalIsSum
    <3> HIDE DEF S, C
    <3>5. balance' = Start + granted' - S + Total(Cost, credited')
          BY <1>1, <1>3, <2>2, <3>2, <3>3
    <3> QED BY <2>2, <3>5 DEF BalanceMatchesHistory, S
  <2> QED BY <1>3, <2>1, <2>2 DEF Reverse, account
<1>4. CASE Grant
  <2>1. balance' = balance + GrantSize /\ granted' = granted + GrantSize /\ GrantSize \in Nat
        BY <1>4, NumberAssumption DEF Grant
  <2>2. UNCHANGED <<debited, credited>>
        BY <1>4 DEF Grant
  <2> HIDE DEF S, C
  <2>3. balance' = Start + granted' - S + C
        BY <1>1, <2>1
  <2> QED BY <2>2, <2>3 DEF BalanceMatchesHistory, S, C
<1>5. CASE UNCHANGED <<account, granted>>
      BY <1>5 DEF account, BalanceMatchesHistory
<1> QED BY <1>2, <1>3, <1>4, <1>5 DEF Moves

\* How those histories lie to the rows. AUTH_MODE and the house's workspace
\* never change, so that neither charges from its balance, ever.
HistoryMatchesRows ==
    /\ Internal \/ FirstParty => debited = {}
    /\ Internal => credited = {}
    /\ ~(Internal \/ FirstParty) => credited = reversed
    /\ Bills(switches.opening) => Bills(switches.now) /\ debited = Rows

LEMMA StepHistory ==
    ASSUME LedgerTypeOK, BooksOK, HistoryMatchesRows, Moves
    PROVE  HistoryMatchesRows'
<1> USE DEF HistoryMatchesRows, LedgerTypeOK, Internal, FirstParty
<1>1. ASSUME NEW k \in Keys, Charge(k) PROVE HistoryMatchesRows'
  <2>1. UNCHANGED <<switches, reversed, credited>>
        BY <1>1 DEF Charge, Record
  <2>2. ledger[k] = "none" /\ ledger' = [ledger EXCEPT ![k] = IF k \in Free THEN "free" ELSE "debit"]
        BY <1>1 DEF Charge, Accepts, Record
  <2>3. Rows' = IF k \in Free THEN Rows ELSE Rows \cup {k}
        BY <2>2 DEF Rows
  <2>4. debited' = IF k \in Free \/ ChargesInternally THEN debited ELSE debited \cup {k}
        BY <1>1 DEF Charge, Record
  <2>5. Internal \/ FirstParty => ChargesInternally
        BY DEF ChargesInternally
  <2>6. Bills(switches.now) => ~ChargesInternally
        BY DEF Bills, ChargesInternally, Beta
  <2> QED BY <2>1, <2>3, <2>4, <2>5, <2>6
<1>2. ASSUME NEW k \in Keys, NEW caller \in {"api", "worker"}, Reverse(k, caller),
             UNCHANGED switches
      PROVE  HistoryMatchesRows'
      BY <1>2 DEF Reverse, account, RefundsInternally, Rows
<1>3. CASE Grant
      BY <1>3 DEF Grant, Rows
<1>4. CASE UNCHANGED account /\ UNCHANGED switches
      BY <1>4 DEF account, Rows
<1>5. CASE UNCHANGED account /\ Launch
  <2>1. switches'.opening = switches.opening
        /\ switches'.now = switches.now \cup {"enforced"}
        BY <1>5 DEF Launch
  <2> QED BY <1>5, <2>1 DEF account, Rows, Bills
<1> QED BY <1>1, <1>2, <1>3, <1>4, <1>5 DEF Moves, NextDay

\* The sums over histories against the sum over the rows.
LEMMA HistorySums ==
    ASSUME LedgerTypeOK, BooksOK, HistoryMatchesRows
    PROVE  /\ Total(Cost, debited) \in Nat /\ Total(Cost, credited) \in Nat
           /\ Total(Cost, Counted) \in Nat
           /\ Total(Cost, debited) <= Total(Cost, Counted) + Total(Cost, credited)
           /\ Bills(switches.opening)
                => Total(Cost, debited) = Total(Cost, Counted) + Total(Cost, credited)
<1>1. IsFiniteSet(Rows) /\ debited \subseteq Rows /\ credited \subseteq reversed
      /\ reversed \subseteq Rows /\ Counted = Rows \ reversed
      BY DEF BooksOK, Counted, Rows
<1>2. IsFiniteSet(debited) /\ IsFiniteSet(credited) /\ IsFiniteSet(Counted)
      BY <1>1, FS_Subset
<1>3. \A k \in Rows : Cost[k] \in Nat /\ Cost[k] \in Int
      BY PriceAssumption DEF Rows
<1>4. Total(Cost, debited) \in Nat /\ Total(Cost, credited) \in Nat /\ Total(Cost, Counted) \in Nat
      BY <1>1, <1>2, <1>3, SumType, TotalIsSum
<1>5. Total(Cost, Counted \cup credited) = Total(Cost, Counted) + Total(Cost, credited)
      BY <1>1, <1>2, <1>3, SumDisjoint, TotalIsSum
<1>6. IsFiniteSet(Counted \cup credited)
      BY <1>2, FS_Union
<1>7. debited \subseteq Counted \cup credited
  <2>1. CASE debited = {}
        BY <2>1
  <2>2. CASE debited # {}
        BY <1>1, <2>2 DEF HistoryMatchesRows
  <2> QED BY <2>1, <2>2
<1>8. Total(Cost, debited) <= Total(Cost, Counted \cup credited)
      BY <1>1, <1>3, <1>6, <1>7, SumMonotone, TotalIsSum
<1>9. ASSUME Bills(switches.opening) PROVE debited = Counted \cup credited
      BY <1>1, <1>9 DEF HistoryMatchesRows, Bills, Internal, FirstParty
<1> QED BY <1>4, <1>5, <1>8, <1>9

LEMMA BalanceFromHistory ==
    ASSUME LedgerTypeOK, BooksOK, HistoryMatchesRows, BalanceMatchesHistory
    PROVE  BalanceMatchesLedger
<1> DEFINE S == Total(Cost, debited)
           C == Total(Cost, credited)
           R == Total(Cost, Counted)
<1>1. balance = Start + granted - S + C /\ Start \in Nat /\ granted \in Nat
      BY NumberAssumption DEF BalanceMatchesHistory, LedgerTypeOK
<1>2. S \in Nat /\ C \in Nat /\ R \in Nat /\ S <= R + C
      /\ (Bills(switches.opening) => S = R + C)
      BY HistorySums
<1>3. ASSUME Internal PROVE S = 0 /\ C = 0
      BY <1>3, SumEmpty, TotalIsSum DEF HistoryMatchesRows
<1> HIDE DEF S, C
<1>4. balance >= Start + granted - R
      BY <1>1, <1>2
<1>5. Bills(switches.opening) => balance = Start + granted - R
      BY <1>1, <1>2
<1>6. Internal => balance = Start + granted
      BY <1>1, <1>3
<1> QED BY <1>4, <1>5, <1>6 DEF BalanceMatchesLedger

(***************************************************************************)
(* The balance against the rows (credit-charge.ts): where every charge is  *)
(* paid for, it is what was bought less the debit rows no reversal row     *)
(* cancels, whatever replays, concurrent refunds and the sweep do; an      *)
(* internal deployment never moves it; and in every deployment, also those *)
(* where found_minted_credits shows credits being made, none is lost.      *)
(***************************************************************************)
THEOREM BalanceIsTheLedger == LedgerSpec => []BalanceMatchesLedger
<1> DEFINE Inv == LedgerTypeOK /\ BooksOK /\ HistoryMatchesRows /\ BalanceMatchesHistory
<1>1. LedgerInit => Inv
  <2> SUFFICES ASSUME LedgerInit PROVE Inv
      OBVIOUS
  <2>1. Rows = {}
        BY DEF LedgerInit, Rows
  <2>2. BooksOK
        BY <2>1, FS_EmptySet DEF LedgerInit, BooksOK
  <2>3. BalanceMatchesHistory
        BY SumEmpty, TotalIsSum, NumberAssumption DEF LedgerInit, BalanceMatchesHistory
  <2>4. HistoryMatchesRows
        BY <2>1 DEF LedgerInit, HistoryMatchesRows
  <2> QED BY <2>2, <2>3, <2>4, InitLedgerTypeOK
<1>2. Inv /\ [LedgerNext]_ledgerVars => Inv'
      BY LedgerMoves, StepLedgerTypeOK, StepBooksOK, StepHistory, StepBalance
<1>3. Inv => BalanceMatchesLedger
      BY BalanceFromHistory
<1> QED BY <1>1, <1>2, <1>3, PTL DEF LedgerSpec
-----------------------------------------------------------------------------
(***************************************************************************)
(* The caps. A charge adds its units to those of today and of this month,  *)
(* a reversal takes a part of them away, midnight and the first of the     *)
(* month empty the sums: no row is dated in the future. While the account  *)
(* is charged internally no row has moved the balance, so that what a      *)
(* launch finds above the plan's allowance was not debited.                *)
(***************************************************************************)
NoRowAhead      == \A k \in Keys : day[k] <= today
NothingDebited  == ChargesInternally => debited = {}
CapsInv         == LedgerTypeOK /\ BooksOK /\ NoRowAhead /\ NothingDebited /\ CapsHold

LEMMA MonthsGrow ==
    ASSUME NEW a \in Nat, NEW b \in Nat, a <= b
    PROVE  a \div DaysPerMonth <= b \div DaysPerMonth
<1> DEFINE d == DaysPerMonth
           q == a \div d
           r == b \div d
<1>1. d \in Nat /\ d > 0
      BY NumberAssumption
<1>2. q \in Int /\ r \in Int /\ d * q <= a /\ b < d * r + d
      BY <1>1
<1> HIDE DEF d, q, r
<1>3. ASSUME q >= r + 1 PROVE FALSE
  <2>1. d * q >= d * (r + 1)
        BY <1>1, <1>2, <1>3
  <2>2. d * (r + 1) = d * r + d
        BY <1>1, <1>2
  <2>3. d * q \in Int /\ d * r \in Int
        BY <1>1, <1>2
  <2> QED BY <1>1, <1>2, <2>1, <2>2, <2>3
<1>4. q <= r
      BY <1>2, <1>3
<1> QED BY <1>4 DEF d, q, r

LEMMA CapSums ==
    ASSUME BooksOK, NEW f \in [Keys -> Nat \ {0}], NEW S \in SUBSET Counted
    PROVE  /\ IsFiniteSet(S) /\ Total(f, S) \in Nat
           /\ \A T \in SUBSET S : Total(f, T) <= Total(f, S)
           /\ \A k \in Keys \ S : Total(f, S \cup {k}) = Total(f, S) + f[k]
<1>1. IsFiniteSet(S) /\ S \subseteq Keys
      BY FS_Subset DEF BooksOK, Rows, Counted
<1>2. \A k \in Keys : f[k] \in Nat /\ f[k] \in Int
      OBVIOUS
<1> QED BY <1>1, <1>2, SumType, SumMonotone, SumAdd, TotalIsSum

LEMMA SinceCounted == SinceDay \in SUBSET Counted /\ SinceMonth \in SUBSET Counted
BY DEF SinceDay, SinceMonth

\* A row of today's is added to the sums, or one at multiplier 0 to none.
LEMMA ChargeSums ==
    ASSUME LedgerTypeOK, BooksOK, NEW k \in Keys, Charge(k)
    PROVE  /\ k \notin SinceDay /\ k \notin SinceMonth
           /\ k \in Free => UNCHANGED <<SinceDay, SinceMonth>>
           /\ k \notin Free => /\ SinceDay' = SinceDay \cup {k}
                               /\ SinceMonth' = SinceMonth \cup {k}
<1> USE DEF Charge, Accepts, Record, SinceDay, SinceMonth, Counted, LedgerTypeOK, BooksOK, Rows
<1>1. ledger[k] = "none" /\ k \notin reversed
      OBVIOUS
<1>2. CASE k \in Free    BY <1>1, <1>2
<1>3. CASE k \notin Free BY <1>1, <1>3
<1> QED BY <1>1, <1>2, <1>3

LEMMA ChargeCaps ==
    ASSUME CapsInv, NEW k \in Keys, Charge(k)
    PROVE  CapsHold'
<1> DEFINE D == SinceDay
           M == SinceMonth
<1>1. /\ Total(Units, D) \in Nat /\ Total(Units, M) \in Nat /\ Total(Cost, D) \in Nat
      /\ k \notin Free => /\ Total(Units, D \cup {k}) = Total(Units, D) + Units[k]
                          /\ Total(Units, M \cup {k}) = Total(Units, M) + Units[k]
                          /\ Total(Cost, D \cup {k}) = Total(Cost, D) + Cost[k]
      BY CapSums, SinceCounted, ChargeSums, PriceAssumption DEF CapsInv
<1>2. UNCHANGED switches
      BY DEF Charge
<1>3. UNCHANGED <<Capped, Beta, ChargesInternally>>
      BY <1>2 DEF Capped, ChargesInternally, Beta, FirstParty, Internal
<1>4. CASE k \in Free
  <2>1. UNCHANGED <<SinceDay, SinceMonth, debited>>
        BY <1>4, ChargeSums DEF CapsInv, Charge, Record
  <2> QED BY <1>3, <2>1 DEF CapsInv, CapsHold
<1>5. CASE k \notin Free
  <2>1. SinceDay' = D \cup {k} /\ SinceMonth' = M \cup {k}
        BY <1>5, ChargeSums DEF CapsInv
  <2>2. Affordable(k)
        BY <1>5 DEF Charge, Accepts
  <2> HIDE DEF D, M
  <2>3. CASE ChargesInternally
    <3>1. WithinCaps(k)
          BY <2>2, <2>3 DEF Affordable
    <3> QED BY <1>1, <1>3, <1>5, <2>1, <2>3, <3>1 DEF WithinCaps, CapsHold, D, M
  <2>4. CASE ~ChargesInternally
    <3>1. WithinPlan(k)
          BY <2>2, <2>4 DEF Affordable
    <3>2. ~Capped /\ ~Beta
          BY <2>4 DEF Capped, ChargesInternally
    <3>3. Total(Units, SinceMonth') <= PlanCap
          BY <1>1, <1>5, <2>1, <3>1 DEF WithinPlan, M
    <3> QED BY <1>3, <2>4, <3>2, <3>3 DEF CapsHold
  <2> QED BY <2>3, <2>4
<1> QED BY <1>4, <1>5

\* Less counts against every cap than before.
LEMMA ShrinkingCaps ==
    ASSUME CapsInv, UNCHANGED <<switches, debited>>,
           SinceDay' \subseteq SinceDay, SinceMonth' \subseteq SinceMonth
    PROVE  CapsHold'
<1>1. UNCHANGED <<Capped, Beta, ChargesInternally>>
      BY DEF Capped, ChargesInternally, Beta, FirstParty, Internal
<1> DEFINE D == SinceDay'
           M == SinceMonth'
<1>2. D \in SUBSET SinceDay /\ M \in SUBSET SinceMonth
      OBVIOUS
<1>3. D \in SUBSET Counted /\ M \in SUBSET Counted
      BY <1>2, SinceCounted
<1> HIDE DEF D, M
<1>4. /\ Total(Units, D) <= Total(Units, SinceDay) /\ Total(Cost, D) <= Total(Cost, SinceDay)
      /\ Total(Units, M) <= Total(Units, SinceMonth)
      BY <1>2, CapSums, SinceCounted, PriceAssumption DEF CapsInv
<1>5. /\ Total(Units, D) \in Nat /\ Total(Cost, D) \in Nat /\ Total(Units, M) \in Nat
      /\ Total(Units, SinceDay) \in Nat /\ Total(Cost, SinceDay) \in Nat
      /\ Total(Units, SinceMonth) \in Nat
      BY <1>3, CapSums, SinceCounted, PriceAssumption DEF CapsInv
<1>6. CapsHold
      BY DEF CapsInv
<1> QED BY <1>1, <1>2, <1>4, <1>5, <1>6, NumberAssumption DEF CapsHold, D, M

LEMMA NextDayCaps ==
    ASSUME CapsInv, NextDay, UNCHANGED account
    PROVE  CapsHold'
<1> USE DEF CapsInv, LedgerTypeOK
<1>1. UNCHANGED <<Counted, switches, debited, day>> /\ today' = today + 1 /\ today \in Nat
      BY DEF NextDay, account, Counted
<1>2. \A k \in Keys : day[k] \in Nat /\ day[k] <= today
      BY DEF NoRowAhead
<1>3. SinceDay' = {}
  <2>1. \A k \in Keys : day[k] # today + 1
        BY <1>1, <1>2
  <2> QED BY <1>1, <2>1 DEF SinceDay, Counted
<1> DEFINE month(t) == t \div DaysPerMonth
<1>4. \A k \in Keys : month(day[k]) <= month(today)
      BY <1>1, <1>2, MonthsGrow
<1>5. month(today) <= month(today + 1)
      BY <1>1, MonthsGrow
<1>6. \A t \in Nat : month(t) \in Int
      BY NumberAssumption
<1>7. SinceMonth = {k \in Counted : month(day[k]) = month(today)}
      BY DEF SinceMonth
<1>8. SinceMonth' = {k \in Counted : month(day[k]) = month(today + 1)}
      BY <1>1 DEF SinceMonth
<1> HIDE DEF month
<1>9. SinceMonth' \subseteq SinceMonth
  <2>1. ASSUME NEW k \in Counted, month(day[k]) = month(today + 1)
        PROVE  month(day[k]) = month(today)
    <3>1. k \in Keys
          BY DEF Counted
    <3> QED BY <1>1, <1>2, <1>4, <1>5, <1>6, <2>1, <3>1
  <2> QED BY <1>7, <1>8, <2>1
<1> QED BY <1>1, <1>3, <1>9, ShrinkingCaps

LEMMA LaunchCaps ==
    ASSUME CapsInv, Launch, UNCHANGED account
    PROVE  CapsHold'
<1>1. UNCHANGED <<SinceDay, SinceMonth, debited>>
      BY DEF Launch, account, SinceDay, SinceMonth, Counted
<1>2. switches'.now = switches.now \cup {"enforced"} /\ "enforced" \notin switches.now
      BY DEF Launch, CapsInv, LedgerTypeOK
<1>3. ~Beta' /\ (Capped' => Capped) /\ ChargesInternally
      BY <1>2 DEF Beta, Capped, ChargesInternally, FirstParty, Internal
<1>4. debited = {}
      BY <1>3 DEF CapsInv, NothingDebited
<1> QED BY <1>1, <1>3, <1>4 DEF CapsInv, CapsHold

LEMMA StepCaps ==
    ASSUME CapsInv, [LedgerNext]_ledgerVars
    PROVE  CapsInv'
<1> USE DEF CapsInv
<1>1. LedgerTypeOK' /\ Moves
      BY StepLedgerTypeOK, LedgerMoves
<1>2. BooksOK'
      BY <1>1, StepBooksOK
<1> SUFFICES NoRowAhead' /\ NothingDebited' /\ CapsHold'
    BY <1>1, <1>2
<1>3. ASSUME NEW k \in Keys, Charge(k) PROVE NoRowAhead' /\ NothingDebited' /\ CapsHold'
  <2>1. NoRowAhead'
        BY <1>3 DEF Charge, Record, NoRowAhead, LedgerTypeOK
  <2>2. NothingDebited'
        BY <1>3 DEF Charge, Record, NothingDebited, ChargesInternally, Beta, FirstParty, Internal
  <2> QED BY <1>3, <2>1, <2>2, ChargeCaps
<1>4. ASSUME UNCHANGED <<switches, day, today, debited, ledger>>, reversed \subseteq reversed'
      PROVE  NoRowAhead' /\ NothingDebited' /\ CapsHold'
  <2>1. NoRowAhead' /\ NothingDebited'
        BY <1>4 DEF NoRowAhead, NothingDebited, ChargesInternally, Beta, FirstParty, Internal
  <2>2. SinceDay' \subseteq SinceDay /\ SinceMonth' \subseteq SinceMonth
        BY <1>4 DEF SinceDay, SinceMonth, Counted
  <2> QED BY <1>4, <2>1, <2>2, ShrinkingCaps
<1>5. ASSUME NEW k \in Keys, NEW caller \in {"api", "worker"}, Reverse(k, caller)
      PROVE  UNCHANGED <<day, debited, ledger>> /\ reversed \subseteq reversed'
      BY <1>5 DEF Reverse, account
<1>6. CASE Grant
      BY <1>4, <1>6 DEF Grant
<1>7. CASE UNCHANGED <<account, switches, today>>
      BY <1>4, <1>7 DEF account
<1>8. CASE UNCHANGED account /\ NextDay
  <2>1. NoRowAhead'
        BY <1>8 DEF NextDay, account, NoRowAhead, LedgerTypeOK
  <2>2. NothingDebited'
        BY <1>8 DEF NextDay, account, NothingDebited, ChargesInternally, Beta, FirstParty, Internal
  <2> QED BY <1>8, <2>1, <2>2, NextDayCaps
<1>9. CASE UNCHANGED account /\ Launch
  <2>1. NoRowAhead'
        BY <1>9 DEF Launch, account, NoRowAhead
  <2>2. switches'.now = switches.now \cup {"enforced"}
        BY <1>9 DEF Launch, LedgerTypeOK
  <2>3. NothingDebited'
        BY <1>9, <2>2 DEF account, NothingDebited, ChargesInternally, Beta, FirstParty, Internal
  <2> QED BY <1>9, <2>1, <2>3, LaunchCaps
<1> QED BY <1>1, <1>3, <1>4, <1>5, <1>6, <1>7, <1>8, <1>9 DEF Moves

(***************************************************************************)
(* The caps hold at every moment, under every mix of charges, refunds,     *)
(* sweeps, midnights and the launch, and for any caps: chargeWorkspace-    *)
(* Credits sums the rows and adds the new one under the workspace's lock.  *)
(***************************************************************************)
THEOREM CapsAlwaysHold == LedgerSpec => []CapsHold
<1>1. LedgerInit => CapsInv
  <2> SUFFICES ASSUME LedgerInit PROVE CapsInv
      OBVIOUS
  <2>1. Rows = {} /\ SinceDay = {} /\ SinceMonth = {} /\ debited = {}
        BY DEF LedgerInit, Rows, SinceDay, SinceMonth, Counted
  <2>2. BooksOK
        BY <2>1, FS_EmptySet DEF LedgerInit, BooksOK
  <2>3. CapsHold
        BY <2>1, SumEmpty, TotalIsSum, NumberAssumption DEF CapsHold
  <2>4. NoRowAhead
        BY DEF LedgerInit, NoRowAhead
  <2> QED BY <2>1, <2>2, <2>3, <2>4, InitLedgerTypeOK DEF CapsInv, NothingDebited
<1>2. CapsInv /\ [LedgerNext]_ledgerVars => CapsInv'
      BY StepCaps
<1>3. CapsInv => CapsHold
      BY DEF CapsInv
<1> QED BY <1>1, <1>2, <1>3, PTL DEF LedgerSpec
=============================================================================
