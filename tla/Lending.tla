------------------------------- MODULE Lending -------------------------------
(***************************************************************************)
(* The ledger side of the lending protocol: one Vault, one LoanBroker on  *)
(* it, and the Loans the broker originates (LoanSet.cpp) and the borrower *)
(* repays (LoanPay.cpp).  A transaction is one atomic step: a tec result  *)
(* leaves the ledger objects as they were and is recorded in lastTx only. *)
(*                                                                         *)
(* Every loan is made by the same borrower on the same terms (the         *)
(* LoanPayment constants); the principal, the number of payments and the  *)
(* overpayment flag are the inputs of LoanSet.  Time advances in steps    *)
(* from TimeSteps up to MaxTime.                                           *)
(***************************************************************************)
EXTENDS LoanPayment, FiniteSetsExt

CONSTANTS
    MaxLoans,          \* bound on LoanSet: loan sequences 1..MaxLoans
    Principals,        \* PrincipalRequested, in whole units
    PaymentTotals,     \* PaymentTotal
    OverpaymentFlags,  \* tfLoanOverpayment on LoanSet: a subset of BOOLEAN
    OriginationFee,    \* LoanOriginationFee, in whole units
    CoverRateMinimum,  \* LoanBroker sfCoverRateMinimum, TenthBips32
    DebtMaximum,       \* LoanBroker sfDebtMaximum, whole units (0: none)
    VaultAssets,       \* assets deposited in the vault, whole units
    CoverDeposit,      \* first-loss capital deposited, whole units
    BorrowerFunds,     \* the borrower's initial balance, whole units
    PayExtras,         \* whole units added to a due amount to form Amount
    StartTime, TimeSteps, MaxTime,
    Freezable,         \* the accounts the issuer may freeze
    DeepFreezable,     \* the accounts the issuer may deep freeze
    LoanPaymentsPerFeeIncrement, \* payments one base fee pays for
    NoLoan             \* model value: no Loan object at this sequence

ASSUME StartTime + PaymentInterval <= MaxTime /\ MaxTime < TimeModulus
ASSUME OverpaymentFlags \subseteq BOOLEAN
ASSUME LoanPaymentsPerFeeIncrement \in Nat \ {0}

LoanIds == 1..MaxLoans
Borrower == "borrower"
VaultPseudo == "vaultPseudo"
BrokerOwner == "brokerOwner"
BrokerPseudo == "brokerPseudo"
Accounts == {Borrower, VaultPseudo, BrokerOwner, BrokerPseudo}

VARIABLES
    loans,    \* loan sequence -> Loan object or NoLoan
    vault,    \* [assetsAvailable, assetsTotal]
    broker,   \* [debtTotal, coverAvailable, loanSequence, ownerCount]
    balances, \* account -> holding of the asset
    frozen,     \* accounts frozen by the issuer, deep frozen or not
    deepFrozen, \* accounts deep frozen: they can neither send nor receive
    now,      \* parent close time
    lastTx    \* [tx, ter, amount, paid] of the transaction of this step

vars == <<loans, vault, broker, balances, frozen, deepFrozen, now, lastTx>>

NoTx == [tx |-> "none", ter |-> "tesSUCCESS", amount |-> 0, paid |-> 0]

Init ==
    /\ loans = [i \in LoanIds |-> NoLoan]
    /\ vault = [assetsAvailable |-> NumberOf(VaultAssets),
                assetsTotal |-> NumberOf(VaultAssets)]
    /\ broker = [debtTotal |-> 0, coverAvailable |-> NumberOf(CoverDeposit),
                 loanSequence |-> 1, ownerCount |-> 0]
    /\ balances = [a \in Accounts |->
                     CASE a = Borrower -> NumberOf(BorrowerFunds)
                       [] a = VaultPseudo -> NumberOf(VaultAssets)
                       [] a = BrokerPseudo -> NumberOf(CoverDeposit)
                       [] OTHER -> 0]
    /\ frozen = {}
    /\ deepFrozen = {}
    /\ now = StartTime
    /\ lastTx = NoTx

Record(tx, ter, amount, paid) ==
    lastTx' = [tx |-> tx, ter |-> ter, amount |-> amount, paid |-> paid]

Fail(tx, ter, amount) ==
    /\ Record(tx, ter, amount, 0)
    /\ UNCHANGED <<loans, vault, broker, balances, frozen, deepFrozen, now>>

(***************************************************************************)
(* LoanSet                                                                 *)
(***************************************************************************)
\* Mutant: the quotient test is off by one payment.
ScheduleOverflowsByOne(total) ==
    LET timeAvailable == (TimeModulus - 1) - now
    IN  \/ PaymentInterval > timeAvailable
        \/ total > timeAvailable
        \/ timeAvailable \div PaymentInterval < total - 1

\* LoanSet::preclaim: the last due date startDate + interval * total must
\* fit in a uint32.
ScheduleOverflows(total) ==
    LET timeAvailable == (TimeModulus - 1) - now
    IN  \/ PaymentInterval > timeAvailable
        \/ total > timeAvailable
        \/ timeAvailable \div PaymentInterval < total

\* Mutant: the debt counts the management fee as owed to the vault.
NewDebtDeltaWithFee(principal, props) ==
    principal + CalculateRoundedLoanState(props.totalValueOutstanding,
                    principal, props.managementFeeOwedToBroker)
                  .interestOutstanding

\* The broker debt a new loan adds: its principal and its interest net of
\* the management fee.
NewDebtDelta(principal, props) ==
    principal + CalculateRoundedLoanState(props.totalValueOutstanding,
                    principal, props.managementFeeOwedToBroker).interestDue

\* Mutant: the cover is checked against the debt before the new loan.
CoverInsufficientOldDebt(newDebtTotal) ==
    broker.coverAvailable < TenthBipsOfValue(broker.debtTotal, CoverRateMinimum)

\* LoanSet::doApply: the first-loss capital must cover the minimum rate of
\* the debt the new loan brings the broker to (not rounded to the asset).
CoverInsufficient(newDebtTotal) ==
    broker.coverAvailable < TenthBipsOfValue(newDebtTotal, CoverRateMinimum)

\* LoanSet::preclaim: the vault pseudo-account sends the principal and the
\* borrower must pay it back, so neither may be frozen; the broker owner
\* receives the origination fee, so it may not be deep frozen.
LoanSetFrozen ==
    \/ VaultPseudo \in frozen
    \/ Borrower \in frozen
    \/ BrokerOwner \in deepFrozen

\* LoanSet::preflight: PrincipalRequested must be positive and the
\* origination fee within [0, principal].
PrincipalInvalid(principal) ==
    principal <= 0 \/ NumberOf(OriginationFee) > principal

\* LoanSet::preflight: a PaymentTotal given must be positive.
PaymentTotalInvalid(total) == total <= 0

\* The TER of LoanSet::preflight, preclaim and doApply, in the order of the
\* checks.
LoanSetCheck(principal, total, props) ==
    LET roundedPayment == RoundPeriodicPayment(props.periodicPayment)
        interest == props.totalValueOutstanding - principal
        newDebtTotal == broker.debtTotal + NewDebtDelta(principal, props)
    IN  CASE PrincipalInvalid(principal) -> "temINVALID"
          [] PaymentTotalInvalid(total) -> "temINVALID"
          [] ScheduleOverflows(total) -> "tecKILLED"
          [] LoanSetFrozen -> "tecFROZEN"
          [] vault.assetsAvailable < principal -> "tecINSUFFICIENT_FUNDS"
          [] InterestRate > 0 /\ interest <= 0 -> "tecPRECISION_LOSS"
          [] InterestRate = 0 /\ interest > 0 -> "tecINTERNAL"
          [] props.firstPaymentPrincipal <= 0 -> "tecPRECISION_LOSS"
          [] roundedPayment = 0 -> "tecPRECISION_LOSS"
          [] RoundDiv(props.totalValueOutstanding, roundedPayment, Upward)
               < total -> "tecPRECISION_LOSS"
          [] \/ props.managementFeeOwedToBroker < 0
             \/ props.totalValueOutstanding <= 0
             \/ props.periodicPayment <= 0 -> "tecINTERNAL"
          [] DebtMaximum # 0 /\ NumberOf(DebtMaximum) < newDebtTotal ->
               "tecLIMIT_EXCEEDED"
          [] CoverInsufficient(newDebtTotal) -> "tecINSUFFICIENT_FUNDS"
          [] OTHER -> "tesSUCCESS"

LoanSetResult(principal, total) ==
    LoanSetCheck(principal, total,
        ComputeLoanProperties(principal, InterestRate, PaymentInterval, total,
                              ManagementFeeRate))

\* LoanSet::doApply, creating the loan at the broker's loan sequence.
LoanSetCreate(principal, total, overpayment, props) ==
    LET state == CalculateRoundedLoanState(props.totalValueOutstanding,
                     principal, props.managementFeeOwedToBroker)
        fee == NumberOf(OriginationFee)
        seq == broker.loanSequence
    IN  /\ loans' = [loans EXCEPT ![seq] =
             [principalOutstanding |-> principal,
              periodicPayment |-> props.periodicPayment,
              totalValueOutstanding |-> props.totalValueOutstanding,
              managementFeeOutstanding |-> props.managementFeeOwedToBroker,
              previousPaymentDate |-> 0,
              nextPaymentDueDate |-> (now + PaymentInterval) % TimeModulus,
              paymentRemaining |-> total,
              startDate |-> now,
              overpayment |-> overpayment]]
        /\ balances' = [balances EXCEPT ![VaultPseudo] = @ - principal,
                                        ![Borrower] = @ + (principal - fee),
                                        ![BrokerOwner] = @ + fee]
        /\ vault' = [vault EXCEPT !.assetsAvailable = @ - principal,
                                  !.assetsTotal = @ + state.interestDue]
        /\ broker' = [broker EXCEPT
                        !.debtTotal = @ + NewDebtDelta(principal, props),
                        !.ownerCount = @ + 1,
                        !.loanSequence = @ + 1]

LoanSetApply(principal, total, overpayment) ==
    LoanSetCreate(principal, total, overpayment,
        ComputeLoanProperties(principal, InterestRate, PaymentInterval, total,
                              ManagementFeeRate))

LoanSetOutcome(principal, total, overpayment, ter) ==
    IF ter = "tesSUCCESS"
    THEN /\ LoanSetApply(principal, total, overpayment)
         /\ Record("LoanSet", ter, principal, 0)
         /\ UNCHANGED <<frozen, deepFrozen, now>>
    ELSE Fail("LoanSet", ter, principal)

LoanSet(principal, total, overpayment) ==
    /\ broker.loanSequence <= MaxLoans
    /\ LoanSetOutcome(principal, total, overpayment,
                      LoanSetResult(principal, total))

(***************************************************************************)
(* LoanPay                                                                 *)
(***************************************************************************)
\* LoanPay::doApply: the broker fee goes to the owner only if the cover
\* meets the minimum for the current debt and the owner can receive funds.
SendBrokerFeeToOwner ==
    /\ broker.coverAvailable
         >= RoundToAsset(TenthBipsOfValue(broker.debtTotal, CoverRateMinimum),
                         Nearest)
    /\ BrokerOwner \notin deepFrozen

\* LoanPay::calculateBaseFee, in multiples of the normal cost: one base fee
\* per LoanPaymentsPerFeeIncrement payments the Amount is estimated to pay
\* for, the estimate rounded up when overpaying and down otherwise.
FeeIncrementsOf(amount, regularPayment, overpaymentFlag) ==
    NMax(1, RoundDiv(RoundDiv(amount, regularPayment,
                              IF overpaymentFlag THEN Upward ELSE Downward),
                     LoanPaymentsPerFeeIncrement, Upward))

LoanPayFeeIncrements(l, amount, full, overpaymentFlag) ==
    CASE full -> 1
      [] l.paymentRemaining <= LoanPaymentsPerFeeIncrement -> 1
      [] HasExpired(now, l.nextPaymentDueDate) -> 1
      [] OTHER -> FeeIncrementsOf(amount,
                      RoundPeriodicPayment(l.periodicPayment)
                        + NumberOf(LoanServiceFee),
                      overpaymentFlag)

\* Mutant: the borrower's freeze is not checked.
LoanPayFrozenDeepOnly ==
    VaultPseudo \in deepFrozen

\* LoanPay::preclaim: the borrower sends, so it may not be frozen; the vault
\* pseudo-account receives, so it may not be deep frozen.
LoanPayFrozen ==
    \/ Borrower \in frozen
    \/ VaultPseudo \in deepFrozen

\* The TER of LoanPay::preclaim and of doApply before the payment.
LoanPayPrecheck(l, amount, overpaymentFlag) ==
    CASE overpaymentFlag /\ ~l.overpayment -> "temINVALID_FLAG"
      [] l.paymentRemaining = 0 \/ l.principalOutstanding = 0 -> "tecKILLED"
      [] LoanPayFrozen -> "tecFROZEN"
      [] balances[Borrower] < amount -> "tecINSUFFICIENT_FUNDS"
      [] ~SendBrokerFeeToOwner /\ BrokerPseudo \in deepFrozen -> "tecFROZEN"
      [] OTHER -> "tesSUCCESS"

\* The vault and broker books after a payment of the given parts.
PaidToVault(parts) == RoundToAsset(parts.principalPaid + parts.interestPaid,
                                   Downward)
\* Mutant: the debt is reduced by all the vault receives, penalties included.
PaidToVaultForDebtNoChange(parts) == parts.principalPaid + parts.interestPaid

PaidToVaultForDebt(parts) ==
    parts.principalPaid + parts.interestPaid - parts.valueChange

ApplyPayment(i, r, amount) ==
    LET parts == r.parts
        toOwner == SendBrokerFeeToOwner
        payee == IF toOwner THEN BrokerOwner ELSE BrokerPseudo
        forDebt == PaidToVaultForDebt(parts)
        paid == PaidToVault(parts) + parts.feePaid
    IN  /\ loans' = [loans EXCEPT ![i] = r.loan]
        /\ broker' = [broker EXCEPT
                        !.debtTotal = IF forDebt >= @ THEN 0 ELSE @ - forDebt,
                        !.coverAvailable =
                            IF toOwner THEN @ ELSE @ + parts.feePaid]
        /\ vault' = [vault EXCEPT !.assetsAvailable = @ + PaidToVault(parts),
                                  !.assetsTotal = @ + parts.valueChange]
        /\ balances' = [balances EXCEPT
                          ![Borrower] = @ - paid,
                          ![VaultPseudo] = @ + PaidToVault(parts),
                          ![payee] = @ + parts.feePaid]
        /\ Record("LoanPay", "tesSUCCESS", amount, paid)
        /\ UNCHANGED <<frozen, deepFrozen, now>>

\* LoanPay with tfLoanFullPayment (full) or without, and tfLoanOverpayment.
\* Mutant: the transfer is made whether or not the borrower can fund it.
SettlePaymentUnfunded(i, amount, r) ==
    CASE r.ter # "tesSUCCESS" -> Fail("LoanPay", r.ter, amount)
      [] \/ r.parts.principalPaid < 0 \/ r.parts.interestPaid < 0
         \/ r.parts.feePaid < 0 -> Fail("LoanPay", "tecLIMIT_EXCEEDED", amount)
      [] OTHER -> ApplyPayment(i, r, amount)

\* The outcome r of the payment computation, checked and applied.
SettlePayment(i, amount, r) ==
    CASE r.ter # "tesSUCCESS" -> Fail("LoanPay", r.ter, amount)
      [] \/ r.parts.principalPaid < 0 \/ r.parts.interestPaid < 0
         \/ r.parts.feePaid < 0 -> Fail("LoanPay", "tecLIMIT_EXCEEDED", amount)
      \* accountSendMulti refuses a transfer the borrower cannot fund.
      [] balances[Borrower] < PaidToVault(r.parts) + r.parts.feePaid ->
             Fail("LoanPay", "tecFAILED_PROCESSING", amount)
      [] OTHER -> ApplyPayment(i, r, amount)

LoanPayOutcome(i, amount, full, overpaymentFlag, pre) ==
    IF pre # "tesSUCCESS" THEN Fail("LoanPay", pre, amount)
    ELSE SettlePayment(i, amount,
             IF full THEN LoanMakeFullPayment(loans[i], now, amount)
             ELSE LoanMakePayment(loans[i], now, amount, overpaymentFlag))

\* LoanPay::preflight (the Amount and the flags alone), then preclaim and
\* doApply's checks.
LoanPayChecks(l, amount, full, overpaymentFlag) ==
    CASE amount <= 0 -> "temBAD_AMOUNT"
      [] full /\ overpaymentFlag -> "temINVALID_FLAG"
      [] OTHER -> LoanPayPrecheck(l, amount, overpaymentFlag)

LoanPay(i, amount, full, overpaymentFlag) ==
    /\ loans[i] # NoLoan
    /\ LoanPayOutcome(i, amount, full, overpaymentFlag,
                      LoanPayChecks(loans[i], amount, full, overpaymentFlag))

(***************************************************************************)
(* The environment: the clock and the issuer's deep freeze.  These steps *)
(* apply no transaction.                                                  *)
(***************************************************************************)
Tick(d) ==
    /\ now + d <= MaxTime
    /\ now' = now + d
    /\ lastTx' = NoTx
    /\ UNCHANGED <<loans, vault, broker, balances, frozen, deepFrozen>>

\* The clock has reached the horizon of the model: the ledger goes on
\* closing, with nothing left in the model for it to change.
Horizon ==
    /\ \A d \in TimeSteps : now + d > MaxTime
    /\ UNCHANGED vars

SetFrozen(a) ==
    /\ a \notin frozen
    /\ frozen' = frozen \cup {a}
    /\ lastTx' = NoTx
    /\ UNCHANGED <<loans, vault, broker, balances, deepFrozen, now>>

\* A deep freeze sets the freeze with it.
SetDeepFrozen(a) ==
    /\ a \notin deepFrozen
    /\ deepFrozen' = deepFrozen \cup {a}
    /\ frozen' = frozen \cup {a}
    /\ lastTx' = NoTx
    /\ UNCHANGED <<loans, vault, broker, balances, now>>

\* Lifting the deep freeze only, leaving the account frozen.
ClearDeepFrozen(a) ==
    /\ a \in deepFrozen
    /\ deepFrozen' = deepFrozen \ {a}
    /\ lastTx' = NoTx
    /\ UNCHANGED <<loans, vault, broker, balances, frozen, now>>

\* Lifting every freeze of the account.
ClearFrozen(a) ==
    /\ a \in frozen
    /\ frozen' = frozen \ {a}
    /\ deepFrozen' = deepFrozen \ {a}
    /\ lastTx' = NoTx
    /\ UNCHANGED <<loans, vault, broker, balances, now>>

(***************************************************************************)
(* The amounts a borrower offers: what is due for one or two periods, a   *)
(* late payment and a full payment, give or take PayExtras units.          *)
(***************************************************************************)
DueAmountsOf(l, periodic) ==
    {periodic.totalDue, 2 * periodic.totalDue}
    \cup (IF HasExpired(now, l.nextPaymentDueDate)
          THEN {LatePaymentComponents(l, periodic, now).totalDue} ELSE {})
    \cup (IF l.paymentRemaining > 1
          THEN {FullPaymentComponents(l, now).totalDue} ELSE {})

DueAmounts(l) ==
    IF l = NoLoan \/ l.paymentRemaining = 0 THEN {}
    ELSE DueAmountsOf(l, PeriodicComponents(l))

PayAmounts(l) ==
    {d + NumberOf(e) : d \in DueAmounts(l), e \in PayExtras} \ {0}

Next ==
    \/ \E p \in Principals, n \in PaymentTotals, o \in OverpaymentFlags :
         LoanSet(NumberOf(p), n, o)
    \/ \E i \in LoanIds, full \in BOOLEAN, o \in BOOLEAN :
         \E amount \in PayAmounts(loans[i]) : LoanPay(i, amount, full, o)
    \/ \E d \in TimeSteps : Tick(d)
    \/ Horizon
    \/ \E a \in Freezable : SetFrozen(a)
    \/ \E a \in DeepFreezable : SetDeepFrozen(a)
    \/ \E a \in frozen : ClearFrozen(a)
    \/ \E a \in Freezable \cap deepFrozen : ClearDeepFrozen(a)

Spec == Init /\ [][Next]_vars


(***************************************************************************)
(* Properties.                                                             *)
(***************************************************************************)
Dates == 0..(TimeModulus - 1)
LoanRecords ==
    [principalOutstanding : Int, periodicPayment : Int,
     totalValueOutstanding : Int, managementFeeOutstanding : Int,
     previousPaymentDate : Dates, nextPaymentDueDate : Dates \cup {NoDate},
     paymentRemaining : Nat, startDate : Dates, overpayment : BOOLEAN]

TypeOK ==
    /\ loans \in [LoanIds -> LoanRecords \cup {NoLoan}]
    /\ vault \in [assetsAvailable : Int, assetsTotal : Int]
    /\ broker \in [debtTotal : Int, coverAvailable : Int,
                   loanSequence : 1..(MaxLoans + 1), ownerCount : Nat]
    /\ balances \in [Accounts -> Nat]
    /\ frozen \subseteq Freezable \cup DeepFreezable
    /\ deepFrozen \subseteq frozen \cap DeepFreezable
    /\ now \in StartTime..MaxTime

Live == {i \in LoanIds : loans[i] # NoLoan}

\* The value of a loan to the vault: its outstanding value less the part of
\* the interest owed to the broker.
LoanDebt(l) == l.totalValueOutstanding - l.managementFeeOutstanding

\* The Loan fields stay coherent through every payment path (doPayment's
\* final branch, the clamp in computeRoundedPrincipalComponent, the
\* re-amortization of tryOverpayment): a loan is paid off exactly when its
\* principal, its remaining payments and its next due date are gone, and
\* otherwise its principal and fee fit inside its outstanding value.
LoanStateConsistent ==
    \A i \in Live :
        LET l == loans[i] IN
        /\ (l.paymentRemaining = 0) = (l.principalOutstanding = 0)
        /\ (l.paymentRemaining = 0) = (l.nextPaymentDueDate = NoDate)
        /\ l.paymentRemaining = 0 =>
               l.totalValueOutstanding = 0 /\ l.managementFeeOutstanding = 0
        /\ 0 <= l.principalOutstanding
        /\ 0 <= l.managementFeeOutstanding
        /\ l.principalOutstanding + l.managementFeeOutstanding
             <= l.totalValueOutstanding

\* A loan at a zero interest rate owes no interest: LoanSet refuses one
\* whose total value exceeds its principal (tecINTERNAL), the splitter's
\* periodicRate == 0 branches pay no interest or fee, and tryOverpayment
\* re-rounds the value (to nearest) and the principal (downward) of the
\* new schedule from the same raw amounts.  Through any sequence of late,
\* regular, batched, over- and full payments, the value outstanding stays
\* the principal and no management fee accrues (spec.md §8, "Zero-interest
\* loans").
ZeroInterestFree ==
    InterestRate = 0 =>
        \A i \in Live :
            /\ loans[i].totalValueOutstanding = loans[i].principalOutstanding
            /\ loans[i].managementFeeOutstanding = 0

\* LoanSet::preclaim refuses a schedule whose last due date
\* startDate + interval * total does not fit in a uint32, and doPayment
\* then advances NextPaymentDueDate by one interval per scheduled payment
\* (uint32 addition): through any sequence of late, regular, batched and
\* overpayments, every due date still ahead of an open loan lies after its
\* start date and fits in a uint32, so no date ever wraps.
DueScheduleFits ==
    \A i \in Live :
        LET l == loans[i] IN
        l.paymentRemaining > 0 =>
            /\ l.nextPaymentDueDate # NoDate
            /\ l.startDate < l.nextPaymentDueDate
            /\ l.nextPaymentDueDate + (l.paymentRemaining - 1) * PaymentInterval
                 < TimeModulus

\* LoanSet checks the cover against the unrounded minimum for the debt
\* after the new loan; LoanPay routes the broker's fee with the minimum for
\* the debt before the payment, rounded to the asset.  Across loans opened
\* one after another and paid in any order, the cover always meets the
\* rounded minimum for the current debt, so the fee goes to the cover
\* instead of the owner only when the owner is deep frozen.
BrokerCoverSufficient ==
    broker.coverAvailable
      >= RoundToAsset(TenthBipsOfValue(broker.debtTotal, CoverRateMinimum),
                      Nearest)

\* calculateBaseFee estimates, before the payment is computed, how many
\* payments the Amount covers (Amount / (rounded periodic payment + service
\* fee)) and charges one base fee per LoanPaymentsPerFeeIncrement of them,
\* "rounding up"; a late payment and a loan with few payments left pay the
\* normal cost, since "it'll only make one payment".  Whatever LoanPay
\* (without tfLoanFullPayment) the borrower sends on any reachable loan,
\* loanMakePayment makes no more scheduled payments than its fee pays for.
FeeCoversPayments ==
    \A i \in Live, o \in BOOLEAN :
        \A amount \in PayAmounts(loans[i]) :
            LET l == loans[i]
                r == LoanMakePayment(l, now, amount, o)
            IN  /\ LoanPayChecks(l, amount, FALSE, o) = "tesSUCCESS"
                /\ r.ter = "tesSUCCESS"
                => l.paymentRemaining - r.loan.paymentRemaining
                     <= LoanPayFeeIncrements(l, amount, FALSE, o)
                          * LoanPaymentsPerFeeIncrement

\* loanMakePayment and loanMakeFullPayment assert, before returning, that
\* the LoanPaymentParts they hand to LoanPay are rounded to the loan's
\* scale and that principal, interest and fee paid are not negative
\* (LoanPay otherwise fails with tecLIMIT_EXCEEDED).  On every reachable
\* loan, for every Amount and flag LoanPay's checks accept, the late,
\* regular, batched, over- and full payment paths meet these assertions.
PaymentPartsValid ==
    \A i \in Live, full \in BOOLEAN, o \in BOOLEAN :
        \A amount \in PayAmounts(loans[i]) :
            LET l == loans[i]
                r == IF full THEN LoanMakeFullPayment(l, now, amount)
                     ELSE LoanMakePayment(l, now, amount, o)
            IN  /\ LoanPayChecks(l, amount, full, o) = "tesSUCCESS"
                /\ r.ter = "tesSUCCESS"
                => /\ \A f \in {"principalPaid", "interestPaid", "feePaid"} :
                        r.parts[f] >= 0 /\ IsRounded(r.parts[f])
                   /\ IsRounded(r.parts.valueChange)

\* LoanSet adds principal + interestDue to the broker's DebtTotal and
\* LoanPay removes totalPaidToVault - valueChange: the debt is always what
\* the live loans still owe the vault.
BrokerDebtTracksLoans ==
    broker.debtTotal = MapThenSumSet(LAMBDA i : LoanDebt(loans[i]), Live)

\* The vault's books agree with the broker's: what the vault has lent out
\* (AssetsTotal - AssetsAvailable, adjusted by every valueChange) is the
\* broker's DebtTotal (adjusted by the same payments, floored at zero), and
\* is never negative (the assertion of LoanSet and LoanPay that
\* AssetsAvailable <= AssetsTotal).
VaultBooksBalance ==
    /\ vault.assetsTotal - vault.assetsAvailable = broker.debtTotal
    /\ vault.assetsAvailable <= vault.assetsTotal

\* LoanPay::doApply asserts that totalPaidToVaultRounded + totalPaidToBroker
\* <= Amount: a payment never takes more from the borrower than the Amount
\* of the transaction.
PaymentWithinAmount ==
    lastTx.tx = "LoanPay" => lastTx.paid <= lastTx.amount

\* LoanPay::doApply asserts principalPaid + interestPaid > 0: every payment
\* that succeeds moves its loan forward, through whichever path
\* (late, regular, batched, overpayment, full), and never gives the
\* borrower principal or payments back.
PaymentsMakeProgress ==
    [][lastTx'.tx = "LoanPay" /\ lastTx'.ter = "tesSUCCESS" =>
         \E i \in Live :
            /\ loans'[i].totalValueOutstanding < loans[i].totalValueOutstanding
            /\ loans'[i].principalOutstanding <= loans[i].principalOutstanding
            /\ loans'[i].paymentRemaining <= loans[i].paymentRemaining]_vars

\* The depositors are made whole: LoanSet takes the principal out of the
\* vault and adds the loan's interest due to AssetsTotal; each LoanPay puts
\* totalPaidToVault, rounded down, back into AssetsAvailable and moves
\* AssetsTotal by valueChange (negative when a payoff or an overpayment
\* forgives interest).  Once every loan is paid off, the vault holds at
\* least what was deposited, through any mix of early, late, batched,
\* over- and full payments.
VaultMadeWhole ==
    (\A i \in Live : loans[i].paymentRemaining = 0) =>
        /\ vault.assetsAvailable >= NumberOf(VaultAssets)
        /\ balances[VaultPseudo] >= NumberOf(VaultAssets)

\* The freeze checks are spread over LoanSet::preclaim (vault
\* pseudo-account and borrower frozen, broker owner deep frozen),
\* LoanPay::preclaim (borrower frozen, vault pseudo-account deep frozen) and
\* LoanPay::doApply (the fee rerouted from a deep-frozen owner, refused if
\* the broker pseudo-account is deep frozen too).  Together they keep every
\* transfer legal under any freezes set and lifted between transactions: a
\* frozen account never sends, and a deep-frozen one never receives either.
FreezesRespected ==
    [][/\ \A a \in frozen : balances'[a] >= balances[a]
       /\ \A a \in deepFrozen : balances'[a] = balances[a]]_vars

(***************************************************************************)
(* A diligent borrower: on loan i, LoanPay of exactly what is due now, the *)
(* late amount once the due date has passed, else the periodic amount.    *)
(* It is one of the LoanPay steps of Next.                                 *)
(***************************************************************************)
DueNow(l) ==
    IF HasExpired(now, l.nextPaymentDueDate)
    THEN LatePaymentComponents(l, PeriodicComponents(l), now).totalDue
    ELSE PeriodicComponents(l).totalDue

LoanOpen(i) == loans[i] # NoLoan /\ loans[i].paymentRemaining > 0

PayDue(i) == LoanOpen(i) /\ LoanPay(i, DueNow(loans[i]), FALSE, FALSE)

LoanClosed(i) ==
    /\ loans[i] # NoLoan
    /\ loans[i].paymentRemaining = 0
    /\ loans[i].totalValueOutstanding = 0
    /\ loans[i].principalOutstanding = 0

\* The hypothesis on the borrower: while loan i stays open, the diligent
\* payment is made again and again.  Nothing in the code makes a borrower
\* pay, so this is an assumption, not a property of the ledger.  It is weak
\* fairness of PayDue(i), WF_vars(PayDue(i)), written with LoanOpen(i) in
\* place of ENABLED <<PayDue(i)>>_vars: the two agree where the diligent
\* payment succeeds, for a success changes the loan.  loanMakePayment
\* compares the Amount with the very totalDue DueNow quotes, so it succeeds
\* whenever LoanPay's preclaim checks pass, which the live constants
\* ensure.  LoanOpen(i) is cheap for TLC where ENABLED re-evaluates the
\* whole amortization.
DiligentBorrower(i) == []<>(~LoanOpen(i)) \/ []<><<PayDue(i)>>_vars

\* The schedule terminates: under a diligent borrower, doPayment's final
\* branch is reached and every loan ends with nothing outstanding.
LoansPaidOff ==
    \A i \in LoanIds : DiligentBorrower(i) => (LoanOpen(i) ~> LoanClosed(i))

(***************************************************************************)
(* Refinement: the ledger implements LoanLedger.  A Loan is seen as what  *)
(* it still owes, its total value and its principal; the holdings are the *)
(* account balances, the vault pays principal out and the borrower pays.  *)
(***************************************************************************)
LedgerOf(l) ==
    IF l = NoLoan THEN NoLoan
    ELSE [value |-> l.totalValueOutstanding,
          principal |-> l.principalOutstanding]

Ledger == INSTANCE LoanLedger
              WITH Loans <- LoanIds, Lender <- VaultPseudo, Payer <- Borrower,
                   None <- NoLoan, holdings <- balances,
                   ledger <- [i \in LoanIds |-> LedgerOf(loans[i])]

\* LoanSet and LoanPay, with every late, regular, batched and full payment
\* path and every tec rollback, only move funds between accounts (LoanSet's
\* principal out of the vault pseudo-account, LoanPay's transfers out of the
\* borrower's), and a payment never lowers what a loan owes by more than
\* the borrower paid, except a full payment that covers the principal.
LendingImplementsLedger == Ledger!Spec

\* The early payoff quote of computeFullPayment: principal, the interest
\* accrued since max(previousPaymentDate, startDate) pro rata
\* (loanAccruedInterest), the prepayment penalty and the close fee.  A
\* borrower who is not late has accrued at most one period of interest, so
\* the quote stays within the total value outstanding plus the penalty,
\* the close fee and a unit of rounding.
EarlyPayoffBounded ==
    \A i \in Live :
        LET l == loans[i]
        IN  l.paymentRemaining > 1 /\ l.nextPaymentDueDate # NoDate
            /\ now < l.nextPaymentDueDate =>
                FullPaymentComponents(l, now).totalDue
                  <= l.totalValueOutstanding + NumberOf(ClosePaymentFee)
                     + TenthBipsOfValue(l.principalOutstanding,
                                        CloseInterestRate) + Unit
=============================================================================
