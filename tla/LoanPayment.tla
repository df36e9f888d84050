----------------------------- MODULE LoanPayment -----------------------------
(***************************************************************************)
(* The payment settlement engine of LendingHelpers.cpp: loanMakePayment    *)
(* (late, regular and batched payments, then an overpayment) and          *)
(* loanMakeFullPayment, as operators from a Loan record to the outcome.   *)
(* An outcome is [ter, loan, parts]: the TER, the Loan after the payment  *)
(* and the LoanPaymentParts.  On an error the Loan is returned unchanged. *)
(*                                                                         *)
(* The loan terms a LoanSet fixes (rates, fees, interval) and the broker's *)
(* management fee rate are CONSTANTS shared by every loan of a model; the *)
(* fields a payment changes are the fields of a Loan record.              *)
(***************************************************************************)
EXTENDS LoanMath, TLC

CONSTANTS
    InterestRate, LateInterestRate, CloseInterestRate,   \* TenthBips32
    OverpaymentInterestRate, OverpaymentFee,             \* TenthBips32
    ManagementFeeRate,                                   \* broker, TenthBips16
    LoanServiceFee, LatePaymentFee, ClosePaymentFee,     \* whole units
    PaymentInterval,                                     \* ticks
    LoanMaximumPaymentsPerTransaction,
    NoDate          \* model value: sfNextPaymentDueDate is absent

Rates == {InterestRate, LateInterestRate, CloseInterestRate,
          OverpaymentInterestRate, OverpaymentFee, ManagementFeeRate}
ASSUME \A r \in Rates : r \in Nat /\ r % 100 = 0
ASSUME PaymentInterval \in Nat \ {0}
ASSUME LoanMaximumPaymentsPerTransaction \in Nat \ {0}

PeriodicRate == LoanPeriodicRate(InterestRate, PaymentInterval)

Parts(principal, interest, valueChange, fee) ==
    [principalPaid |-> principal, interestPaid |-> interest,
     valueChange |-> valueChange, feePaid |-> fee]
NoParts == Parts(0, 0, 0, 0)

\* LoanPaymentParts::operator+=
AddParts(a, b) ==
    Parts(a.principalPaid + b.principalPaid, a.interestPaid + b.interestPaid,
          a.valueChange + b.valueChange, a.feePaid + b.feePaid)

\* PaymentComponentsPlus: a split plus the fees (f) and interest (v) that
\* are not tracked by the Loan's outstanding fields.  The new fields take
\* the place of those of a split that is already a PaymentComponentsPlus
\* (computeLatePayment extends the periodic one).
Plus(p, f, v) ==
    [untrackedManagementFee |-> f, untrackedInterest |-> v,
     totalDue |-> p.trackedValueDelta + v + f] @@ p

Outcome(ter, loan, parts) == [ter |-> ter, loan |-> loan, parts |-> parts]
Reject(ter, loan) == Outcome(ter, loan, NoParts)

\* The LoanPaymentParts of one split.
PaymentParts(pay) ==
    Parts(pay.trackedPrincipalDelta,
          TrackedInterestPart(pay) + pay.untrackedInterest,
          pay.untrackedInterest,
          pay.trackedManagementFeeDelta + pay.untrackedManagementFee)

\* doPayment's final branch: the loan is paid off.
FinalLoan(l) ==
    [l EXCEPT !.paymentRemaining = 0,
              !.previousPaymentDate = l.nextPaymentDueDate,
              !.nextPaymentDueDate = NoDate,
              !.principalOutstanding = 0,
              !.totalValueOutstanding = 0,
              !.managementFeeOutstanding = 0]

\* doPayment's other branch: a scheduled payment advances the dates (an
\* overpayment does not), and the tracked deltas are subtracted.
PartialLoan(pay, l) ==
    LET advanced ==
            IF pay.specialCase = "extra" THEN l
            ELSE [l EXCEPT !.paymentRemaining = @ - 1,
                           !.previousPaymentDate = l.nextPaymentDueDate,
                           !.nextPaymentDueDate =
                               (l.nextPaymentDueDate + PaymentInterval)
                                   % TimeModulus]
    IN  [advanced EXCEPT
           !.principalOutstanding = @ - pay.trackedPrincipalDelta,
           !.totalValueOutstanding = @ - pay.trackedValueDelta,
           !.managementFeeOutstanding = @ - pay.trackedManagementFeeDelta]

\* Mutant: the final payment is applied like any other, leaving the next
\* due date set on a loan with no payments left.
DoPaymentNoFinal(pay, l) ==
    Outcome("tesSUCCESS", PartialLoan(pay, l), PaymentParts(pay))

\* Mutant: the final branch forgets to clear the total value outstanding.
DoPaymentKeepsValue(pay, l) ==
    Outcome("tesSUCCESS",
            IF pay.specialCase = "final"
            THEN [FinalLoan(l) EXCEPT !.totalValueOutstanding =
                                          l.totalValueOutstanding]
            ELSE PartialLoan(pay, l),
            PaymentParts(pay))

\* detail::doPayment: apply one split to the Loan.
DoPayment(pay, l) ==
    Outcome("tesSUCCESS",
            IF pay.specialCase = "final" THEN FinalLoan(l)
            ELSE PartialLoan(pay, l),
            PaymentParts(pay))

\* The regular split of the Loan's next payment, with the service fee.
PeriodicComponents(l) ==
    Plus(ComputePaymentComponents(l.totalValueOutstanding,
            l.principalOutstanding, l.managementFeeOutstanding,
            l.periodicPayment, PeriodicRate, l.paymentRemaining,
            ManagementFeeRate),
         NumberOf(LoanServiceFee), 0)

\* hasExpired(view, date): the close time has passed the due date.
HasExpired(now, date) == date # NoDate /\ now > date

\* The late split of detail::computeLatePayment: the periodic split plus the
\* late interest since the due date and the late fee.
LateComponents(periodic, raw, rounded) ==
    Plus([periodic EXCEPT !.rawInterest = @ + raw[1]],
         periodic.untrackedManagementFee + NumberOf(LatePaymentFee)
           + rounded[2],
         periodic.untrackedInterest + rounded[1])

\* Mutant: the late interest is split without first rounding it.
LateComponentsOfUnrounded(periodic, lateInterest) ==
    LateComponents(periodic,
        RawInterestAndFeeParts(lateInterest, ManagementFeeRate),
        RoundedInterestAndFeeParts(lateInterest, ManagementFeeRate))

LateComponentsOf(periodic, lateInterest) ==
    LateComponents(periodic,
        RawInterestAndFeeParts(lateInterest, ManagementFeeRate),
        RoundedInterestAndFeeParts(RoundToAsset(lateInterest, Nearest),
                                   ManagementFeeRate))

LatePaymentComponents(l, periodic, now) ==
    LateComponentsOf(periodic,
        LoanLatePaymentInterest(l.principalOutstanding, LateInterestRate, now,
                                l.nextPaymentDueDate))

\* detail::computeLatePayment: "notlate", or an error, or the late split.
LatePaymentResult(late, amount) ==
    IF amount < late.totalDue THEN [ter |-> "tecINSUFFICIENT_PAYMENT"]
    ELSE [ter |-> "tesSUCCESS", pay |-> late]

ComputeLatePayment(l, periodic, now, amount) ==
    IF ~HasExpired(now, l.nextPaymentDueDate) THEN [ter |-> "notlate"]
    ELSE LatePaymentResult(LatePaymentComponents(l, periodic, now), amount)

\* Mutant: the payoff takes the schedule's raw principal, rounded down, in
\* place of the tracked principal outstanding.
FullComponentsRawPrincipal(l, rawPrincipal, raw, rounded, interestDue) ==
    Plus(Components(raw[1], rawPrincipal, raw[2],
                    RoundToAsset(rawPrincipal, Downward) + interestDue
                      + l.managementFeeOutstanding,
                    RoundToAsset(rawPrincipal, Downward),
                    l.managementFeeOutstanding, "final"),
         RoundToAsset(NumberOf(ClosePaymentFee), Nearest)
           + rounded[2] - l.managementFeeOutstanding,
         rounded[1] - interestDue)

\* The split of detail::computeFullPayment: every tracked value, with the
\* accrued interest and penalty and the close fee untracked.
FullComponents(l, rawPrincipal, raw, rounded, interestDue) ==
    Plus(Components(raw[1], rawPrincipal, raw[2],
                    l.principalOutstanding + interestDue
                      + l.managementFeeOutstanding,
                    l.principalOutstanding, l.managementFeeOutstanding,
                    "final"),
         RoundToAsset(NumberOf(ClosePaymentFee), Nearest)
           + rounded[2] - l.managementFeeOutstanding,
         rounded[1] - interestDue)

FullComponentsOf(l, rawPrincipal, fullInterest) ==
    FullComponents(l, rawPrincipal,
        RawInterestAndFeeParts(fullInterest, ManagementFeeRate),
        RoundedInterestAndFeeParts(RoundToAsset(fullInterest, Nearest),
                                   ManagementFeeRate),
        CalculateRoundedLoanState(l.totalValueOutstanding,
            l.principalOutstanding, l.managementFeeOutstanding).interestDue)

FullComponentsFrom(l, now, rawPrincipal) ==
    FullComponentsOf(l, rawPrincipal,
        CalculateFullPaymentInterest(rawPrincipal, PeriodicRate, now,
            PaymentInterval, l.previousPaymentDate, l.startDate,
            CloseInterestRate))

FullPaymentComponents(l, now) ==
    FullComponentsFrom(l, now,
        LoanPrincipalFromPeriodicPayment(l.periodicPayment, PeriodicRate,
                                         l.paymentRemaining))

\* detail::computeFullPayment.
FullPaymentResult(full, amount) ==
    IF amount < full.totalDue THEN [ter |-> "tecINSUFFICIENT_PAYMENT"]
    ELSE [ter |-> "tesSUCCESS", pay |-> full]

ComputeFullPayment(l, now, amount) ==
    IF l.paymentRemaining <= 1 THEN [ter |-> "tecKILLED"]
    ELSE FullPaymentResult(FullPaymentComponents(l, now), amount)

\* detail::computeOverpaymentComponents: the fee is taken off the top, the
\* penalty interest (and its management fee) is untracked, the rest pays
\* principal.
OverpaymentComponents(fee, payment, raw, rounded) ==
    Plus(Components(raw[1], payment - raw[1], 0, payment,
                    payment - rounded[1] - rounded[2], rounded[2], "extra"),
         fee, rounded[1])

OverpaymentComponentsOf(fee, payment, raw) ==
    OverpaymentComponents(fee, payment, raw,
        RoundedInterestAndFeeParts(RoundToAsset(raw[1], Nearest),
                                   ManagementFeeRate))

OverpaymentAfterFee(overpayment, fee) ==
    OverpaymentComponentsOf(fee, overpayment - fee,
        RawInterestAndFeeParts(
            TenthBipsOfValue(overpayment - fee, OverpaymentInterestRate),
            ManagementFeeRate))

ComputeOverpaymentComponents(overpayment) ==
    OverpaymentAfterFee(overpayment,
        RoundToAsset(TenthBipsOfValue(overpayment, OverpaymentFee), Nearest))

\* The end of detail::tryOverpayment: the new loan is kept unless the new
\* schedule is degenerate, and the parts are the differences between the
\* rounded states before and after.
OverpaymentOutcome(over, l, props, new) ==
    LET rounded == CalculateRoundedLoanState(l.totalValueOutstanding,
                       l.principalOutstanding, l.managementFeeOutstanding)
        newRounded == CalculateRoundedLoanState(new.totalValueOutstanding,
                          new.principalOutstanding, new.managementFeeOutstanding)
    IN  IF \/ props.firstPaymentPrincipal <= 0 /\ new.principalOutstanding > 0
           \/ props.periodicPayment <= 0
           \/ props.totalValueOutstanding <= 0
           \/ props.managementFeeOwedToBroker < 0
        THEN [ter |-> "skip"]
        ELSE Outcome("tesSUCCESS", new,
               Parts(rounded.principalOutstanding
                       - newRounded.principalOutstanding,
                     rounded.interestDue - newRounded.interestDue,
                     newRounded.interestOutstanding
                       - rounded.interestOutstanding + over.untrackedInterest,
                     rounded.managementFeeDue - newRounded.managementFeeDue
                       + over.untrackedManagementFee))

\* The new tracked values: the new raw schedule plus the rounding errors
\* (tracked minus raw) of the old one.
ReamortizedLoan(over, l, raw, props, newRaw) ==
    OverpaymentOutcome(over, l, props,
        [l EXCEPT
           !.totalValueOutstanding = RoundToAsset(newRaw.valueOutstanding
               + (l.totalValueOutstanding - raw.valueOutstanding), Nearest),
           !.principalOutstanding = RoundToAsset(newRaw.principalOutstanding
               + (l.principalOutstanding - raw.principalOutstanding), Downward),
           !.managementFeeOutstanding = RoundToAsset(newRaw.managementFeeDue
               + (l.managementFeeOutstanding - raw.managementFeeDue), Nearest),
           !.periodicPayment = props.periodicPayment])

Reamortize(over, l, raw, props) ==
    ReamortizedLoan(over, l, raw, props,
        CalculateRawLoanState(props.periodicPayment, PeriodicRate,
                              l.paymentRemaining, ManagementFeeRate))

ReamortizeFrom(over, l, raw) ==
    Reamortize(over, l, raw,
        ComputeLoanProperties(
            NMax(raw.principalOutstanding - over.trackedPrincipalDelta, 0),
            InterestRate, PaymentInterval, l.paymentRemaining,
            ManagementFeeRate))

\* detail::tryOverpayment: re-amortize the remaining schedule over the
\* reduced raw principal, keeping the rounding errors of the tracked
\* values.  "skip" is Unexpected(tesSUCCESS): the overpayment is dropped.
TryOverpayment(over, l) ==
    ReamortizeFrom(over, l,
        CalculateRawLoanState(l.periodicPayment, PeriodicRate,
                              l.paymentRemaining, ManagementFeeRate))

\* detail::doOverpayment: keep the result only if the principal decreased.
KeepOverpayment(l, r) ==
    IF r.ter = "skip" \/ l.principalOutstanding <= r.loan.principalOutstanding
    THEN [ter |-> "skip"]
    ELSE r

DoOverpayment(over, l) == KeepOverpayment(l, TryOverpayment(over, l))

\* The while loop of loanMakePayment: further regular payments while the
\* amount covers them, up to loanMaximumPaymentsPerTransaction.
RECURSIVE PayLoop(_, _, _, _, _), PayNext(_, _, _, _, _, _),
          PayNextNoBreak(_, _, _, _, _, _), PayLoopStep(_, _, _, _, _)
PayLoopStep(totalPaid, parts, numPayments, amount, r) ==
    PayLoop(r.loan, totalPaid, AddParts(parts, r.parts), numPayments + 1,
            amount)

\* Mutant: the loop does not stop when the amount cannot cover the next
\* payment.
PayNextNoBreak(l, totalPaid, parts, numPayments, amount, next) ==
    IF ~(totalPaid < amount /\ l.paymentRemaining > 0
         /\ numPayments < LoanMaximumPaymentsPerTransaction)
    THEN [loan |-> l, totalPaid |-> totalPaid, parts |-> parts,
          numPayments |-> numPayments]
    ELSE PayLoopStep(totalPaid + next.totalDue, parts, numPayments, amount,
                     DoPayment(next, l))

PayNext(l, totalPaid, parts, numPayments, amount, next) ==
    IF \/ ~(totalPaid < amount /\ l.paymentRemaining > 0
            /\ numPayments < LoanMaximumPaymentsPerTransaction)
       \/ amount < totalPaid + next.totalDue
    THEN [loan |-> l, totalPaid |-> totalPaid, parts |-> parts,
          numPayments |-> numPayments]
    ELSE PayLoopStep(totalPaid + next.totalDue, parts, numPayments, amount,
                     DoPayment(next, l))

PayLoop(l, totalPaid, parts, numPayments, amount) ==
    PayNext(l, totalPaid, parts, numPayments, amount, PeriodicComponents(l))

\* The overpayment step of loanMakePayment, after the regular payments.
OverpayResult(s, r) ==
    IF r.ter = "tesSUCCESS"
    THEN Outcome("tesSUCCESS", r.loan, AddParts(s.parts, r.parts))
    ELSE Outcome("tesSUCCESS", s.loan, s.parts)

OverpayWith(s, amount, overpaymentAllowed, over) ==
    IF /\ overpaymentAllowed /\ s.loan.overpayment
       /\ s.loan.paymentRemaining > 0 /\ s.loan.nextPaymentDueDate # NoDate
       /\ s.totalPaid < amount
       /\ s.numPayments < LoanMaximumPaymentsPerTransaction
       /\ over.rawPrincipal > 0 /\ over.trackedPrincipalDelta > 0
    THEN OverpayResult(s, DoOverpayment(over, s.loan))
    ELSE Outcome("tesSUCCESS", s.loan, s.parts)

Overpay(s, amount, overpaymentAllowed) ==
    OverpayWith(s, amount, overpaymentAllowed,
        ComputeOverpaymentComponents(
            NMin(amount - s.totalPaid, s.loan.totalValueOutstanding)))

\* loanMakePayment after the periodic split is known: a late payment, or
\* one or more regular payments and an optional overpayment.
RegularPayments(totalDue, amount, overpaymentAllowed, first) ==
    Overpay(PayLoop(first.loan, totalDue, first.parts, 1, amount), amount,
            overpaymentAllowed)

MakePeriodicPayment(l, amount, overpaymentAllowed, periodic, late) ==
    CASE late.ter = "tesSUCCESS" -> DoPayment(late.pay, l)
      [] late.ter # "notlate" -> Reject(late.ter, l)
      [] amount < periodic.totalDue -> Reject("tecINSUFFICIENT_PAYMENT", l)
      [] OTHER -> RegularPayments(periodic.totalDue, amount,
                                  overpaymentAllowed, DoPayment(periodic, l))

MakePayment(l, now, amount, overpaymentAllowed, periodic) ==
    MakePeriodicPayment(l, amount, overpaymentAllowed, periodic,
                        ComputeLatePayment(l, periodic, now, amount))

\* loanMakePayment.
LoanMakePayment(l, now, amount, overpaymentAllowed) ==
    CASE l.paymentRemaining = 0 \/ l.principalOutstanding = 0 ->
           Reject("tecKILLED", l)
      [] l.nextPaymentDueDate = NoDate -> Reject("tecINTERNAL", l)
      [] OTHER -> MakePayment(l, now, amount, overpaymentAllowed,
                              PeriodicComponents(l))

FullPaymentOutcome(l, full) ==
    IF full.ter = "tesSUCCESS" THEN DoPayment(full.pay, l)
    ELSE Reject(full.ter, l)

\* loanMakeFullPayment.
LoanMakeFullPayment(l, now, amount) ==
    CASE l.paymentRemaining = 0 \/ l.principalOutstanding = 0 ->
           Reject("tecKILLED", l)
      [] l.nextPaymentDueDate = NoDate -> Reject("tecINTERNAL", l)
      [] OTHER -> FullPaymentOutcome(l, ComputeFullPayment(l, now, amount))
=============================================================================
