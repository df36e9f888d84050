------------------------------ MODULE LoanMath ------------------------------
(***************************************************************************)
(* The amortization arithmetic of the lending protocol                     *)
(* (src/src/xrpld/app/misc/detail/LendingHelpers.cpp) as pure operators.   *)
(*                                                                         *)
(* Number, the decimal floating point type of the code, is abstracted as   *)
(* fixed point: a Number x is the integer x * Unit, and every product or   *)
(* quotient is rounded to a multiple of 1/Unit, as Number rounds each     *)
(* result to its 16-digit mantissa.  The asset is integral                 *)
(* (XRP or an MPT): roundToAsset rounds to a whole unit, i.e. a multiple   *)
(* of Unit, and the loan scale is 0.  Rates are in tenth basis points.     *)
(* Time is counted in ticks; SecondsPerYear is the year in ticks and       *)
(* TimeModulus stands for 2^32, the width of the uint32 dates.             *)
(***************************************************************************)
EXTENDS Integers

CONSTANTS
    Unit,           \* fixed-point denominator of a Number
    SecondsPerYear, \* 365 * 24 * 60 * 60 in the code, in model ticks
    TimeModulus     \* 2^32: NetClock and the loan dates are uint32

ASSUME Unit \in {10^k : k \in 1..6}
ASSUME SecondsPerYear \in Nat \ {0} /\ TimeModulus \in Nat \ {0}

\* Rounding modes of Number (Number::rounding_mode).
Nearest == "to_nearest"
Upward == "upward"
Downward == "downward"
TowardsZero == "towards_zero"

\* The integer q + r/d (0 <= r < d) rounded in the given mode; ties to even.
RoundQR(q, r, d, mode) ==
    CASE r = 0 -> q
      [] mode = Upward -> q + 1
      [] mode = Downward -> q
      [] mode = TowardsZero -> IF q >= 0 THEN q ELSE q + 1
      [] 2 * r > d -> q + 1
      [] 2 * r < d -> q
      [] OTHER -> IF q % 2 = 0 THEN q ELSE q + 1

\* n / d (d > 0) rounded to an integer in the given mode.
RoundDiv(n, d, mode) == RoundQR(n \div d, n % d, d, mode)

\* <<q, r>> with ar * b = q * c + r and 0 <= r < c, for 0 <= ar < c and
\* b >= 0, by long multiplication in base 1000 so that no intermediate
\* leaves the 32-bit integers of TLC (c is at most about 10^6).
\* One step of the long multiplication: <<q, r>> of the higher digits, and
\* the product of ar with the next digit.
MulRemDigit(hi, low, c) ==
    LET t == 1000 * hi[2] + low
    IN  <<1000 * hi[1] + t \div c, t % c>>

RECURSIVE MulRem(_, _, _)
MulRem(ar, b, c) ==
    IF b < 1000 THEN <<(ar * b) \div c, (ar * b) % c>>
    ELSE MulRemDigit(MulRem(ar, b \div 1000, c), ar * (b % 1000), c)

Sign(a) == IF a < 0 THEN -1 ELSE 1

\* a * b / c (c > 0) rounded, as Number rounds a product or a quotient.
\* The signed quotient q0 + qr[1] + qr[2]/c rounded in the given mode.
RoundProduct(sign, q0, qr, c, mode) ==
    LET q == q0 + qr[1]
    IN  CASE sign = 1 -> RoundQR(q, qr[2], c, mode)
          [] qr[2] = 0 -> -q
          [] OTHER -> RoundQR(-q - 1, c - qr[2], c, mode)

MulDivRound(a, b, c, mode) ==
    RoundProduct(Sign(a) * Sign(b), ((a * Sign(a)) \div c) * (b * Sign(b)),
                 MulRem((a * Sign(a)) % c, b * Sign(b), c), c, mode)

NMax(a, b) == IF a >= b THEN a ELSE b
NMin(a, b) == IF a <= b THEN a ELSE b

\* Number arithmetic, rounded to nearest.
NumberOf(i) == i * Unit
FxMul(a, b) == MulDivRound(a, b, Unit, Nearest)
FxDiv(a, b) == MulDivRound(a, Unit, b, Nearest)
FxDivInt(a, i) == RoundDiv(a, i, Nearest)

\* tenthBipsOfValue: value * bips / 100000; model rates are multiples of 100.
TenthBipsOfValue(value, bips) == MulDivRound(value, bips \div 100, 1000, Nearest)

\* roundToAsset for an integral asset: a whole number of units.
RoundToAsset(v, mode) == RoundDiv(v, Unit, mode) * Unit
IsRounded(v) == v % Unit = 0

\* roundPeriodicPayment (LendingHelpers.h): always upward.
RoundPeriodicPayment(p) == RoundToAsset(p, Upward)

(***************************************************************************)
(* Rate math.                                                              *)
(***************************************************************************)
LoanPeriodicRate(interestRate, paymentInterval) ==
    FxDivInt(TenthBipsOfValue(NumberOf(paymentInterval), interestRate),
             SecondsPerYear)

RECURSIVE Power(_, _)
Power(x, n) == IF n = 0 THEN Unit ELSE FxMul(x, Power(x, n - 1))

ComputeRaisedRate(periodicRate, n) == Power(Unit + periodicRate, n)

PaymentFactorOf(periodicRate, raisedRate) ==
    FxDiv(FxMul(periodicRate, raisedRate), raisedRate - Unit)

ComputePaymentFactor(periodicRate, n) ==
    PaymentFactorOf(periodicRate, ComputeRaisedRate(periodicRate, n))

LoanPeriodicPayment(principal, periodicRate, n) ==
    CASE principal = 0 \/ n = 0 -> 0
      [] periodicRate = 0 -> FxDivInt(principal, n)
      [] OTHER -> FxMul(principal, ComputePaymentFactor(periodicRate, n))

LoanPrincipalFromPeriodicPayment(payment, periodicRate, n) ==
    IF periodicRate = 0 THEN payment * n
    ELSE FxDiv(payment, ComputePaymentFactor(periodicRate, n))

\* Unsigned 32-bit subtraction of two dates.
DateDiff(a, b) == (a - b) % TimeModulus

LoanLatePaymentInterest(principal, lateInterestRate, now, nextDueDate) ==
    FxMul(principal,
          LoanPeriodicRate(lateInterestRate, DateDiff(now, nextDueDate)))

LoanAccruedInterest(principal, periodicRate, now, startDate, prevPaymentDate, paymentInterval) ==
    LET lastPaymentDate == NMax(prevPaymentDate, startDate)
        secondsSinceLastPayment == DateDiff(now, lastPaymentDate)
    IN  FxDivInt(FxMul(principal, periodicRate) * secondsSinceLastPayment,
                 paymentInterval)

CalculateFullPaymentInterest(rawPrincipal, periodicRate, now, paymentInterval, prevPaymentDate, startDate, closeInterestRate) ==
    LoanAccruedInterest(rawPrincipal, periodicRate, now, startDate,
                        prevPaymentDate, paymentInterval)
      + TenthBipsOfValue(rawPrincipal, closeInterestRate)

(***************************************************************************)
(* Loan states.                                                            *)
(***************************************************************************)
LoanState(value, principal, interest, fee) ==
    [valueOutstanding |-> value, principalOutstanding |-> principal,
     interestOutstanding |-> interest, interestDue |-> interest - fee,
     managementFeeDue |-> fee]

RawLoanState(value, principal, managementFeeRate) ==
    LoanState(value, principal, value - principal,
              TenthBipsOfValue(value - principal, managementFeeRate))

CalculateRawLoanState(periodicPayment, periodicRate, n, managementFeeRate) ==
    IF n = 0 THEN LoanState(0, 0, 0, 0)
    ELSE RawLoanState(periodicPayment * n,
                      LoanPrincipalFromPeriodicPayment(periodicPayment,
                                                       periodicRate, n),
                      managementFeeRate)

CalculateRoundedLoanState(totalValue, principal, managementFee) ==
    LoanState(totalValue, principal, totalValue - principal, managementFee)

ComputeFee(value, managementFeeRate) ==
    RoundToAsset(TenthBipsOfValue(value, managementFeeRate), Downward)

\* Raw interest split: no rounding to the asset.
SplitFee(interest, fee) == <<interest - fee, fee>>

RawInterestAndFeeParts(interest, managementFeeRate) ==
    SplitFee(interest, TenthBipsOfValue(interest, managementFeeRate))

\* Rounded interest split.
RoundedInterestAndFeeParts(interest, managementFeeRate) ==
    SplitFee(interest, ComputeFee(interest, managementFeeRate))

(***************************************************************************)
(* PaymentComponentSplitter: how one periodic payment is split into        *)
(* principal, interest and management fee, correcting the drift between   *)
(* the tracked (rounded) loan state and the raw schedule.                  *)
(***************************************************************************)
AssetIntegral == TRUE

\* The mode used to round a tracked-minus-raw drift.
DriftMode == IF AssetIntegral THEN Downward ELSE TowardsZero

\* A rounded principal p kept within the payment and the principal owed.
ClampPrincipal(p, principalOutstanding, roundedPeriodicPayment) ==
    CASE p > roundedPeriodicPayment \/ p > principalOutstanding ->
           NMin(roundedPeriodicPayment, principalOutstanding)
      [] p < 0 -> 0
      [] OTHER -> p

ComputeRoundedPrincipalComponent(principalOutstanding, rawPrincipalOutstanding, rawPrincipal, roundedPeriodicPayment) ==
    ClampPrincipal(
        RoundToAsset(rawPrincipal
                       + RoundToAsset(principalOutstanding
                                        - rawPrincipalOutstanding, DriftMode),
                     Downward),
        principalOutstanding, roundedPeriodicPayment)

ComputeRoundedInterestComponent(interestOutstanding, roundedPrincipal, rawInterestOutstanding, roundedPeriodicPayment) ==
    NMax(0, roundedPeriodicPayment - roundedPrincipal
              + RoundToAsset(interestOutstanding - rawInterestOutstanding,
                             DriftMode))

\* The rounded <<interest, fee>> of a payment: the fee is carved out of the
\* interest, and any excess over the payment is taken from the interest
\* first, then from the fee.
\* The last step: the part of interest + fee beyond the payment is taken
\* back from the interest first, then from the fee.
TrimInterestAndFee(interest1, fee1, roundedPrincipal, roundedPeriodicPayment) ==
    LET excess0 == roundedPeriodicPayment - (roundedPrincipal + interest1 + fee1)
        fromInterest == IF excess0 < 0 THEN NMin(interest1, -excess0) ELSE 0
        excess1 == excess0 + fromInterest
        fromFee == IF excess1 < 0 THEN NMin(fee1, -excess1) ELSE 0
    IN  <<NMax(0, interest1 - fromInterest), NMax(0, fee1 - fromFee)>>

\* The fee fee1 carved out of the rounded interest interest0.
CarveFee(interest0, fee1, interestOutstanding, roundedPrincipal, roundedPeriodicPayment) ==
    TrimInterestAndFee(NMin(interestOutstanding, NMax(0, interest0 - fee1)),
                       fee1, roundedPrincipal, roundedPeriodicPayment)

RoundedInterestAndFee(interest0, interestOutstanding, managementFeeOutstanding, roundedPrincipal, rawManagementFeeOutstanding, roundedPeriodicPayment, managementFeeRate) ==
    CarveFee(interest0,
             NMin(NMax(0, ComputeFee(interest0, managementFeeRate)
                            + RoundToAsset(managementFeeOutstanding
                                - rawManagementFeeOutstanding, DriftMode)),
                  managementFeeOutstanding),
             interestOutstanding, roundedPrincipal, roundedPeriodicPayment)

\* Mutant: at a zero rate, what the rounded payment leaves over the
\* principal is taken as interest, without the cap at the interest owed.
ComputeRoundedInterestAndFeeComponentsUncapped(interestOutstanding, managementFeeOutstanding, roundedPrincipal, rawInterestOutstanding, rawManagementFeeOutstanding, roundedPeriodicPayment, periodicRate, managementFeeRate) ==
    IF periodicRate = 0
    THEN <<ComputeRoundedInterestComponent(interestOutstanding,
               roundedPrincipal, rawInterestOutstanding,
               roundedPeriodicPayment), 0>>
    ELSE RoundedInterestAndFee(
             ComputeRoundedInterestComponent(interestOutstanding,
                 roundedPrincipal, rawInterestOutstanding,
                 roundedPeriodicPayment),
             interestOutstanding, managementFeeOutstanding, roundedPrincipal,
             rawManagementFeeOutstanding, roundedPeriodicPayment,
             managementFeeRate)

ComputeRoundedInterestAndFeeComponents(interestOutstanding, managementFeeOutstanding, roundedPrincipal, rawInterestOutstanding, rawManagementFeeOutstanding, roundedPeriodicPayment, periodicRate, managementFeeRate) ==
    IF periodicRate = 0 THEN <<0, 0>>
    ELSE RoundedInterestAndFee(
             ComputeRoundedInterestComponent(interestOutstanding,
                 roundedPrincipal, rawInterestOutstanding,
                 roundedPeriodicPayment),
             interestOutstanding, managementFeeOutstanding, roundedPrincipal,
             rawManagementFeeOutstanding, roundedPeriodicPayment,
             managementFeeRate)

Components(rawInterest, rawPrincipal, rawFee, valueDelta, principalDelta, feeDelta, specialCase) ==
    [rawInterest |-> rawInterest, rawPrincipal |-> rawPrincipal,
     rawManagementFee |-> rawFee, trackedValueDelta |-> valueDelta,
     trackedPrincipalDelta |-> principalDelta,
     trackedManagementFeeDelta |-> feeDelta, specialCase |-> specialCase]

\* PaymentComponents::trackedInterestPart
TrackedInterestPart(c) ==
    c.trackedValueDelta - (c.trackedPrincipalDelta + c.trackedManagementFeeDelta)

\* The regular split, given the raw state and the raw interest and principal
\* of the payment, the rounded principal and the rounded <<interest, fee>>.
RegularComponents(rawInterest, rawPrincipal, rawFee, roundedPrincipal, interestAndFee) ==
    Components(rawInterest - rawFee, rawPrincipal, rawFee,
               interestAndFee[1] + roundedPrincipal + interestAndFee[2],
               roundedPrincipal, interestAndFee[2], "none")

RoundRegularPayment(totalValueOutstanding, principalOutstanding, managementFeeOutstanding, periodicRate, managementFeeRate, roundedPeriodicPayment, raw, rawInterest, rawPrincipal, roundedPrincipal) ==
    RegularComponents(rawInterest, rawPrincipal,
        TenthBipsOfValue(rawInterest, managementFeeRate), roundedPrincipal,
        ComputeRoundedInterestAndFeeComponents(
            totalValueOutstanding - principalOutstanding,
            managementFeeOutstanding, roundedPrincipal,
            raw.interestOutstanding, raw.managementFeeDue,
            roundedPeriodicPayment, periodicRate, managementFeeRate))

SplitRegularPayment(totalValueOutstanding, principalOutstanding, managementFeeOutstanding, periodicRate, managementFeeRate, roundedPeriodicPayment, raw, rawInterest, rawPrincipal) ==
    RoundRegularPayment(totalValueOutstanding, principalOutstanding,
        managementFeeOutstanding, periodicRate, managementFeeRate,
        roundedPeriodicPayment, raw, rawInterest, rawPrincipal,
        ComputeRoundedPrincipalComponent(principalOutstanding,
            raw.principalOutstanding, rawPrincipal, roundedPeriodicPayment))

\* The last payment takes everything that is left.
FinalComponents(totalValueOutstanding, principalOutstanding, managementFeeOutstanding, raw) ==
    Components(raw.interestOutstanding, raw.principalOutstanding,
               raw.managementFeeDue,
               NMax(0, totalValueOutstanding - principalOutstanding
                         - managementFeeOutstanding)
                 + principalOutstanding + managementFeeOutstanding,
               principalOutstanding, managementFeeOutstanding, "final")

PaymentComponentsOf(totalValueOutstanding, principalOutstanding, managementFeeOutstanding, periodicPayment, periodicRate, paymentRemaining, managementFeeRate, roundedPeriodicPayment, raw, rawInterest) ==
    IF paymentRemaining = 1 \/ totalValueOutstanding <= roundedPeriodicPayment
    THEN FinalComponents(totalValueOutstanding, principalOutstanding,
                         managementFeeOutstanding, raw)
    ELSE SplitRegularPayment(totalValueOutstanding, principalOutstanding,
             managementFeeOutstanding, periodicRate, managementFeeRate,
             roundedPeriodicPayment, raw, rawInterest,
             periodicPayment - rawInterest)

PaymentComponentsOfRaw(totalValueOutstanding, principalOutstanding, managementFeeOutstanding, periodicPayment, periodicRate, paymentRemaining, managementFeeRate, raw) ==
    PaymentComponentsOf(totalValueOutstanding, principalOutstanding,
        managementFeeOutstanding, periodicPayment, periodicRate,
        paymentRemaining, managementFeeRate,
        RoundPeriodicPayment(periodicPayment), raw,
        FxMul(raw.principalOutstanding, periodicRate))

ComputePaymentComponents(totalValueOutstanding, principalOutstanding, managementFeeOutstanding, periodicPayment, periodicRate, paymentRemaining, managementFeeRate) ==
    PaymentComponentsOfRaw(totalValueOutstanding, principalOutstanding,
        managementFeeOutstanding, periodicPayment, periodicRate,
        paymentRemaining, managementFeeRate,
        CalculateRawLoanState(periodicPayment, periodicRate, paymentRemaining,
                              managementFeeRate))

(***************************************************************************)
(* computeLoanProperties: the schedule of a new (or re-amortized) loan.    *)
(* The total value is rounded to nearest; the loan scale is 0 for an       *)
(* integral asset.                                                         *)
(***************************************************************************)
LoanProperties(periodicPayment, totalValue, feeOwedToBroker, first) ==
    [periodicPayment |-> periodicPayment,
     totalValueOutstanding |-> totalValue,
     managementFeeOwedToBroker |-> feeOwedToBroker,
     firstPaymentPrincipal |-> first.rawPrincipal]

LoanPropertiesOfValue(principal, periodicPayment, periodicRate, n, managementFeeRate, totalValue, feeOwedToBroker) ==
    LoanProperties(periodicPayment, totalValue, feeOwedToBroker,
        ComputePaymentComponents(totalValue, principal, feeOwedToBroker,
            periodicPayment, periodicRate, n, managementFeeRate))

LoanPropertiesOfPayment(principal, periodicPayment, periodicRate, n, managementFeeRate, totalValue) ==
    LoanPropertiesOfValue(principal, periodicPayment, periodicRate, n,
        managementFeeRate, totalValue,
        ComputeFee(totalValue - principal, managementFeeRate))

LoanPropertiesOfPeriodic(principal0, periodicRate, n, managementFeeRate, periodicPayment) ==
    LoanPropertiesOfPayment(RoundToAsset(principal0, Nearest),
        periodicPayment, periodicRate, n, managementFeeRate,
        RoundToAsset(periodicPayment * n, Nearest))

LoanPropertiesAtRate(principal0, periodicRate, n, managementFeeRate) ==
    LoanPropertiesOfPeriodic(principal0, periodicRate, n, managementFeeRate,
        LoanPeriodicPayment(principal0, periodicRate, n))

ComputeLoanProperties(principal0, interestRate, paymentInterval, n, managementFeeRate) ==
    LoanPropertiesAtRate(principal0,
        LoanPeriodicRate(interestRate, paymentInterval), n, managementFeeRate)
=============================================================================
