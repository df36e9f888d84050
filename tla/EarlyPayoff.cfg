CONSTANTS
    Unit = 1000000
    SecondsPerYear = 100
    TimeModulus = 64
    InterestRate = 30000
    LateInterestRate = 50000
    CloseInterestRate = 1000
    OverpaymentInterestRate = 1000
    OverpaymentFee = 1000
    ManagementFeeRate = 25000
    LoanServiceFee = 1
    LatePaymentFee = 2
    ClosePaymentFee = 1
    PaymentInterval = 10
    LoanMaximumPaymentsPerTransaction = 2
    LoanPaymentsPerFeeIncrement = 1
    NoDate = NoDate
    MaxLoans = 1
    Principals <- MCPrincipals
    PaymentTotals <- MCPaymentTotals
    OverpaymentFlags = {FALSE}
    OriginationFee = 1
    CoverRateMinimum = 10000
    DebtMaximum = 0
    VaultAssets = 200
    CoverDeposit = 20
    BorrowerFunds = 5
    PayExtras <- MCPayExtras
    StartTime = 10
    TimeSteps <- MCTimeSteps
    MaxTime = 50
    NoLoan = NoLoan
    DeepFreezable <- MCDeepFreezable
    Freezable = {}
INIT Init
NEXT Next
INVARIANT
    EarlyPayoffBounded
