CONSTANTS
    Unit = 1000000
    SecondsPerYear = 100
    TimeModulus = 64
    InterestRate = 0
    LateInterestRate = 50000
    CloseInterestRate = 1000
    OverpaymentInterestRate = 1000
    OverpaymentFee = 1000
    ManagementFeeRate = 25000
    LoanServiceFee = 1
    LatePaymentFee = 2
    ClosePaymentFee = 1
    PaymentInterval = 10
    LoanMaximumPaymentsPerTransaction = 2
    LoanPaymentsPerFeeIncrement = 1
    NoDate = NoDate
    MaxLoans = 1
    Principals = {0, 7, 100}
    PaymentTotals = {0, 2, 3}
    OverpaymentFlags = {FALSE, TRUE}
    OriginationFee = 1
    CoverRateMinimum = 10000
    DebtMaximum = 0
    VaultAssets = 200
    CoverDeposit = 20
    BorrowerFunds = 5
    PayExtras = {0, 1, 30}
    StartTime = 10
    TimeSteps = {10}
    MaxTime = 50
    NoLoan = NoLoan
    DeepFreezable = {"vaultPseudo", "brokerOwner", "brokerPseudo"}
    Freezable = {"borrower", "vaultPseudo"}
INIT Init
NEXT Next
INVARIANTS
    ZeroInterestFree
    VaultMadeWhole
PROPERTY
    FreezesRespected
