# TLA+ model of the XRPL lending protocol (LoanSet, LoanPay and the amortization engine)

This directory has TLA+ models of these source files:

- `src/src/xrpld/app/misc/detail/LendingHelpers.cpp` and `LendingHelpers.h`: the amortization arithmetic and the payment engine;
- `src/src/xrpld/app/tx/detail/LoanSet.cpp`: the transaction that creates a loan;
- `src/src/xrpld/app/tx/detail/LoanPay.cpp`: the transaction that repays one.

The TLC model checker runs the models. `PROJECT.json` lists:

- the components;
- the runs;
- the mutants that show each property can fail;
- the source lines behind every definition;
- the findings;
- the hazards.

## The system

A **Vault** holds the depositors' assets. A **LoanBroker** sits on the vault and has a first-loss cover (`CoverAvailable`) and a `DebtTotal`.

**LoanSet** creates a **Loan**:

- It computes the schedule with `computeLoanProperties`: periodic payment, total value outstanding and management fee owed to the broker.
- It checks the schedule for precision loss and against the broker's debt maximum and cover.
- It sends principal less the origination fee to the borrower and the origination fee to the broker owner.
- It moves the principal out of the vault's `AssetsAvailable`, adds the interest due to the vault's `AssetsTotal`, and adds principal + interest due to `DebtTotal`.

**LoanPay** repays through `loanMakePayment` or `loanMakeFullPayment`, which split each payment into principal, interest, management fee and untracked extras. There are five kinds of payment:

- a late payment (when `now > NextPaymentDueDate`);
- one regular payment;
- a batch of up to `loanMaximumPaymentsPerTransaction` regular payments;
- an overpayment that re-amortizes the rest of the schedule (`tryOverpayment`);
- a full early payoff.

`LoanPay` then does four things:

- sends principal + interest to the vault;
- sends the fee to the broker owner, or to the broker's cover when the cover is below its minimum or the owner is deep frozen;
- lowers `DebtTotal` by principal + interest − valueChange;
- adjusts the vault's books.

The loan record keeps only rounded totals:

- `TotalValueOutstanding`;
- `PrincipalOutstanding`;
- `ManagementFeeOutstanding`.

Each payment recomputes the "raw" (unrounded) schedule and corrects the rounded split by the drift between the two.

## Modules

| Module | Models | State and actions |
|---|---|---|
| `LoanMath` | Number, roundToAsset, the rate math, LoanState, computeFee, computePaymentComponents and its rounded components, computeLoanProperties | Pure operators, with no variables. |
| `LoanPayment` | doPayment, computeLatePayment, computeFullPayment, computeOverpaymentComponents, tryOverpayment, doOverpayment, loanMakePayment (including the batch loop, as the RECURSIVE `PayLoop`), loanMakeFullPayment | Operators from a Loan record, the close time and the Amount to an outcome `[ter, loan, parts]`. `parts` is LoanPaymentParts. |
| `Lending` | The ledger: one vault, one broker, up to `MaxLoans` loans, the account balances, the issuer's regular and deep freezes and the close time | Listed below. |
| `LoanLedger` | What LoanSet and LoanPay promise, without the amortization | `ledger` (loan → what it still owes: value and principal) and `holdings`; actions `Lend`, `Repay`, `Payoff`. `Lending` instantiates it as `Ledger`. |
| `MCLending` | The sets of inputs TLC enumerates | Uses the cfgs below. |

`Lending` has the following variables:

- `loans`;
- `vault`;
- `broker`;
- `balances`;
- `frozen` (accounts the issuer has frozen, regular or deep) and `deepFrozen` (those deep frozen, a subset);
- `now`;
- `lastTx`, which records the transaction of the step, its TER, its Amount and what it took from the borrower.

`Lending` has the following actions:

- `LoanSet(principal, total, overpaymentFlag)`;
- `LoanPay(i, amount, fullFlag, overpaymentFlag)`;
- `Tick(d)`: a ledger closes later;
- `SetFrozen`, `SetDeepFrozen`, `ClearDeepFrozen` and `ClearFrozen`: the issuer freezes an account (regular or deep), lowers a deep freeze to a regular one, or lifts the freeze. The constants `Freezable` and `DeepFreezable` say which accounts each may touch;
- `Horizon`: stuttering at the model's time bound.

### How the model follows the code

A transaction is one atomic step, as in the ledger.

- **Errors.** A `tec` result leaves every object as it was and only records the TER.
- **Order of checks.** The checks come in the code's order.
  - `LoanSet`: `LoanSetCheck` applies the preflight checks on the principal, the origination fee and the payment count first (`PrincipalInvalid`, `PaymentTotalInvalid`: `temINVALID`), then the preclaim checks (schedule overflow, then `LoanSetFrozen`: the vault pseudo-account or borrower frozen, or the broker owner deep frozen). It then applies the checks of doApply.
  - `LoanPay`: `LoanPayChecks` applies preflight (`temBAD_AMOUNT`, and `temINVALID_FLAG` for a full payment flagged as an overpayment), then `LoanPayPrecheck` the checks of preclaim (`LoanPayFrozen`: the borrower frozen or the vault pseudo-account deep frozen, before the funds check) and the payee deep-freeze check. `SettlePayment` then applies, in order:
    - the engine's error;
    - the `tecLIMIT_EXCEEDED` check;
    - a transfer the borrower cannot fund, which accountSendMulti refuses.

## Abstractions

**Number.** `Number` is 16-digit decimal floating point, and the model uses fixed point instead. A Number x is the integer x·10⁶. Every product and quotient is rounded in the current rounding mode (`MulDivRound`). The Number type is defined outside this repository, so this part is modelled from its documented behaviour.

**The asset.** The asset is integral (XRP or an MPT), so `roundToAsset` rounds to whole units and the loan scale is 0. Assets that are not integral are not modelled.

**Rounding precision.** The 10⁻⁶ precision of Number differs from its 16 digits. The python emulation used during development checked the four amortization findings with 16-digit decimal arithmetic: each counterexample trace gives the same whole-unit results under both precisions.

**Time.**

- A year is 100 ticks, and a payment interval is 10 ticks.
- With the 30% rate, a period's interest is a few whole units. Rounding to a whole unit is then of the order of the interest, so the drift corrections of the splitter come into play.
- `TimeModulus` (64) stands for 2³², the width of the uint32 dates.

**Loan terms.** All loans share the terms in the constants: rates, fees and interval. Only the principal, the number of payments and the overpayment flag vary.

## Runs

All runs use `MCLending`. Except where "Bounds" below says otherwise, they use these settings:

- principals of 50 and 100;
- 2 or 3 payments;
- clock steps of 4 and 10 ticks, up to time 50, so that payments can be early, on time or late;
- Amounts equal to each due amount (one period, two periods, late, full) plus −1, 0 or 3 units. The overpaying cfgs use +0, +3 or +30 units instead.

| Run | cfg | Expect | Properties | Shows |
|---|---|---|---|---|
| lending_regular | `MCLending.cfg` | pass | LoanStateConsistent, BrokerDebtTracksLoans, VaultBooksBalance, PaymentWithinAmount, DueScheduleFits, PaymentsMakeProgress | Without overpayments, every loan's fields stay coherent. The broker's DebtTotal equals what the live loans owe the vault, and the vault's books agree with it. No payment takes more than its Amount. Every successful LoanPay moves its loan forward. This holds across late, regular, batched and full payments, and with the broker owner deep frozen (the fee then goes to the cover), at 30%/25%. |
| freezes | `MCLendingFreeze.cfg` | pass | FreezesRespected, ZeroInterestFree, VaultMadeWhole | At a zero interest rate, with overpayments allowed and with regular and deep freezes of the borrower, the vault pseudo-account and the broker's accounts: no LoanSet or LoanPay takes funds from a frozen account or moves a deep-frozen one. A loan's value stays its principal, with no management fee. Once every loan is paid, the vault holds at least its deposits. |
| lending_overpay | `MCLendingOverpay.cfg` | pass | TypeOK, PaymentsMakeProgress, PaymentPartsValid | With overpayments, every successful payment still lowers the loan's value without raising its principal. No balance goes negative: an unfundable transfer fails as a whole. Every payment LoanPay accepts reports rounded, non-negative parts. |
| lending_live | `MCLendingLive.cfg` | pass | LoansPaidOff | A borrower who keeps paying the quoted late or periodic amount closes every loan, through doPayment's final branch. |
| ledger_refinement | `LedgerRefinement.cfg` | pass | LendingImplementsLedger | Without overpayments, the ledger implements `LoanLedger`. |
| two_loans | `MCLendingTwoLoans.cfg` | pass | BrokerCoverSufficient, BrokerDebtTracksLoans, VaultBooksBalance | With two loans on one broker, the cover always meets the minimum that LoanPay's fee routing uses, and the books track both loans. |
| fee_estimate | `FeeEstimate.cfg` | violation | FeeCoversPayments | calculateBaseFee's estimate divides by the undrifted periodic payment + service fee, which exceeds the drift-corrected due amount: an Amount of two dues makes two payments for the fee of one increment. |
| overpay_amount | `OverpayAmount.cfg` | violation | PaymentWithinAmount | An overpayment charges the borrower more than the Amount. |
| overpay_books | `OverpayBooks.cfg` | violation | BrokerDebtTracksLoans | After an overpayment, DebtTotal drifts from the loans' debt. |
| overpay_state | `OverpayState.cfg` | violation | LoanStateConsistent | Re-amortization rounds value, principal and fee separately and leaves principal + fee > total value (interestDue < 0). |
| early_payoff | `EarlyPayoff.cfg` | violation | EarlyPayoffBounded | A payoff quoted after paying ahead includes about 2³² seconds of accrued interest. |
| regular_fee_drift | `RegularFeeDrift.cfg` | violation | LoanStateConsistent | At 40%/25%, ordinary payments leave interestDue < 0. |

### Properties

- **LoanStateConsistent.**
  - A loan has no payments left exactly when it has no principal and no due date.
  - A paid-off loan has no value and no fee left.
  - Otherwise principal + fee ≤ total value, which means interestDue ≥ 0, as LendingHelpers.h and spec.md state.
- **BrokerDebtTracksLoans.** `DebtTotal` equals the sum over live loans of (total value − management fee). LoanSet adds principal + interestDue, and every LoanPay removes principal + interest − valueChange.
- **VaultBooksBalance.** `AssetsTotal − AssetsAvailable = DebtTotal`, and `AssetsAvailable ≤ AssetsTotal`. The second is the assertion in LoanSet and LoanPay.
- **PaymentWithinAmount.** What LoanPay transfers is at most its Amount. This is the assertion at LoanPay.cpp:421.
- **PaymentsMakeProgress** (an action property). A successful LoanPay strictly lowers some loan's total value. It never raises that loan's principal or its remaining payments.
- **DueScheduleFits.** For an open loan, the next due date is set, follows the start date, and the last due date `next + (remaining − 1) · interval` fits in a uint32. LoanSet::preclaim's quotient test (LoanSet.cpp:208-234) makes this hold at creation, and every doPayment keeps it.
- **BrokerCoverSufficient.** The cover is at least the minimum for the current debt, rounded to the asset. LoanSet checks the cover against the unrounded minimum for the debt after the new loan. LoanPay's payments only lower the debt, so the cover LoanSet admitted stays enough for the debt that remains, across two loans opened in either order. LoanPay sends its fee to the owner when the cover meets this rounded minimum for the debt before the payment and the owner is not deep frozen (LoanPay.cpp:259-275). The cover condition therefore never diverts the fee; only a deep freeze does.
- **LoansPaidOff** (liveness). Assume the borrower keeps paying exactly what is due (`DiligentBorrower`, below). Then every open loan is eventually closed: no payments, no value and no principal left.
- **LendingImplementsLedger** (refinement). `Lending` implements `LoanLedger!Spec` under this mapping:
  - `ledger[i]` is `NoLoan`, or `[value ↦ TotalValueOutstanding, principal ↦ PrincipalOutstanding]`;
  - `holdings` is `balances`.

  The abstract spec says:
  - funds only move: the total is conserved, and only the vault pseudo-account (on `Lend`) or the borrower (on `Repay`/`Payoff`) loses any;
  - a repayment lowers the value by no more than the borrower paid, and never raises the principal above the value;
  - a payoff zeroes the loan for at least its principal.

  Under the overpayment constants, the refinement fails at the known `overpay_state` divergence (principal + fee > value), so the run uses the regular constants.
- **EarlyPayoffBounded.** While a loan is not late, the full-payment quote is at most the total value + the close fee + the prepayment penalty + one unit.
- **FreezesRespected** (an action property). A step never lowers a frozen account's balance and never changes a deep-frozen one's. It relates LoanSet's and LoanPay's freeze checks to the transfers that follow them, including the fee routed past a deep-frozen owner.
- **FeeCoversPayments** (checked in `fee_estimate`, expected violated). A successful regular LoanPay makes no more payments than the base fee's increments × `LoanPaymentsPerFeeIncrement`, the bound calculateBaseFee's comment states.
- **ZeroInterestFree.** At a zero interest rate, every live loan's total value equals its principal and it owes no management fee. LoanSet's tecINTERNAL guard, the `periodicRate == 0` branches of the splitter and the rounding in tryOverpayment must all agree for this to hold (spec.md §8).
- **VaultMadeWhole.** Once no live loan has payments left, the vault's AssetsAvailable and the vault pseudo-account's balance are both at least the assets deposited. Every payment rounds the vault's share down, so an error in the full-payment split can leave the depositors short.
- **PaymentPartsValid.** For every reachable loan, Amount and flag that LoanPay's checks accept, a successful late, regular, batched, over- or full payment reports principal, interest and fee paid that are non-negative and rounded to the asset, and a rounded valueChange. These are the assertions before loanMakePayment and loanMakeFullPayment return.
- **TypeOK.** Balances stay natural numbers, among the other typing conditions.

### Mutants

Each property of a passing run is broken by a plausible bug in a mapped definition. `PROJECT.json` lists them:

- a final payment handled like a partial one;
- a final payment that keeps its total value;
- the new debt counted with the fee;
- debt reduced without valueChange;
- the batch loop without its break;
- a transfer made without funds;
- the schedule-overflow quotient test off by one payment;
- LoanSet's cover check made against the debt before the new loan;
- LoanPay's freeze check looking only at the deep freeze of the vault pseudo-account;
- at a zero rate, the rounded payment's surplus over the principal taken as interest without the cap at the interest owed;
- the full-payment split using the raw, unrounded principal;
- the late interest split before it is rounded.

## Bounds and why they are enough

**MaxLoans = 1.** Loans of one broker interact only through the broker's and vault's totals, and those totals are checked as sums. Two loans would multiply the state space without a new interleaving inside a transaction, because transactions are atomic.

**`LoanMaximumPaymentsPerTransaction = 2`.** This makes the batch loop both run and stop on its bound.

**Two or three payments.** These give the first, middle and final payments.

**PayExtras.** The extras put each Amount just below, at, and above every due amount. The +30 extra reaches overpayments that re-amortize.

**Two loans (`two_loans`).** `MaxLoans = 2` and `CoverDeposit = 11`. The cover admits a loan of 100 alone or two loans of 50, and refuses 50 then 100. The cover check therefore branches both ways, with and without debt already on the broker. The run is kept inside the time budget with:
- one schedule length (2 payments);
- exact amounts only;
- 10-tick steps;
- only the owner freezable.

**Liveness (`lending_live`).** `BorrowerFunds = 40`, so the borrower can always fund what is due. `PayExtras = {0}`. Only the broker owner is freezable, which reroutes the fee but never blocks a payment. A separate check confirmed that under these constants LoanPay's prechecks pass on every open loan for the amount due. So the fairness hypothesis can be met on every open loan.

**Freezes and zero interest (`freezes`).** `Freezable = {borrower, vaultPseudo}` and `DeepFreezable = {vaultPseudo, brokerOwner, brokerPseudo}`, so every freeze check of LoanSet and LoanPay branches both ways. Other runs keep `Freezable = {}`. The freeze checks do not depend on the rate, so this run also sets `InterestRate = 0`:
- principals of 0, 7 and 100: 0 takes LoanSet's `temINVALID` preflight branch, and 7 over 2 or 3 payments gives a periodic payment that is not whole, so rounding leaves a surplus over the principal;
- 0, 2 or 3 payments: 0 takes the `temINVALID` branch on the payment count;
- overpayments allowed, and extras 0, 1 and 30, so that overpayments re-amortize a zero-rate loan;
- one clock step (10 ticks), which keeps the run within the time budget.

**Horizon of `lending_regular` and `ledger_refinement`.** These runs stop the clock at 44 instead of 50, and deep-freeze only the broker owner. With start 10 and 10-tick intervals, the last due date of a 3-payment loan is 40, so a payment at 44 is still late on every schedule. The freeze branches are checked in `freezes`. The late path charges late interest and the late fee (see "A correction to the model"), which gives more distinct states; the shorter horizon keeps these two runs within the time budget.

**`LoanPaymentsPerFeeIncrement = 1`.** One increment per payment makes the fee estimate's quotient the payment count itself, so `FeeCoversPayments` compares the counts directly; with 2 or 3 payments a larger value would make every payment take the `paymentRemaining ≤ perInc` branch.

**Reachability.** The violation traces are 3 to 6 steps long, and the passing runs reach every action and every branch of `Next`.

## Fairness

Nothing in the code forces a borrower to pay, so `Spec` has no fairness. `LoansPaidOff` makes the borrower's diligence an explicit hypothesis for each loan:

`DiligentBorrower(i) == []<>(~LoanOpen(i)) \/ []<><<PayDue(i)>>_vars`

Here `PayDue(i)` is the LoanPay step that pays `DueNow`. This is weak fairness of `PayDue(i)`, with `LoanOpen(i)` written in place of `ENABLED <<PayDue(i)>>_vars`. The two agree in the live run:
- `PayDue(i)` is enabled exactly when the loan is open. loanMakePayment compares the Amount with the same totalDue that `DueNow` quotes, and the prechecks always pass in this run, so the step succeeds;
- a successful payment always changes the loan.

The explicit form avoids evaluating ENABLED. TLC would otherwise recompute the whole amortization inside ENABLED without caching, which is exponential in this model.

Time is bounded by `MaxTime`, and `Horizon` lets behaviours stutter once the clock stops. A loan still open at the horizon is paid late, which the late path accepts. No fairness is placed on `Tick` because no property needs the clock to advance.

## A correction to the model

`Plus` models the `PaymentComponentsPlus` constructor. Until this version it merged its new fields into the split with the left-biased `@@`. computeLatePayment extends a split that is already a `PaymentComponentsPlus`, so the periodic split's untracked fee, untracked interest and totalDue were kept. The late path therefore charged neither late interest nor the late fee. `Plus` now puts the new fields first, as the constructor does (LendingHelpers.cpp:860-871). Every run and mutant was checked again after the change.

## Not modelled

- **Other transactors.** LoanManage (impairment and default), LoanDelete, LoanBroker and Vault transactions are not in this repository's sources.
  - The vault and broker are created in `Init`.
  - The `unimpairLoan` call at the start of LoanPay is left out.
- **Stateless checks.**
  - the rest of LoanSet's preflight (the rate and fee ranges, the grace period, the data field) and signatures;
  - the fee in drops that calculateBaseFee's increments multiply (the increments are modelled);
  - wrong-asset and permission checks;
  - reserve, requireAuth and addEmptyHolding;
  - directory links.
  None of these changes what the properties relate.
- **Freezes.** Freezes of the trust line or MPT of one holder are modelled as the account's frozen set; global freezes and the issuer's own account are not.

## Plan: what is left

1. **Amortization closure.** Over a whole schedule, the principal paid sums to the loan's principal (spec §8). This needs a history variable that accumulates LoanPaymentParts.
2. **Two loans with overpayments and freezes of both accounts.** This exceeds the time budget at the present bounds.
3. **A refinement under overpayments.** This waits for the overpayment findings to be resolved in the code.
