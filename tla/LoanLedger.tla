------------------------------ MODULE LoanLedger ------------------------------
(***************************************************************************)
(* What the lending transactions promise, without the amortization: a     *)
(* loan is opened once with the lender paying out its principal, and is   *)
(* then repaid, each repayment lowering the value the borrower still owes *)
(* by no more than what the borrower hands over, until it is paid off.    *)
(* Funds only move between accounts: none is created or destroyed, and    *)
(* only the paying party's holding goes down.                             *)
(***************************************************************************)
EXTENDS Integers, FiniteSetsExt

CONSTANTS
    Loans,     \* loan identifiers
    Accounts,  \* the accounts holding the asset
    Lender,    \* the account principal is paid out of
    Payer,     \* the account repayments are taken from
    None       \* no loan under this identifier

VARIABLES
    ledger,    \* loan -> None or [value, principal] still owed
    holdings   \* account -> its holding of the asset

vars == <<ledger, holdings>>

Total(h) == MapThenSumSet(LAMBDA a : h[a], Accounts)

\* Funds leave only the account from, by exactly x, and reach the others.
MovedFrom(from, x) ==
    /\ holdings' \in [Accounts -> Nat]
    /\ holdings'[from] = holdings[from] - x
    /\ \A a \in Accounts \ {from} : holdings'[a] >= holdings[a]
    /\ Total(holdings') = Total(holdings)

Init ==
    /\ ledger = [i \in Loans |-> None]
    /\ holdings \in [Accounts -> Nat]

\* A loan is opened: the lender pays out the principal, and the borrower
\* owes at least that much.
Lend(i) ==
    /\ ledger[i] = None
    /\ ledger'[i] # None
    /\ 0 < ledger'[i].principal
    /\ ledger'[i].principal <= ledger'[i].value
    /\ MovedFrom(Lender, ledger'[i].principal)
    /\ ledger' = [ledger EXCEPT ![i] = ledger'[i]]

\* A repayment: the payer hands over paid, the loan's value falls by no more
\* than that, and its principal never grows.
Repay(i) ==
    LET paid == holdings[Payer] - holdings'[Payer] IN
    /\ ledger[i] # None
    /\ 0 <= ledger'[i].value
    /\ ledger'[i].value < ledger[i].value
    /\ ledger'[i].principal <= ledger[i].principal
    /\ ledger'[i].principal <= ledger'[i].value
    /\ ledger[i].value - ledger'[i].value <= paid
    /\ MovedFrom(Payer, paid)
    /\ ledger' = [ledger EXCEPT ![i] = ledger'[i]]

\* An early payoff: the payer hands over at least the principal still owed,
\* and the rest of the value is forgiven.
Payoff(i) ==
    LET paid == holdings[Payer] - holdings'[Payer] IN
    /\ ledger[i] # None
    /\ ledger[i].value > 0
    /\ ledger'[i] = [value |-> 0, principal |-> 0]
    /\ ledger[i].principal <= paid
    /\ MovedFrom(Payer, paid)
    /\ ledger' = [ledger EXCEPT ![i] = ledger'[i]]

Next == \E i \in Loans : Lend(i) \/ Repay(i) \/ Payoff(i)

Spec == Init /\ [][Next]_vars
=============================================================================
