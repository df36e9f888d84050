------------------------------ MODULE MCLending ------------------------------
(***************************************************************************)
(* Lending instantiated for TLC: an integral asset counted in 10^-6 of a  *)
(* unit, a year of 100 ticks and 10-tick payment intervals, so that a 30% *)
(* rate is 3% a period and rounding each period to whole units is of the  *)
(* order of the interest itself; a 25% management fee is then a unit or  *)
(* two of a loan's interest.                                               *)
(***************************************************************************)
EXTENDS Lending

MCPrincipals == {50, 100}
MCPaymentTotals == {2, 3}
MCPayExtras == {-1, 0, 3}
MCOverpayExtras == {0, 3, 30}
MCTimeSteps == {4, 10}
MCDeepFreezable == {"brokerOwner"}
=============================================================================
