-------------------------------- MODULE Tariff --------------------------------
(***************************************************************************)
(* The rates of tariff.py, in whole units of the smallest price, and what  *)
(* a report makes of a meter.                                              *)
(***************************************************************************)
EXTENDS Integers

CONSTANT Rate   \* RATE_D: access, firstPrice, firstTier, secondPrice, effective

ASSUME TariffAssumption ==
    /\ Rate.access \in Nat /\ Rate.firstPrice \in Nat /\ Rate.secondPrice \in Nat
    /\ Rate.firstTier \in Nat /\ Rate.effective \in Nat

SmallerOf(a, b) == IF a <= b THEN a ELSE b

Threshold(days) == Rate.firstTier * days

\* TieredRate.bill: the whole house, over a period.
Bill(kwh, days) ==
    LET cheap == SmallerOf(kwh, Threshold(days))
    IN Rate.access * days + cheap * Rate.firstPrice + (kwh - cheap) * Rate.secondPrice

\* Mutant: the average of the bill.
MarginalBlended(kwh) == IF kwh = 0 THEN 0 ELSE Bill(kwh, 1)

\* TieredRate.marginal_cost: the last kilowatt-hours of the day.
MarginalCost(kwh) == kwh * Rate.secondPrice

\* stale_after, of dates in months: twelve a year, April is the fourth.
StaleAfter(effective, on) ==
    LET april == 12 * (on \div 12) + 3
        latest == IF on >= april THEN april ELSE april - 12
    IN latest > effective
===============================================================================
