-------------------------- MODULE PriceCalculator --------------------------
(***************************************************************************)
(* ProfitGuardCalculator (crawler/commerce/profit_guard/calculator.py): a  *)
(* pure function of a cost profile, the current price and the market's.    *)
(* Amounts are integers, in tenths of the currency unit (a market price    *)
(* need not be a whole amount, a recommended one is); rates are percents.  *)
(* A market price of 0 is "none given".                                    *)
(***************************************************************************)
EXTENDS Integers

Unit == 10   \* CURRENCY_UNIT

\* CostProfile, with what its validator demands; linked: it names a registered
\* provider and an authorization (the calculator does not look at that).
ProfileRange == [fixed : Nat \ {0}, rate : 0..99, margin : 0..99, step : 1..100,
                 linked : BOOLEAN]
IsProfile(p) == p \in ProfileRange /\ p.rate + p.margin < 100

CeilDiv(a, b) == (a + b - 1) \div b

\* Decimal.quantize of n / d to whole units, upwards or to the nearest.
RoundUp(n, d)   == Unit * CeilDiv(n, d * Unit)
RoundHalf(n, d) == Unit * ((2 * n + d * Unit) \div (2 * d * Unit))

\* What is left of 100 after fees, and after fees and the margin.
Retained(p) == 100 - p.rate
Kept(p)     == 100 - p.rate - p.margin

FloorPrice(p) == RoundUp(100 * p.fixed, Kept(p))
BreakevenPrice(p) == RoundUp(100 * p.fixed, Retained(p))

\* 100 times the profit of a sale.
Profit(p, price) == price * Retained(p) - 100 * p.fixed

\* The price before the final guard: the market's, at most one step away.
Target(p, current, market) ==
    LET floor == FloorPrice(p)
        down  == current * (100 - p.step)   \* 100 * max_allowed_drop
        up    == current * (100 + p.step)
    IN IF market = 0 \/ market = current
       THEN IF current < floor THEN floor ELSE current
       ELSE IF market > current
       THEN IF 100 * market <= up THEN RoundHalf(market, 1) ELSE RoundHalf(up, 100)
       ELSE IF market < floor THEN floor
       ELSE IF 100 * market < down
       THEN IF floor > RoundUp(down, 100) THEN floor ELSE RoundUp(down, 100)
       ELSE RoundHalf(market, 1)

\* Mutant: the final guard is missing.
RecommendedAsTargeted(p, current, market) == Target(p, current, market)

Recommended(p, current, market) ==
    IF Target(p, current, market) < FloorPrice(p)
    THEN FloorPrice(p) ELSE Target(p, current, market)
=============================================================================
