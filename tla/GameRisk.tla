------------------------------ MODULE GameRisk ------------------------------
(***************************************************************************)
(* What a bet may cost the house, as the games quote it and the pages      *)
(* limit it: quoteRiskParams of KlabakGame, the limits the simulator       *)
(* publishes, and computeMaxWager of the SDK.                              *)
(***************************************************************************)
EXTENDS KlabakGame, SlotEngine

BASIS_POINTS == 10000
DEFAULT_MAX_BET_RISK_BPS == 100

\* Every weight is a multiple of it; it keeps the products of _mulDiv small.
WeightUnit == 5000

\* _mulDiv(weight * diff, diff, PROB_SCALE).
MeanSquare(weight, diff) ==
  ((weight \div WeightUnit) * diff * diff) \div (PROB_SCALE \div WeightUnit)

\* The distance of a tier's payout from the stake.
Profit(wager, cabinet, tier) ==
  LET p == Payout(wager, cabinet, tier) IN IF p > wager THEN p - wager ELSE wager - p

\* The loop over all the tiers.
SumOverTiers(f) == f[0] + f[1] + f[2] + f[3]

KlabakQuoteRiskParams(wager, cabinet) ==
  [maxPayout |-> Payout(wager, cabinet, TIER_TOP),
   probabilityWad |-> (Weight(cabinet, TIER_TOP) * WAD) \div PROB_SCALE,
   expectedPayout |->
     SumOverTiers([t \in Tiers |->
                     CeilDivide(Weight(cabinet, t) * Payout(wager, cabinet, t), PROB_SCALE)]),
   bodyVarianceScaled |->
     SumOverTiers([t \in Tiers |->
                     IF t = TIER_TOP THEN 0
                     ELSE MeanSquare(Weight(cabinet, t), Profit(wager, cabinet, t)) * WAD])]

-----------------------------------------------------------------------------
\* useCasinoRiskLimits: the cap it publishes for a vault balance.
MaxAllowedReservedProfit(availableLiquidity) ==
  (availableLiquidity * DEFAULT_MAX_BET_RISK_BPS) \div BASIS_POINTS

\* The highest wager computeMaxWager allows, as a set: empty when nothing
\* limits it.  The multiplier is rounded up to a basis point; no
\* maxBetAmount is configured here.
ComputeMaxWager(maxAllowedReservedProfit, multiplier) ==
  LET multiplierBps == CeilDivide(multiplier.numerator * BASIS_POINTS, multiplier.denominator)
      reservedProfitBps == multiplierBps - BASIS_POINTS
  IN  IF reservedProfitBps <= 0 THEN {}
      ELSE {(maxAllowedReservedProfit * BASIS_POINTS) \div reservedProfitBps}

-----------------------------------------------------------------------------
\* No tier pays more than the quoted top, the top comes no more often than quoted, and
\* the payouts, weighed, sum to no more than the expected payout.  (Not so the body's
\* variance.)
KlabakRiskCovers(wager, cabinet) ==
  LET risk == KlabakQuoteRiskParams(wager, cabinet)
  IN  /\ \A t \in Tiers : Payout(wager, cabinet, t) <= risk.maxPayout
      /\ Weight(cabinet, TIER_TOP) * WAD <= risk.probabilityWad * PROB_SCALE
      /\ SumOverTiers([t \in Tiers |-> Weight(cabinet, t) * Payout(wager, cabinet, t)])
           <= risk.expectedPayout * PROB_SCALE

\* Over a period of words no payout is above the quoted top, the top comes no more
\* often than quoted, and the payouts sum to less than one unit per round above the
\* expected payout.
SlotRiskCovers(c, wager) ==
  LET risk == SlotQuoteRiskParams(c, wager)
      period == 0..(c.totalWeight - 1)
      paid == [r \in period |-> SlotPayout(c, wager, CHOOSE u \in SamplePrize(c, r) : TRUE)]
      tops == {r \in period : SamplePrize(c, r) = {c.topPrizeUnits}}
  IN  /\ \A r \in period : paid[r] <= risk.maxPayout
      /\ Cardinality(tops) * WAD <= risk.probabilityWad * c.totalWeight
      /\ SumFunctionOnSet(paid, period) < (risk.expectedPayout + 1) * c.totalWeight

\* A wager the page lets through; any, where nothing limits it.
IsAllowed(wager, cap, multiplier) == \A max \in ComputeMaxWager(cap, multiplier) : wager <= max

=============================================================================
