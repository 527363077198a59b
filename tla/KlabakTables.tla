---------------------------- MODULE KlabakTables ----------------------------
(***************************************************************************)
(* examples/klabak/src/lib: the paytable as the page knows it              *)
(* (tables.generated.ts), what the page works out from a settled row       *)
(* (klabak.ts) and what it draws by itself in demo mode (demo.ts).         *)
(*                                                                         *)
(* A randomness word is the eight 32-bit candidates a draw reads from it,  *)
(* and fold, the exclusive or of its halves reduced modulo PROB_SCALE.     *)
(***************************************************************************)
EXTENDS Integers, Sequences, SequencesExt

CONSTANT CandidateLimit   \* Math.floor(2 ** 32 / PROB_SCALE) * PROB_SCALE

PageProbScale == 1000000
PageMultScale == 100
PageTierTop == 3

\* "no outcome": what an undecodable or undelivered source yields.
Undefined == -1

-----------------------------------------------------------------------------
\* The tiers of the three cabinets, the slip first; every other tier leaves a
\* charm.
Tier(weight, multiplier) == [weight |-> weight, multiplier |-> multiplier]

CABINETS ==
  << <<Tier(500000, 0), Tier(360000, 160), Tier(110000, 240), Tier(30000, 400)>>,
     <<Tier(780000, 0), Tier(150000, 200), Tier(55000, 600), Tier(15000, 2200)>>,
     <<Tier(735000, 0), Tier(240000, 150), Tier(20000, 600), Tier(5000, 9600)>> >>

\* An unknown cabinet is shown as the first one.
CabinetById(id) == IF id + 1 \in DOMAIN CABINETS THEN CABINETS[id + 1] ELSE CABINETS[1]

MultiplierOf(cabinetId, tier) == CabinetById(cabinetId)[tier + 1].multiplier

IsSlip(cabinetId, tier) == MultiplierOf(cabinetId, tier) = 0

\* Floored like the contract's _payout.
PayoutFor(wager, cabinetId, tier) ==
  (wager * MultiplierOf(cabinetId, tier)) \div PageMultScale

-----------------------------------------------------------------------------
\* The first tier whose running weight exceeds r, or none.
TierByWeight(cabinetId, r) ==
  LET tiers == CabinetById(cabinetId)
      acc(t) == FoldLeft(LAMBDA sum, row : sum + row.weight, 0, SubSeq(tiers, 1, t))
  IN  IF \E t \in DOMAIN tiers : r < acc(t)
      THEN (CHOOSE t \in DOMAIN tiers : r < acc(t) /\ \A u \in 1..(t - 1) : r >= acc(u)) - 1
      ELSE Undefined

\* The first candidate that is not rejected, or none.
FirstAccepted(word) ==
  LET accepted == {i \in DOMAIN word.candidate : word.candidate[i] < CandidateLimit}
  IN  IF accepted = {} THEN Undefined
      ELSE word.candidate[CHOOSE i \in accepted : \A j \in accepted : i <= j]

\* drawFromRandomness: a settled row that came without its game state.
DrawFromRandomness(cabinetId, word) ==
  LET first == FirstAccepted(word)
      r == IF first # Undefined THEN first % PageProbScale ELSE word.fold
      tier == TierByWeight(cabinetId, r)
  IN  IF tier = Undefined THEN PageTierTop ELSE tier

\* playDemoRound: the same draw, but a word with no usable candidate slips.
PlayDemoRound(cabinetId, word) ==
  LET first == FirstAccepted(word)
  IN  IF first = Undefined THEN 0 ELSE TierByWeight(cabinetId, first % PageProbScale)

\* outcomeFromPayout: the largest tier the payout can fund, and the lowest
\* prize for a payout that funds none.
OutcomeFromPayout(cabinetId, wager, payout) ==
  LET funded == {t \in 1..PageTierTop : PayoutFor(wager, cabinetId, t) <= payout}
  IN  IF payout <= 0 THEN 0
      ELSE IF funded = {} THEN 1
      ELSE CHOOSE t \in funded : \A u \in funded : u <= t

=============================================================================
