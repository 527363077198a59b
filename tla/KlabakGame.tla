----------------------------- MODULE KlabakGame -----------------------------
(***************************************************************************)
(* simulator/contracts/KlabakGame.sol: the pure functions of the claw      *)
(* machine.  A game data word is the cabinet number, a game state the      *)
(* (cabinet, tier, draw) the contract encodes.                             *)
(***************************************************************************)
EXTENDS Integers

CONSTANTS
  DRAW_LIMIT,   \* candidates from here on are rejected (4294000000)
  Word,         \* the number of 32-bit candidates
  Randomness,   \* the randomness words the router may deliver
  EmptyState    \* the game state before the game has run

CABINET_COUNT == 3
TIER_COUNT == 4
TIER_TOP == 3
NO_TIER == 255
PROB_SCALE == 1000000
MULT_SCALE == 100
DRAW_ATTEMPTS == 8
DECLARED_RTP_PPM == 960000

Cabinets == 0..(CABINET_COUNT - 1)
Tiers == 0..(TIER_COUNT - 1)

\* A randomness word is read as eight candidates; lastResort is the word
\* hashed and reduced modulo PROB_SCALE.
RandomnessWord ==
  [candidate : [0..(DRAW_ATTEMPTS - 1) -> 0..(Word - 1)], lastResort : 0..(PROB_SCALE - 1)]

ASSUME KlabakAssumption ==
  /\ DRAW_LIMIT \in Nat /\ Word \in Nat /\ DRAW_LIMIT <= Word
  /\ \A rnd \in Randomness : rnd \in RandomnessWord

KlabakState ==
  [cabinet : Cabinets, tier : Tiers \cup {NO_TIER}, draw : 0..(PROB_SCALE - 1)]

-----------------------------------------------------------------------------
\* _weights, in parts per million, tier 0 first.
WeightRow ==
  << <<500000, 360000, 110000, 30000>>,
     <<780000, 150000, 55000, 15000>>,
     <<735000, 240000, 20000, 5000>> >>

\* _multipliers, in hundredths.
MultiplierRow ==
  << <<0, 160, 240, 400>>,
     <<0, 200, 600, 2200>>,
     <<0, 150, 600, 9600>> >>

Weight(cabinet, tier) == WeightRow[cabinet + 1][tier + 1]
Multiplier(cabinet, tier) == MultiplierRow[cabinet + 1][tier + 1]

Payout(wager, cabinet, tier) == (wager * Multiplier(cabinet, tier)) \div MULT_SCALE

\* The two tables of a cabinet, and the return they add up to, in parts per million.
Paytable(cabinet) ==
  [weightsPpm |-> WeightRow[cabinet + 1], multipliersCenti |-> MultiplierRow[cabinet + 1]]

DeclaredRtpPpm(cabinet) ==
  ((Weight(cabinet, 0) * Multiplier(cabinet, 0) + Weight(cabinet, 1) * Multiplier(cabinet, 1)
      + Weight(cabinet, 2) * Multiplier(cabinet, 2) + Weight(cabinet, 3) * Multiplier(cabinet, 3))
     * 1000000) \div (PROB_SCALE * MULT_SCALE)

\* Mutant: the reserve covers the second best tier.
ReservedForRunnerUp(wager, cabinet) ==
  LET top == Payout(wager, cabinet, TIER_TOP - 1)
  IN  IF top > wager THEN top - wager ELSE 0

ReservedProfit(wager, cabinet) ==
  LET top == Payout(wager, cabinet, TIER_TOP)
  IN  IF top > wager THEN top - wager ELSE 0

\* The running sum acc of _draw's inner loop after tier.
Accumulated(cabinet, tier) ==
  <<Weight(cabinet, 0),
    Weight(cabinet, 0) + Weight(cabinet, 1),
    Weight(cabinet, 0) + Weight(cabinet, 1) + Weight(cabinet, 2),
    Weight(cabinet, 0) + Weight(cabinet, 1) + Weight(cabinet, 2)
      + Weight(cabinet, 3)>>[tier + 1]

\* The first tier whose running sum exceeds the draw.
TierOf(cabinet, draw) ==
  IF \E t \in Tiers : draw < Accumulated(cabinet, t)
  THEN CHOOSE t \in Tiers : /\ draw < Accumulated(cabinet, t)
                            /\ \A u \in Tiers : u < t => draw >= Accumulated(cabinet, u)
  ELSE TIER_TOP

\* The first candidate below DRAW_LIMIT, or the last resort.
DrawOf(rnd) ==
  LET accepted == {i \in DOMAIN rnd.candidate : rnd.candidate[i] < DRAW_LIMIT}
  IN  IF accepted = {} THEN rnd.lastResort
      ELSE LET i == CHOOSE i \in accepted : \A j \in accepted : i <= j
           IN  rnd.candidate[i] % PROB_SCALE

-----------------------------------------------------------------------------
\* Each callback is the set of what it may return; the empty set is a revert.
KlabakQuoteCaps(game, wager, gameData) ==
  {[maxEscrowStake |-> wager, maxReservedProfit |-> ReservedProfit(wager, cabinet)] :
     cabinet \in Cabinets \cap {gameData}}

KlabakOnSessionStart(s) ==
  {[newGameState |-> [cabinet |-> cabinet, tier |-> NO_TIER, draw |-> 0],
    escrowDelta |-> 0, reservedProfitDelta |-> ReservedProfit(s.wagerBase, cabinet),
    nextPhase |-> "WAITING_RANDOMNESS", requestRandomnessNow |-> TRUE, payout |-> 0] :
     cabinet \in Cabinets \cap {s.gameData}}

KlabakOnPlayerAction(s) == {}

\* Mutant: the drawn tier is paid but not written to the game state.
SettleWithoutTier(s, rnd) ==
  LET cabinet == s.gameState.cabinet
      draw == DrawOf(rnd)
  IN  [newGameState |-> [s.gameState EXCEPT !.draw = draw],
       escrowDelta |-> 0, reservedProfitDelta |-> 0,
       nextPhase |-> "SETTLED", requestRandomnessNow |-> FALSE,
       payout |-> Payout(s.wagerBase, cabinet, TierOf(cabinet, draw))]

\* The step that settles with randomness rnd.
SettleWith(s, rnd) ==
  LET cabinet == s.gameState.cabinet
      draw == DrawOf(rnd)
      tier == TierOf(cabinet, draw)
  IN  [newGameState |-> [cabinet |-> cabinet, tier |-> tier, draw |-> draw],
       escrowDelta |-> 0, reservedProfitDelta |-> 0,
       nextPhase |-> "SETTLED", requestRandomnessNow |-> FALSE,
       payout |-> Payout(s.wagerBase, cabinet, tier)]

KlabakOnRandomness(s) ==
  IF s.gameState.tier = NO_TIER THEN {SettleWith(s, rnd) : rnd \in Randomness} ELSE {}

KlabakQuoteForfeitPayout(s) == {0}

=============================================================================
