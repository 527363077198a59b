----------------------------- MODULE SlotEngine -----------------------------
(***************************************************************************)
(* slot-engine/contracts: what SlotTitleDeployer derives from the bytes of *)
(* a table, and the game callbacks of SlotEngine over it.                  *)
(*                                                                         *)
(* The code at an address never changes, so a chunk pointer is modelled by *)
(* the words behind its STOP byte (the empty sequence where no chunk is),  *)
(* and a title, a clone, by the configurations in its immutable arguments. *)
(* A function that may revert is the set of what it may return.            *)
(***************************************************************************)
EXTENDS SlotTable

CONSTANTS
  MAX_CHUNKS,          \* type(uint8).max, of chunks in a record
  MAX_CONFIGURATIONS,  \* type(uint8).max, of records in a title
  MAX_RECORD_OFFSET,   \* type(uint16).max
  MAX_CLONE_ARGS       \* the largest immutable arguments Clones accepts

ASSUME SlotEngineAssumption ==
  /\ {MAX_CHUNKS, MAX_CONFIGURATIONS, MAX_RECORD_OFFSET, MAX_CLONE_ARGS} \subseteq Nat
  /\ MAX_CLONE_ARGS <= MAX_RECORD_OFFSET

RECORD_HEAD_BYTES == 61
CHUNK_BYTES == 26

SlotConfiguration ==
  [prizeDenominator : Nat, missWeight : Nat, totalWeight : Nat, topPrizeUnits : Nat,
   topPrizeWeight : Nat, prizeSum : Nat, bodyVarianceWad : Nat,
   chunks : Seq([pointer : Seq([prizeUnits : Nat, cumulativeWeight : Nat]),
                 endCumulativeWeight : Nat, tierCount : Nat])]

\* What newGameState holds once a prize is drawn.
SlotState == [prizeUnits : Nat]

-----------------------------------------------------------------------------
\* The words a walk over some chunks sees, one after another.
Words(chunks) == FlattenSeq(chunks)

\* The word before the i-th, as the walk remembers it.
Previous(words, i) ==
  IF i = 1 THEN [prizeUnits |-> 0, cumulativeWeight |-> 0] ELSE words[i - 1]

\* _walkChunk over every chunk of a configuration: its reverts.
WalkAccepts(chunks) ==
  /\ \A k \in DOMAIN chunks : Len(chunks[k]) \in 1..MAX_TIERS_PER_CHUNK
  /\ \A i \in DOMAIN Words(chunks) :
       /\ Words(chunks)[i].prizeUnits > Previous(Words(chunks), i).prizeUnits
       /\ Words(chunks)[i].cumulativeWeight > Previous(Words(chunks), i).cumulativeWeight

\* And its sums, with the weight a tier adds to the running one.
WeightAt(words, i) == words[i].cumulativeWeight - Previous(words, i).cumulativeWeight

PrizeSum(words) ==
  SumFunctionOnSet([i \in DOMAIN words |-> words[i].prizeUnits * WeightAt(words, i)], DOMAIN words)

SquaredPrizeSum(words) ==
  SumFunctionOnSet(
    [i \in DOMAIN words |-> words[i].prizeUnits * words[i].prizeUnits * WeightAt(words, i)],
    DOMAIN words)

\* _bodyVarianceWad, rounded up.
BodyVarianceWad(words, totalWeight, prizeDenominator) ==
  LET n == Len(words)
      topPrizeMass == words[n].prizeUnits * WeightAt(words, n)
      bodyPrizeSum == PrizeSum(words) - topPrizeMass
      bodySquaredPrizeSum == SquaredPrizeSum(words) - topPrizeMass * words[n].prizeUnits
  IN  CeilDivide((bodySquaredPrizeSum * totalWeight - bodyPrizeSum * bodyPrizeSum) * WAD,
                 prizeDenominator * prizeDenominator * totalWeight * totalWeight)

\* _deriveConfiguration of an input [prizeDenominator, missWeight, chunks].
DeriveConfiguration(input, band) ==
  LET words == Words(input.chunks)
      totalWeight == input.missWeight + words[Len(words)].cumulativeWeight
      rtpDenominator == input.prizeDenominator * totalWeight
  IN  IF /\ input.prizeDenominator # 0
         /\ input.chunks # <<>>
         /\ WalkAccepts(input.chunks)
         /\ PrizeSum(words) < rtpDenominator
         /\ PrizeSum(words) * WAD >= band.minRtpWad * rtpDenominator
         /\ PrizeSum(words) * WAD <= band.maxRtpWad * rtpDenominator
         /\ totalWeight <= UINT64_MAX
      THEN {[prizeDenominator |-> input.prizeDenominator, missWeight |-> input.missWeight,
             totalWeight |-> totalWeight,
             topPrizeUnits |-> words[Len(words)].prizeUnits,
             topPrizeWeight |-> WeightAt(words, Len(words)),
             prizeSum |-> PrizeSum(words),
             bodyVarianceWad |-> BodyVarianceWad(words, totalWeight, input.prizeDenominator),
             chunks |-> [k \in DOMAIN input.chunks |->
                           [pointer |-> input.chunks[k],
                            endCumulativeWeight |-> Last(input.chunks[k]).cumulativeWeight,
                            tierCount |-> Len(input.chunks[k])]]]}
      ELSE {}

RecordBytes(configuration) == RECORD_HEAD_BYTES + CHUNK_BYTES * Len(configuration.chunks)

\* Where SlotTitleArgs.encode puts record i, and where the arguments end.
RecordOffset(configurations, i) ==
  1 + 2 * Len(configurations)
    + SumFunctionOnSet([j \in 1..(i - 1) |-> RecordBytes(configurations[j])], 1..(i - 1))

\* SlotTitleArgs.encode, and the clone that stores its bytes.
Encodable(configurations) ==
  /\ \A i \in DOMAIN configurations :
       /\ RecordOffset(configurations, i) <= MAX_RECORD_OFFSET
       /\ Len(configurations[i].chunks) <= MAX_CHUNKS
  /\ RecordOffset(configurations, Len(configurations) + 1) <= MAX_CLONE_ARGS

\* The title deployTitle creates from some inputs.
DeriveTitle(inputs, band) ==
  IF /\ Len(inputs) \in 1..MAX_CONFIGURATIONS
     /\ \A i \in DOMAIN inputs : DeriveConfiguration(inputs[i], band) # {}
  THEN {title \in {[i \in DOMAIN inputs |->
                      CHOOSE c \in DeriveConfiguration(inputs[i], band) : TRUE]} : Encodable(title)}
  ELSE {}

-----------------------------------------------------------------------------
\* _configuration: no bytes are configuration 0, one byte is an index, and
\* longer game data reverts.  Game data is [bytes, value].
ConfigurationOf(title, gameData) ==
  LET index == IF gameData.bytes = 0 THEN 0 ELSE gameData.value
  IN  IF gameData.bytes <= 1 /\ index < Len(title) THEN {title[index + 1]} ELSE {}

SlotPayout(configuration, wager, prizeUnits) ==
  (wager * prizeUnits) \div configuration.prizeDenominator

SlotReservedProfit(configuration, wager) ==
  LET maxPayout == SlotPayout(configuration, wager, configuration.topPrizeUnits)
  IN  IF maxPayout > wager THEN maxPayout - wager ELSE 0

\* Mutant: the walk over the chunks accepts a target at the end of one.
SamplePastTheEnd(configuration, randomness) ==
  LET target == (randomness % configuration.totalWeight) - configuration.missWeight
      chunks == configuration.chunks
      holding == {k \in DOMAIN chunks : target <= chunks[k].endCumulativeWeight}
      chunk == chunks[Min(holding)]
  IN  IF target < 0 THEN {0}
      ELSE IF holding = {} THEN {}
      ELSE {chunk.pointer[FirstPast(chunk.pointer, chunk.tierCount, target)].prizeUnits}

\* _samplePrize: the first chunk whose end is past the target, and a binary
\* search in it.  A target past every chunk would run off the array and revert.
SamplePrize(configuration, randomness) ==
  LET target == (randomness % configuration.totalWeight) - configuration.missWeight
      chunks == configuration.chunks
      holding == {k \in DOMAIN chunks : target < chunks[k].endCumulativeWeight}
      chunk == chunks[Min(holding)]
  IN  IF target < 0 THEN {0}
      ELSE IF holding = {} THEN {}
      ELSE {chunk.pointer[FirstPast(chunk.pointer, chunk.tierCount, target)].prizeUnits}

SlotQuoteCaps(title, wager, gameData) ==
  {[maxEscrowStake |-> wager, maxReservedProfit |-> SlotReservedProfit(c, wager)] :
     c \in ConfigurationOf(title, gameData)}

\* The new game state of a session's start is empty.
SlotOnSessionStart(s, emptyState) ==
  {[newGameState |-> emptyState, escrowDelta |-> 0,
    reservedProfitDelta |-> SlotReservedProfit(c, s.escrowedStake),
    nextPhase |-> "WAITING_RANDOMNESS", requestRandomnessNow |-> TRUE, payout |-> 0] :
     c \in ConfigurationOf(s.game, s.gameData)}

SlotOnPlayerAction(s) == {}

SlotQuoteForfeitPayout(s) == {0}

\* The step that settles with a word.
SlotSettleWith(s, randomness) ==
  UNION {{[newGameState |-> [prizeUnits |-> units], escrowDelta |-> 0, reservedProfitDelta |-> 0,
           nextPhase |-> "SETTLED", requestRandomnessNow |-> FALSE,
           payout |-> SlotPayout(c, s.escrowedStake, units)] : units \in SamplePrize(c, randomness)} :
         c \in ConfigurationOf(s.game, s.gameData)}

\* Mutant: the probability of the top prize is rounded down.
RiskRoundedDown(c, wager) ==
  [maxPayout |-> SlotPayout(c, wager, c.topPrizeUnits),
   probabilityWad |-> (c.topPrizeWeight * WAD) \div c.totalWeight,
   expectedPayout |-> (wager * c.prizeSum) \div (c.prizeDenominator * c.totalWeight),
   bodyVarianceScaled |-> wager * wager * c.bodyVarianceWad]

\* quoteRiskParams of a configuration.
SlotQuoteRiskParams(c, wager) ==
  [maxPayout |-> SlotPayout(c, wager, c.topPrizeUnits),
   probabilityWad |-> CeilDivide(c.topPrizeWeight * WAD, c.totalWeight),
   expectedPayout |-> (wager * c.prizeSum) \div (c.prizeDenominator * c.totalWeight),
   bodyVarianceScaled |-> wager * wager * c.bodyVarianceWad]

=============================================================================
