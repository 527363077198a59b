----------------------------- MODULE SlotTable -----------------------------
(***************************************************************************)
(* slot-engine/src: how an author's tier list, or a Stake Engine lookup    *)
(* table, becomes the chunks of a title, and how a client reads a chunk    *)
(* and samples a table.  Prizes are rationals, strings are left out.       *)
(*                                                                         *)
(* A function that may throw is the set of what it may return; the empty   *)
(* set is a throw.                                                         *)
(***************************************************************************)
EXTENDS Integers, Sequences, SequencesExt, FiniteSetsExt

CONSTANTS
  MAX_TIERS_PER_CHUNK,     \* 3071
  UINT32_MAX, UINT64_MAX,
  WAD                      \* 10^18

ASSUME SlotTableAssumption ==
  /\ {MAX_TIERS_PER_CHUNK, UINT32_MAX, WAD} \subseteq Nat \ {0}
  /\ UINT64_MAX \in Nat /\ UINT64_MAX >= UINT32_MAX

STAKE_PAYOUT_SCALE == 100

Rational == [numerator : Nat, denominator : Nat \ {0}]

\* A line of a tier list, and a bet configuration with the denominator given for it.
ListedTier == [prize : Rational, weight : Nat]

BetConfiguration == [tierList : Seq(ListedTier), prizeDenominator : Nat]

-----------------------------------------------------------------------------
greatestCommonDivisor[pair \in Nat \X Nat] ==
  IF pair[2] = 0 THEN pair[1] ELSE greatestCommonDivisor[<<pair[2], pair[1] % pair[2]>>]

Reduced(numerator, denominator) ==
  LET divisor == greatestCommonDivisor[<<numerator, denominator>>]
  IN  [numerator |-> numerator \div divisor, denominator |-> denominator \div divisor]

\* parsePrize of a decimal or a fraction: "0.50" is 50/100 as written.
ParsePrize(written) == Reduced(written.numerator, written.denominator)

\* formatPrize writes a decimal of up to 18 digits, or the reduced fraction:
\* either way the exact value is what parsePrize reads back.
FormatPrize(prizeUnits, prizeDenominator) == Reduced(prizeUnits, prizeDenominator)

LeastCommonMultiple(a, b) == (a \div greatestCommonDivisor[<<a, b>>]) * b

\* The numbers of a set in ascending order: the i-th has i of them up to it.
Sorted(numbers) ==
  [i \in 1..Cardinality(numbers) |->
     CHOOSE x \in numbers : Cardinality({y \in numbers : y <= x}) = i]

CeilDivide(numerator, denominator) == (numerator + denominator - 1) \div denominator

\* What a list of prizes and weights says of one amount of prize units.
PrizeUnits(prize, prizeDenominator) ==
  (ParsePrize(prize).numerator * prizeDenominator) \div ParsePrize(prize).denominator

WeightByUnits(tierList, prizeDenominator, units) ==
  SumFunctionOnSet([i \in DOMAIN tierList |->
                      IF PrizeUnits(tierList[i].prize, prizeDenominator) = units
                      THEN tierList[i].weight ELSE 0],
                   DOMAIN tierList)

-----------------------------------------------------------------------------
\* The figures of a packed table; the body is every prize but the top one.
DeriveStats(tiers, missWeight, prizeDenominator) ==
  LET top == tiers[Len(tiers)]
      total == missWeight + top.cumulativeWeight
      body == 1..(Len(tiers) - 1)
      bodySum == SumFunctionOnSet([i \in body |-> tiers[i].prizeUnits * tiers[i].weight], body)
      bodySquares ==
        SumFunctionOnSet([i \in body |-> tiers[i].prizeUnits * tiers[i].prizeUnits * tiers[i].weight],
                         body)
  IN  [totalWeight |-> total, topPrizeUnits |-> top.prizeUnits, topPrizeWeight |-> top.weight,
       prizeSum |-> bodySum + top.prizeUnits * top.weight,
       bodyVarianceWad |-> CeilDivide((bodySquares * total - bodySum * bodySum) * WAD,
                                      prizeDenominator * prizeDenominator * total * total)]

\* Mutant: consecutive chunks share a tier.
PackOverlapping(tiers) ==
  [k \in 1..CeilDivide(Len(tiers), MAX_TIERS_PER_CHUNK) |->
     LET first == IF k = 1 THEN 1 ELSE (k - 1) * MAX_TIERS_PER_CHUNK
         last == IF k * MAX_TIERS_PER_CHUNK < Len(tiers) THEN k * MAX_TIERS_PER_CHUNK ELSE Len(tiers)
     IN  [i \in 1..(last - first + 1) |->
            [prizeUnits |-> tiers[first + i - 1].prizeUnits,
             cumulativeWeight |-> tiers[first + i - 1].cumulativeWeight]]]

\* A chunk is a sequence of eight-byte words: prize units and running weight.
PackChunks(tiers) ==
  [k \in 1..CeilDivide(Len(tiers), MAX_TIERS_PER_CHUNK) |->
     LET start == (k - 1) * MAX_TIERS_PER_CHUNK
         rest == Len(tiers) - start
     IN  [i \in 1..(IF rest < MAX_TIERS_PER_CHUNK THEN rest ELSE MAX_TIERS_PER_CHUNK) |->
            [prizeUnits |-> tiers[start + i].prizeUnits,
             cumulativeWeight |-> tiers[start + i].cumulativeWeight]]]

UnpackChunk(chunk, previousCumulativeWeight) ==
  [i \in DOMAIN chunk |->
     [prizeUnits |-> chunk[i].prizeUnits,
      weight |-> chunk[i].cumulativeWeight
                 - (IF i = 1 THEN previousCumulativeWeight ELSE chunk[i - 1].cumulativeWeight),
      cumulativeWeight |-> chunk[i].cumulativeWeight]]

\* Winning prizes in ascending order, equal ones merged.
PackTiers(tierList, prizeDenominator) ==
  LET units == {PrizeUnits(tierList[i].prize, prizeDenominator) : i \in DOMAIN tierList}
      weight == [u \in units |-> WeightByUnits(tierList, prizeDenominator, u)]
      winning == {u \in units \ {0} : weight[u] > 0}
      sorted == Sorted(winning)
  IN  [i \in DOMAIN sorted |->
         [prizeUnits |-> sorted[i], weight |-> weight[sorted[i]],
          cumulativeWeight |-> SumFunctionOnSet(weight, {sorted[j] : j \in 1..i})]]

CommonDenominator(tierList) ==
  FoldLeft(LAMBDA d, tier : LeastCommonMultiple(d, ParsePrize(tier.prize).denominator), 1, tierList)

\* compileConfiguration; a given prize denominator of 0 is none.
CompileConfiguration(tierList, given) ==
  LET prizeDenominator == IF given # 0 THEN given ELSE CommonDenominator(tierList)
      missWeight == WeightByUnits(tierList, prizeDenominator, 0)
      tiers == PackTiers(tierList, prizeDenominator)
      stats == DeriveStats(tiers, missWeight, prizeDenominator)
  IN  IF /\ prizeDenominator \in 1..UINT32_MAX
         /\ \A i \in DOMAIN tierList :
              (ParsePrize(tierList[i].prize).numerator * prizeDenominator)
                % ParsePrize(tierList[i].prize).denominator = 0
         /\ missWeight <= UINT64_MAX
         /\ tiers # <<>>
         /\ tiers[Len(tiers)].prizeUnits <= UINT32_MAX
         /\ tiers[Len(tiers)].cumulativeWeight <= UINT32_MAX
         /\ stats.prizeSum < prizeDenominator * stats.totalWeight
      THEN {[prizeDenominator |-> prizeDenominator, missWeight |-> missWeight, tiers |-> tiers,
             chunks |-> PackChunks(tiers), stats |-> stats]}
      ELSE {}

\* compileTitleFile: every bet configuration compiles, or none does.
CompileTitle(betConfigurations) ==
  IF betConfigurations = <<>> THEN {}
  ELSE {title \in [DOMAIN betConfigurations ->
                     UNION {CompileConfiguration(betConfigurations[i].tierList,
                                                 betConfigurations[i].prizeDenominator) :
                              i \in DOMAIN betConfigurations}] :
          \A i \in DOMAIN betConfigurations :
            title[i] \in CompileConfiguration(betConfigurations[i].tierList,
                                              betConfigurations[i].prizeDenominator)}

-----------------------------------------------------------------------------
\* The binary search of the engine and of its mirror in the client, among count words.
FirstPast(words, count, target) ==
  LET search[span \in (1..count) \X (1..count)] ==
        LET low == span[1]
            high == span[2]
            middle == (low + high) \div 2
        IN  IF low >= high THEN low
            ELSE IF words[middle].cumulativeWeight > target
                 THEN search[<<low, middle>>] ELSE search[<<middle + 1, high>>]
  IN  search[<<1, count>>]

\* sample.ts: the client's mirror of the engine's sampling.
SamplePrizeUnits(tiers, missWeight, totalWeight, randomness) ==
  LET target == (randomness % totalWeight) - missWeight
  IN  IF target < 0 THEN 0 ELSE tiers[FirstPast(tiers, Len(tiers), target)].prizeUnits

-----------------------------------------------------------------------------
\* Stake Engine tables.
StakeRow == [id : STRING, weight : Nat, payoutMultiplier : Nat]

StakeMode == [rows : Seq(StakeRow), cost : Rational]

RoundedDivide(numerator, denominator) ==
  (2 * numerator + denominator) \div (2 * denominator)

RowsOf(rows, payout) ==
  SelectSeq(rows, LAMBDA row : row.weight # 0 /\ row.payoutMultiplier = payout)

WeightOfRows(rows) == SumFunctionOnSet([i \in DOMAIN rows |-> rows[i].weight], DOMAIN rows)

\* The payouts of a mode and the weight of each.
PayoutsOf(rows) == {rows[i].payoutMultiplier : i \in {j \in DOMAIN rows : rows[j].weight # 0}}

SourceWeights(rows) ==
  [p \in PayoutsOf(rows) |->
     SumFunctionOnSet([i \in DOMAIN rows |-> IF rows[i].payoutMultiplier = p THEN rows[i].weight ELSE 0],
                      DOMAIN rows)]

\* Picks at evenly spaced points of a payout's cumulative weight.
SampleBookIds(rows, count) ==
  LET target(pick) == ((2 * pick - 1) * WeightOfRows(rows)) \div (2 * count)
      index(pick) == CHOOSE i \in DOMAIN rows :
                       /\ WeightOfRows(SubSeq(rows, 1, i)) > target(pick)
                       /\ WeightOfRows(SubSeq(rows, 1, i - 1)) <= target(pick)
      picks == [pick \in 1..count |-> rows[index(pick)].id]
  IN  IF \A pick \in 1..count : picks[pick] = picks[1] THEN <<picks[1]>> ELSE picks

\* Mutant: the rescaled table keeps the source's miss weight.
RescaleKeepingMisses(weightByPayout, payouts) ==
  LET winners == payouts \ {0}
      winningWeight == SumFunctionOnSet(weightByPayout, winners)
      budget == UINT32_MAX - Cardinality(winners)
      scaled == [p \in winners |-> LET w == (weightByPayout[p] * budget) \div winningWeight
                                   IN  IF w > 0 THEN w ELSE 1]
  IN  [p \in payouts \cup {0} |->
         IF p # 0 THEN scaled[p] ELSE IF 0 \in payouts THEN weightByPayout[0] ELSE 0]

\* Winning weights past 32 bits are scaled down, every prize keeps at least 1,
\* and the miss weight is solved again for the RTP of the source.
Rescale(weightByPayout, payouts) ==
  LET winners == payouts \ {0}
      winningWeight == SumFunctionOnSet(weightByPayout, winners)
      totalWeight == SumFunctionOnSet(weightByPayout, payouts)
      payoutSum == SumFunctionOnSet([p \in payouts |-> p * weightByPayout[p]], payouts)
      budget == UINT32_MAX - Cardinality(winners)
      scaled == [p \in winners |-> LET w == (weightByPayout[p] * budget) \div winningWeight
                                   IN  IF w > 0 THEN w ELSE 1]
      scaledPayoutSum == SumFunctionOnSet([p \in winners |-> p * scaled[p]], winners)
      missWeight ==
        RoundedDivide(scaledPayoutSum * totalWeight, payoutSum) - SumFunctionOnSet(scaled, winners)
  IN  [p \in payouts \cup {0} |->
         IF p # 0 THEN scaled[p] ELSE IF missWeight > 0 THEN missWeight ELSE 0]

\* A payout as a multiple of the mode's own wager.
PrizeOf(payout, cost) ==
  FormatPrize(payout * cost.denominator, STAKE_PAYOUT_SCALE * cost.numerator)

StakeTierList(weightByPayout, cost) ==
  LET listed == Sorted({p \in DOMAIN weightByPayout : weightByPayout[p] > 0})
  IN  [i \in DOMAIN listed |->
         [prize |-> PrizeOf(listed[i], cost), weight |-> weightByPayout[listed[i]]]]

\* The books of each prize.
BookIdsByPrize(rows, cost, seedsPerPrize) ==
  [prize \in {PrizeOf(p, cost) : p \in PayoutsOf(rows)} |->
     SampleBookIds(RowsOf(rows, CHOOSE p \in PayoutsOf(rows) : PrizeOf(p, cost) = prize),
                   seedsPerPrize)]

\* convertStakeMode: a tier list, and the books to show for each prize.  A cost of
\* nothing divides by zero.
ConvertStakeMode(rows, cost, seedsPerPrize) ==
  LET payouts == PayoutsOf(rows)
      source == SourceWeights(rows)
      rescaled == SumFunctionOnSet(source, payouts \ {0}) > UINT32_MAX
      weightByPayout == IF rescaled THEN Rescale(source, payouts) ELSE source
  IN  IF payouts \subseteq {0} \/ cost.numerator = 0 THEN {}
      ELSE {[tierList |-> StakeTierList(weightByPayout, cost),
             bookIdsByPrize |-> BookIdsByPrize(rows, cost, seedsPerPrize),
             rescaled |-> rescaled]}

\* The seeds of a display mapping, by the prize units of the compiled table.
DisplaySeeds(conversion, prizeDenominator) ==
  LET unitsOf(prize) == (prize.numerator * prizeDenominator) \div prize.denominator
      prizes == DOMAIN conversion.bookIdsByPrize
  IN  [units \in {unitsOf(p) : p \in prizes} |->
         conversion.bookIdsByPrize[CHOOSE p \in prizes : unitsOf(p) = units]]

\* importStakeLibrary: every mode converts and compiles, or the import throws.
ImportStakeLibrary(modes, seedsPerPrize) ==
  LET conversions(i) == ConvertStakeMode(modes[i].rows, ParsePrize(modes[i].cost), seedsPerPrize)
      conversion(i) == CHOOSE c \in conversions(i) : TRUE
      title == [i \in DOMAIN modes |-> [tierList |-> conversion(i).tierList, prizeDenominator |-> 0]]
  IN  IF modes = <<>> \/ (\E i \in DOMAIN modes : conversions(i) = {}) THEN {}
      ELSE {[compiled |-> compiled,
             seeds |-> [i \in DOMAIN modes |->
                          DisplaySeeds(conversion(i), compiled[i].prizeDenominator)]] :
              compiled \in CompileTitle(title)}

\* checkDisplayCoverage.
TablePrizes(configuration) ==
  {configuration.tiers[i].prizeUnits : i \in DOMAIN configuration.tiers}
    \cup (IF configuration.missWeight > 0 THEN {0} ELSE {})

DisplayCoverage(seeds, configuration) ==
  [prizesWithoutSeeds |-> TablePrizes(configuration) \ DOMAIN seeds,
   seedsWithoutPrize |-> DOMAIN seeds \ TablePrizes(configuration)]

=============================================================================
