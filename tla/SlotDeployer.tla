---------------------------- MODULE SlotDeployer ----------------------------
(***************************************************************************)
(* The way of a slot title onto the chain: the permissionless              *)
(* SlotTitleDeployer, its owner, other authors, and the author's script    *)
(* (slot-engine/src/deploy.ts), which pays one transaction per chunk,      *)
(* deploys the title and reads it back.                                    *)
(***************************************************************************)
EXTENDS SlotEngine

VARIABLES
  band,             \* minRtpWad and maxRtpWad
  chunks,           \* the chunks deployed
  titles,           \* the titles deployed
  script            \* the author's run of deployTitle

contractVars == <<band, chunks, titles>>
deployerVars == <<band, chunks, titles, script>>

NoScript == [state |-> "idle", definition |-> <<>>, compiled |-> <<>>, seeds |-> <<>>, sent |-> 0, title |-> <<>>,
             band |-> [minRtpWad |-> 0, maxRtpWad |-> 0]]

\* A band that the owner, or the constructor, may set.
RtpBand ==
  {b \in [minRtpWad : Nat, maxRtpWad : Nat] : b.minRtpWad <= b.maxRtpWad /\ b.maxRtpWad < WAD}

\* Without the band of the constructor.
DeployerInit ==
  /\ chunks = {}
  /\ titles = {}
  /\ script = NoScript

\* What an author may have written: tier lists, or a Stake Engine library to import.
Definition ==
  [kind : {"tier lists"}, betConfigurations : Seq(BetConfiguration)]
    \cup [kind : {"stake"}, modes : Seq(StakeMode), seedsPerPrize : Nat \ {0}]

\* What the author's files compile to: a title of tier lists, or an import.
Compiled(definition) ==
  IF definition.kind = "tier lists"
  THEN {[compiled |-> c, seeds |-> <<>>] : c \in CompileTitle(definition.betConfigurations)}
  ELSE ImportStakeLibrary(definition.modes, definition.seedsPerPrize)

\* The chunks of a compiled title, in the order the script deploys them.
ChunksToDeploy(compiled) == FlattenSeq([i \in DOMAIN compiled |-> compiled[i].chunks])

InputsOf(compiled) ==
  [i \in DOMAIN compiled |->
     [prizeDenominator |-> compiled[i].prizeDenominator, missWeight |-> compiled[i].missWeight,
      chunks |-> compiled[i].chunks]]

-----------------------------------------------------------------------------
\* setRtpBand, by the owner.
SetRtpBand(b) ==
  /\ b # band
  /\ b.minRtpWad <= b.maxRtpWad
  /\ b.maxRtpWad < WAD
  /\ band' = b
  /\ UNCHANGED <<chunks, titles>>

\* deployChunk, by anybody: any words, in any order.
DeployChunk(words) ==
  /\ Len(words) \in 1..MAX_TIERS_PER_CHUNK
  /\ chunks' = chunks \cup {words}
  /\ UNCHANGED <<band, titles>>

\* deployTitle, by anybody, over any pointers, code or no code; a revert creates nothing.
DeployTitle(inputs) ==
  /\ titles' = titles \cup DeriveTitle(inputs, band)
  /\ UNCHANGED <<band, chunks>>

\* The contract by itself, whoever calls it.
TableWord == [prizeUnits : Nat, cumulativeWeight : Nat]
TableInput == [prizeDenominator : Nat, missWeight : Nat, chunks : Seq(Seq(TableWord))]

ContractNext ==
  \/ \E b \in [minRtpWad : Nat, maxRtpWad : Nat] : SetRtpBand(b)
  \/ \E words \in Seq(TableWord) : DeployChunk(words)
  \/ \E inputs \in Seq(TableInput) : DeployTitle(inputs)

ContractSpec == chunks = {} /\ titles = {} /\ [][ContractNext]_contractVars

-----------------------------------------------------------------------------
\* Another author's title, of one configuration over two pointers.
DeployForeignTitle(input, first, second) ==
  LET inputs == <<[prizeDenominator |-> input.prizeDenominator, missWeight |-> input.missWeight,
                   chunks |-> IF second = <<>> THEN <<first>> ELSE <<first, second>>]>>
  IN  DeriveTitle(inputs, band) # {} /\ DeployTitle(inputs)

\* The author compiles; a definition that does not compile stops there.
Compile(definition) ==
  /\ script.state = "idle"
  /\ \E c \in Compiled(definition) :
       script' = [script EXCEPT !.state = "chunks", !.definition = <<definition>>,
                                !.compiled = c.compiled, !.seeds = c.seeds]
  /\ UNCHANGED <<band, chunks, titles>>

\* One deployChunk transaction and its receipt.
SendChunk ==
  /\ script.state = "chunks"
  /\ script.sent < Len(ChunksToDeploy(script.compiled))
  /\ DeployChunk(ChunksToDeploy(script.compiled)[script.sent + 1])
  /\ script' = [script EXCEPT !.sent = @ + 1]

\* The deployTitle transaction, and the log the script takes the title from; a
\* revert ends the script with its chunks paid for.
SendTitle ==
  /\ script.state = "chunks"
  /\ script.sent = Len(ChunksToDeploy(script.compiled))
  /\ DeployTitle(InputsOf(script.compiled))
  /\ LET derived == DeriveTitle(InputsOf(script.compiled), band)
     IN  script' = [script EXCEPT !.state = IF derived = {} THEN "refused" ELSE "reading",
                                  !.title = IF derived = {} THEN <<>>
                                            ELSE CHOOSE t \in derived : TRUE,
                                  !.band = band]

\* readTitle: the tiers of configuration c, rebuilt from the bytes.
ReadTiers(c) ==
  FlattenSeq([k \in DOMAIN c.chunks |->
                UnpackChunk(c.chunks[k].pointer,
                            IF k = 1 THEN 0 ELSE Last(c.chunks[k - 1].pointer).cumulativeWeight)])

\* The figures the title quotes.
Quoted(c) ==
  [totalWeight |-> c.totalWeight, topPrizeUnits |-> c.topPrizeUnits,
   topPrizeWeight |-> c.topPrizeWeight, prizeSum |-> c.prizeSum,
   bodyVarianceWad |-> c.bodyVarianceWad]

\* statsMismatches, of the title against the compiler, ends the script too.
ReadBack ==
  /\ script.state = "reading"
  /\ script' = [script EXCEPT !.state =
                  IF \A i \in DOMAIN script.title :
                       Quoted(script.title[i]) = script.compiled[i].stats
                  THEN "deployed" ELSE "differs"]
  /\ UNCHANGED <<band, chunks, titles>>

\* The author's run, of any definition, among the calls of anybody else.
AuthorNext ==
  \/ \E definition \in Definition : Compile(definition)
  \/ SendChunk
  \/ SendTitle
  \/ ReadBack
  \/ ContractNext /\ UNCHANGED script

AuthorSpec == band \in RtpBand /\ DeployerInit /\ [][AuthorNext]_deployerVars

-----------------------------------------------------------------------------
\* The figures quoted are those of the prizes drawn over the words of one period,
\* and a client that reads the bytes back has the same figures and prizes.
PaysAsQuoted(c) ==
  LET period == 0..(c.totalWeight - 1)
      drawn == [r \in period |-> CHOOSE u \in SamplePrize(c, r) : TRUE]
      body == [r \in period |-> IF drawn[r] = c.topPrizeUnits THEN 0 ELSE drawn[r]]
      squares == [r \in period |-> body[r] * body[r]]
      sum(f) == SumFunctionOnSet(f, period)
      scale == c.prizeDenominator * c.prizeDenominator * c.totalWeight * c.totalWeight
      variance == sum(squares) * c.totalWeight - sum(body) * sum(body)
  IN  /\ \A r \in period : SamplePrize(c, r) # {}
      /\ sum(drawn) = c.prizeSum
      /\ c.prizeSum < c.prizeDenominator * c.totalWeight
      /\ \A r \in period : drawn[r] <= c.topPrizeUnits
      /\ Cardinality({r \in period : drawn[r] = c.topPrizeUnits}) = c.topPrizeWeight
      /\ variance * WAD <= c.bodyVarianceWad * scale
      /\ (c.bodyVarianceWad - 1) * scale < variance * WAD
      /\ DeriveStats(ReadTiers(c), c.missWeight, c.prizeDenominator) = Quoted(c)
      /\ \A r \in period :
           SamplePrizeUnits(ReadTiers(c), c.missWeight, c.totalWeight, r) = drawn[r]

\* "Derives every figure a title quotes from the chunk bytes themselves, so a
\* title created here cannot misstate its own table" (SlotTitleDeployer.sol),
\* whoever made it of whichever chunks: over the words of one period, the
\* prizes drawn add up to the prize sum the RTP is quoted from, the top prize
\* is drawn as often as its weight says and no prize is larger, the return is
\* below 100%, the variance without the top prize is not understated and
\* overstated by less than the last digit, and a client that reads the bytes
\* back derives the same figures and samples the same prizes.
QuotesWhatItPays == \A title \in titles : \A n \in DOMAIN title : PaysAsQuoted(title[n])

\* Why deployTitle may refuse what compileTitleFile let through.
RefusalExplained(compiled, b) ==
  \/ \E i \in DOMAIN compiled :
       LET stats == compiled[i].stats
           rtpDenominator == compiled[i].prizeDenominator * stats.totalWeight
       IN  \/ stats.prizeSum * WAD < b.minRtpWad * rtpDenominator
           \/ stats.prizeSum * WAD > b.maxRtpWad * rtpDenominator
           \/ stats.totalWeight > UINT64_MAX
           \/ Len(compiled[i].chunks) > MAX_CHUNKS
  \/ Len(compiled) > MAX_CONFIGURATIONS
  \/ 1 + 63 * Len(compiled) + CHUNK_BYTES * Len(ChunksToDeploy(compiled)) > MAX_CLONE_ARGS

\* What packTiers leaves of a tier list: ascending prizes, none of them nothing, each
\* with its weight and the weight so far.
PackedTier == [prizeUnits : Nat, weight : Nat, cumulativeWeight : Nat]

Packed(tiers) ==
  /\ tiers \in Seq(PackedTier) /\ tiers # <<>>
  /\ \A i \in DOMAIN tiers :
       /\ tiers[i].prizeUnits > Previous(tiers, i).prizeUnits
       /\ tiers[i].weight > 0
       /\ tiers[i].cumulativeWeight = Previous(tiers, i).cumulativeWeight + tiers[i].weight

\* What compiles is what gets deployed: between the compiler, the packing, one
\* transaction per chunk with strangers' in between, and the walk of the
\* deployer, the script ends with "differs" never, and with a refused title
\* only for the RTP band of that block, a total weight past 64 bits (the
\* compiler checks the miss weight and the winning weight, not the sum), too
\* large a table or too many configurations.  What it sends are arguments of the contract's, of packed tables.
ScriptDelivers ==
  /\ InputsOf(script.compiled) \in Seq(TableInput)
  /\ \A i \in DOMAIN script.compiled : Packed(script.compiled[i].tiers)
  /\ script.state # "differs"
  /\ script.state = "refused" => RefusalExplained(script.compiled, script.band)
  /\ script.state = "deployed" => script.title \in titles

\* An import shows what it pays.  Every prize of the table has a book and every
\* book a prize, whatever rescaling did to the weights, but for a miss that the
\* rescaling made or lost; and "the miss weight is re-solved so the RTP stays
\* that of the source table" (stake.ts): the imported weights return what the
\* source's did to within half a unit of the total weight, unless more misses
\* would have to be taken away than there are.
ImportKeepsTheTable ==
  script.seeds # <<>> =>
    \A i \in DOMAIN script.compiled :
      LET mode == script.definition[1].modes[i]
          compiled == script.compiled[i]
          coverage == DisplayCoverage(script.seeds[i], compiled)
          rows == {j \in DOMAIN mode.rows : mode.rows[j].weight # 0}
          payoutSum == SumFunctionOnSet(
                         [j \in rows |-> mode.rows[j].payoutMultiplier * mode.rows[j].weight], rows)
          imported == compiled.stats.prizeSum * STAKE_PAYOUT_SCALE * mode.cost.numerator
                        * WeightOfRows(mode.rows)
          unit == payoutSum * compiled.prizeDenominator * mode.cost.denominator
          difference == imported - unit * compiled.stats.totalWeight
      IN  /\ coverage.prizesWithoutSeeds \subseteq {0} /\ coverage.seedsWithoutPrize \subseteq {0}
          /\ compiled.missWeight > 0 => 2 * difference \in -unit..unit

=============================================================================
