---------------------------- MODULE KlabakAudit ----------------------------
(***************************************************************************)
(* What the repository makes KlabakGame from, and checks it with: the      *)
(* paytable (math/tables.json), the generator (math/generate.py), and the  *)
(* scripts that read the contract's source (verify-contract.mjs), read a   *)
(* deployed one (verify-declared-rtp.mjs), replay its rounds from their    *)
(* words (verify-rounds.mjs) or draw rounds of their own                   *)
(* (simulate-rtp.mjs).  None of them uses a line of the contract.          *)
(***************************************************************************)
EXTENDS GameRisk

\* The Klabak page, which draws by itself in demo mode, and for a settled row that
\* came without its game state.
Page == INSTANCE KlabakTables WITH CandidateLimit <- DRAW_LIMIT

Entry(weight, multiplier) == [weight |-> weight, multiplier |-> multiplier]

\* tables.json.
Tables ==
  [declaredRtpPpm |-> 960000, probabilityScale |-> 1000000, multiplierScale |-> 100,
   cabinets |->
     << <<Entry(500000, 0), Entry(360000, 160), Entry(110000, 240), Entry(30000, 400)>>,
        <<Entry(780000, 0), Entry(150000, 200), Entry(55000, 600), Entry(15000, 2200)>>,
        <<Entry(735000, 0), Entry(240000, 150), Entry(20000, 600), Entry(5000, 9600)>> >>]

\* What verify() of generate.py asks of a paytable before a contract is written
\* from it: the weights are all of the scale, the first tier is the slip, the
\* return is the declared one and no prize is above a hundred wagers.
Verified(table) ==
  \A c \in DOMAIN table.cabinets :
    LET tiers == table.cabinets[c]
    IN  /\ tiers[1].weight + tiers[2].weight + tiers[3].weight + tiers[4].weight
             = table.probabilityScale
        /\ tiers[1].multiplier = 0
        /\ (tiers[1].weight * tiers[1].multiplier + tiers[2].weight * tiers[2].multiplier
              + tiers[3].weight * tiers[3].multiplier + tiers[4].weight * tiers[4].multiplier)
             * 1000000 = table.declaredRtpPpm * (table.probabilityScale * table.multiplierScale)
        /\ \A t \in 1..4 : tiers[t].multiplier <= 10000

Rows(table, field) ==
  [c \in DOMAIN table.cabinets |->
     [t \in DOMAIN table.cabinets[c] |-> table.cabinets[c][t][field]]]

\* emit_solidity: the numbers it fills the contract's template with, unless a cabinet
\* has more or fewer tiers than the first.
EmitSolidity(table) ==
  LET tierCount == Len(table.cabinets[1])
  IN  IF \A c \in DOMAIN table.cabinets : Len(table.cabinets[c]) = tierCount
      THEN {[CABINET_COUNT |-> Len(table.cabinets), TIER_COUNT |-> tierCount,
             TIER_TOP |-> tierCount - 1, DECLARED_RTP_PPM |-> table.declaredRtpPpm,
             weights |-> Rows(table, "weight"), multipliers |-> Rows(table, "multiplier"),
             DRAW_LIMIT |-> (Word \div table.probabilityScale) * table.probabilityScale]}
      ELSE {}

\* emit_ts: those of the page's.
EmitTs(table) ==
  [TIER_TOP |-> Len(table.cabinets[1]) - 1,
   CABINETS |-> [c \in DOMAIN table.cabinets |->
                   [t \in DOMAIN table.cabinets[c] |->
                      Page!Tier(table.cabinets[c][t].weight, table.cabinets[c][t].multiplier)]]]

\* A fixed number of digits; a half, which these numbers never have, goes up.
Printed(n, unit) == (2 * n + unit) \div (2 * unit)

\* rtp_rows: the chance of a tier and its part of the return, in five digits.
RtpRow(tier) ==
  [weight |-> tier.weight, p |-> Printed(tier.weight, 10), multiplier |-> tier.multiplier,
   contribution |-> Printed(tier.weight * tier.multiplier, 1000)]

\* emit_proof: a section per cabinet, with its tiers, their weights in all, the sum of
\* what the rows print as the return, and the best prize.
EmitSection(tiers) ==
  LET rows == [t \in DOMAIN tiers |-> RtpRow(tiers[t])]
      top == CHOOSE t \in DOMAIN tiers : \A u \in DOMAIN tiers : tiers[u].multiplier <= tiers[t].multiplier
  IN  [rows |-> rows,
       totalWeight |-> rows[1].weight + rows[2].weight + rows[3].weight + rows[4].weight,
       rtp |-> rows[1].contribution + rows[2].contribution + rows[3].contribution + rows[4].contribution,
       top |-> rows[top]]
EmitProof(table) == [c \in DOMAIN table.cabinets |-> EmitSection(table.cabinets[c])]

\* The files main() writes; nothing from a paytable that does not verify.
Generate(table) ==
  {[contract |-> contract, page |-> EmitTs(table), proof |-> EmitProof(table)] :
     contract \in {emitted \in EmitSolidity(table) : Verified(table)}}

\* The same numbers in the files as they are committed.
CommittedContract ==
  [CABINET_COUNT |-> CABINET_COUNT, TIER_COUNT |-> TIER_COUNT, TIER_TOP |-> TIER_TOP,
   DECLARED_RTP_PPM |-> DECLARED_RTP_PPM, weights |-> WeightRow, multipliers |-> MultiplierRow,
   DRAW_LIMIT |-> DRAW_LIMIT]
CommittedPage == [TIER_TOP |-> Page!PageTierTop, CABINETS |-> Page!CABINETS]

\* PROOF.md.
ProofRow(weight, p, multiplier, contribution) ==
  [weight |-> weight, p |-> p, multiplier |-> multiplier, contribution |-> contribution]
ProofSection(t0, t1, t2, t3) ==
  [rows |-> <<t0, t1, t2, t3>>, totalWeight |-> 1000000, rtp |-> 96000, top |-> t3]
CommittedProof ==
  <<ProofSection(ProofRow(500000, 50000, 0, 0), ProofRow(360000, 36000, 160, 57600),
                 ProofRow(110000, 11000, 240, 26400), ProofRow(30000, 3000, 400, 12000)),
    ProofSection(ProofRow(780000, 78000, 0, 0), ProofRow(150000, 15000, 200, 30000),
                 ProofRow(55000, 5500, 600, 33000), ProofRow(15000, 1500, 2200, 33000)),
    ProofSection(ProofRow(735000, 73500, 0, 0), ProofRow(240000, 24000, 150, 36000),
                 ProofRow(20000, 2000, 600, 12000), ProofRow(5000, 500, 9600, 48000))>>

\* verify-contract.mjs: the numbers in the contract's source are the published ones.
\* (The surface of the compiled contract is left out.)
SourceMatchesTables(contract) ==
  /\ contract.DECLARED_RTP_PPM = Tables.declaredRtpPpm
  /\ Len(contract.weights) = Len(Tables.cabinets)
  /\ Len(contract.multipliers) = Len(Tables.cabinets)
  /\ \A c \in DOMAIN Tables.cabinets :
       /\ contract.weights[c] = Rows(Tables, "weight")[c]
       /\ contract.multipliers[c] = Rows(Tables, "multiplier")[c]

\* Parts per million.
PPM == 1000000

\* verify-declared-rtp.mjs: the deployed contract's arrays, the return it declares, the
\* one its arrays add up to, and its caps, top payout and top probability for a wager
\* are the published ones.
DeclaresTables(game, cabinet, wager) ==
  LET tiers == Tables.cabinets[cabinet + 1]
  IN  /\ \A t \in Tiers :
           /\ Paytable(cabinet).weightsPpm[t + 1] = tiers[t + 1].weight
           /\ Paytable(cabinet).multipliersCenti[t + 1] = tiers[t + 1].multiplier
      /\ DeclaredRtpPpm(cabinet) = Tables.declaredRtpPpm
      /\ LET product(t) == Paytable(cabinet).weightsPpm[t] * Paytable(cabinet).multipliersCenti[t]
         IN  (product(1) + product(2) + product(3) + product(4)) * PPM
               = Tables.declaredRtpPpm * (Tables.probabilityScale * Tables.multiplierScale)
      /\ \E top \in Tiers :
           /\ \A t \in Tiers : tiers[t + 1].multiplier <= tiers[top + 1].multiplier
           /\ KlabakQuoteCaps(game, wager, cabinet) =
                {[maxEscrowStake |-> wager,
                  maxReservedProfit |-> (wager * tiers[top + 1].multiplier) \div 100 - wager]}
           /\ LET risk == KlabakQuoteRiskParams(wager, cabinet)
              IN  /\ risk.maxPayout = (wager * tiers[top + 1].multiplier) \div 100
                  /\ risk.probabilityWad = (tiers[top + 1].weight * WAD) \div PPM

\* And its expected payout is the declared part of the wager, to the unit.
QuotesDeclaredReturn(cabinet, wager) ==
  KlabakQuoteRiskParams(wager, cabinet).expectedPayout
    = (wager * Tables.declaredRtpPpm) \div PPM

-----------------------------------------------------------------------------
\* The candidates of a word that a script would use.
Usable(rnd) == {i \in DOMAIN rnd.candidate : rnd.candidate[i] < DRAW_LIMIT}

\* The roll of the first of them.
FirstRoll(rnd) ==
  rnd.candidate[CHOOSE i \in Usable(rnd) : \A j \in Usable(rnd) : i <= j] % Tables.probabilityScale

\* The running sums of a cabinet's weights.
RunningWeight(cabinet) ==
  LET tiers == Tables.cabinets[cabinet + 1]
  IN  <<tiers[1].weight, tiers[1].weight + tiers[2].weight,
        tiers[1].weight + tiers[2].weight + tiers[3].weight,
        tiers[1].weight + tiers[2].weight + tiers[3].weight + tiers[4].weight>>

\* The tier they give to a roll: the last one if none does.
TierForRoll(cabinet, roll) ==
  LET reached == {t \in 1..4 : roll < RunningWeight(cabinet)[t]}
  IN  IF reached = {} THEN 3 ELSE (CHOOSE t \in reached : \A u \in reached : t <= u) - 1

\* draw() of verify-rounds.mjs.  Its last resort is the hash of the word's text, which
\* has nothing to do with the contract's.
DrawAgain(cabinet, rnd, textHash) ==
  LET roll == IF Usable(rnd) # {} THEN FirstRoll(rnd) ELSE textHash
  IN  [tier |-> TierForRoll(cabinet, roll), roll |-> roll]

\* draw() of simulate-rtp.mjs, whose last resort is the top tier.
SimulatedTier(cabinet, rnd) ==
  IF Usable(rnd) # {} THEN TierForRoll(cabinet, FirstRoll(rnd))
  ELSE 3

\* What verify-rounds.mjs says of a settled event, when wagerOf() returns WAGER: the
\* wager of no round in particular, but the one its caller set, or ten tokens, for
\* every event alike.  It looks the prize of the event's tier up before it prints a
\* line, and a cancelled round has none.  (The word that a game state echoes is left
\* out of KlabakState.)
ReplayRound(log, WAGER, textHash) ==
  LET cabinet == log.gameState.cabinet
      expected == DrawAgain(cabinet, log.randomness, textHash)
      multiplier == Tables.cabinets[cabinet + 1][expected.tier + 1].multiplier
  IN  IF log.gameState.tier \notin Tiers THEN "throws"
      ELSE IF /\ log.gameState.tier = expected.tier /\ log.gameState.draw = expected.roll
              /\ log.payout = (WAGER * multiplier) \div Tables.multiplierScale
           THEN "OK" ELSE "MISMATCH"

=============================================================================
