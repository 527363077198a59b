----------------------------- MODULE GamesHost -----------------------------
(***************************************************************************)
(* The games of the repository registered on CasinoHost, and the node that *)
(* draws for them: KlabakGame, slot titles as SlotDeployer creates them,   *)
(* its setup, its queue of requests, the fulfillments it sends, and those  *)
(* of other nodes.  Neither game takes an action of the player, so no      *)
(* session of theirs waits for one.                                        *)
(*                                                                         *)
(* The worlds name what an instance explores; every other step is open.    *)
(***************************************************************************)
EXTENDS GameRisk, KlabakAudit, SlotDeployer, VerifyNetwork

CONSTANTS Players, Klabak, Host, Vault, NoCommitment, InitialBalance, InitialSupply,
          MaxSessions, MaxBlock, MaxDeadline, MaxAmount, MaxStep,
          RANDOMNESS_TIMEOUT_BLOCKS, ACTION_TIMEOUT_BLOCKS,
          SlotWords,   \* the words a slot title may be given
          NodeKey,     \* nodePrivateKey, the secret of the local node
          OtherKeys,   \* the secrets of other nodes on the router
          Worlds       \* what may happen in an instance: the bets and the number of
                       \* sessions, the author's definitions, the owner's bands, the
                       \* chunks and inputs other authors use and how many titles
                       \* they deploy; the first sequence number of the requests, the
                       \* nodes that may be assigned one and the proofs the other
                       \* nodes send; and whether the node is still to be set up

VARIABLES block, gameNames, currentSessionId, sessionCommitments, balanceOf, totalSupply,
          requests, emitted, settlements, caps, net,
          setup,        \* how many of SetupSteps are done
          asked,        \* the RandomnessRequested logs, oldest first: session and request
          taken,        \* how many of them the node's watcher has seen
          queue,        \* the ones its promise chain is still to fulfill, by number
          missed,       \* (history) those logged before it watched
          transactions, \* the fulfillment transactions on the router, oldest first
          world

chainVars == <<block, gameNames, currentSessionId, sessionCommitments, balanceOf, totalSupply,
               requests, emitted, settlements, caps, net>>
node == <<setup, taken, queue, missed>>
vars == <<chainVars, asked, node, transactions, deployerVars, world>>

\* Game data on the wire is some bytes; Klabak decodes one 32-byte word.
GameData == [bytes : {0, 1, 2, 32}, value : 0..255]
ForKlabak(s) == [s EXCEPT !.gameData = IF s.gameData.bytes = 32 THEN s.gameData.value ELSE -1]

QuoteCaps(game, wager, data) ==
  IF game = Klabak
  THEN KlabakQuoteCaps(game, wager, IF data.bytes = 32 THEN data.value ELSE -1)
  ELSE SlotQuoteCaps(game, wager, data)

QuoteRiskParams(game, wager, data) ==
  IF game = Klabak
  THEN {KlabakQuoteRiskParams(wager, cabinet) :
          cabinet \in Cabinets \cap (IF data.bytes = 32 THEN {data.value} ELSE {})}
  ELSE {SlotQuoteRiskParams(c, wager) : c \in ConfigurationOf(game, data)}

OnSessionStart(s) ==
  IF s.game = Klabak THEN KlabakOnSessionStart(ForKlabak(s)) ELSE SlotOnSessionStart(s, EmptyState)

OnRandomness(s) ==
  IF s.game = Klabak THEN KlabakOnRandomness(ForKlabak(s))
  ELSE UNION {SlotSettleWith(s, word) : word \in SlotWords}

OnPlayerAction(s) == IF s.game = Klabak THEN KlabakOnPlayerAction(s) ELSE SlotOnPlayerAction(s)

QuoteForfeitPayout(s) ==
  IF s.game = Klabak THEN KlabakQuoteForfeitPayout(s) ELSE SlotQuoteForfeitPayout(s)

Chain == INSTANCE CasinoHost WITH
  Games <- {Klabak} \cup Seq(SlotConfiguration),
  GameState <- KlabakState \cup {EmptyState} \cup SlotState,
  Wagers <- Nat, MintAmounts <- {}, TransferAmounts <- {}, MaxSupply <- 0,
  TooLong <- {}

SessionIds == 1..MaxSessions

-----------------------------------------------------------------------------
\* cli.ts, setupLocalVerifyNetwork and depositLocalVrfBalance: a transaction each,
\* of which the next waits for the receipt; then the node watches.
SetupSteps ==
  <<"router", "attestation verifier", "ecvrf verifier", "init", "vrf facet", "nodes facet",
    "balances facet", "config facet", "diamondCut", "setTrustedNode", "registerNode", "deposit",
    "watch">>

Done == {SetupSteps[n] : n \in 1..setup}

Init ==
  /\ Chain!Init
  /\ asked = <<>> /\ taken = 0 /\ queue = <<>> /\ missed = 0
  /\ transactions = <<>>
  /\ DeployerInit
  /\ world \in Worlds
  /\ setup = IF world.setUp THEN 0 ELSE Len(SetupSteps)
  /\ band \in world.bands

-----------------------------------------------------------------------------
\* Rounds are played once the author's script is through: until then the chain
\* has no title to play, and the script does not look at the host.
\*
\* The router takes a request for which a node is registered and a fee deposited,
\* and logs it assigned to one of its nodes; a transaction makes one at most.
LogRequests ==
  \E fulfiller \in world.fulfillers :
    asked' = asked \o SetToSeq(
      {[session |-> q, request |-> [consumer |-> "host", sequence |-> world.from + Len(asked) + 1,
                                    fulfiller |-> PublicKey(fulfiller)]] : q \in requests' \ requests})

Transaction ==
  /\ world.definitions = {} \/ script.state = "deployed"
  /\ \/ Chain!MineBlock
     \/ \E g \in ({Klabak} \cup titles) \cap {Klabak, script.title} :
          g \notin gameNames /\ Chain!RegisterGame(g)
     \/ \E p \in Players, bet \in world.bets, g \in gameNames :
          /\ currentSessionId < world.sessions
          /\ bet.klabak = (g = Klabak)
          /\ {"registerNode", "deposit"} \subseteq Done
          /\ Chain!OpenSession(p, g, Vault, bet.wager, bet.data)
     \/ \E s \in emitted : Chain!CancelStuckRandomness(s)
  /\ LogRequests
  /\ UNCHANGED <<node, transactions, deployerVars, world>>

\* The next transaction of the setup is mined; the watcher sees the logs from then
\* on.  A failed one ends the process.
SetUp ==
  /\ setup < Len(SetupSteps)
  /\ setup' = setup + 1
  /\ LET watches == setup' = Len(SetupSteps)
     IN  /\ taken' = IF watches THEN Len(asked) ELSE taken
         /\ missed' = IF watches THEN Len(asked) ELSE missed
  /\ UNCHANGED <<chainVars, asked, queue, transactions, deployerVars, world>>

\* A poll of the watcher hands over every log since the last one; those assigned
\* to other nodes are passed over.
Watch ==
  /\ setup = Len(SetupSteps) /\ taken < Len(asked)
  /\ taken' = Len(asked)
  /\ queue' = queue \o SelectSeq([n \in 1..(Len(asked) - taken) |-> taken + n],
                                 LAMBDA n : asked[n].request.fulfiller = PublicKey(NodeKey))
  /\ UNCHANGED <<chainVars, asked, setup, missed, transactions, deployerVars, world>>

\* fulfillLocalVrfRequest: proved, signed, sent and mined.  A request that cannot
\* be proved makes prove throw.
Fulfill(n) ==
  LET id == ComputeRequestId(asked[n].request)
  IN  /\ IsFulfillable(PublicKey(NodeKey), id)
      /\ Chain!OnRandomnessFulfilled(asked[n].session)
      /\ transactions' = Append(transactions,
           FulfillmentTransaction(<<>>, <<Fulfillment(asked[n].request, Prove(NodeKey, id), NodeKey)>>))

\* Mutant: nothing catches a failed fulfillment, and the promise chain ends.
ServeUncaught ==
  /\ queue # <<>>
  /\ \/ Fulfill(Head(queue)) /\ queue' = Tail(queue)
     \/ Chain!FulfillmentLost(asked[Head(queue)].session) /\ UNCHANGED <<queue, transactions>>
  /\ UNCHANGED <<asked, setup, taken, missed, deployerVars, world>>

\* The node deals with one request at a time, in order: its transaction goes
\* through, or it fails, is logged and forgotten.  A session that was cancelled
\* meanwhile, or another node's fulfillment, makes it fail.
Serve ==
  /\ queue # <<>>
  /\ \/ Fulfill(Head(queue))
     \/ Chain!FulfillmentLost(asked[Head(queue)].session) /\ UNCHANGED transactions
     \/ asked[Head(queue)].session \notin requests /\ UNCHANGED <<chainVars, transactions>>
  /\ queue' = Tail(queue)
  /\ UNCHANGED <<asked, setup, taken, missed, deployerVars, world>>

\* What another node may send for a request: its proof, the sentinel, the proof of
\* another request or one that is off by one.
ProofsOf(x, id) ==
  LET proofs == [alpha \in {asked[n].request : n \in DOMAIN asked} |->
                   IF IsFulfillable(PublicKey(x), alpha) THEN Prove(x, alpha) ELSE SENTINEL_PROOF]
  IN  Range(proofs) \cup {SENTINEL_PROOF, [proofs[id] EXCEPT !.s = (@ + 1) % Q]}

\* Another node fulfills a request, alone or in a batch after one of another
\* consumer, whose callback logs something of its own.  The router checks no proof,
\* only what was signed.
FulfilledElsewhere(n, x) ==
  LET request == asked[n].request
      other == [request EXCEPT !.consumer = "elsewhere", !.fulfiller = PublicKey(x)]
      noise == FulfilledLog("elsewhere", Fulfillment(request, SENTINEL_PROOF, x))
      foreign == Fulfillment(other, SENTINEL_PROOF, x)
  IN  /\ Chain!OnRandomnessFulfilled(asked[n].session)
      /\ \E proof \in ProofsOf(x, ComputeRequestId(request)) :
           LET own == Fulfillment(request, proof, x)
           IN  \/ transactions' = Append(transactions, FulfillmentTransaction(<<>>, <<own>>))
               \/ transactions' = Append(transactions, FulfillmentTransaction(<<noise>>, <<foreign, own>>))
      /\ UNCHANGED <<asked, node, deployerVars, world>>

\* Steps of the deployer, in a world that lets them happen.
Author ==
  /\ \/ \E b \in world.bands : SetRtpBand(b) /\ UNCHANGED script
     \/ \E words \in world.foreign \ chunks : DeployChunk(words) /\ UNCHANGED script
     \/ \E input \in world.inputs, first \in (chunks \cup {<<>>}), second \in (chunks \cup {<<>>}) :
          /\ Cardinality(titles) < world.titles
          /\ DeployForeignTitle(input, first, second)
          /\ UNCHANGED script
     \/ \E definition \in world.definitions : Compile(definition)
     \/ SendChunk
     \/ SendTitle
     \/ ReadBack
  /\ UNCHANGED <<chainVars, asked, node, transactions, world>>

Next ==
  \/ Transaction \/ SetUp \/ Watch \/ Serve \/ Author
  \/ \E n \in DOMAIN asked, x \in world.others : FulfilledElsewhere(n, x)

\* Blocks are mined, the watcher polls and the queue runs; nobody has to call.
Fairness ==
  /\ WF_vars(Watch)
  /\ WF_vars(Serve)

Spec == Init /\ [][Next]_vars /\ Fairness

-----------------------------------------------------------------------------
\* The steps a game may settle an open session with.
Outcomes(s) ==
  IF s.game = Klabak THEN {SettleWith(ForKlabak(s), rnd) : rnd \in Randomness}
  ELSE UNION {SlotSettleWith(s, word) : word \in SlotWords}

\* Whatever the router answers to an open round, the game returns a step and
\* the host takes it: no sampling runs off its table, and no draw exceeds the
\* caps or the payout the reserve can cover, so a round is never refused its
\* own settlement by a revert, InvalidPayout or a cap check.  And from a word with
\* a candidate that is not rejected, everybody draws the same: the page, in demo
\* mode or for a row without its game state, verify-rounds.mjs and simulate-rtp.mjs.
\* verify-rounds.mjs, which replays every round with one wager, finds in order the
\* rounds that pay at this wager what they paid at their own, and no others.
EveryDrawSettles ==
  \A i \in SessionIds :
    sessionCommitments[i] # NoCommitment =>
      LET s == sessionCommitments[i]
      IN  /\ s.phase = "WAITING_RANDOMNESS"
          /\ s.game # Klabak => \A word \in SlotWords : SlotSettleWith(s, word) # {}
          /\ \A step \in Outcomes(s) :
               /\ step \in OnRandomness(s)
               /\ step \in Chain!StepResult
               /\ step.payout <= s.escrowedStake + s.reservedProfit
          /\ s.game = Klabak => \A rnd \in {r \in Randomness : Usable(r) # {}} :
               LET step == SettleWith(ForKlabak(s), rnd)
                   log == [randomness |-> rnd, gameState |-> step.newGameState,
                           payout |-> step.payout]
                   cabinet == s.gameState.cabinet
               IN  /\ \A WAGER \in {bet.wager : bet \in world.bets} :
                        ReplayRound(log, WAGER, 0)
                          = IF Payout(WAGER, cabinet, step.newGameState.tier) = step.payout
                            THEN "OK" ELSE "MISMATCH"
                   /\ {SimulatedTier(cabinet, rnd), Page!DrawFromRandomness(cabinet, rnd),
                       Page!PlayDemoRound(cabinet, rnd)} = {step.newGameState.tier}

\* A CasinoSessionSettled log says what happened to the player's money: a
\* settled round pays the multiplier of the tier, or the units of the prize, in
\* its game state, a prize of the table it was played on; the page of an
\* imported title has a book to show for it, or the mapping check had named the
\* prize; and a cancelled round gives the wager back and shows no prize.  Read with the wager the round opened with,
\* which is its escrow cap.
LogsTellTheTruth ==
  \A n \in 1..Len(settlements) :
    LET e == settlements[n]
        s == CHOOSE s \in emitted : s.sessionId = e.sessionId
        wager == caps[e.sessionId].maxEscrowStake
    IN  /\ net[e.sessionId] = e.payout - wager
        /\ \/ /\ e.phase = "SETTLED" /\ s.game = Klabak
              /\ e.gameState.tier \in Tiers
              /\ e.gameState.tier = TierOf(e.gameState.cabinet, e.gameState.draw)
              /\ e.payout = Payout(wager, e.gameState.cabinet, e.gameState.tier)
           \/ /\ e.phase = "SETTLED" /\ s.game # Klabak
              /\ \E c \in ConfigurationOf(s.game, s.gameData) :
                   /\ e.payout * c.prizeDenominator \in
                        (wager * e.gameState.prizeUnits - c.prizeDenominator + 1)
                          ..(wager * e.gameState.prizeUnits)
                   /\ \/ e.gameState.prizeUnits = 0 /\ c.missWeight > 0
                      \/ \E k \in DOMAIN ReadTiers(c) :
                           ReadTiers(c)[k].prizeUnits = e.gameState.prizeUnits
              /\ s.game = script.title /\ script.seeds # <<>> =>
                   LET i == 1 + IF s.gameData.bytes = 0 THEN 0 ELSE s.gameData.value
                       uncovered == DisplayCoverage(script.seeds[i], script.compiled[i])
                   IN  e.gameState.prizeUnits
                         \in DOMAIN script.seeds[i] \cup uncovered.prizesWithoutSeeds
           \/ /\ e.phase = "CANCELLED" /\ e.payout = wager
              /\ IF s.game = Klabak THEN e.gameState.tier = NO_TIER ELSE e.gameState = EmptyState

\* What quoteRiskParams quotes for a round, whichever title, cabinet and wager: no
\* payout is above maxPayout; the best prize comes no more often than probabilityWad
\* says; and the mean payout is no more than Klabak's expectedPayout, which is rounded
\* up, and less than a unit above a title's, which is rounded down.  Of the fourth
\* figure, bodyVarianceScaled, QuotesWhatItPays and VarianceNeverUnderstated speak.
\* And a page that stays within computeMaxWager, for the vault as it is, never opens
\* a round that reserves more than the share of the vault the limits allow.
QuotesCoverThePayouts ==
  LET cap == MaxAllowedReservedProfit(balanceOf[Vault])
      within(units, denominator) ==
        UNION {0..w : w \in ComputeMaxWager(cap, [numerator |-> units, denominator |-> denominator])}
  IN
  /\ \A title \in titles : \A n \in DOMAIN title :
       LET c == title[n]
       IN  /\ \A w \in within(c.topPrizeUnits, c.prizeDenominator) : SlotReservedProfit(c, w) <= cap
           /\ \A bet \in {b \in world.bets : ~b.klabak} : SlotRiskCovers(c, bet.wager)
  /\ \A cabinet \in Cabinets :
       /\ \A w \in within(Multiplier(cabinet, TIER_TOP), MULT_SCALE) : ReservedProfit(w, cabinet) <= cap
       /\ \A bet \in {b \in world.bets : b.klabak} : KlabakRiskCovers(bet.wager, cabinet)

\* "Second moment around the stake (i.e. profit), which is never smaller than
\* the centred variance, so the reserve is never understated" (KlabakGame.sol):
\* while a round is open, the body variance quoted for it covers the variance
\* of its payout with the top tier removed, as the reserve defines it.
VarianceNeverUnderstated ==
  \A i \in SessionIds :
    sessionCommitments[i] # NoCommitment /\ sessionCommitments[i].game = Klabak =>
      LET s == sessionCommitments[i]
          cabinet == s.gameState.cabinet
          scale == PROB_SCALE \div WeightUnit
          body(f(_)) == MapThenSumSet(LAMBDA t : (Weight(cabinet, t) \div WeightUnit)
                                                  * f(Payout(s.wagerBase, cabinet, t)),
                                      Tiers \ {TIER_TOP})
          square(p) == p * p
          plain(p) == p
      IN  (KlabakQuoteRiskParams(s.wagerBase, cabinet).bodyVarianceScaled \div WAD) * scale * scale
            >= body(square) * scale - body(plain) * body(plain)

\* The fulfillments on the router, with the numbers of their transactions.
Fulfillments ==
  UNION {{[hash |-> t, f |-> f] : f \in ToSet(transactions[t].calls)} : t \in DOMAIN transactions}

FulfillmentsOf(n) == {e \in Fulfillments : e.f.request = asked[n].request}

\* The rows a page may hold of request n: with and without the word and the hash of
\* its fulfillment, or with those of another request.
RequestRows(n) ==
  [requestId : {asked[n].request}, fulfilled : {FulfillmentsOf(n) # {}},
   randomness : {Absent} \cup {DeriveRandomness(e.f.proof) : e \in Fulfillments},
   transactionHash : {Absent} \cup DOMAIN transactions, checks : {{}}, valid : {FALSE}]

\* "Verified" means what the page says: a request is found valid exactly when the
\* node it was assigned to signed the one proof its key has for it, and the word
\* the row recorded, if any, is the one the router logged; alone or in a batch,
\* with or without the hash in the row.  A request that cannot be checked, for
\* the chain does not answer or the row has the hash of something else, is
\* left without checks instead of being found invalid.
VerdictsAreRight ==
  \A n \in DOMAIN asked : \A row \in RequestRows(n), reads \in BOOLEAN :
    LET verdict == VerifyRandomnessRequests(transactions, <<row>>, reads)[1]
        id == asked[n].request
        checkable == {e \in FulfillmentsOf(n) : reads /\ row.transactionHash \in {Absent, e.hash}}
    IN  /\ verdict.checks # {} <=> checkable # {}
        /\ \A e \in checkable :
             verdict.valid <=>
               /\ e.f.signature.by = id.fulfiller
               /\ \E x \in {NodeKey} \cup OtherKeys :
                    /\ PublicKey(x) = id.fulfiller /\ IsFulfillable(PublicKey(x), id)
                    /\ e.f.proof = Prove(x, id)
               /\ row.randomness \in {Absent, DeriveRandomness(e.f.proof)}

\* Request n is assigned to the node, and was made while it watched.
OfTheNode(n) ==
  /\ setup = Len(SetupSteps) /\ Len(asked) >= n /\ n > missed
  /\ asked[n].request.fulfiller = PublicKey(NodeKey)

\* One failed fulfillment holds nobody up: every request the router assigns to
\* the node is tried, in the order they were made, and is then settled or for
\* anybody to cancel; but for the ones made before the node watches.
EveryRequestTried ==
  \A n \in SessionIds : OfTheNode(n) ~> taken >= n /\ n \notin ToSet(queue)

=============================================================================
