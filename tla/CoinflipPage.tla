---------------------------- MODULE CoinflipPage ----------------------------
(***************************************************************************)
(* The coinflip example (examples/coinflip-public/src/App.tsx and          *)
(* lib/coinflip.ts) at the end of the bridge: rounds are opened through    *)
(* the host, settled by what its snapshots say of them, landed and         *)
(* revealed.  The host's side is what its snapshot is made of: the game's  *)
(* manifest (use-game-manifest.ts), the risk limits                        *)
(* (use-casino-risk-limits.ts) and the rows of the sessions, which fill in *)
(* piece by piece.                                                         *)
(***************************************************************************)
EXTENDS GameBridge, FiniteSets, Combinatorics

CONSTANTS
  Bets,          \* [pickHeads, coinCount, minWins] a player may place
  Wager,         \* of every bet
  Words,         \* randomness words; a word of 0 counts as none
  VaultFunds,    \* the vault's balance at first
  MaxRounds      \* bound on the sessions

\* A bet is on as many hits as its coins can make.
ASSUME CoinflipAssumption ==
  /\ MaxRounds \in Nat /\ VaultFunds \in Nat /\ Wager \in Nat /\ Words \subseteq Nat \ {0}
  /\ \A bet \in Bets :
       /\ bet.pickHeads \in BOOLEAN /\ bet.coinCount \in Nat
       /\ bet.minWins \in 1..bet.coinCount

VARIABLES
  chain,         \* the sessions on chain, by number
  vault,         \* the token balance of the liquidity vault
  rows,          \* what the host's layers know of each session
  manifest,      \* "fallback" or "served"
  limit,         \* casino.maxAllowedReservedProfit, None before it is read
  call,          \* the page's openSession call
  round,         \* the page's round
  fastMode,
  revealed       \* the sessions the page asked the host to reveal

vars == <<mounts, iframe, snapshot, due, connection, guestApi, lastPushed, wire, page,
          chain, vault, rows, manifest, limit, call, round, fastMode, revealed>>
hostVars == <<chain, vault, rows, manifest, limit>>
gameVars == <<call, round, fastMode, revealed>>

None == -1
Sessions == 1..MaxRounds

NoSession == [status |-> "none"]
NoRow == [phase |-> "none", gameState |-> "none", randomness |-> FALSE, payout |-> FALSE]
NoCall == [status |-> "idle", session |-> None]
NoRound == [status |-> "none"]

-----------------------------------------------------------------------------
\* winningWays: how many of the 2^coinCount throws win.
WinningWays(coinCount, minWins) ==
  LET ways[k \in minWins..(coinCount + 1)] ==
        IF k > coinCount THEN 0 ELSE choose(coinCount, k) + ways[k + 1]
  IN  ways[minWins]

\* maxPayout, what a win pays: 98% of the fair odds.
MaxPayout(wager, bet) ==
  (wager * 9800 * 2^bet.coinCount) \div (10000 * WinningWays(bet.coinCount, bet.minWins))

MaxReservedProfit(wager, bet) ==
  LET payout == MaxPayout(wager, bet) IN IF payout > wager THEN payout - wager ELSE 0

\* A bet is not so small that the division leaves a win with nothing.
ASSUME PayoutAssumption == \A bet \in Bets : MaxPayout(Wager, bet) \in Nat \ {0}

\* Coin i of a word is heads iff bit i is set.
Heads(word, i) == (word \div 2^i) % 2 = 1

\* outcomeFromRandomness: the faces of a word, and whether the picked side
\* came up often enough.
OutcomeFromRandomness(bet, word) ==
  LET coins == [i \in 1..bet.coinCount |-> Heads(word, i - 1)]
      headsCount == Cardinality({i \in DOMAIN coins : coins[i]})
      wins == IF bet.pickHeads THEN headsCount ELSE bet.coinCount - headsCount
  IN  [bet |-> bet, coins |-> coins, pickedSideWins |-> wins, won |-> wins >= bet.minWins]

\* Mutant: a loss shows the picked side as often as a win.
FacesOfAWin(bet, won) ==
  [bet |-> bet, coins |-> [i \in 1..bet.coinCount |-> (i <= bet.minWins) = bet.pickHeads],
   pickedSideWins |-> bet.minWins, won |-> won]

\* outcomeFromResult, the last resort: as many hits as a win needs, or one short.
OutcomeFromResult(bet, won) ==
  LET hits == IF won THEN bet.minWins ELSE bet.minWins - 1
  IN  [bet |-> bet, coins |-> [i \in 1..bet.coinCount |-> (i <= hits) = bet.pickHeads],
       pickedSideWins |-> hits, won |-> won]

\* The contract: the picked side is counted over the same bits.
ContractPayout(bet, word) ==
  LET sameSide == {i \in 0..(bet.coinCount - 1) : Heads(word, i) = bet.pickHeads}
  IN  IF Cardinality(sameSide) >= bet.minWins THEN MaxPayout(Wager, bet) ELSE 0

-----------------------------------------------------------------------------
Terminal(phase) == phase \in {"settled", "cancelled"}

\* What a row may have of a session, and what a snapshot is made of.  Null is neither.
Rows == [phase : {"none", "open", "settled", "cancelled"},
         gameState : {"none", "initial", "final"}, randomness : BOOLEAN, payout : BOOLEAN]
Snapshots == [manifest : {"fallback", "served"}, limit : Int, items : [Sessions -> Rows]]

ASSUME SnapshotAssumption == NoSnapshot \notin Snapshots

\* The snapshot a render publishes now.
Published(r, m, l) == [manifest |-> m, limit |-> l, items |-> r]

Init ==
  /\ BridgeInit(Published([n \in Sessions |-> NoRow], "fallback", None))
  /\ chain = [n \in Sessions |-> NoSession]
  /\ vault = VaultFunds
  /\ rows = [n \in Sessions |-> NoRow]
  /\ manifest = "fallback"
  /\ limit = None
  /\ call = NoCall
  /\ round = NoRound
  /\ fastMode \in BOOLEAN
  /\ revealed = {}

\* The manifest arrives, unless the game serves none: the fallback stays.
ManifestServed ==
  /\ manifest = "fallback"
  /\ manifest' = "served"
  /\ Render(Published(rows, "served", limit))
  /\ UNCHANGED <<chain, vault, rows, limit>> /\ UNCHANGED gameVars

\* The vault's balance is read again: one per cent of it may be lost in a bet.
\* A read that fails changes nothing.
RefreshLimits ==
  /\ limit' = (vault * 100) \div 10000
  /\ limit' # limit
  /\ Render(Published(rows, manifest, limit'))
  /\ UNCHANGED <<chain, vault, rows, manifest>> /\ UNCHANGED gameVars

\* A layer is rebuilt and says the same.
Rebuild ==
  /\ due = {}
  /\ Render(Published(rows, manifest, limit))
  /\ UNCHANGED hostVars /\ UNCHANGED gameVars

\* The rows a session may have in the host's layers.  The page is written for
\* rows that fill in piece by piece, so any part may be missing for a while.
KnownRows(n) ==
  CASE chain[n].status = "none" -> {NoRow}
    [] chain[n].status = "open" ->
         [phase : {"open"}, gameState : {"none", "initial"},
          randomness : {FALSE}, payout : {FALSE}]
    [] chain[n].status = "settled" ->
         [phase : {"settled"}, gameState : {"initial", "final"},
          randomness : BOOLEAN, payout : BOOLEAN]
    [] chain[n].status = "cancelled" ->
         [phase : {"cancelled"}, gameState : {"none", "initial"},
          randomness : {FALSE}, payout : BOOLEAN]

Stage(gameState) ==
  CASE gameState = "none" -> 0 [] gameState = "initial" -> 1 [] gameState = "final" -> 2

\* Nothing a row showed is taken back.
Newer(old, new) ==
  /\ Stage(old.gameState) <= Stage(new.gameState)
  /\ old.randomness => new.randomness
  /\ old.payout => new.payout

\* The host hears more of session n.
HostLearns(n) ==
  /\ \E row \in KnownRows(n) \ {rows[n]} :
       /\ Newer(rows[n], row)
       /\ rows' = [rows EXCEPT ![n] = row]
  /\ Render(Published(rows', manifest, limit))
  /\ UNCHANGED <<chain, vault, manifest, limit>> /\ UNCHANGED gameVars

\* A word is drawn for session n.
SettleOnChain(n) ==
  /\ chain[n].status = "open"
  /\ \E w \in Words :
       LET payout == ContractPayout(chain[n].bet, w)
       IN  /\ chain' = [chain EXCEPT ![n] =
                          [status |-> "settled", bet |-> @.bet, word |-> w, payout |-> payout]]
           /\ vault' = vault + Wager - payout
  /\ UNCHANGED <<rows, manifest, limit>> /\ UNCHANGED gameVars /\ UNCHANGED bridgeVars

\* useStuckSessionId offers an open session without a draw, once its deadline
\* has passed, and the frame's button cancels it: the wager is paid back.
CancelStuck(n) ==
  /\ chain[n].status = "open"
  /\ rows[n].phase = "open" /\ rows[n].gameState = "initial"
  /\ chain' = [chain EXCEPT ![n] =
                 [status |-> "cancelled", bet |-> @.bet, word |-> 0, payout |-> Wager]]
  /\ UNCHANGED <<vault, rows, manifest, limit>> /\ UNCHANGED gameVars /\ UNCHANGED bridgeVars

-----------------------------------------------------------------------------
Ready == page.hostApi /\ page.latest # NoSnapshot
RoundInFlight == round.status \in {"opening", "waiting", "landing"}

\* What the platform accepts, as far as the page was told.
WithinRiskLimit(bet) ==
  page.latest.limit # None => MaxReservedProfit(Wager, bet) <= page.latest.limit

\* Mutant: a round that is done already was revealed when it landed.
RevealedOnLanding == FALSE

\* The effect of a round that is done, fast or landed, is yet to run; it runs
\* again for a landed one, which reveals nothing new.
RevealDue == round.status = "done" /\ round.key \notin revealed

\* openRound: a round without a session, and a call to the host.  The wallet is
\* ready and holds the wager.
Bet(bet) ==
  /\ Ready /\ ~RoundInFlight /\ ~RevealDue
  /\ WithinRiskLimit(bet)
  /\ \E n \in Sessions : chain[n].status = "none"
  /\ round' = [status |-> "opening", key |-> None, bet |-> bet]
  /\ call' = [status |-> "sent", session |-> None]
  /\ UNCHANGED <<fastMode, revealed>> /\ UNCHANGED hostVars /\ UNCHANGED bridgeVars

\* The host's openSession opens the next session.
HostOpens ==
  /\ call.status = "sent"
  /\ \E n \in Sessions :
       /\ chain[n].status = "none"
       /\ \A k \in 1..(n - 1) : chain[k].status # "none"
       /\ chain' = [chain EXCEPT ![n] = [status |-> "open", bet |-> round.bet]]
       /\ call' = [status |-> "opened", session |-> n]
  /\ UNCHANGED <<vault, rows, manifest, limit, round, fastMode, revealed>>
  /\ UNCHANGED bridgeVars

\* Its answer: the round waits under the session's key.
OpenReturns ==
  /\ call.status = "opened"
  /\ round' = [status |-> "waiting", key |-> call.session, bet |-> round.bet]
  /\ call' = NoCall
  /\ UNCHANGED <<fastMode, revealed>> /\ UNCHANGED hostVars /\ UNCHANGED bridgeVars

\* The wallet, the encoding or the transaction fails: no round.
OpenFails ==
  /\ call.status = "sent"
  /\ round' = NoRound
  /\ call' = NoCall
  /\ UNCHANGED <<fastMode, revealed>> /\ UNCHANGED hostVars /\ UNCHANGED bridgeVars

\* decodeGameState: the settled game state holds the bet and the word.
DecodeGameState(row, session) ==
  IF row.gameState = "final" THEN {OutcomeFromRandomness(session.bet, session.word)} ELSE {}

\* The outcome of the round from the richest source its row has: the settled
\* game state, else the word, else the payout alone.  At most one.
RoundOutcome(row) ==
  LET session == chain[round.key]
      decoded == DecodeGameState(row, session)
  IN  IF decoded # {} THEN decoded
      ELSE IF row.randomness THEN {OutcomeFromRandomness(round.bet, session.word)}
      ELSE IF row.payout THEN {OutcomeFromResult(round.bet, session.payout > 0)}
      ELSE {}

\* Mutant: the payout is taken as the row has it.
RowPayout(row, outcome) == IF row.payout THEN chain[round.key].payout ELSE 0

\* A winning row may be terminal one push before its payout is there.
PayoutShown(row, outcome) ==
  IF row.payout /\ chain[round.key].payout > 0 THEN chain[round.key].payout
  ELSE IF outcome.won THEN MaxPayout(Wager, outcome.bet) ELSE 0

\* The settle effect, on a snapshot or a round that is new.
SettleRound ==
  /\ round.status = "waiting" /\ page.latest # NoSnapshot
  /\ LET row == page.latest.items[round.key]
     IN  /\ Terminal(row.phase)
         /\ IF row.phase = "cancelled" /\ row.gameState = "none"
            THEN round' = NoRound
            ELSE \E outcome \in RoundOutcome(row) :
                   round' = [status |-> IF fastMode THEN "done" ELSE "landing",
                             key |-> round.key, bet |-> round.bet, outcome |-> outcome,
                             payout |-> PayoutShown(row, outcome)]
  /\ UNCHANGED <<call, fastMode, revealed>> /\ UNCHANGED hostVars /\ UNCHANGED bridgeVars

\* The toss animation is over.
FinishLanding ==
  /\ round.status = "landing"
  /\ round' = [round EXCEPT !.status = "done"]
  /\ revealed' = revealed \cup {round.key}
  /\ UNCHANGED <<call, fastMode>> /\ UNCHANGED hostVars /\ UNCHANGED bridgeVars

\* It asks the host to credit the round.
RevealOutcome ==
  /\ RevealDue
  /\ revealed' = revealed \cup {round.key}
  /\ UNCHANGED <<call, round, fastMode>> /\ UNCHANGED hostVars /\ UNCHANGED bridgeVars

SetFastMode ==
  /\ Ready
  /\ fastMode' = ~fastMode
  /\ UNCHANGED <<call, round, revealed>> /\ UNCHANGED hostVars /\ UNCHANGED bridgeVars

\* The bridge moves by itself, or is taken down with the page and its round.
BridgeMoves == BridgeStep /\ UNCHANGED hostVars /\ UNCHANGED gameVars

PageGoes ==
  /\ Remount(Published(rows, "fallback", None))
  /\ manifest' = "fallback" /\ limit' = None
  /\ call' = NoCall /\ round' = NoRound
  /\ UNCHANGED <<chain, vault, rows, fastMode, revealed>>

HostLearnsOf == \E n \in Sessions : HostLearns(n)

Next ==
  \/ BridgeMoves \/ PageGoes
  \/ ManifestServed \/ RefreshLimits \/ Rebuild \/ HostLearnsOf
  \/ \E n \in Sessions : SettleOnChain(n) \/ CancelStuck(n)
  \/ \E bet \in Bets : Bet(bet)
  \/ HostOpens \/ OpenReturns \/ OpenFails
  \/ SettleRound \/ FinishLanding \/ RevealOutcome \/ SetFastMode

\* React runs effects, messages and answers arrive, the host's layers hear of
\* what happened, and the page's timers and effects run.
Fairness ==
  /\ WF_vars(BridgeMoves /\ FlushEffects)
  /\ WF_vars(BridgeMoves /\ SetState)
  /\ WF_vars(BridgeMoves /\ (SetIframe \/ PageLoads \/ HandshakeResolves \/ GuestResolves))
  /\ WF_vars(HostLearnsOf)
  /\ WF_vars(OpenReturns \/ SettleRound \/ FinishLanding \/ RevealOutcome)

Spec == Init /\ [][Next]_vars /\ Fairness

-----------------------------------------------------------------------------
\* The round the page has is that of session n.
Playing(n) == round.status \in {"waiting", "landing", "done"} /\ round.key = n

\* CanvasHistoryStrip: the terminal rounds, but for the one in flight.
Strip ==
  {n \in Sessions :
     /\ page.latest # NoSnapshot
     /\ Terminal(page.latest.items[n].phase)
     /\ RoundInFlight => round.key # n}

\* What lands is what was drawn: as many coins as were bet on, the win or loss
\* and the payout of the contract whatever parts of the row were there, and the
\* very faces of the word once one of them told it; and until the coins have
\* landed the strip above them keeps the round back.
ShowsWhatLanded ==
  /\ round.status \in {"landing", "done"} /\ chain[round.key].status = "settled" =>
       LET session == chain[round.key]
           coins == round.outcome.coins
           sameSide == {i \in DOMAIN coins : coins[i] = session.bet.pickHeads}
       IN  /\ DOMAIN coins = 1..session.bet.coinCount
           /\ round.outcome.pickedSideWins = Cardinality(sameSide)
           /\ (Cardinality(sameSide) >= session.bet.minWins) = round.outcome.won
           /\ round.outcome.won = (session.payout > 0)
           /\ round.payout = session.payout
  /\ round.status \in {"waiting", "landing"} => round.key \notin Strip

\* The page ends up with what the host last rendered, whatever the order of
\* handshake, renders and effects; and a round that ended on chain never stays
\* in the air: its coins land and it is revealed, or it is dropped with an
\* error, or its page goes.
EveryRoundLands ==
  /\ <>[](page.latest = snapshot)
  /\ \A n \in Sessions :
       (Playing(n) /\ chain[n].status # "open") ~> (n \in revealed \/ ~Playing(n))

=============================================================================
