---------------------------- MODULE CoinflipView ----------------------------
(***************************************************************************)
(* What the coinflip example shows: the render of                          *)
(* examples/coinflip-public/src/App.tsx with its components CoinStage,     *)
(* WinOverlay, CanvasHistoryStrip, CanvasStatsStrip and Sidebar, read from *)
(* the state of CoinflipPage.  The form (side, coins and hits the player   *)
(* has set), the wager in the input and the balance are parameters.        *)
(***************************************************************************)
EXTENDS CoinflipPage

MAX_COIN_COUNT == 10

Forms ==
  {form \in [pickHeads : BOOLEAN, coinCount : 1..MAX_COIN_COUNT, minWins : 1..MAX_COIN_COUNT] :
     form.minWins <= form.coinCount}

\* Some throw wins, whatever the form: the numbers the odds are made of.
ASSUME WaysAssumption ==
  \A form \in Forms :
    /\ WinningWays(form.coinCount, form.minWins) \in Nat \ {0}
    /\ 2^form.coinCount \in Nat \ {0}

-----------------------------------------------------------------------------
(* The stage *)

StagePhase ==
  CASE round.status \in {"none", "opening"} -> "idle"
    [] round.status = "waiting" -> "flipping"
    [] round.status = "landing" -> "landing"
    [] round.status = "done" -> "settled"

HasOutcome == round.status \in {"landing", "done"}

\* The stage shows the round's bet, the form only before there is a round.
StageBet(form) == IF round.status = "none" THEN form ELSE round.bet

CoinCount(form) ==
  IF HasOutcome THEN round.outcome.bet.coinCount ELSE StageBet(form).coinCount

Mark(bet, heads) == IF heads = bet.pickHeads THEN "match" ELSE "miss"

\* The coins: the picked face until they land, then the faces of the outcome, which
\* are marked as hits or misses once they lie.
Coins(form) ==
  [i \in 1..CoinCount(form) |->
     [heads |-> IF HasOutcome THEN round.outcome.coins[i] ELSE StageBet(form).pickHeads,
      spins |-> StagePhase = "flipping",
      mark |-> IF StagePhase = "settled" THEN Mark(StageBet(form), round.outcome.coins[i])
               ELSE "none"]]

\* The badges under coins that lie, and how many of them hit.
Badges ==
  [i \in DOMAIN round.outcome.coins |->
     [heads |-> round.outcome.coins[i],
      mark |-> Mark(round.outcome.bet, round.outcome.coins[i])]]

HitsShown == round.outcome.won /\ round.outcome.bet.coinCount > 1

CoinStage(form) ==
  [coins |-> Coins(form), summary |-> StagePhase = "idle", status |-> StagePhase = "flipping",
   badges |-> IF StagePhase = "settled" THEN Badges ELSE <<>>,
   hits |-> IF StagePhase = "settled" /\ HitsShown THEN {round.outcome.pickedSideWins} ELSE {}]

-----------------------------------------------------------------------------
(* The overlay of a win, and the history above the stage *)

\* payout / wager, in ten-thousandths.
Multiplier(payout) == IF Wager > 0 THEN (payout * 10000) \div Wager ELSE 0

WinVisible(dismissed) == round.status = "done" /\ round.outcome.won /\ ~dismissed

\* What the payout adds to the wager; the overlay prints it with a plus sign.
WinNet == round.payout - Wager

WinOverlay == [multiplier |-> Multiplier(round.payout), net |-> WinNet, bet |-> round.bet]

\* A pill has the payout that its row has; it is green when that is more than the
\* wager.
Pill(n) ==
  LET payout == IF page.latest.items[n].payout THEN chain[n].payout ELSE 0
  IN  [multiplier |-> Multiplier(payout), won |-> payout > Wager]

Pills == [n \in Strip |-> Pill(n)]

-----------------------------------------------------------------------------
(* The form *)

SetSide(form, heads) == [form EXCEPT !.pickHeads = heads]

\* Fewer coins take the hits down with them.
SetCoins(form, coinCount) ==
  [form EXCEPT !.coinCount = coinCount,
               !.minWins = IF @ <= coinCount THEN @ ELSE coinCount]

\* The slider goes up to the number of coins.
SetHits(form, minWins) == [form EXCEPT !.minWins = minWins]

-----------------------------------------------------------------------------
(* The odds and the limits *)

WinProbability(form) ==
  [numerator |-> WinningWays(form.coinCount, form.minWins), denominator |-> 2^form.coinCount]

PayoutMultiplier(form) ==
  [numerator |-> 9800 * 2^form.coinCount,
   denominator |-> 10000 * WinningWays(form.coinCount, form.minWins)]

\* What the strip below the stage quotes.
StatsStrip(form, wager) ==
  [multiplier |-> PayoutMultiplier(form), winChance |-> WinProbability(form),
   profitOnWin |-> MaxReservedProfit(wager, form)]

\* computeMaxWager, as a set: empty when nothing is published or nothing limits the
\* bet.  The multiplier is rounded up to a basis point.
ComputeMaxWager(published, multiplier) ==
  LET bps == (multiplier.numerator * 10000 + multiplier.denominator - 1) \div multiplier.denominator
  IN  IF bps <= 10000 \/ published = None THEN {}
      ELSE {(published * 10000) \div (bps - 10000)}

PlatformMaxWager(form) == ComputeMaxWager(page.latest.limit, PayoutMultiplier(form))

\* setMaxWager: the least of the balance and the platform's limit.
SetMaxWager(balance, form) ==
  LET candidates == {balance} \cup PlatformMaxWager(form)
  IN  CHOOSE least \in candidates : \A candidate \in candidates : least <= candidate

InsufficientBalance(wager, balance) == wager > balance

ExceedsRiskLimit(wager, form) ==
  page.latest.limit # None /\ MaxReservedProfit(wager, form) > page.latest.limit

CanBet(walletReady, wager, balance, form) ==
  /\ walletReady /\ ~RoundInFlight /\ wager > 0
  /\ ~InsufficientBalance(wager, balance) /\ ~ExceedsRiskLimit(wager, form)

CtaLabel ==
  CASE RoundInFlight -> "Flipping" [] round.status = "done" -> "Play again" [] OTHER -> "Bet"

\* The line below the button, the first that applies.
Reason(walletReady, error, wager, balance, form) ==
  CASE ~walletReady -> "wallet"
    [] walletReady /\ error -> "error"
    [] walletReady /\ ~error /\ InsufficientBalance(wager, balance) -> "balance"
    [] walletReady /\ ~error /\ ~InsufficientBalance(wager, balance)
         /\ ExceedsRiskLimit(wager, form) -> "risk limit"
    [] OTHER -> "none"

-----------------------------------------------------------------------------
\* The coins that lie are the result: the stage shows as many as were bet on, the
\* badges show the same ones with the same marks, and the marked hits are enough for
\* the bet just when the contract paid.
CoinsTellTheResult ==
  \A form \in Forms :
    round.status = "done" /\ chain[round.key].status = "settled" =>
      LET coins == Coins(form)
          hits == {i \in DOMAIN coins : coins[i].mark = "match"}
      IN  /\ DOMAIN coins = 1..chain[round.key].bet.coinCount
          /\ DOMAIN Badges = DOMAIN coins
          /\ \A i \in DOMAIN coins : /\ Badges[i].mark = coins[i].mark
                                     /\ Badges[i].heads = coins[i].heads
          /\ Cardinality(hits) >= chain[round.key].bet.minWins <=> chain[round.key].payout > 0
          /\ HitsShown => round.outcome.pickedSideWins = Cardinality(hits)

\* The overlay comes up just when the chain paid something, with the net of what it
\* paid: also for a round that was cancelled, whose wager is paid back and lands as a
\* win of nothing.
OverlayTellsThePayout ==
  round.status = "done" =>
    LET session == chain[round.key]
    IN  /\ session.status \in {"settled", "cancelled"}
        /\ WinVisible(FALSE) <=> session.payout > 0
        /\ WinOverlay = [multiplier |-> Multiplier(session.payout), net |-> session.payout - Wager,
                         bet |-> session.bet]
        /\ session.status = "cancelled" => WinOverlay.net = 0

\* The pill of a round that is done and the overlay say the same once the payout is in
\* the row; the pill of a settled win is green just when the bet profits by it, and of
\* a bet that pays back less than its wager it stays grey though the overlay says a win.
PillsAgree ==
  round.status = "done" /\ round.key \in Strip /\ page.latest.items[round.key].payout =>
    /\ Pills[round.key].multiplier = WinOverlay.multiplier
    /\ WinVisible(FALSE) /\ chain[round.key].status = "settled" =>
         (Pills[round.key].won <=> StatsStrip(round.bet, Wager).profitOnWin > 0)

=============================================================================
