# Klabak: specifications and proofs

TLA+ models of the klabak repository: the casino host contract and the games
that run on it, the node that draws for them, the harness that shows a game to a
player, the game pages themselves, the local backend of a developer, and the
tools that check a paytable. TLC checks the models on small instances; TLAPS
proves theorems about the host, the game, its paytable, the randomness, the
feed and the snapshot fed by it, the displayed balance, both game pages and what they
show, and the local node with a tab, for every value of the constants.

Run from this directory:

    tlc -workers 2 -config MCCasinoHost.cfg MCCasinoHost
    tlapm CasinoHostProofs.tla

`PROJECT.json` lists every run with its module and configuration, the source
lines behind every definition, the hazards of the code, and for each checked
property a mutant of the code's model that violates it. The mutants are ordinary
definitions next to the ones they mutate, each marked `Mutant:`.

## The system

A player bets through a game page in an iframe. The host page around it (the
simulator) holds the wallet: it sends the transactions, follows the chain and
publishes a snapshot of the player's sessions to the game. On the chain the
casino host keeps the money and only a hash of each session; a game contract
decides what every step of a session does; a VRF node answers requests for
randomness. The local node deploys all of it, compiles what a developer drops
into `contracts/`, and tells the simulator through `deployed.json`.

| Component | Source | State it keeps | Operations | What makes it correct |
|---|---|---|---|---|
| Casino host | `simulator/contracts/LocalCasinoHost.sol`, `casino/*.sol` | the commitment of each open session, VRF requests, registered games | open, submit action, fulfill, cancel stuck, forfeit expired | one settlement per session, escrow always covered, caps honoured, no debit without consent, refunds in full |
| Test token | `simulator/contracts/LocalTestToken.sol` | balances, allowances | mint, transfer | supply conserved |
| Klabak game | `simulator/contracts/KlabakGame.sol` | none: view callbacks | six callbacks of a game, quotes, paytable | each draw is settled within the reserve; what is logged is what is paid; payouts and chances stay within the quotes |
| Slot engine | `slot-engine` | chunks and titles on the chain | compile, import, deploy, quote, settle, read back | the title pays what it quotes, and is what the author wrote |
| Verify-network node | `local-verify-network/src` | its setup, a serialized queue of requests | watch, prove, sign, fulfill, forget what failed | every request is tried; one failure holds nobody up |
| Randomness verification | `simulator/src/randomness-verification.ts`, the ECVRF and router modules | none | find the fulfillment, check it | "verified" means proved and signed by the assigned node |
| Event feed | `simulator/src/session-events.ts` | next block, seen keys, timers | replay, poll, retry, stop | every log once, in order while lags stay, none lost, silent once stopped but for a replay under way |
| Session store | `simulator/src/session-store.ts` | a row per session | apply an event, list | rows only move forward |
| Flashblock patches | `flashblock-session-patch.ts`, `use-simulated-sessions.ts` | a patch per session | apply, overlay, prune | fresh where the row is behind, never masking it |
| Host snapshot | `use-host-snapshot.ts`, `monotonic-session-items.ts`, `optimistic-casino-session.ts` | optimistic sessions, what was published | render | the list games see is monotonic |
| Balance ledger | `balance-hold.ts`, `use-round-ledger.ts`, `use-game-host.ts` | baseline, deltas, active rounds, epoch | bet, reveal, close, reconcile | no stale or early balance |
| Bridge | `use-game-bridge.ts`, the pages' `useCasinoHost.ts` | both ends of a connection | mount, handshake, push, call | every page ends with the newest snapshot, once |
| Klabak page | `examples/klabak/src` | the round being played, history, demo balance, auto queue | pull, play back, book | the claw comes up with what was drawn |
| Coinflip page | `examples/coinflip-public/src` | the round being played | bet, land, reveal | the coins land as drawn, and always land |
| Local node | `simulator/local-node` | deployments, registered games, `deployed.json` | boot, watch, compile, deploy, register, poll | the list is complete and becomes current |
| Harness | `App.tsx`, `runtime.ts`, `config.ts` | configuration, a runtime and its feed | poll, start, reload | one feed, of the node that is there |
| Paytable and its checks | `math/`, `tools/verify-*.mjs`, `tools/simulate-rtp.mjs` | none | verify, compare, replay, simulate | what is published is what is deployed and drawn |

How they meet: pages call the host page by messages; the host page calls the
chain by transactions and reads it by polling; the chain calls games and the VRF
within transactions; inside the page, components share React state and callbacks;
the node and the tab meet in one file.

What is hard here: session calldata is supplied by callers, so old copies may be
replayed; words and deadlines race; every `await` of the feed, of `openSession`,
of the balance read and of the contract watcher lets anything else happen; one
session is known to three layers with different delays, and to a fourth that
remembers what was shown; pages and hosts are mounted and unmounted in the middle
of all this; a draw is computed in five places and must come out the same; nodes
restart under tabs that stay.

## Modules

Several models look at *worlds*: `world` is a variable chosen in `Init` that never
changes, and names which of the environment's moves an instance explores (how
many sessions, edits, failures, whether the player stops). One run then asks one
question of a component in several settings whose product would be too large. The
actions of the code do not depend on it, only those of its surroundings do.

### The chain

**`CasinoHost`** models the contract. `sessionCommitments[i]` is the whole session
record whose hash the contract stores, or `NoCommitment`; a call may echo any record ever
committed, the model keeps them in `emitted`, and `LoadSession` accepts the
committed one only, which is what comparing hashes does. One action per external
function: `OpenSession`, `SubmitAction`, `OnRandomnessFulfilled`,
`CancelStuckRandomness`, `ForfeitExpiredSession`, each with the token transfers,
`ProcessStepResult`, the commitment or the settlement in the order of the code;
a revert is an action that is not enabled. `OpenSession` asks the game for its caps and
its risk, and refuses another vault and a probability above one. A game is a constant: the set of step
results, caps, risks and forfeit quotes it may return, legal or not, too wide for the codec
or too long (`TooLong`) included. `MineBlock` moves
deadlines, `FulfillmentLost` is a word that never comes, `RegisterGame` whitelists
a game, `Mint` and `TransferTokens` are what anyone may
do with tokens in between.

**`SessionRisk`** is the abstract promise of the host about one session: opened
within caps quoted once, it moves step by step with player and house never past
their caps, and ends once. `CasinoHost` implements it session by session
(`ImplementsSessionRisk`).

**`KlabakGame`** translates the game's callbacks, its tables and its paytable. A
word is its eight candidates and the last resort behind them. **`GameRisk`** adds
`quoteRiskParams`, the limits the simulator publishes and `computeMaxWager` of the
SDK, as integer arithmetic with the code's rounding.

**`SlotTable`** translates the TypeScript of the slot engine: compiling tier lists,
importing a lookup table with its rescaling, reading a chunk, sampling. A function that
may throw is the set of what it may return. **`SlotEngine`** is the Solidity over the same
bytes: the walk over the chunks, the two binary searches, the quotes. **`SlotDeployer`**
has the state: the deployer's chunks, titles and band, and the author's script
with a transaction per action, among owners and strangers that act in between.

**`Ecvrf`** is the VRF over an abstract group of prime order, and
**`VerifyNetwork`** the router's requests, logs and batches, the node's signature and
the page's verdict on them. Hashes are constants or injective.

**`GamesHost`** composes all of it: `CasinoHost` (`Chain == INSTANCE ...`) with Klabak
and whatever title the script deployed in the place of the game constant, the
node's setup (one transaction per step), its watcher and its promise chain of
fulfillments (`Watch`, `Serve`), other nodes, and the checks of `KlabakTables` and
`KlabakAudit` on the rounds that come out.

**`KlabakAudit`** has `tables.json` as published, the generator's verification of it,
the numbers the generator writes into the contract and the page's tables (`Generate`;
not the text around them), and what the tools compute: the comparison of the contract's
source and of a deployed contract with the paytable, the replay of a round (`ReplayRound`, with the
one wager that the script was given) and the simulated draw.

### The host page

**`SessionFeed`** models `createSessionEventFeed` as the coroutine it is:
`stage` names the await it is at. A log is its position on the chain. `Start`,
`Normalize`, `BlockArrives`, `Poll`, `PollDone` are the steps between awaits,
`StartFails`, `PollFails`, `BlockFails` the calls that reject, `Fire` a timer of
`emitDelayed`, `Stop` may come at any point.

**`SessionRows`** translates the pure functions: `evolve` of the store,
`applyFlashblockEvent`, the overlay of a patch on a row and the pruning. A game state
is the step that produced it and a random word the nonce it answers, so that a
value in the wrong place is visible.

**`HostSnapshot`** drives them: the chain emits events, two channels deliver them
(`DeliverIndexed`, `DeliverFlashblock`), the page opens sessions (`PlaceBet`,
`Receipt`, `BetFails`), `Render` publishes the list through projection, merge,
`reconcileMonotonicSessionItems` and sort, and `Prune` is the effect that runs
after a render with new rows. `ResolveEncodedSession` chooses the session bytes that an action
sends back to the host. `SnapshotWarnings` is what the recorder of
`snapshot-trace.ts` would warn of between two snapshots; a time a result was settled at is the
page's clock in a patch and the block's in a row.

**`BalanceLedger`** models the displayed balance: `ledger` is the module state
of `balance-hold.ts`, which outlives hosts; `tracked` and `pendingReveal` are the
refs of one host; `reads` are the reconcile reads in flight. The awaits of
`openSession` and `submitAction` are the boundaries between `OpenSession`,
`OpenMined`, `OpenReturns` or `OpenFails`, and between `SubmitAction`, `ActionMined`, `ActionReturns` or
`ActionFails`. A bet may have any number of actions, which may overlap and need not wait for `openSession`;
an open and an action that were mined may both be reported failed.

### The pages

**`KlabakTables`** is what the claw machine's page computes: the outcome of a row, from its
game state, its random word or its payout, and the demo draw. **`KlabakPage`** is its
round: the handshake with its timeout, the pull, `openSession` in flight, the row that
arrives piece by piece (`RowShows`, `RowCompletes`), the settle effect (`OutcomeArrives`), the
animation's timers (`Advance`), the booking, the demo mode with its timers, which may come due together, and the auto queue. A row
whose game state is not there yet is read by its word or its payout, on the cabinet of the round (`RowOutcomes`). An
effect is enabled by the state it reads. `unrendered` is the one gap between a
state change and its render that matters: the auto timer has pulled, and the key handler, the tabs and
the queue's button are still those of the page before; `strayed` remembers a tab chosen in it. `booked`
has every line booked, and `history` the last `HISTORY_LINES` of them, 40 in the page; so pull number and strip
stay as they are once it is full. `StoredShelf` is the collection that the page loads from `localStorage`.

**`GameBridge`** has both ends of the connection: `due` are the effects that renders
have asked for and that React has not run, the handshake resolves on each side
when it does, `wire` holds the pushes under way. **`CoinflipPage`** puts the coinflip
example at one end and its snapshot (manifest, limits, rows) at the other, with rounds
from bet to landing and reveal, fast mode, cancelled opens and the history strip.

**`KlabakView`** and **`CoinflipView`** are what the two pages draw: their renders and
components as operators of the state of `KlabakPage` and `CoinflipPage`. A view has no actions; a
property of it relates what is drawn in one place to what is drawn in another or to the chain. Of
`KlabakView`: the claw and the plate, the banner and the overlay of a win, the shelf of
charms, the statistics, the paytable and the prize ladder. Of `CoinflipView`: the coins and their badges,
the overlay, the pills of the history, the odds, the limits and the form (a parameter: whatever the
player has set). Their properties are proved and are in no run; what is drawn is modelled in as much detail
as these theorems tell apart.

### The developer's side

**`LocalNode`** is one JavaScript thread whose steps end where it awaits: boot and setup,
the initial scan, `fs.watch` with its debounce, a sync that compiles, deploys and registers
file by file (`SyncStart`, `SyncFile`, `DeployGame`, `RegisterGame`, `SyncEnd`), the poll of
registrations, each with its failures, and a process that stops and boots again, on
a new chain or on one that was running already. The compiler is a table of what a text holds. **`HarnessTab`** adds a tab:
fetches of `deployed.json` under way, the configuration in `localStorage`, starts whose
runtime is created asynchronously, reloads.

## Runs

| Run | Question | Bounds, and why they are enough |
|---|---|---|
| `host` | every safety property of the host, its refinement of `SessionRisk`, and that stakes come back | "pair": two players, two overlapping sessions, two steps, eleven step results, legal and illegal, three risk quotes: replay, settlement and escrow interact between two sessions, a third adds no new interaction. "solo": one session of three steps among mints and stray transfers |
| `games_host` | the games of the repository on the host, their quotes, their deployment, the node and the verdicts | seven worlds: Klabak with words at the tier boundaries, behind 1, 3 or 7 rejected candidates and with none left; two rounds on one queue; an author's definitions and imports, played; the same beside a changing band; strangers' titles of two chunks; rounds while the node is set up; two nodes. Integer widths are scaled (a chunk holds 2 tiers, weights 4 or 6 bits), so that every limit is passed by some definition |
| `klabak_variance` | the comment on the body variance | expected to be violated |
| `feed` | no duplicate, order while lags stay, silence after stop but for a replay, arrival | three logs in up to three blocks, two failures of either kind, changing lags: a range of several blocks that is retried while the lags change |
| `feed_lost` | the comment "nothing is lost" when a block lookup fails | expected to be violated |
| `snapshot` | agreement with the chain, words under their requests, nothing older, nothing taken back, everything shown | four worlds: one session of three steps, bet from this page on calm channels, so that a request is superseded while its answer is on one channel; with reordering and disconnects, one of one step bet from this page and one of two steps bet elsewhere; two sessions one after the other, one opened from the page, both shown in the end |
| `ledger` | the balance is exact, never ahead, and reconciled | two bets in five worlds: a read needs one round to start and a second to race it; settlements ahead of their opens; two mounts; bets and an action with an extra stake that are mined and reported failed; a game that acts before `openSession` has returned; several actions on a session, and a player who stops |
| `page` | the claw's round, hosted and demo, with its queue | two pulls and an auto queue of two, a history of one line, a shelf that is not empty, two cabinets with different tables, a slip and a prize: two rounds are what a key, a timer and two rows can confuse |
| `page_refund` | the comment on the prize a payout implies, for a cancelled round | expected to be violated |
| `frame` | the coinflip example in its frame | one round; a page that changes under a staying frame, or two mounts; one push on the wire beside the snapshot kept for the next |
| `node_and_tab` | completeness and freshness of the list, one feed | five worlds: two edits of two files; failures and other tools; a restart among edits; a tab over a restart; a tab whose fetches fail |
| `deleted_games` | the documentation on deleting a file | expected to be violated |

Deadlock is not checked: every model stops when its bounds are used up, and the
real components wait for input then.

### What the violated runs show

- `feed_lost`: `normalize` remembers a log's key before it awaits the block's
  timestamp. If that call fails, the retry of the range takes the log for seen
  and drops it, although the comments there say that nothing is lost.
- `page_refund`: a round whose randomness never came and that was cancelled has a row
  that decodes to no outcome and pays the wager back. The page takes it for a win and
  plays a prize of at least 1.50 times the wager.
- `deleted_games`: a game whose file was deleted from `contracts/` stays in the
  picker, because the node itself registered it on the host and every registered game
  is listed.
- `klabak_variance`: leaving the top tier's weight out of the second moment around the
  stake can make it smaller than the variance of the rest, which the comment excludes.

### What the passing runs assume

- `feed`: `OnceAndInOrder` asks for order while the lags stay as they are, and
  `EveryLogArrives` names the cases it excludes: a stopped feed, a start that failed
  (it ends the feed silently, and no comment promises otherwise), and a log whose own
  block lookup failed (`feed_lost`).
- `snapshot`: a changed lag may reorder a channel, and then a settlement can file its
  word under the wrong request, which is why `WordsAnswerTheirRequests` and
  `NeverOlder` are stated for a channel that keeps its order. `NeverOlder` is also stated for
  a wallet that stays: an optimistic session whose row went away with the
  wallet and whose patch was pruned is shown in its first phase again. `ResultsStay` excuses two of the
  recorder's warnings: a pending bet that becomes its session, which is in the list under its own id from then on;
  and a result whose time of settlement alone changes, from the page's clock to the block's as its row arrives
  and back only while the row is not listed. That one fires in ordinary play. The player
  has no more than `ListLimit` sessions; an open one that falls out of the list is
  never shown settled.
- `ledger`: the player bets once a balance is shown; a bet placed before the first
  balance read arrives is subtracted twice until the next reconcile. `EventuallyReconciled` is asked of the
  world in which sessions do not settle before their own open has returned, one host
  stays mounted and reads are answered: a loss whose row arrives before its round is tracked, and
  a round tracked by an unmounted host, stay active and block every later reconcile. `DisplayFollowsTheGame` (of the worlds with one mount, true receipts and a game that waits for `openSession`) and
  `NeverAhead` hold in the five worlds, and are proved for every world that is `Orderly`. Elsewhere TLC
  finds the display off by a stake or a payout until the next reconcile: with extra stakes and two mounts, for one, a
  reconcile of the second host reads the wallet while an action of the first is in flight. With settlements that
  come early, an action on a round whose open was misreported, or was made by an earlier host, tracks it anew although its
  payout is in the balance already. A game that acts before `openSession` has returned is not asked for
  `EventuallyReconciled`: the round is tracked under `resume:`, then again under `open:`, and nothing takes the first key
  off the active rounds, which blocks every later reconcile.
- `page`: `EverySessionComesUp` excludes a session lost to a second pull. A timer of the auto
  queue and the space bar, or the button, can both pull on one rendering; the second refusal then
  drops a round the first one opened. `RevealedAsDrawn` and `QueueStopsOnError` have the same exception.
- `frame`: `ShowsWhatLanded` says what lands of settled sessions. The page is shown cancelled
  ones too, and takes the refund for a win as the claw machine does. While a round is still opening the strip above the
  coins withholds nothing, and shows a result that is that early.
- `node_and_tab`: `EditsGoLive` excludes a file dropped between the scan's
  listing and the start of the watch, and a deployment that failed: the code tries neither again.
  `TabFollowsTheNode` excludes a start on saved addresses before the first
  answer of the poll, which `App.tsx:85` says restarts by itself and which does not.
- `games_host`: a word whose eight candidates are all rejected is drawn differently by the
  contract (a hash), the replay (a hash of its text), the page (an exclusive or), the
  demo (a slip) and the simulation (the top tier). `EveryDrawSettles` asks the page, the replay and the
  simulation to agree with the contract on every other word; that the contract settles is asked of these too.
  Of the replay's verdict it says what `verify-rounds.mjs` does with the one wager it is given: OK exactly when the
  tier pays at that wager what it paid at the round's, and MISMATCH otherwise. `QuotesCoverThePayouts` is about three of the
  four quotes (`klabak_variance` has the fourth) and leaves a slot's expected payout the rounding of the contract, less than a
  unit for a round.

### Notes no run checks

- `KlabakGame.sol` calls `DRAW_LIMIT` `ceil(2^32 / PROB_SCALE) * PROB_SCALE`; the
  value is that of the floor.
- `RANDOMNESS_TIMEOUT_BLOCKS` is 15 with the comment "same defaults as the
  production facet", and 150 in `docs/CONTRACT_CONSTRAINTS.md`.
- `drawFromRandomness` of the page is commented as used for the standalone demo
  only, and also draws for settled rows; the demo is said to mirror the contract exactly,
  and falls back to a slip; `demo.ts` says it never touches a wallet, and a demo
  queue that a late handshake finds running goes on with real bets.
- `use-game-host.ts:64` has it that no rounds exist for a disconnected game; the
  published list keeps them.
- `balance-hold.ts:139` says raw updates are ignored after any activity; the first one is not.
- `tools/verify-rounds.mjs` throws on the settled event of a cancelled round, whose tier is 255. It takes every round for one of
  `WAGER` or of ten tokens (lines 126-131), so that a round that won with another wager is a MISMATCH there although its draw is
  right.
- `math/generate.py` does not check that the last tier has the largest multiplier,
  while the contract's caps are the last tier's. `PublishedTablesVerify` shows what it does check, and
  `ReserveCoversEveryTier` that the published tables have it.
- The chip above the Klabak paytable (`Paytable.tsx:16`) multiplies a return that is per cent already by a
  hundred: it prints 9600.00% for 96% (`PanelsPrintTheTable` has both numbers).
- The plate below the claw (`ClawMachine.tsx:155`) reads the table of the cabinet that is selected now. After a
  round another tab makes it name another cabinet's prize, which is why `OneStory` has its condition.
- The coinflip page drops a cancelled round only when its row has no game state (`App.tsx:90`). With
  the first game state in the row, it lands as a win with a net of nothing (`OverlayTellsThePayout`). Odds that
  pay back less than the wager give an overlay "win" with a negative net, while the pill above the
  stage stays grey (`PillsAgree`).
- `snapshot-trace.ts` would warn of a pending bet that becomes its session, and of a settled session as MUTATED when the
  block's time (`session-store.ts:152`) takes the place of the page's (`flashblock-session-patch.ts:124`); neither is
  a fault of what is shown.
- The collection on the shelf outlives the history, which is cut to 40 lines (`App.tsx:259`): after that the pull number
  stands still, and the share of pulls that held is of the last 40.

### Fairness

- `host`: blocks are mined, and somebody is willing to call `cancelStuckRandomness`
  and `forfeitExpiredSession` on a session that is past its deadline; both are open
  to anyone. Nothing is assumed of games, players or the VRF.
- `games_host`: the node's watcher polls and its promise chain runs. Nothing is assumed of
  players, blocks or other nodes.
- `feed`: the event loop runs the coroutine and the timers.
- `snapshot`: deliveries arrive, React renders and runs its effects; fairness of `Render` is
  written out as `[]<>~Outdated \/ []<><<Render>>_vars`, with `Outdated` for its
  ENABLED, which TLC would otherwise evaluate very slowly.
- `ledger`: timers fire, reads are answered, transactions end one way or the other,
  sessions settle, rows arrive, and a game reveals its wins, which the SDK asks of
  it (not its losses).
- `page`: timers fire, effects run, and the row of a session that has ended becomes complete.
  Nothing is asked of the player, the chain or `openSession`.
- `frame`: React runs effects and state updates, frames load and handshakes resolve, the host
  learns of what is on the chain, `openSession` returns and animations end.
- `node_and_tab`: a process that is up goes on: its timers fire and its calls return, one way or
  the other; a tab's fetches are answered and its runtimes are created or fail.

All of it is weak fairness: nothing in the code waits for a step that is
enabled again and again without staying so.

## Proofs

`CasinoHostProofs` proves, for any set of accounts, any numbers of sessions and
steps and any games:

- `TypeCorrect`: the type invariant, and with it that no account is overdrawn.
- `SettledOnce`: a session is settled exactly once, whatever calldata is echoed.
- `QuotedCapsHold`: over all steps, player and house stay within the quoted caps.
- `SessionsMoveStepByStep`: the action property of the same name.
- `HostImplementsSessionRisk`: the refinement of `SessionRisk`.

The inductive invariant is the conjunction of the type invariant with what ties
the settlement log to the commitments (a settled session has no commitment and
one entry in the log), every committed record to its identifier, phase and caps,
and the totals of a closed session to the caps of the record it was closed from.
None of the three safety properties is inductive alone: that a settlement is
within the caps follows from the record, which follows from every earlier step.
The proof has one lemma per kind of step (a step of one session, a step that
touches none), and the refinement maps a step of session `i` to the step of
`SessionRisk` and every other step to a stutter. The assumptions are those named in
`CasinoHost` and `SessionRisk`; TLC evaluates them in every run.

From the same invariant come two action properties, and a third theorem from a
stronger one:

- `NobodyElseDebits`: a player's balance drops over a session's transaction only if
  that player opened the session, or acted in it in time. A settlement takes
  nothing from a player, and a step charges only where `_processStepResult` is
  called with `allowEscrowIncrease`, which is in the player's own transactions.
- `StuckDrawsAreRefunded`: whoever leaves `WAITING_RANDOMNESS` unanswered is refunded
  in full. The router's answer consumes its request and may only add one that is a
  step further, so a step without it is the cancellation, and the escrow it pays is
  what the invariant says the player is down by.
- `StakesAreBacked` (`EscrowBacked`): the host always holds the stakes of its open sessions, the
  balances add up to the supply, and over a session's transaction the host's balance moves exactly
  with the stakes. A transaction moves two balances and one
  stake, so the proof is about sums over the accounts and over the sessions that change
  in one or two places. It assumes finitely many players and an initial supply that is the
  sum of the initial balances; `ConstantsAssumption` in `CasinoHost` says so.

`FiniteSums` has the facts about `SumFunctionOnSet` of the community modules this
needs: the sum does not depend on the order in which the set is walked, and changes by the
difference where the function changes. The provers cannot instantiate the library's
induction theorems, which take an operator, so the induction is over a set of the subsets for
which the fact holds: a smallest one outside it cannot exist. `BalanceLedgerProofs` and `GameProofs` use it too.

`GameProofs` goes from the word to the claw. It proves, for every wager and draw and at the real scale of the
tables (TLC checks a few draws and wagers):

- `ReserveCoversEveryTier`: the reserved profit covers the payout of every tier.
- `TiersPartitionTheDraws`: a tier takes exactly the draws of its weight, and the
  fallback to the top tier is never used.
- `DrawsAreInRange`: a draw is in range whichever candidates are rejected.
- `DrawsAreUnbiased`: of the candidates that are not rejected, a tier takes exactly its
  weight's share, for any `DRAW_LIMIT` that is a multiple of `PROB_SCALE`. The candidates
  of a tier are counted by a bijection with the pairs of a multiple and a remainder.
- `QuotedRiskCovers`: no tier pays more than the quoted maximum, the top tier comes no more often than the quoted
  probability (for a `WAD` that 200 divides), and the quoted expected
  payout is never below the payouts weighed by their chances. The body variance is not among them. `DeclaredReturnIsQuoted`: for a
  wager that is a multiple of 2000 it is the declared return to the unit, as
  `verify-declared-rtp.mjs` asks for one wager.
- `LimitedWagersFitTheCap`: a wager within `computeMaxWager` reserves no more than the
  vault's cap, for every balance, Klabak cabinet and slot configuration; rounding the multiplier up
  to a basis point and the quotient down both err on the vault's side.
- `PublishedTablesVerify`: the paytable passes the generator's verification.
- `GeneratedFilesAreCurrent`: with 32-bit candidates, the committed contract, page
  tables and `PROOF.md` are what the generator writes from the published paytable: of every
  cabinet `PROOF.md` prints the weights, each tier's
  chance and contribution, their sum and the top prize to the decimals it prints. `SourceIsPublished`: so
  `verify-contract.mjs` finds the published numbers in the source.
- `ContractDeclaresTables`: what the contract declares, for every cabinet and
  wager, is what the audit computes from the paytable: arrays, return, caps, top payout
  and its chance.
- `RoundsReplay`: for every wager, cabinet and word with a usable candidate, the replay of a settled round finds its tier and its
  roll, and the simulation draws the same tier; whatever wager the script is given, it says OK exactly when the tier pays at that
  wager what the round was paid, and MISMATCH otherwise. The argument: both scans
  stop at the first candidate that is not rejected, and both find the tier whose
  cumulative weight the draw is below.

and of slot titles, for tables of any number of tiers and chunks, whoever deploys them of whichever bytes
(`ContractSpec`: anybody calls `deployChunk` and `deployTitle`, the owner `setRtpBand`):

- `TitlesQuoteWhatTheyPay` (`QuotesWhatItPays`): over the words of one period the prizes drawn add up to the prize
  sum, return less than they cost, and have the top prize and the variance that are quoted; who reads the bytes back
  has the same figures and draws the same prizes.
- `TitleRiskCovers`: for every wager no payout is above the quoted maximum, the top prize comes no more often than quoted, and over
  a period of words the payouts sum to less than one unit per round above the quoted expected payout, which is rounded
  down; the slot half of `QuotesCoverThePayouts`.
- `EveryWordSettles`: whatever the word, the search finds a prize, and its payout is within what `quoteCaps`
  reserved; the slot half of `EveryDrawSettles`.
- `PackedTablesComeBack`: a compiled table, packed, walked by the deployer and read back, has the tiers and figures it was
  compiled with, and is refused only for the RTP band or a total past 64 bits.
- `ScriptAlwaysDelivers` (`ScriptDelivers`, of `AuthorSpec`): whatever tier lists or Stake library an author writes, and whatever
  others call between the script's transactions: what compiles is packed, the chain never differs from it, and a
  refusal is for the band, a total past 64 bits or a table too large for the clone.
- `AuthorKeepsTheContract`: `AuthorSpec` implements `ContractSpec`, so that the theorems about titles hold with an author at
  work; `ScriptCallsTheContract` is the step.

The invariant (`TitlesDerived`) is where a title comes from: a configuration is what `_deriveConfiguration` makes of some
words that the walk accepts (`DerivedFrom`). The walk orders the words by prize and by weight across chunks
(`WalkOrders`); so the search ends at the first word past its target (`SearchFinds`: half of the words is enough, by the
length of the span), and a prize is drawn by as many words as its weight says. The figures are then sums over the
period, counted by prize instead of by word (`SumConstant`, `SumTimes` of `FiniteSums`).

The script's invariant (`ScriptInv`) says that what has been compiled is well made (`WellMade`), and that the title it reads back is
one that the deployer derived of that, under the band of that block. A compiled title is well made (`TitleIsWellMade`,
`ImportIsWellMade`) because Euclid's algorithm, by induction on its second argument, returns a greatest common divisor
that is not zero, so that a written prize is a fraction; because the list `Sorted` of the winning amounts ascends and has each
once, so that the weights so far grow; and because a Stake table rescaled still has counts for weights. Then what the walk
derives is what the compiler figured (`TitleMatches`), and what the clone refuses takes more bytes than it has
(`LargeIsExplained`). That last step needs that an offset in the clone's arguments fits its 16 bits, which
`SlotEngineAssumption` says: 24531 bytes are fewer than 65535. `Sorted` is written by the place of a number among the others
and not with a sort of the library, whose definition no prover sees.

and about the word itself, for any group of prime order (`EcvrfAssumption`: a product of two points is
never the identity), any hashes and nonces:

- `Completeness`: the proof a node makes verifies under its key. The two commitments the
  verifier recomputes are the prover's own, by the arithmetic of the group, so the challenges agree.
- `GenuineIsValid`: a fulfillment its assigned node sent is found valid through its
  log, its calldata and its signature.
- `CallbackKeepsItsLimit`: the gas a fulfillment is sent with leaves the callback its
  whole limit after the 63/64 rule.

### The feed and the snapshot

`SessionFeedProofs`, for any number of blocks and logs, any lags and any failures:

- `NoLogTwiceInOrderWhileLagsStay` (`OnceAndInOrder`): no log is handed on twice, and a channel keeps
  the order of the chain until an event is given another lag than those before it.
- `OnlyAReplayOutlivesStop` (`SilentAfterStop`): after `stop()` nothing is handed on, whatever timers and calls are
  still to come, but by a replay to a new listener of the indexed channel that was under way
  (`session-events.ts:209-212`).

Neither says anything about the range of blocks the coroutine is in, so neither is inductive.
`FeedInvariant` is about a frontier: the logs up to some `f` have been normalized, and no other; `f` reaches every
log that will not be polled again; what is left of the range being processed starts at a log that `f` reaches, or at
the one whose block is awaited; and what a channel has handed on or has under a timer is distinct, of logs up to `f`, and
in order if its lag has not changed. A poll, a retry and a restart of the replay move the two ends of the range, and a
log that is polled again is below the frontier and dropped.

`HostSnapshotProofs` first proves `WordsAreFiled` (`WordsAnswerTheirRequests`), for any
numbers of sessions, steps, bets and renders. A settlement names no request: the row files its word under
its own step, the patch under the request it saw last. That is right because of what is still
under way, so the invariant, `CalmInv`, is about each channel and its consumer together: when
event n arrives, the last advance before it in the channel, or else the consumer itself, is at the
request the word answers (`Requested`); an advance is never behind what the consumer has seen (`Fresh`); and
the same for the event the chain will emit next. A delivery moves that knowledge from the channel into the
row or the patch, an emission adds to the channel, pruning only forgets patches. The hypothesis that the
channels keep their order is the property's own.

The same module proves what `resolveEncodedSession` gives the actions of a game, which no run checks and
which holds in every world, reordered channels and disconnected wallets included. The host stores a hash of a session, so
`submitAction` must send it the bytes of the step it is at; they are the newest of what an own receipt,
the patch and the listed row know. `EchoesNeverGoBack`: what is sent for an open
session is never older than what would have been sent a step before. The critical step is the prune, which
takes a patch away because of the rows of the last render. `EchoesAreCommitted`: it is a step the session committed, and the
current one once its indexed events have arrived. The invariant (`Echoed`): a patch, and a row until it
is settled, has the bytes of its step; neither is ahead of the chain; rendered rows are no newer than the
store's; and the last advance of an open session is in its row or on its way there. Both are about a
session the list still holds (`ListLimit`) and a receipt still remembered (64 of them are): the fallback
when either is gone is one source less.

Last, what a render publishes, again in every world and for any numbers of sessions, bets and renders:

- `SettlementsAreShownAsOnChain` (`SettledAsOnChain`): a session is in the list once, and a result that the
  game is shown is the phase, payout and game state that the chain settled.
- `ShownResultsStay` (`ResultsStay`): no render drops a session of the chain that the last one showed, takes its
  result back, changes its phase, payout or game state, or puts an older session first. What may change is the time it
  was settled at, from the page's clock to the block's, and back only while its row is not listed.

A result may come from a row, a patch, an optimistic item or the memo of what was published, and each forgets
at a time of its own. The invariant (`Results`) says that each of them tells the truth of the
chain on its own (`Layers`), that every event still on a channel does (`TransitTells`), and that the list last published,
with the memo behind it, is sound and shows each session once (`Sound`). A render is then three steps: merged
layers are sound (`LayersMerge`); reconciling a sound list with a sound memo keeps every result (`ListReconciled`,
`Follows`); and what leaves the memo is in a row (`SoundListsStay`). A list is stated by the rank
of its items, newest first, so that neither the filters nor the sort have to be unfolded.

### The balance

`BalanceLedgerProofs`, for any numbers of bets, actions on each, mounts and reads, and any stakes and payouts:

- `DisplayIsExact` (`DisplayFollowsTheGame`): while the host stays, no receipt is misreported and the game waits for
  `openSession` before it acts, the balance shown is the
  wallet's less the stakes in flight and the payouts that the game has not presented yet.
- `NeverShowsTooMuch` (`NeverAhead`): however actions overlap and whichever mined opens and actions are reported failed, it is
  never more than the wallet's less the stakes in flight, but for the wagers and extra stakes put back because of
  such a report.

Both are stated for the worlds that are `Orderly`: extra stakes during a round need that one host is mounted
and that nothing settles before its own open and action return; settlements that early need one mount and true receipts, or no
actions. The code needs these conditions: without them TLC shows the balance off by a stake or a payout. The run's five worlds are
orderly. The invariant is about who owes
what: a bet under way holds its key, so no two settle one another (`Rounds`); where one host is mounted, a round it lets
go of has been presented, or paid nothing (`OneMount`); a read that may still be adopted has read the wallet while no round was on (`ReadsOK`); and the
books (`Books`): baseline, deltas and what is still owed make up the wallet. A reveal, a close and a reconcile each
move an amount from one of these places to another.

### The pages

`GameProofs`, for any number of pulls, any wager, any cabinets of rows and any outcomes the chain settles them
with (`PageAssumption`, `DemoAssumption`: every demo word lands on a tier of the page):

- `PayoutTellsTheTier`: `outcomeFromPayout` undoes `payoutFor` on every cabinet, for every positive wager and
  every tier.
- `ClawShowsWhatWasDrawn` (`RevealedAsDrawn`): a line that is booked is about the session of its own pull,
  unless two pulls were made on one rendering, and shows the tier drawn for it; a session is revealed once, when it has
  ended and its line is booked.
- `ErrorStopsTheQueue` (`QueueStopsOnError`): once a pull was refused while the queue was on, the queue
  makes no other, with the same exception.
- `DemoMoneyIsKept` (`DemoMoneyAddsUp`): the demo balance is the running sum of the lines booked, those that the history
  has dropped included, and no pull is booked twice.

The invariant (`PageInvariant`) ties the session, the outcome and the bookkeeping of the round being
played to its pull. It is needed because the page looks a row up by the session it opened last, books when a timer
fires and not when the row arrives, and lets go of a session on a second pull. The balance needs its own (`Money`): some function is
a running balance over the lines booked, and all that are end in the demo balance. A line more keeps both, because a running
balance of it is one of the lines before with a value at the end, and no induction over the list is needed.

And of what `KlabakView` draws:

- `ClawPlaysItsRound` (`ClawPlaysTheRound`): while the claw moves the machine shows the cabinet of the round, unless a
  tab was clicked before the page had rendered its auto pull; and it
  carries a capsule to the chute only for a tier that the round's own cabinet pays, whichever is shown.
- `PageTellsOneStory` (`OneStory`): once a round is booked, banner, plate and the newest line of the history, however many it keeps, tell the same tier,
  until the player looks at another cabinet.
- `BannerTellsThePayout` (`BannerSaysWhatWasPaid`): the payout in the banner is the one the chain paid for the round's own session.
- `ShelfKeepsEveryCharm` (`ShelfAddsUp`): a charm is on the shelf as often as `localStorage` had it when the page loaded and a
  line was booked for it since, also after the history has dropped the line.
- `PanelsPrintTheTable`: what paytable and prize ladder print adds up.

They need a second invariant (`Seen`) over that of the page: the tier that comes up is of the round's cabinet (`Played`), a
payout taken from a row is that row's (`Paid`), and the collection counts what was stored and booked (`Shelved`), though the page
writes the two one after the other.

`CoinflipPageProofs`, for any coins and any snapshots of them:

- `PushesAreNews` (`OnlyNewsIsPushed`): no snapshot is pushed twice in a row, and the last one
  pushed is the one the host remembers.
- `CoinsLandAsDrawn` (`ShowsWhatLanded`): what lands on the page is what the chain drew for that round.
- `StageShowsTheThrow` (`CoinsTellTheResult`): coins and badges are marked alike, and the marked hits suffice for the bet just
  when the contract paid.
- `OverlaySaysWhatWasPaid` (`OverlayTellsThePayout`): the overlay of a win comes up just when something was paid, and says what.
- `PillsMatchTheOverlay` (`PillsAgree`): the pill in the history has the overlay's multiplier, and is green just for a win with a profit.
- `MaxButtonFits`: the wager of the Max button is within the balance and the house's limit, for every form.
- `FormStaysABet`: however its pills and sliders are moved, the form stays a bet that the contract takes.

`CoinflipInvariant` says that a frame has one handshake, that the wire holds news only, that
every snapshot kept anywhere (by the host, on the wire, at the page) is true of the chain as it is now although it may
be short of it, and that the page's round, its session and its bet belong together. The assumptions are about the
instance: words are not zero, a bet is on as many hits as its coins can make (`CoinflipAssumption`), and none is so small that its
payout is rounded to nothing (`PayoutAssumption`); some throw wins whatever the form (`WaysAssumption` of `CoinflipView`). What is shown of a
cancelled round needs one conjunct more, `Refunds`: it has been paid back its wager and nothing else.

### The node and its tab

`HarnessTabProofs`, for any files, texts, failures, restarts and tabs:

- `PickerMissesNothing` (`PickerIsComplete`): `deployed.json` names nothing of this boot before the initial
  scan is over, has every file's last good deployment between two syncs, and lists no address twice.
- `NoFeedIsLeftBehind` (`OneFeedAndShown`): however starts, reloads and answers overlap, one runtime at
  most runs, and it is the one shown.

Its two invariants, `PickerInv` (`NodeInvariant`) and `TabInv` (in the proof of `NoFeedIsLeftBehind`), are what an await must leave true. `PickerInv`: at every stage
of the boot, the scan and a sync, the lists in memory are what is deployed by that stage, the addresses
of this boot grow with the blocks, so that none is given out twice, and the file is the list whenever the thread is between two
syncs. `TabInv`: every call under way belongs to an effect of its own, and the runtime shown to the current one,
which creates no other.

### What is not proved, and why

- Liveness (`EveryLogArrives`, `EverySettlementShown`, `EditsGoLive` and the others), fairness and ENABLED
  are out of the provers' reach.
- `NeverOlder` of the snapshot: a row pushed past `ListLimit` leaves the list an item from other layers, and
  the argument would have to follow a session through all of them at once.
- `VerdictsAreRight` needs that nobody makes a proof without the key, which is a
  cryptographic assumption; it is checked against the proofs another node may plausibly send.
  `GenuineIsValid` is the half that needs no assumption.
- The composition in `GamesHost` is model-checked: `LogsTellTheTruth`, and `EveryDrawSettles` and `QuotesCoverThePayouts` as they are
  composed. The games are proved by themselves: `QuotesCoverThePayouts` is `QuotedRiskCovers` for Klabak, `TitleRiskCovers` for slot
  titles and `LimitedWagersFitTheCap` for the page's limit; `EveryDrawSettles` is `ReserveCoversEveryTier` and `EveryWordSettles`.
- `ImportKeepsTheTable`: how far the rounding of a rescaled Stake table moves its return, and that its books are those of its
  prizes, stays with TLC; that an import is packed and deploys is part of `ScriptAlwaysDelivers`.

## Not modelled, and why

- Operators, names and views of the host; they move no session. Allowances: a
  short one only makes a call revert. `forfeitExpiredSessions`, the batch: a sequence of single forfeits.
- The bytes of sessions and events: a record is its own encoding, so that the
  codec and its width checks appear as `Encodable`.
- The curve's arithmetic and the hash functions, which 32-bit integers cannot hold.
- Generated artifacts: some 4600 lines of ABI and bytecode in `artifacts.ts` and
  `coinflip-game-artifact.ts` have no state and no control. `CoinflipGame` exists only so, and its rules are
  taken from the page that decodes them.
- The solidity compiler and its imports; a text is what it compiles to.
- Sound, styles, layout, the frames of an animation, the wager input, writing the
  collection to `localStorage` (its loading is modelled), the settings panel, the sizes of the frame (its loop of content sizes and fullscreen carries no
  state of a round) and a reload inside the iframe.
- `maskWaiting` of the snapshot, behind a diagnostic flag; the correlation of pushes
  with transaction hashes; a change of account.
- Clients and their construction in `runtime.ts`; the send queue shows as sends that end one
  way or the other.
- Images, asset scripts, the sampling loops and the code generation of the tools.

## What could come next

- Proofs: `EveryDrawSettles`, `LogsTellTheTruth` and `QuotesCoverThePayouts` as invariants of the composition, an instance of the
  proved host with the proved games.
- Models: the send queue and its nonces; a change of account under an open round; the 64 sessions
  whose receipts are remembered.
