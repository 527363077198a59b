----------------------------- MODULE CasinoHost -----------------------------
(***************************************************************************)
(* simulator/contracts/LocalCasinoHost.sol with the ledger of              *)
(* LocalTestToken.sol: the on-chain lifecycle of casino sessions.          *)
(*                                                                         *)
(* The host stores no session.  It stores a commitment (a hash) per        *)
(* session id, emits the encoded session on every step, and takes the      *)
(* bytes back as calldata from whoever calls next: the player, anybody at  *)
(* all, or the Verify Network router.  The commitment is modelled by the   *)
(* session it commits to (the hash is taken to be collision free), and     *)
(* the calldata by any session ever emitted, stale ones included.          *)
(*                                                                         *)
(* A transaction is one atomic action; a revert is the action not being    *)
(* taken.  The games are parameters: they are `view` contracts, so a step  *)
(* result is any value the game may return for the session.                *)
(***************************************************************************)
EXTENDS Integers, Sequences, FiniteSets, Functions

CONSTANTS
  Players,        \* wallets
  Games,          \* deployed game contracts
  Host, Vault,    \* the token accounts of the host and of its vault
  NoCommitment,   \* bytes32(0) in sessionCommitments
  GameData,       \* the gameData a player may send
  GameState,      \* the opaque game states
  EmptyState,     \* and the empty one a session starts from
  Wagers,         \* the wagers a player may send
  InitialBalance, \* the token balances at deployment
  InitialSupply,  \* and their sum
  MintAmounts,    \* what one faucet call mints
  TransferAmounts,\* what a holder transfers outside the host
  MaxSupply,      \* bound on the faucet
  MaxSessions,    \* bound on currentSessionId
  MaxBlock,       \* bound on the block height
  MaxDeadline,    \* largest deadlineBlock the codec encodes (uint40)
  MaxAmount,      \* largest token amount the codec encodes (uint128)
  MaxStep,        \* largest session.step (uint32)
  TooLong,        \* the game data and states of more bytes than it encodes (uint16)
  WAD,            \* the scale of probabilities
  RANDOMNESS_TIMEOUT_BLOCKS,
  ACTION_TIMEOUT_BLOCKS

CONSTANTS
  QuoteCaps(_, _, _),    \* game, wager, gameData: the caps quoteCaps may return
  QuoteRiskParams(_, _, _), \* the same: what quoteRiskParams may return
  OnSessionStart(_),     \* session: the step results of onSessionStart
  OnPlayerAction(_),     \* session: those of onPlayerAction, over every action
  OnRandomness(_),       \* session: those of onRandomness, over every randomness
  QuoteForfeitPayout(_)  \* session: the quotes; a call that fails counts as 0

BASIS_POINTS == 10000
FORFEIT_WINNINGS_CUT_BPS == 1000

SessionIds == 1..MaxSessions
Accounts == Players \cup {Host, Vault}

OpenPhases == {"WAITING_RANDOMNESS", "WAITING_PLAYER_ACTION"}
TerminalPhases == {"SETTLED", "FORFEITED", "CANCELLED"}
SessionPhase == {"NONE"} \cup OpenPhases \cup TerminalPhases

\* What quoteCaps returns.
Caps == [maxEscrowStake : Nat, maxReservedProfit : Nat]

\* What quoteRiskParams returns.
RiskParams ==
  [maxPayout : Nat, probabilityWad : Nat, expectedPayout : Nat, bodyVarianceScaled : Nat]

\* What a game callback returns.
StepResult ==
  [newGameState : GameState, escrowDelta : Int, reservedProfitDelta : Int,
   nextPhase : SessionPhase, requestRandomnessNow : BOOLEAN, payout : Nat]

\* The fields of CasinoSession the host acts on.
CasinoSession ==
  [sessionId : SessionIds, player : Players, game : Games, wagerBase : Nat,
   escrowedStake : Nat, reservedProfit : Nat,
   maxEscrowStake : Nat, maxReservedProfit : Nat, riskMaxPayout : Nat,
   deadlineBlock : Nat, step : Nat, phase : SessionPhase,
   gameData : GameData, gameState : GameState]

\* CasinoSessionSettled.
Settlement ==
  [sessionId : SessionIds, phase : TerminalPhases, payout : Nat, gameState : GameState]

ASSUME ConstantsAssumption ==
  /\ Host # Vault /\ Host \notin Players /\ Vault \notin Players
  /\ NoCommitment \notin CasinoSession /\ EmptyState \in GameState
  /\ Wagers \subseteq Nat /\ MintAmounts \subseteq Nat /\ TransferAmounts \subseteq Nat
  /\ InitialBalance \in [Accounts -> Nat] /\ InitialBalance[Host] = 0
  /\ IsFiniteSet(Players) /\ InitialSupply = SumFunction(InitialBalance)
  /\ {InitialSupply, MaxSupply, MaxSessions, MaxBlock, MaxDeadline, MaxAmount, MaxStep,
      WAD, RANDOMNESS_TIMEOUT_BLOCKS, ACTION_TIMEOUT_BLOCKS} \subseteq Nat

VARIABLES
  block,               \* block.number
  gameNames,           \* the games with a non-empty name
  currentSessionId,
  sessionCommitments,
  balanceOf,           \* LocalTestToken.balanceOf
  totalSupply,         \* LocalTestToken.totalSupply
  requests,            \* the router's pending requests, by their clientData
  emitted,             \* the sessions in CasinoSessionAdvanced logs
  settlements,         \* the CasinoSessionSettled logs, oldest first
  caps,                \* history: the caps quoted when the session opened
  net                  \* history: what the player's balance gained over the session

vars == <<block, gameNames, currentSessionId, sessionCommitments, balanceOf,
          totalSupply, requests, emitted, settlements, caps, net>>

IsOpen(i) == sessionCommitments[i] # NoCommitment

Init ==
  /\ block = 0
  /\ gameNames = {}
  /\ currentSessionId = 0
  /\ sessionCommitments = [i \in SessionIds |-> NoCommitment]
  /\ balanceOf = InitialBalance
  /\ totalSupply = InitialSupply
  /\ requests = {}
  /\ emitted = {}
  /\ settlements = <<>>
  /\ caps = [i \in SessionIds |-> [maxEscrowStake |-> 0, maxReservedProfit |-> 0]]
  /\ net = [i \in SessionIds |-> 0]

-----------------------------------------------------------------------------
\* The token.  A transfer of a negative amount is one the other way round.
Transfer(b, from, to, amount) ==
  [b EXCEPT ![from] = @ - amount, ![to] = @ + amount]

\* Mutant: no balance check.
OverdraftAllowed(b, accounts) == TRUE

\* _transfer's InsufficientBalance check, after the fact.
NoOverdraft(b, accounts) == \A a \in accounts : b[a] >= 0

\* Mutant: any emitted session is accepted, current or not.
LoadWithoutCommitment(s) == s \in emitted

\* Calldata the host accepts as session s.
LoadSession(s) ==
  /\ s \in emitted
  /\ sessionCommitments[s.sessionId] = s

\* The range checks of CasinoSessionCodec.encode.  (The step is counted in its own
\* width, MaxSessions bounds the id, and a probability of at most WAD always fits.)
Encodable(s) ==
  /\ s.deadlineBlock <= MaxDeadline
  /\ \A amount \in {s.wagerBase, s.escrowedStake, s.reservedProfit, s.maxEscrowStake,
                    s.maxReservedProfit, s.riskMaxPayout} : amount <= MaxAmount
  /\ s.gameData \notin TooLong /\ s.gameState \notin TooLong

\* Whom a session's transaction paid is read off the token, not off the host.
TrackNet(s) ==
  net' = [net EXCEPT ![s.sessionId] = @ + balanceOf'[s.player] - balanceOf[s.player]]

\* The CasinoSessionSettled log of a session.
SettledLog(s, terminalPhase, payout) ==
  [sessionId |-> s.sessionId, phase |-> terminalPhase, payout |-> payout,
   gameState |-> s.gameState]

\* Mutant: no InvalidPayout check.
FinalizeUnchecked(s, terminalPhase, payout, b) ==
  LET fromEscrow == IF payout > s.escrowedStake THEN s.escrowedStake ELSE payout
      paid == Transfer(Transfer(b, Host, s.player, fromEscrow),
                       Vault, s.player, payout - fromEscrow)
  IN  /\ sessionCommitments' = [sessionCommitments EXCEPT ![s.sessionId] = NoCommitment]
      /\ settlements' = Append(settlements, SettledLog(s, terminalPhase, payout))
      /\ NoOverdraft(paid, {Host, Vault})
      /\ balanceOf' = Transfer(paid, Host, Vault, s.escrowedStake - fromEscrow)
      /\ UNCHANGED emitted

\* Mutant: the lost stake stays with the host.
FinalizeWithoutSweep(s, terminalPhase, payout, b) ==
  LET fromEscrow == IF payout > s.escrowedStake THEN s.escrowedStake ELSE payout
  IN  /\ payout <= s.escrowedStake + s.reservedProfit
      /\ sessionCommitments' = [sessionCommitments EXCEPT ![s.sessionId] = NoCommitment]
      /\ settlements' = Append(settlements, SettledLog(s, terminalPhase, payout))
      /\ balanceOf' = Transfer(Transfer(b, Host, s.player, fromEscrow),
                               Vault, s.player, payout - fromEscrow)
      /\ NoOverdraft(balanceOf', {Host, Vault})
      /\ UNCHANGED emitted

\* _finalizeSession, from balances b.
FinalizeSession(s, terminalPhase, payout, b) ==
  LET fromEscrow == IF payout > s.escrowedStake THEN s.escrowedStake ELSE payout
      fromVault == payout - fromEscrow
      escrowToVault == s.escrowedStake - fromEscrow
      paid == Transfer(Transfer(b, Host, s.player, fromEscrow), Vault, s.player, fromVault)
  IN  /\ payout <= s.escrowedStake + s.reservedProfit
      /\ sessionCommitments' = [sessionCommitments EXCEPT ![s.sessionId] = NoCommitment]
      /\ settlements' = Append(settlements, SettledLog(s, terminalPhase, payout))
      /\ NoOverdraft(paid, {Host, Vault})
      /\ balanceOf' = Transfer(paid, Host, Vault, escrowToVault)
      /\ NoOverdraft(balanceOf', {Host})
      /\ UNCHANGED emitted

\* Commit to s in a waiting phase and emit it.
CommitSession(s) ==
  /\ Encodable(s)
  /\ sessionCommitments' = [sessionCommitments EXCEPT ![s.sessionId] = s]
  /\ emitted' = emitted \cup {s}

\* Mutant: the step counter is not advanced.
ApplyDeltasSameStep(s, r) ==
  [s EXCEPT !.escrowedStake = @ + r.escrowDelta,
            !.reservedProfit = @ + r.reservedProfitDelta,
            !.gameState = r.newGameState]

\* The session after _applyStepDeltas, with the game's new state.
ApplyStepDeltas(s, r) ==
  [s EXCEPT !.escrowedStake = @ + r.escrowDelta,
            !.reservedProfit = @ + r.reservedProfitDelta,
            !.gameState = r.newGameState,
            !.step = @ + 1]

\* Mutant: the router's callback may charge the player.
DeltasFromAnyone(s, r, allowEscrowIncrease) ==
  /\ s.escrowedStake + r.escrowDelta \in 0..s.maxEscrowStake
  /\ s.reservedProfit + r.reservedProfitDelta \in 0..s.maxReservedProfit
  /\ s.step < MaxStep

\* Mutant: the quoted caps are not looked at again.
DeltasWithoutCaps(s, r, allowEscrowIncrease) ==
  /\ r.escrowDelta > 0 => allowEscrowIncrease
  /\ s.escrowedStake + r.escrowDelta >= 0
  /\ s.reservedProfit + r.reservedProfitDelta >= 0
  /\ s.step < MaxStep

\* Its reverts, and the cap checks that follow it.
StepDeltasAllowed(s, r, allowEscrowIncrease) ==
  /\ r.escrowDelta > 0 => allowEscrowIncrease
  /\ s.escrowedStake + r.escrowDelta \in 0..s.maxEscrowStake
  /\ s.reservedProfit + r.reservedProfitDelta \in 0..s.maxReservedProfit
  /\ s.step < MaxStep

\* _processStepResult of step result r on session s, from balances b and
\* pending requests q.
ProcessStepResult(s, r, b, q, allowEscrowIncrease) ==
  LET next == ApplyStepDeltas(s, r)
      funded == Transfer(b, s.player, Host, r.escrowDelta)
      waiting(timeout) ==
        [next EXCEPT !.phase = r.nextPhase, !.deadlineBlock = block + timeout]
  IN  /\ StepDeltasAllowed(s, r, allowEscrowIncrease)
      /\ NoOverdraft(funded, {s.player, Host})
      /\ \/ /\ r.nextPhase = "WAITING_RANDOMNESS" /\ r.requestRandomnessNow
            /\ CommitSession(waiting(RANDOMNESS_TIMEOUT_BLOCKS))
            /\ requests' = q \cup {waiting(RANDOMNESS_TIMEOUT_BLOCKS)}
            /\ balanceOf' = funded
            /\ UNCHANGED settlements
         \/ /\ r.nextPhase = "WAITING_PLAYER_ACTION" /\ ~r.requestRandomnessNow
            /\ CommitSession(waiting(ACTION_TIMEOUT_BLOCKS))
            /\ requests' = q
            /\ balanceOf' = funded
            /\ UNCHANGED settlements
         \/ /\ r.nextPhase \in TerminalPhases /\ ~r.requestRandomnessNow
            /\ requests' = q
            /\ FinalizeSession(next, r.nextPhase, r.payout, funded)
      /\ TrackNet(s)

-----------------------------------------------------------------------------
\* registerGame: permissionless, and an empty name unregisters.
RegisterGame(g) ==
  /\ gameNames' \in {gameNames \cup {g}, gameNames \ {g}}
  /\ UNCHANGED <<block, currentSessionId, sessionCommitments, balanceOf,
                 totalSupply, requests, emitted, settlements, caps, net>>

\* LocalTestToken.mint, up to the bound MaxSupply.
Mint(a, amount) ==
  /\ totalSupply + amount <= MaxSupply
  /\ totalSupply' = totalSupply + amount
  /\ balanceOf' = [balanceOf EXCEPT ![a] = @ + amount]
  /\ UNCHANGED <<block, gameNames, currentSessionId, sessionCommitments,
                 requests, emitted, settlements, caps, net>>

\* LocalTestToken.transfer, by anybody but the host, which never calls it unasked.
TransferTokens(from, to, amount) ==
  /\ balanceOf' = Transfer(balanceOf, from, to, amount)
  /\ NoOverdraft(balanceOf', {from})
  /\ UNCHANGED <<block, gameNames, currentSessionId, sessionCommitments, totalSupply,
                 requests, emitted, settlements, caps, net>>

\* The session _openSession builds in memory.
NewSession(p, g, wager, data, c, risk) ==
  [sessionId |-> currentSessionId + 1, player |-> p, game |-> g,
   wagerBase |-> wager, escrowedStake |-> wager, reservedProfit |-> 0,
   maxEscrowStake |-> c.maxEscrowStake, maxReservedProfit |-> c.maxReservedProfit,
   riskMaxPayout |-> risk.maxPayout,
   deadlineBlock |-> 0, step |-> 0, phase |-> "NONE",
   gameData |-> data, gameState |-> EmptyState]

OpenSession(p, g, v, wager, data) ==
  /\ currentSessionId < MaxSessions
  /\ wager # 0
  /\ v = Vault
  /\ g \in gameNames
  /\ wager <= balanceOf[p]
  /\ currentSessionId' = currentSessionId + 1
  /\ \E c \in QuoteCaps(g, wager, data) \cap Caps,
        risk \in QuoteRiskParams(g, wager, data) \cap RiskParams :
       /\ c.maxEscrowStake >= wager
       /\ risk.probabilityWad <= WAD
       /\ caps' = [caps EXCEPT ![currentSessionId + 1] = c]
       /\ LET s == NewSession(p, g, wager, data, c, risk)
          IN  \E r \in OnSessionStart(s) \cap StepResult :
                ProcessStepResult(s, r, Transfer(balanceOf, p, Host, wager), requests, TRUE)
  /\ UNCHANGED <<block, gameNames, totalSupply>>

SubmitAction(p, s) ==
  /\ LoadSession(s)
  /\ s.phase = "WAITING_PLAYER_ACTION"
  /\ s.player = p
  /\ block <= s.deadlineBlock
  /\ \E r \in OnPlayerAction(s) \cap StepResult :
       ProcessStepResult(s, r, balanceOf, requests, TRUE)
  /\ UNCHANGED <<block, gameNames, currentSessionId, totalSupply, caps>>

\* The router delivers request q; the host accepts it only while q is what the
\* session's commitment says, whatever its deadline.
OnRandomnessFulfilled(q) ==
  /\ q \in requests
  /\ LoadSession(q)
  /\ q.phase = "WAITING_RANDOMNESS"
  /\ \E r \in OnRandomness(q) \cap StepResult :
       ProcessStepResult(q, r, balanceOf, requests \ {q}, FALSE)
  /\ UNCHANGED <<block, gameNames, currentSessionId, totalSupply, caps>>

\* The node does not answer, its transaction fails, or the router's callback
\* reverts: the node logs the failure and never tries the request again.
FulfillmentLost(q) ==
  /\ q \in requests
  /\ requests' = requests \ {q}
  /\ UNCHANGED <<block, gameNames, currentSessionId, sessionCommitments, balanceOf,
                 totalSupply, emitted, settlements, caps, net>>

\* Mutant: the refund is the opening wager, not the escrow.
CancelRefundsWager(s) ==
  /\ LoadSession(s)
  /\ s.phase = "WAITING_RANDOMNESS"
  /\ block > s.deadlineBlock
  /\ s.wagerBase <= s.escrowedStake
  /\ FinalizeSession(s, "CANCELLED", s.wagerBase, balanceOf)
  /\ TrackNet(s)
  /\ UNCHANGED <<block, gameNames, currentSessionId, totalSupply, requests, caps>>

\* Mutant: only a request the router still holds can be cancelled.
CancelOnlyPending(s) ==
  /\ LoadSession(s)
  /\ s.phase = "WAITING_RANDOMNESS"
  /\ block > s.deadlineBlock
  /\ s \in requests
  /\ FinalizeSession(s, "CANCELLED", s.escrowedStake, balanceOf)
  /\ TrackNet(s)
  /\ UNCHANGED <<block, gameNames, currentSessionId, totalSupply, requests, caps>>

\* Anybody may cancel, once the randomness deadline has passed.
CancelStuckRandomness(s) ==
  /\ LoadSession(s)
  /\ s.phase = "WAITING_RANDOMNESS"
  /\ block > s.deadlineBlock
  /\ FinalizeSession(s, "CANCELLED", s.escrowedStake, balanceOf)
  /\ TrackNet(s)
  /\ UNCHANGED <<block, gameNames, currentSessionId, totalSupply, requests, caps>>

\* _quoteForfeitPayout: the cash-out value, clamped, less the winnings cut.
ForfeitPayout(s, quote) ==
  LET maxAllowed == s.escrowedStake + s.reservedProfit
      clamped == IF quote > maxAllowed THEN maxAllowed ELSE quote
  IN  (clamped * (BASIS_POINTS - FORFEIT_WINNINGS_CUT_BPS)) \div BASIS_POINTS

\* Anybody may forfeit, once the action deadline has passed.  The batch
\* forfeitExpiredSessions is a sequence of these in one transaction.
ForfeitExpiredSession(s) ==
  /\ LoadSession(s)
  /\ s.phase = "WAITING_PLAYER_ACTION"
  /\ block > s.deadlineBlock
  /\ \E quote \in QuoteForfeitPayout(s) \cap Nat :
       FinalizeSession(s, "FORFEITED", ForfeitPayout(s, quote), balanceOf)
  /\ TrackNet(s)
  /\ UNCHANGED <<block, gameNames, currentSessionId, totalSupply, requests, caps>>

MineBlock ==
  /\ block < MaxBlock
  /\ block' = block + 1
  /\ UNCHANGED <<gameNames, currentSessionId, sessionCommitments, balanceOf,
                 totalSupply, requests, emitted, settlements, caps, net>>

Next ==
  \/ MineBlock
  \/ \E g \in Games : RegisterGame(g)
  \/ \E a \in Accounts, n \in MintAmounts : Mint(a, n)
  \/ \E from \in Accounts \ {Host}, to \in Accounts, n \in TransferAmounts :
       TransferTokens(from, to, n)
  \/ \E p \in Players, g \in Games, v \in Accounts, w \in Wagers, d \in GameData :
       OpenSession(p, g, v, w, d)
  \/ \E p \in Players, s \in emitted : SubmitAction(p, s)
  \/ \E q \in requests : OnRandomnessFulfilled(q)
  \/ \E q \in requests : FulfillmentLost(q)
  \/ \E s \in emitted : CancelStuckRandomness(s)
  \/ \E s \in emitted : ForfeitExpiredSession(s)

Spec == Init /\ [][Next]_vars

-----------------------------------------------------------------------------
\* Every variable has its type; in particular no token balance is negative.
TypeOK ==
  /\ block \in Nat
  /\ gameNames \subseteq Games
  /\ currentSessionId \in 0..MaxSessions
  /\ sessionCommitments \in [SessionIds -> CasinoSession \cup {NoCommitment}]
  /\ balanceOf \in [Accounts -> Nat]
  /\ totalSupply \in Nat
  /\ requests \subseteq CasinoSession
  /\ emitted \subseteq CasinoSession
  /\ settlements \in Seq(Settlement)
  /\ caps \in [SessionIds -> Caps]
  /\ net \in [SessionIds -> Int]

\* _finalizeSession happens exactly once in the life of a session: one
\* CasinoSessionSettled log per closed session, none for an open one, however
\* often stale calldata is echoed back.
SettledExactlyOnce ==
  /\ \A m, n \in 1..Len(settlements) :
       settlements[m].sessionId = settlements[n].sessionId => m = n
  /\ \A i \in SessionIds :
       (\E n \in 1..Len(settlements) : settlements[n].sessionId = i)
         <=> i <= currentSessionId /\ ~IsOpen(i)

\* What quoteCaps promised at openSession bounds the whole session, measured
\* at the token over all its steps: the player never has more at stake than
\* maxEscrowStake and never takes more than maxReservedProfit off the house,
\* and while the session is open the player is down exactly the escrow.
WithinQuotedCaps ==
  \A i \in SessionIds :
    /\ -caps[i].maxEscrowStake <= net[i]
    /\ net[i] <= caps[i].maxReservedProfit
    /\ IsOpen(i) => net[i] = -sessionCommitments[i].escrowedStake

\* A transaction on a session, as opposed to one on the token.
SessionMoved == sessionCommitments' # sessionCommitments \/ settlements' # settlements

\* What the host owes the open sessions.
EscrowOf(i) == IF IsOpen(i) THEN sessionCommitments[i].escrowedStake ELSE 0

Escrowed == SumFunction([i \in SessionIds |-> EscrowOf(i)])

\* The host holds the stakes in escrow, and no payment made or lost a token.
Solvent ==
  /\ SumFunction(balanceOf) = totalSupply
  /\ balanceOf[Host] >= Escrowed

\* The host always holds the stakes in escrow, so every open session can be
\* refunded whatever the others do; and a session's transaction leaves nothing
\* else behind: the host's balance moves with the escrow, to the token.  No
\* payment creates or destroys tokens.
EscrowBacked ==
  /\ []Solvent
  /\ [][SessionMoved => balanceOf'[Host] - balanceOf[Host] = Escrowed' - Escrowed]_vars

\* The host never takes tokens out of a player's wallet unasked: over a step
\* of a session a player's balance drops only when that player opens one, or
\* acts in one that waits for an action and has not expired.  The router's
\* callback and the permissionless exits never charge.
NoUnsolicitedDebit ==
  [][\A p \in Players :
       balanceOf'[p] < balanceOf[p] /\ SessionMoved =>
         \/ \E i \in SessionIds :
              /\ i = currentSessionId + 1 /\ i = currentSessionId'
              /\ sessionCommitments'[i] # NoCommitment => sessionCommitments'[i].player = p
         \/ \E i \in SessionIds :
              /\ IsOpen(i)
              /\ sessionCommitments'[i] # sessionCommitments[i]
              /\ sessionCommitments[i].player = p
              /\ sessionCommitments[i].phase = "WAITING_PLAYER_ACTION"
              /\ block <= sessionCommitments[i].deadlineBlock]_vars

\* A draw that never comes costs the player nothing: a session that leaves
\* WAITING_RANDOMNESS without an answer from the router gives the player back
\* everything the session took, on whichever step it got stuck.
RefundedInFull ==
  [][\A i \in SessionIds :
       /\ IsOpen(i) /\ sessionCommitments[i].phase = "WAITING_RANDOMNESS"
       /\ sessionCommitments'[i] # sessionCommitments[i]
       /\ requests' = requests
       => net'[i] = 0]_vars

\* A session moves one step at a time, never returns once it is closed, and
\* keeps the player, the game, the wager and the caps it was opened with:
\* what a decoder read in one CasinoSessionAdvanced log holds in the next.
StepByStep ==
  [][\A i \in SessionIds :
       LET old == sessionCommitments[i]
           new == sessionCommitments'[i]
       IN  new # old /\ i <= currentSessionId =>
             /\ IsOpen(i)
             /\ new # NoCommitment =>
                  /\ new.step = old.step + 1
                  /\ \A f \in {"sessionId", "player", "game", "wagerBase", "gameData",
                               "maxEscrowStake", "maxReservedProfit",
                               "riskMaxPayout"} : new[f] = old[f]]_vars

\* The forfeit quote may be worth more than the escrow, and the vault pays the
\* difference: a dry vault can hold up a forfeit, and only that.
VaultShort(i) ==
  /\ sessionCommitments[i].phase = "WAITING_PLAYER_ACTION"
  /\ balanceOf[Vault] < sessionCommitments[i].reservedProfit

Promise == INSTANCE SessionRisk WITH
  Sessions <- SessionIds,
  status <- [i \in SessionIds |-> IF i > currentSessionId THEN "new"
                                  ELSE IF IsOpen(i) THEN "open" ELSE "closed"]

\* The host implements the promise of SessionRisk, whatever the game returns.
ImplementsSessionRisk == Promise!Spec

=============================================================================
