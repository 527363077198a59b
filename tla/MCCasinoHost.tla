---------------------------- MODULE MCCasinoHost ----------------------------
(***************************************************************************)
(* CasinoHost with an adversarial game: any of GameResults may come back   *)
(* from any callback, whatever the session.                                *)
(***************************************************************************)
EXTENDS CasinoHost, TLC

CONSTANTS Quotes, Risks, LongState, GameResults, CashOuts, PlayerFunds, VaultFunds

MCCaps(g, w, d) == Quotes
MCRisk(g, w, d) == Risks
MCGame(s) == GameResults
MCCashOut(s) == CashOuts

MCInitialBalance ==
  [a \in Accounts |-> IF a = Host THEN 0 ELSE IF a = Vault THEN VaultFunds ELSE PlayerFunds]
MCInitialSupply == Cardinality(Players) * PlayerFunds + VaultFunds

\* A probability above one, and a payout too large to encode, are among them.
Risk(maxPayout, probabilityWad) ==
  [maxPayout |-> maxPayout, probabilityWad |-> probabilityWad,
   expectedPayout |-> 2, bodyVarianceScaled |-> 1]
MCRisks == {Risk(4, 1), Risk(4, WAD + 1), Risk(MaxAmount + 1, 1)}

Result(phase, request, escrow, reserved, payout) ==
  [newGameState |-> EmptyState, escrowDelta |-> escrow, reservedProfitDelta |-> reserved,
   nextPhase |-> phase, requestRandomnessNow |-> request, payout |-> payout]

\* A game that draws, may take more stake or give some back, and settles.
MCQuotes == {[maxEscrowStake |-> 3, maxReservedProfit |-> 2]}
MCResults ==
  {Result("WAITING_RANDOMNESS", TRUE, 0, 2, 0),
   Result("WAITING_PLAYER_ACTION", FALSE, 1, 1, 0),
   Result("SETTLED", FALSE, 0, 0, 0),
   Result("SETTLED", FALSE, 0, 0, 4)}
\* The same with every kind of step result, the ones the host must refuse too.
MCAllResults == MCResults \cup
  {Result("WAITING_RANDOMNESS", TRUE, 1, 0, 0),
   Result("WAITING_RANDOMNESS", FALSE, 0, 0, 0),
   Result("WAITING_PLAYER_ACTION", FALSE, -1, -1, 0),
   Result("SETTLED", TRUE, 0, 0, 2),
   Result("CANCELLED", FALSE, -1, 0, 2),
   Result("NONE", FALSE, 0, 0, 0),
   [Result("WAITING_RANDOMNESS", TRUE, 0, 1, 0) EXCEPT !.newGameState = LongState]}
MCCashOuts == {0, 5}

-----------------------------------------------------------------------------
(***************************************************************************)
(* Two worlds, told apart by a variable that never changes.  In "pair" two *)
(* players hold overlapping sessions and the token moves only through the  *)
(* host; the player who opens first is named FirstPlayer, which loses      *)
(* nothing, as players are interchangeable.  In "solo" FirstPlayer has one *)
(* longer session while tokens are minted and sent about, and fairness     *)
(* makes its life end.                                                     *)
(***************************************************************************)
CONSTANT FirstPlayer

VARIABLE world

MCInit == Init /\ world \in {"pair", "solo"}

TokensMoveThroughHost ==
  (balanceOf' # balanceOf => SessionMoved) /\ totalSupply' = totalSupply

PairStep ==
  /\ block' <= 4
  /\ TokensMoveThroughHost
  /\ \A s \in emitted' : s.step <= 2 /\ s.deadlineBlock <= 3
  /\ currentSessionId = 0 => \A p \in Players \ {FirstPlayer} : balanceOf'[p] = balanceOf[p]

SoloStep ==
  /\ block > 0 => TokensMoveThroughHost
  /\ currentSessionId' <= 1
  /\ \A s \in emitted' : s.step <= 3
  /\ \A p \in Players \ {FirstPlayer} : balanceOf'[p] = balanceOf[p]

MCNext ==
  /\ Next
  /\ world = "pair" => PairStep
  /\ world = "solo" => SoloStep
  /\ UNCHANGED world

MCVars == <<vars, world>>

\* Blocks come, and somebody makes the calls anybody may make.
SoloKeeper ==
  /\ world = "solo"
  /\ UNCHANGED world
  /\ \/ MineBlock
     \/ \E s \in emitted : CancelStuckRandomness(s)
     \/ \E s \in emitted : ForfeitExpiredSession(s)

MCSpec == MCInit /\ [][MCNext]_MCVars /\ WF_MCVars(SoloKeeper)

\* No stake is locked up for good: a lost draw, an absent player, a game that
\* is unregistered or that only reverts all end in a closed session, if blocks
\* come, somebody makes the permissionless calls and the vault is not dry.
StakesComeBack ==
  \A i \in SessionIds :
    (world = "solo" /\ IsOpen(i)) ~> (~IsOpen(i) \/ VaultShort(i))

=============================================================================
