-------------------------- MODULE CasinoHostProofs --------------------------
(***************************************************************************)
(* Theorems about CasinoHost, for every set of players, games and wagers,  *)
(* every bound, and every behaviour of the games: first its sessions, then *)
(* what it may take from a player and what it holds for them.              *)
(***************************************************************************)
EXTENDS CasinoHost, FiniteSums, TLAPS

-----------------------------------------------------------------------------
(* Sessions.                                                               *)

\* What ties a session's commitment to its history: it carries its own id and
\* the caps quoted for it, it is within them, and what the player is down by
\* is what it holds in escrow.
CommitmentsOK ==
  \A i \in SessionIds :
    /\ i > currentSessionId => sessionCommitments[i] = NoCommitment /\ net[i] = 0
    /\ sessionCommitments[i] # NoCommitment =>
         /\ sessionCommitments[i].sessionId = i
         /\ sessionCommitments[i].maxEscrowStake = caps[i].maxEscrowStake
         /\ sessionCommitments[i].maxReservedProfit = caps[i].maxReservedProfit
         /\ sessionCommitments[i].escrowedStake <= caps[i].maxEscrowStake
         /\ sessionCommitments[i].reservedProfit <= caps[i].maxReservedProfit

IInv == TypeOK /\ CommitmentsOK /\ WithinQuotedCaps /\ SettledExactlyOnce

-----------------------------------------------------------------------------
\* _finalizeSession closes the session, and pays the player exactly payout out
\* of balances that stay non-negative.
LEMMA FinalizeEffect ==
  ASSUME TypeOK,
         NEW s \in CasinoSession, NEW phase \in TerminalPhases, NEW payout \in Nat,
         NEW b \in [Accounts -> Nat],
         FinalizeSession(s, phase, payout, b)
  PROVE  /\ sessionCommitments' = [sessionCommitments EXCEPT ![s.sessionId] = NoCommitment]
         /\ sessionCommitments' \in [SessionIds -> CasinoSession \cup {NoCommitment}]
         /\ balanceOf' \in [Accounts -> Nat]
         /\ balanceOf'[s.player] = b[s.player] + payout
         /\ settlements' = Append(settlements, SettledLog(s, phase, payout))
         /\ settlements' \in Seq(Settlement)
         /\ emitted' = emitted
         /\ payout <= s.escrowedStake + s.reservedProfit
<1> DEFINE fromEscrow == IF payout > s.escrowedStake THEN s.escrowedStake ELSE payout
           fromVault == payout - fromEscrow
           escrowToVault == s.escrowedStake - fromEscrow
           b1 == Transfer(b, Host, s.player, fromEscrow)
           paid == Transfer(b1, Vault, s.player, fromVault)
<1>1. /\ s.player \in Players /\ s.sessionId \in SessionIds
      /\ s.escrowedStake \in Nat /\ s.reservedProfit \in Nat
  BY DEF CasinoSession
<1>2. /\ s.player \in Accounts /\ Host \in Accounts /\ Vault \in Accounts
      /\ s.player # Host /\ s.player # Vault /\ Host # Vault
  BY <1>1, ConstantsAssumption DEF Accounts
<1>3. /\ fromEscrow \in Nat /\ fromVault \in Nat /\ escrowToVault \in Nat
      /\ fromEscrow + fromVault = payout
  BY <1>1
<1>4. /\ b1 \in [Accounts -> Int]
      /\ b1[s.player] = b[s.player] + fromEscrow
      /\ b1[Host] = b[Host] - fromEscrow
      /\ b1[Vault] = b[Vault]
      /\ \A a \in Accounts \ {Host, s.player} : b1[a] = b[a]
  BY <1>2, <1>3 DEF Transfer
<1> HIDE DEF fromEscrow, fromVault, escrowToVault, b1
<1>5. /\ paid \in [Accounts -> Int]
      /\ paid[s.player] = b[s.player] + payout
      /\ paid[Host] = b1[Host]
      /\ paid[Vault] = b[Vault] - fromVault
      /\ \A a \in Accounts \ {Host, Vault, s.player} : paid[a] = b[a]
  BY <1>2, <1>3, <1>4 DEF Transfer
<1>6. /\ payout <= s.escrowedStake + s.reservedProfit
      /\ sessionCommitments' = [sessionCommitments EXCEPT ![s.sessionId] = NoCommitment]
      /\ settlements' = Append(settlements, SettledLog(s, phase, payout))
      /\ emitted' = emitted
      /\ NoOverdraft(paid, {Host, Vault})
      /\ balanceOf' = Transfer(paid, Host, Vault, escrowToVault)
      /\ NoOverdraft(balanceOf', {Host})
  BY DEF FinalizeSession, fromEscrow, fromVault, escrowToVault, b1
<1> HIDE DEF paid
<1> DEFINE after == Transfer(paid, Host, Vault, escrowToVault)
<1>7. /\ after \in [Accounts -> Int]
      /\ after[s.player] = b[s.player] + payout
      /\ after[Vault] = paid[Vault] + escrowToVault
      /\ \A a \in Accounts \ {Host, Vault} : after[a] = paid[a]
  <2>1. /\ after = [paid EXCEPT ![Host] = @ - escrowToVault, ![Vault] = @ + escrowToVault]
        /\ paid \in [Accounts -> Int] /\ escrowToVault \in Int
    BY <1>3, <1>5 DEF Transfer
  <2> HIDE DEF after
  <2>2. /\ after \in [Accounts -> Int]
        /\ after[Vault] = paid[Vault] + escrowToVault
        /\ \A a \in Accounts \ {Host, Vault} : after[a] = paid[a]
    BY <1>2, <2>1
  <2>3. QED BY <1>2, <1>5, <2>2
<1>a. balanceOf' = after
  BY <1>6
<1> HIDE DEF after
<1>8. \A a \in Accounts : after[a] \in Nat
  <2>1. paid[Vault] >= 0 /\ after[Host] >= 0
    BY <1>6, <1>a DEF NoOverdraft
  <2> SUFFICES ASSUME NEW a \in Accounts PROVE after[a] \in Nat
    OBVIOUS
  <2>2. CASE a = Host
    BY <2>1, <2>2, <1>2, <1>7
  <2>3. CASE a = Vault
    BY <2>1, <2>3, <1>2, <1>3, <1>5, <1>7
  <2>4. CASE a = s.player
    BY <2>4, <1>2, <1>7
  <2>5. CASE a \notin {Host, Vault, s.player}
    BY <2>5, <1>2, <1>5, <1>7
  <2>6. QED BY <2>2, <2>3, <2>4, <2>5
<1>9. balanceOf' \in [Accounts -> Nat]
  BY <1>7, <1>8, <1>a
<1>10. SettledLog(s, phase, payout) \in Settlement
  BY <1>1 DEF Settlement, SettledLog, CasinoSession
<1>11. settlements' \in Seq(Settlement)
  BY <1>6, <1>10 DEF TypeOK
<1>12. sessionCommitments' \in [SessionIds -> CasinoSession \cup {NoCommitment}]
  BY <1>1, <1>6 DEF TypeOK
<1>13. QED BY <1>6, <1>7, <1>a, <1>9, <1>11, <1>12

\* Session t has the terms s was opened with and is within its caps.
SameTerms(t, s) ==
  /\ t.sessionId = s.sessionId /\ t.player = s.player /\ t.game = s.game
  /\ t.wagerBase = s.wagerBase /\ t.gameData = s.gameData
  /\ t.maxEscrowStake = s.maxEscrowStake /\ t.maxReservedProfit = s.maxReservedProfit
  /\ t.riskMaxPayout = s.riskMaxPayout
  /\ t.escrowedStake <= s.maxEscrowStake /\ t.reservedProfit <= s.maxReservedProfit

\* Session t is s one step further.
Follows(t, s) == SameTerms(t, s) /\ t.step = s.step + 1

\* The deltas of an accepted step result leave a well-formed session.
LEMMA DeltasEffect ==
  ASSUME NEW s \in CasinoSession, NEW r \in StepResult, NEW allow \in BOOLEAN,
         StepDeltasAllowed(s, r, allow)
  PROVE  /\ ApplyStepDeltas(s, r) \in CasinoSession
         /\ Follows(ApplyStepDeltas(s, r), s)
         /\ ApplyStepDeltas(s, r).escrowedStake = s.escrowedStake + r.escrowDelta
<1> DEFINE t == ApplyStepDeltas(s, r)
<1>1. /\ s.escrowedStake + r.escrowDelta \in 0..s.maxEscrowStake
      /\ s.reservedProfit + r.reservedProfitDelta \in 0..s.maxReservedProfit
  BY DEF StepDeltasAllowed
<1>2. /\ s.escrowedStake \in Nat /\ s.reservedProfit \in Nat /\ s.step \in Nat
      /\ s.maxEscrowStake \in Nat /\ s.maxReservedProfit \in Nat
      /\ r.escrowDelta \in Int /\ r.reservedProfitDelta \in Int
      /\ r.newGameState \in GameState
  BY DEF CasinoSession, StepResult
<1>3. t = [s EXCEPT !.escrowedStake = s.escrowedStake + r.escrowDelta,
                    !.reservedProfit = s.reservedProfit + r.reservedProfitDelta,
                    !.gameState = r.newGameState, !.step = s.step + 1]
  BY DEF ApplyStepDeltas
<1> HIDE DEF t
<1>4. t \in CasinoSession
  <2>1. /\ s.escrowedStake + r.escrowDelta \in Nat
        /\ s.reservedProfit + r.reservedProfitDelta \in Nat
        /\ s.step + 1 \in Nat
    BY <1>1, <1>2
  <2>2. QED BY <2>1, <1>2, <1>3 DEF CasinoSession
<1>5. /\ t.escrowedStake = s.escrowedStake + r.escrowDelta
      /\ t.reservedProfit = s.reservedProfit + r.reservedProfitDelta
      /\ t.step = s.step + 1
  BY <1>3 DEF CasinoSession
<1>6. /\ t.sessionId = s.sessionId /\ t.player = s.player /\ t.game = s.game
      /\ t.wagerBase = s.wagerBase /\ t.gameData = s.gameData
      /\ t.maxEscrowStake = s.maxEscrowStake /\ t.maxReservedProfit = s.maxReservedProfit
      /\ t.riskMaxPayout = s.riskMaxPayout
  BY <1>3 DEF CasinoSession
<1>7. Follows(t, s)
  BY <1>1, <1>2, <1>5, <1>6 DEF Follows, SameTerms
<1>8. QED BY <1>4, <1>5, <1>7 DEF t

\* The two outcomes of a step that leaves the session as t: it waits again, or
\* it is closed with a payout its escrow and its reserve can cover.
Waits(t, s, b) ==
  /\ t.step = s.step + 1
  /\ sessionCommitments' = [sessionCommitments EXCEPT ![s.sessionId] = t]
  /\ balanceOf'[s.player] = b[s.player] + s.escrowedStake - t.escrowedStake
  /\ settlements' = settlements

Closes(t, s, b) ==
  \E payout \in 0..(t.escrowedStake + t.reservedProfit), phase \in TerminalPhases :
    /\ sessionCommitments' = [sessionCommitments EXCEPT ![s.sessionId] = NoCommitment]
    /\ balanceOf'[s.player] = b[s.player] + s.escrowedStake - t.escrowedStake + payout
    /\ settlements' = Append(settlements, SettledLog(t, phase, payout))

\* The variables _processStepResult writes keep their types.
StepTypeOK ==
  /\ sessionCommitments' \in [SessionIds -> CasinoSession \cup {NoCommitment}]
  /\ balanceOf' \in [Accounts -> Nat]
  /\ settlements' \in Seq(Settlement)
  /\ emitted' \subseteq CasinoSession
  /\ requests' \subseteq CasinoSession

\* _processStepResult takes a session to one that follows it, in one of the two
\* outcomes, and moves the player's tokens accordingly.
LEMMA StepEffect ==
  ASSUME TypeOK,
         NEW s \in CasinoSession, NEW r \in StepResult, NEW b \in [Accounts -> Nat],
         NEW q \in SUBSET CasinoSession, NEW allow \in BOOLEAN,
         ProcessStepResult(s, r, b, q, allow)
  PROVE  /\ \E t \in CasinoSession : Follows(t, s) /\ (Waits(t, s, b) \/ Closes(t, s, b))
         /\ StepTypeOK
         /\ TrackNet(s)
<1> DEFINE next == ApplyStepDeltas(s, r)
           funded == Transfer(b, s.player, Host, r.escrowDelta)
           waiting(timeout) ==
             [next EXCEPT !.phase = r.nextPhase, !.deadlineBlock = block + timeout]
<1>1. /\ StepDeltasAllowed(s, r, allow) /\ NoOverdraft(funded, {s.player, Host})
      /\ TrackNet(s)
  BY DEF ProcessStepResult
<1>2. /\ next \in CasinoSession /\ Follows(next, s)
      /\ next.escrowedStake = s.escrowedStake + r.escrowDelta
  BY <1>1, DeltasEffect
<1>3. /\ s.player \in Players /\ s.sessionId \in SessionIds /\ s.escrowedStake \in Nat
      /\ next.escrowedStake \in Nat /\ next.reservedProfit \in Nat
      /\ next.sessionId = s.sessionId /\ next.player = s.player
      /\ r.escrowDelta \in Int /\ r.payout \in Nat /\ r.nextPhase \in SessionPhase
  BY <1>2 DEF CasinoSession, StepResult, Follows, SameTerms
<1>4. /\ s.player \in Accounts /\ Host \in Accounts /\ s.player # Host
  BY <1>3, ConstantsAssumption DEF Accounts
<1>5. /\ funded \in [Accounts -> Nat]
      /\ funded[s.player] = b[s.player] - r.escrowDelta
  <2>1. /\ funded \in [Accounts -> Int]
        /\ funded[s.player] = b[s.player] - r.escrowDelta
        /\ \A a \in Accounts \ {s.player, Host} : funded[a] = b[a]
    BY <1>3, <1>4 DEF Transfer
  <2> HIDE DEF funded
  <2>2. funded[s.player] >= 0 /\ funded[Host] >= 0
    BY <1>1 DEF NoOverdraft
  <2>3. \A a \in Accounts : funded[a] \in Nat
    BY <1>4, <2>1, <2>2
  <2>4. QED BY <2>1, <2>3
<1> HIDE DEF next, funded
<1>6. ASSUME NEW timeout \in {RANDOMNESS_TIMEOUT_BLOCKS, ACTION_TIMEOUT_BLOCKS},
             CommitSession(waiting(timeout)),
             requests' \in {q, q \cup {waiting(timeout)}},
             balanceOf' = funded, settlements' = settlements
      PROVE  /\ \E t \in CasinoSession : Follows(t, s) /\ Waits(t, s, b)
             /\ StepTypeOK
  <2> DEFINE t == waiting(timeout)
  <2>1. block + timeout \in Nat
    <3>1. timeout \in Nat
      BY ConstantsAssumption
    <3>2. block \in Nat
      BY DEF TypeOK
    <3>3. QED BY <3>1, <3>2
  <2>2. /\ t \in CasinoSession /\ Follows(t, s) /\ t.escrowedStake = next.escrowedStake
        /\ t.sessionId = s.sessionId
    BY <1>2, <1>3, <2>1 DEF CasinoSession, Follows, SameTerms
  <2>3. /\ sessionCommitments' = [sessionCommitments EXCEPT ![s.sessionId] = t]
        /\ emitted' = emitted \cup {t}
    BY <1>6, <2>2 DEF CommitSession
  <2>4. Waits(t, s, b)
    BY <1>2, <1>3, <1>4, <1>5, <1>6, <2>2, <2>3 DEF Waits, Follows
  <2> HIDE DEF t
  <2>5. StepTypeOK
    BY <1>3, <1>5, <1>6, <2>2, <2>3 DEF TypeOK, StepTypeOK, t
  <2>6. QED BY <2>2, <2>4, <2>5
<1>7. CASE /\ r.nextPhase = "WAITING_RANDOMNESS" /\ r.requestRandomnessNow
           /\ CommitSession(waiting(RANDOMNESS_TIMEOUT_BLOCKS))
           /\ requests' = q \cup {waiting(RANDOMNESS_TIMEOUT_BLOCKS)}
           /\ balanceOf' = funded
           /\ UNCHANGED settlements
  BY <1>1, <1>6, <1>7
<1>8. CASE /\ r.nextPhase = "WAITING_PLAYER_ACTION" /\ ~r.requestRandomnessNow
           /\ CommitSession(waiting(ACTION_TIMEOUT_BLOCKS))
           /\ requests' = q
           /\ balanceOf' = funded
           /\ UNCHANGED settlements
  BY <1>1, <1>6, <1>8
<1>9. CASE /\ r.nextPhase \in TerminalPhases /\ ~r.requestRandomnessNow
           /\ requests' = q
           /\ FinalizeSession(next, r.nextPhase, r.payout, funded)
  <2>1. /\ sessionCommitments' = [sessionCommitments EXCEPT ![next.sessionId] = NoCommitment]
        /\ sessionCommitments' \in [SessionIds -> CasinoSession \cup {NoCommitment}]
        /\ balanceOf' \in [Accounts -> Nat]
        /\ balanceOf'[next.player] = funded[next.player] + r.payout
        /\ settlements' = Append(settlements, SettledLog(next, r.nextPhase, r.payout))
        /\ settlements' \in Seq(Settlement)
        /\ emitted' = emitted
        /\ r.payout <= next.escrowedStake + next.reservedProfit
    BY <1>2, <1>3, <1>5, <1>9, FinalizeEffect
  <2>2. StepTypeOK
    BY <1>9, <2>1 DEF TypeOK, StepTypeOK
  <2>3. balanceOf'[s.player] = b[s.player] + s.escrowedStake - next.escrowedStake + r.payout
    <3>1. balanceOf'[s.player] = (b[s.player] - r.escrowDelta) + r.payout
      BY <1>3, <1>5, <2>1
    <3>2. b[s.player] \in Int /\ next.escrowedStake = s.escrowedStake + r.escrowDelta
      BY <1>2, <1>4
    <3>3. QED BY <1>3, <3>1, <3>2
  <2>4. Closes(next, s, b)
    BY <1>3, <1>9, <2>1, <2>3 DEF Closes
  <2>5. QED BY <1>1, <1>2, <2>2, <2>4
<1>10. QED
  BY <1>7, <1>8, <1>9 DEF ProcessStepResult, next, funded

\* Session s has been brought to t, or closed, for a player who had already
\* paid `taken` in this transaction.
Stepped(t, s, b) == SameTerms(t, s) /\ (Waits(t, s, b) \/ Closes(t, s, b))

\* The other variables, when session s is stepped: it is an open one, or the
\* one being opened.
StepContext(s, b, taken) ==
  /\ b[s.player] = balanceOf[s.player] - taken
  /\ net[s.sessionId] = taken - s.escrowedStake
  /\ \/ /\ sessionCommitments[s.sessionId] = s
        /\ s.sessionId <= currentSessionId
        /\ currentSessionId' = currentSessionId
        /\ caps' = caps
     \/ /\ s.sessionId = currentSessionId + 1
        /\ currentSessionId' = currentSessionId + 1
        /\ \E c \in Caps : caps' = [caps EXCEPT ![s.sessionId] = c]
  /\ caps'[s.sessionId].maxEscrowStake = s.maxEscrowStake
  /\ caps'[s.sessionId].maxReservedProfit = s.maxReservedProfit
  /\ block' = block /\ gameNames' = gameNames /\ totalSupply' = totalSupply

\* A step keeps the history and the commitment tied together, and the net
\* position within the caps.
LEMMA StepKeepsCaps ==
  ASSUME IInv,
         NEW s \in CasinoSession, NEW b \in [Accounts -> Nat], NEW taken \in Nat,
         NEW t \in CasinoSession, Stepped(t, s, b), StepTypeOK, TrackNet(s),
         StepContext(s, b, taken)
  PROVE  TypeOK' /\ CommitmentsOK' /\ WithinQuotedCaps'
<1> DEFINE i == s.sessionId
<1>1. /\ i \in SessionIds /\ s.player \in Players /\ s.player \in Accounts
      /\ s.escrowedStake \in Nat /\ t.escrowedStake \in Nat /\ t.reservedProfit \in Nat
      /\ s.maxEscrowStake \in Nat /\ s.maxReservedProfit \in Nat
      /\ balanceOf[s.player] \in Nat /\ b[s.player] \in Nat /\ net[i] \in Int
      /\ currentSessionId \in Nat /\ MaxSessions \in Nat
  BY ConstantsAssumption DEF CasinoSession, Accounts, IInv, TypeOK
<1>2. /\ caps' \in [SessionIds -> Caps]
      /\ \A j \in SessionIds \ {i} : caps'[j] = caps[j]
      /\ currentSessionId' \in 0..MaxSessions
      /\ currentSessionId <= currentSessionId' /\ i <= currentSessionId'
  <2>1. caps \in [SessionIds -> Caps] /\ currentSessionId \in 0..MaxSessions /\ i \in 1..MaxSessions
    BY <1>1 DEF IInv, TypeOK, SessionIds
  <2>2. \/ i <= currentSessionId /\ currentSessionId' = currentSessionId /\ caps' = caps
        \/ /\ i = currentSessionId + 1 /\ currentSessionId' = currentSessionId + 1
           /\ \E c \in Caps : caps' = [caps EXCEPT ![i] = c]
    BY DEF StepContext
  <2> HIDE DEF i
  <2>3. QED BY <1>1, <2>1, <2>2
<1>3. /\ net' = [net EXCEPT ![i] = @ + balanceOf'[s.player] - balanceOf[s.player]]
      /\ balanceOf'[s.player] \in Nat
  BY <1>1 DEF TrackNet, StepTypeOK
<1>4. net' \in [SessionIds -> Int] /\ \A j \in SessionIds \ {i} : net'[j] = net[j]
  BY <1>1, <1>3 DEF IInv, TypeOK
<1>5. TypeOK'
  BY <1>2, <1>4 DEF IInv, TypeOK, StepTypeOK, StepContext
<1>6. net'[i] = net[i] + balanceOf'[s.player] - balanceOf[s.player]
  BY <1>1, <1>3 DEF IInv, TypeOK
<1>7. t.sessionId = i /\ t.escrowedStake <= s.maxEscrowStake
      /\ t.reservedProfit <= s.maxReservedProfit
      /\ t.maxEscrowStake = s.maxEscrowStake /\ t.maxReservedProfit = s.maxReservedProfit
  BY DEF Stepped, SameTerms
<1>8. /\ \A j \in SessionIds \ {i} : sessionCommitments'[j] = sessionCommitments[j]
      /\ \/ sessionCommitments'[i] = t /\ net'[i] = -t.escrowedStake
         \/ /\ sessionCommitments'[i] = NoCommitment
            /\ -t.escrowedStake <= net'[i] /\ net'[i] <= t.reservedProfit
  <2> USE DEF i
  <2>1. CASE Waits(t, s, b)
    <3>1. /\ sessionCommitments' = [sessionCommitments EXCEPT ![i] = t]
          /\ balanceOf'[s.player] = b[s.player] + s.escrowedStake - t.escrowedStake
      BY <2>1 DEF Waits
    <3>2. net'[i] = -t.escrowedStake
      BY <3>1, <1>1, <1>6 DEF StepContext
    <3>3. QED BY <3>1, <3>2, <1>1 DEF IInv, TypeOK
  <2>2. CASE Closes(t, s, b)
    <3>1. PICK payout \in 0..(t.escrowedStake + t.reservedProfit) :
            /\ sessionCommitments' = [sessionCommitments EXCEPT ![i] = NoCommitment]
            /\ balanceOf'[s.player] = b[s.player] + s.escrowedStake - t.escrowedStake + payout
      BY <2>2 DEF Closes
    <3>2. net'[i] = payout - t.escrowedStake
      BY <3>1, <1>1, <1>6 DEF StepContext
    <3>3. QED BY <3>1, <3>2, <1>1 DEF IInv, TypeOK
  <2>3. QED BY <2>1, <2>2 DEF Stepped
<1>9. /\ caps'[i].maxEscrowStake = s.maxEscrowStake
      /\ caps'[i].maxReservedProfit = s.maxReservedProfit
  BY DEF StepContext
<1> HIDE DEF i
<1>10. CommitmentsOK'
  <2> SUFFICES ASSUME NEW j \in SessionIds
      PROVE  /\ j > currentSessionId' => sessionCommitments'[j] = NoCommitment /\ net'[j] = 0
             /\ sessionCommitments'[j] # NoCommitment =>
                  /\ sessionCommitments'[j].sessionId = j
                  /\ sessionCommitments'[j].maxEscrowStake = caps'[j].maxEscrowStake
                  /\ sessionCommitments'[j].maxReservedProfit = caps'[j].maxReservedProfit
                  /\ sessionCommitments'[j].escrowedStake <= caps'[j].maxEscrowStake
                  /\ sessionCommitments'[j].reservedProfit <= caps'[j].maxReservedProfit
    BY DEF CommitmentsOK
  <2>1. CASE j = i
    <3>1. ~(j > currentSessionId')
      BY <2>1, <1>1, <1>2 DEF SessionIds
    <3>2. CASE sessionCommitments'[i] = NoCommitment
      BY <2>1, <3>1, <3>2
    <3>3. CASE sessionCommitments'[i] = t
      <4>1. /\ t.sessionId = i
            /\ t.maxEscrowStake = caps'[i].maxEscrowStake
            /\ t.maxReservedProfit = caps'[i].maxReservedProfit
            /\ t.escrowedStake <= caps'[i].maxEscrowStake
            /\ t.reservedProfit <= caps'[i].maxReservedProfit
        BY <1>7, <1>9
      <4>2. QED BY <2>1, <3>1, <3>3, <4>1
    <3>4. QED BY <1>8, <3>2, <3>3
  <2>2. CASE j # i
    <3>0. j > currentSessionId' => j > currentSessionId
      BY <1>1, <1>2 DEF SessionIds
    <3>1. /\ caps'[j] = caps[j] /\ net'[j] = net[j]
          /\ sessionCommitments'[j] = sessionCommitments[j]
      BY <2>2, <1>2, <1>4, <1>8
    <3>2. QED BY <3>0, <3>1 DEF IInv, CommitmentsOK
  <2>3. QED BY <2>1, <2>2
<1>11. WithinQuotedCaps'
  <2> SUFFICES ASSUME NEW j \in SessionIds
      PROVE  /\ -caps'[j].maxEscrowStake <= net'[j]
             /\ net'[j] <= caps'[j].maxReservedProfit
             /\ sessionCommitments'[j] # NoCommitment =>
                  net'[j] = -sessionCommitments'[j].escrowedStake
    BY DEF WithinQuotedCaps, IsOpen
  <2>1. CASE j = i
    BY <2>1, <1>1, <1>4, <1>7, <1>8, <1>9
  <2>2. CASE j # i
    BY <2>2, <1>2, <1>4, <1>8 DEF IInv, WithinQuotedCaps, IsOpen
  <2>3. QED BY <2>1, <2>2
<1>12. QED BY <1>5, <1>10, <1>11

\* A step settles the session if, and only if, it closes it; and no other.
LEMMA StepSettlesOnce ==
  ASSUME IInv,
         NEW s \in CasinoSession, NEW b \in [Accounts -> Nat], NEW taken \in Nat,
         NEW t \in CasinoSession, Stepped(t, s, b), StepContext(s, b, taken)
  PROVE  SettledExactlyOnce'
<1> DEFINE i == s.sessionId
<1>1. /\ i \in SessionIds /\ i \in Nat /\ currentSessionId \in Nat
      /\ sessionCommitments \in [SessionIds -> CasinoSession \cup {NoCommitment}]
      /\ settlements \in Seq(Settlement)
      /\ t # NoCommitment /\ s # NoCommitment
  <2>1. i \in SessionIds
    BY DEF CasinoSession
  <2>2. t # NoCommitment /\ s # NoCommitment
    BY ConstantsAssumption
  <2>3. QED BY <2>1, <2>2 DEF IInv, TypeOK, SessionIds
<1>2. ~(\E n \in 1..Len(settlements) : settlements[n].sessionId = i)
  BY <1>1 DEF StepContext, IInv, SettledExactlyOnce, IsOpen
<1>3. /\ i <= currentSessionId'
      /\ \A j \in SessionIds \ {i} : j <= currentSessionId' <=> j <= currentSessionId
  BY <1>1 DEF StepContext, SessionIds
<1>4. CASE Waits(t, s, b)
  <2>1. /\ settlements' = settlements
        /\ sessionCommitments'[i] # NoCommitment
        /\ \A j \in SessionIds \ {i} : sessionCommitments'[j] = sessionCommitments[j]
    BY <1>1, <1>4 DEF Waits
  <2> HIDE DEF i
  <2>2. QED BY <1>1, <1>2, <1>3, <2>1 DEF IInv, SettledExactlyOnce, IsOpen
<1>5. CASE Closes(t, s, b)
  <2>1. PICK e \in Settlement :
          /\ e.sessionId = i
          /\ settlements' = Append(settlements, e)
          /\ sessionCommitments' = [sessionCommitments EXCEPT ![i] = NoCommitment]
    <3>1. PICK payout \in 0..(t.escrowedStake + t.reservedProfit), phase \in TerminalPhases :
            /\ sessionCommitments' = [sessionCommitments EXCEPT ![i] = NoCommitment]
            /\ settlements' = Append(settlements, SettledLog(t, phase, payout))
      BY <1>5 DEF Closes
    <3>2. payout \in Nat /\ t.gameState \in GameState
      BY DEF CasinoSession
    <3>3. t.sessionId = i
      BY DEF Stepped, SameTerms
    <3>4. SettledLog(t, phase, payout) \in Settlement /\ SettledLog(t, phase, payout).sessionId = i
      BY <1>1, <3>2, <3>3 DEF Settlement, SettledLog
    <3>5. QED BY <3>1, <3>4
  <2> HIDE DEF i
  <2>2. /\ sessionCommitments'[i] = NoCommitment
        /\ \A j \in SessionIds \ {i} : sessionCommitments'[j] = sessionCommitments[j]
    BY <1>1, <2>1
  <2>3. /\ Len(settlements) \in Nat /\ Len(settlements') = Len(settlements) + 1
        /\ settlements'[Len(settlements) + 1] = e
        /\ \A n \in 1..Len(settlements) : settlements'[n] = settlements[n]
    BY <1>1, <2>1
  <2>4. \A m, n \in 1..Len(settlements') :
          settlements'[m].sessionId = settlements'[n].sessionId => m = n
    <3> SUFFICES ASSUME NEW m \in 1..Len(settlements'), NEW n \in 1..Len(settlements'),
                        settlements'[m].sessionId = settlements'[n].sessionId
                 PROVE  m = n
      OBVIOUS
    <3>1. CASE m \in 1..Len(settlements) /\ n \in 1..Len(settlements)
      BY <3>1, <2>3 DEF IInv, SettledExactlyOnce
    <3>2. CASE m = Len(settlements) + 1 \/ n = Len(settlements) + 1
      BY <3>2, <1>2, <2>1, <2>3
    <3>3. QED BY <3>1, <3>2, <2>3
  <2>5. \A j \in SessionIds :
          (\E n \in 1..Len(settlements') : settlements'[n].sessionId = j)
            <=> j <= currentSessionId' /\ sessionCommitments'[j] = NoCommitment
    <3> TAKE j \in SessionIds
    <3>1. CASE j = i
      BY <3>1, <1>3, <2>1, <2>2, <2>3
    <3>2. CASE j # i
      <4>1. (\E n \in 1..Len(settlements') : settlements'[n].sessionId = j)
              <=> (\E n \in 1..Len(settlements) : settlements[n].sessionId = j)
        BY <3>2, <2>1, <2>3
      <4>2. QED BY <3>2, <4>1, <1>3, <2>2 DEF IInv, SettledExactlyOnce, IsOpen
    <3>3. QED BY <3>1, <3>2
  <2>6. QED BY <2>4, <2>5 DEF SettledExactlyOnce, IsOpen
<1>6. QED BY <1>4, <1>5 DEF Stepped

\* Every transaction on the host steps exactly one session ...
SessionStep ==
  \E s \in CasinoSession, b \in [Accounts -> Nat], taken \in Nat, t \in CasinoSession :
    Stepped(t, s, b) /\ StepTypeOK /\ TrackNet(s) /\ StepContext(s, b, taken)

\* ... and everything else leaves the sessions alone.
OtherStep ==
  /\ TypeOK'
  /\ UNCHANGED <<currentSessionId, sessionCommitments, settlements, caps, net>>

\* An open session is its own commitment, and the history agrees with it.
LEMMA OpenContext ==
  ASSUME IInv, NEW s \in CasinoSession, LoadSession(s),
         UNCHANGED <<block, gameNames, currentSessionId, totalSupply, caps>>
  PROVE  /\ StepContext(s, balanceOf, 0)
         /\ SameTerms(s, s)
<1>1. /\ s.sessionId \in SessionIds /\ s.player \in Accounts
      /\ s.escrowedStake \in Nat
  BY DEF CasinoSession, Accounts
<1>2. /\ sessionCommitments[s.sessionId] = s /\ s # NoCommitment
  BY ConstantsAssumption DEF LoadSession
<1>3. /\ s.maxEscrowStake = caps[s.sessionId].maxEscrowStake
      /\ s.maxReservedProfit = caps[s.sessionId].maxReservedProfit
      /\ s.escrowedStake <= caps[s.sessionId].maxEscrowStake
      /\ s.reservedProfit <= caps[s.sessionId].maxReservedProfit
      /\ ~(s.sessionId > currentSessionId)
  BY <1>1, <1>2 DEF IInv, CommitmentsOK
<1>4. net[s.sessionId] = -s.escrowedStake
  BY <1>1, <1>2 DEF IInv, WithinQuotedCaps, IsOpen
<1>5. balanceOf[s.player] = balanceOf[s.player] - 0 /\ 0 - s.escrowedStake = -s.escrowedStake
  BY <1>1 DEF IInv, TypeOK
<1>6. s.sessionId <= currentSessionId
  BY <1>1, <1>3 DEF SessionIds, IInv, TypeOK
<1>7. StepContext(s, balanceOf, 0)
  BY <1>2, <1>3, <1>4, <1>5, <1>6 DEF StepContext
<1>8. QED BY <1>3, <1>7 DEF SameTerms

\* Both permissionless exits close the session they were given.
LEMMA ExitStep ==
  ASSUME IInv, NEW s \in CasinoSession, LoadSession(s),
         UNCHANGED <<block, gameNames, currentSessionId, totalSupply, caps, requests>>,
         NEW phase \in TerminalPhases, NEW payout \in Nat,
         FinalizeSession(s, phase, payout, balanceOf), TrackNet(s)
  PROVE  SessionStep
<1>1. balanceOf \in [Accounts -> Nat] /\ TypeOK /\ emitted \subseteq CasinoSession
      /\ requests \subseteq CasinoSession
  BY DEF IInv, TypeOK
<1>2. /\ sessionCommitments' = [sessionCommitments EXCEPT ![s.sessionId] = NoCommitment]
      /\ sessionCommitments' \in [SessionIds -> CasinoSession \cup {NoCommitment}]
      /\ balanceOf' \in [Accounts -> Nat]
      /\ balanceOf'[s.player] = balanceOf[s.player] + payout
      /\ settlements' = Append(settlements, SettledLog(s, phase, payout))
      /\ settlements' \in Seq(Settlement)
      /\ emitted' = emitted
      /\ payout <= s.escrowedStake + s.reservedProfit
  BY <1>1, FinalizeEffect
<1>3. /\ s.escrowedStake \in Nat /\ s.reservedProfit \in Nat /\ balanceOf[s.player] \in Nat
  BY <1>1 DEF CasinoSession, Accounts
<1>4. /\ payout \in 0..(s.escrowedStake + s.reservedProfit)
      /\ balanceOf'[s.player] =
           balanceOf[s.player] + s.escrowedStake - s.escrowedStake + payout
  BY <1>2, <1>3
<1>5. Closes(s, s, balanceOf)
  BY <1>2, <1>4 DEF Closes
<1>6. StepTypeOK
  BY <1>1, <1>2 DEF StepTypeOK
<1>7. Stepped(s, s, balanceOf) /\ StepContext(s, balanceOf, 0)
  BY <1>5, OpenContext DEF Stepped
<1>8. QED BY <1>1, <1>6, <1>7 DEF SessionStep

\* openSession builds a well-formed session with the caps just quoted, and
\* nothing of the player's but the wager is in it.
LEMMA OpenStep ==
  ASSUME IInv, NEW p \in Players, NEW g \in Games, NEW v \in Accounts,
               NEW w \in Wagers, NEW d \in GameData,
         OpenSession(p, g, v, w, d)
  PROVE  SessionStep
<1>1. /\ currentSessionId < MaxSessions /\ w <= balanceOf[p]
      /\ currentSessionId' = currentSessionId + 1
      /\ UNCHANGED <<block, gameNames, totalSupply>>
  BY DEF OpenSession
<1>2. PICK c \in Caps, risk \in RiskParams :
        /\ c.maxEscrowStake >= w
        /\ caps' = [caps EXCEPT ![currentSessionId + 1] = c]
        /\ \E r \in OnSessionStart(NewSession(p, g, w, d, c, risk)) \cap StepResult :
             ProcessStepResult(NewSession(p, g, w, d, c, risk), r,
                               Transfer(balanceOf, p, Host, w), requests, TRUE)
  BY DEF OpenSession
<1> DEFINE s == NewSession(p, g, w, d, c, risk)
           b == Transfer(balanceOf, p, Host, w)
<1>3. /\ p \in Accounts /\ Host \in Accounts /\ p # Host /\ w \in Nat
      /\ balanceOf \in [Accounts -> Nat] /\ currentSessionId + 1 \in SessionIds
      /\ currentSessionId \in Nat /\ MaxSessions \in Nat
      /\ EmptyState \in GameState /\ requests \in SUBSET CasinoSession
      /\ caps \in [SessionIds -> Caps]
  <2>1. p \in Accounts /\ Host \in Accounts /\ p # Host /\ w \in Nat
        /\ MaxSessions \in Nat /\ EmptyState \in GameState
    BY ConstantsAssumption DEF Accounts
  <2>2. /\ balanceOf \in [Accounts -> Nat] /\ currentSessionId \in 0..MaxSessions
        /\ requests \in SUBSET CasinoSession /\ caps \in [SessionIds -> Caps]
    BY DEF IInv, TypeOK
  <2>3. currentSessionId \in Nat /\ currentSessionId + 1 \in SessionIds
    BY <1>1, <2>1, <2>2 DEF SessionIds
  <2>4. QED BY <2>1, <2>2, <2>3
<1>4. b \in [Accounts -> Nat] /\ b[p] = balanceOf[p] - w
  <2>1. b = [balanceOf EXCEPT ![p] = @ - w, ![Host] = @ + w]
    BY DEF Transfer
  <2> HIDE DEF b
  <2>2. /\ b \in [Accounts -> Int] /\ b[p] = balanceOf[p] - w /\ b[Host] = balanceOf[Host] + w
        /\ \A a \in Accounts \ {p, Host} : b[a] = balanceOf[a]
    BY <1>3, <2>1
  <2>3. \A a \in Accounts : b[a] \in Nat
    BY <1>1, <1>3, <2>2
  <2>4. QED BY <2>2, <2>3
<1>5. /\ s \in CasinoSession /\ s.sessionId = currentSessionId + 1 /\ s.player = p
      /\ s.escrowedStake = w /\ s.maxEscrowStake = c.maxEscrowStake
      /\ s.maxReservedProfit = c.maxReservedProfit
  <2>1. c.maxEscrowStake \in Nat /\ c.maxReservedProfit \in Nat /\ risk.maxPayout \in Nat
    BY DEF Caps, RiskParams
  <2>2. "NONE" \in SessionPhase
    BY DEF SessionPhase
  <2>3. QED BY <1>3, <2>1, <2>2 DEF NewSession, CasinoSession
<1>6. PICK r \in StepResult : ProcessStepResult(s, r, b, requests, TRUE)
  BY <1>2
<1> HIDE DEF s, b
<1>7. /\ \E t \in CasinoSession : Follows(t, s) /\ (Waits(t, s, b) \/ Closes(t, s, b))
      /\ StepTypeOK /\ TrackNet(s)
  BY <1>3, <1>4, <1>5, <1>6, StepEffect DEF IInv
<1>8. StepContext(s, b, w)
  <2>1. net[currentSessionId + 1] = 0
    BY <1>3 DEF IInv, CommitmentsOK
  <2>2. b[s.player] = balanceOf[s.player] - w /\ net[s.sessionId] = w - s.escrowedStake
    BY <1>3, <1>4, <1>5, <2>1
  <2>3. /\ caps'[s.sessionId] = c
        /\ \E x \in Caps : caps' = [caps EXCEPT ![s.sessionId] = x]
    BY <1>2, <1>3, <1>5
  <2>4. QED BY <1>1, <1>5, <2>2, <2>3 DEF StepContext
<1>9. QED BY <1>3, <1>4, <1>5, <1>7, <1>8 DEF SessionStep, Stepped, Follows

\* Every action is a step of one session or leaves the sessions alone.
LEMMA NextStep ==
  ASSUME IInv, [Next]_vars
  PROVE  SessionStep \/ OtherStep
<1>1. /\ TypeOK /\ balanceOf \in [Accounts -> Nat] /\ emitted \subseteq CasinoSession
      /\ requests \subseteq CasinoSession
  BY DEF IInv, TypeOK
<1>2. CASE MineBlock
  BY <1>2 DEF MineBlock, OtherStep, IInv, TypeOK
<1>3. ASSUME NEW g \in Games, RegisterGame(g)
      PROVE  OtherStep
  BY <1>3 DEF RegisterGame, OtherStep, IInv, TypeOK
<1>4. ASSUME NEW a \in Accounts, NEW n \in MintAmounts, Mint(a, n)
      PROVE  OtherStep
  <2>1. n \in Nat
    BY ConstantsAssumption
  <2>2. QED BY <1>4, <2>1 DEF Mint, OtherStep, IInv, TypeOK
<1>14. ASSUME NEW from \in Accounts \ {Host}, NEW to \in Accounts, NEW n \in TransferAmounts,
             TransferTokens(from, to, n)
      PROVE  OtherStep
  <2>1. n \in Nat
    BY ConstantsAssumption
  <2>2. balanceOf' \in [Accounts -> Nat]
    <3>1. balanceOf' = Transfer(balanceOf, from, to, n) /\ balanceOf'[from] >= 0
      BY <1>14 DEF TransferTokens, NoOverdraft
    <3>2. QED BY <1>1, <2>1, <3>1 DEF Transfer
  <2>3. QED BY <1>14, <2>2 DEF TransferTokens, OtherStep, IInv, TypeOK
<1>5. ASSUME NEW p \in Players, NEW g \in Games, NEW v \in Accounts,
             NEW w \in Wagers, NEW d \in GameData,
             OpenSession(p, g, v, w, d)
      PROVE  SessionStep
  BY <1>5, OpenStep
<1>6. ASSUME NEW s \in CasinoSession, NEW r \in StepResult, NEW q \in SUBSET CasinoSession,
             NEW allow \in BOOLEAN, LoadSession(s),
             ProcessStepResult(s, r, balanceOf, q, allow),
             UNCHANGED <<block, gameNames, currentSessionId, totalSupply, caps>>
      PROVE  SessionStep
  <2>1. /\ \E t \in CasinoSession :
             Follows(t, s) /\ (Waits(t, s, balanceOf) \/ Closes(t, s, balanceOf))
        /\ StepTypeOK /\ TrackNet(s)
    BY <1>1, <1>6, StepEffect
  <2>2. StepContext(s, balanceOf, 0)
    BY <1>6, OpenContext
  <2>3. PICK t \in CasinoSession : Stepped(t, s, balanceOf)
    BY <2>1 DEF Stepped, Follows
  <2>4. 0 \in Nat
    OBVIOUS
  <2>5. QED BY <1>1, <2>1, <2>2, <2>3, <2>4 DEF SessionStep
<1>7. ASSUME NEW p \in Players, NEW s \in emitted, SubmitAction(p, s)
      PROVE  SessionStep
  <2>1. /\ s \in CasinoSession /\ LoadSession(s) /\ requests \in SUBSET CasinoSession
        /\ UNCHANGED <<block, gameNames, currentSessionId, totalSupply, caps>>
    BY <1>1, <1>7 DEF SubmitAction
  <2>2. PICK r \in StepResult : ProcessStepResult(s, r, balanceOf, requests, TRUE)
    BY <1>7 DEF SubmitAction
  <2>3. QED BY <1>6, <2>1, <2>2
<1>8. ASSUME NEW q \in requests, OnRandomnessFulfilled(q)
      PROVE  SessionStep
  <2>1. /\ q \in CasinoSession /\ LoadSession(q) /\ requests \ {q} \in SUBSET CasinoSession
        /\ UNCHANGED <<block, gameNames, currentSessionId, totalSupply, caps>>
    BY <1>1, <1>8 DEF OnRandomnessFulfilled
  <2>2. PICK r \in StepResult : ProcessStepResult(q, r, balanceOf, requests \ {q}, FALSE)
    BY <1>8 DEF OnRandomnessFulfilled
  <2>3. QED BY <1>6, <2>1, <2>2
<1>9. ASSUME NEW q \in requests, FulfillmentLost(q)
      PROVE  OtherStep
  BY <1>9 DEF FulfillmentLost, OtherStep, IInv, TypeOK
<1>10. ASSUME NEW s \in emitted, CancelStuckRandomness(s)
       PROVE  SessionStep
  <2>1. s \in CasinoSession /\ s.escrowedStake \in Nat /\ "CANCELLED" \in TerminalPhases
    BY <1>1 DEF CasinoSession, TerminalPhases
  <2>2. QED BY <1>10, <2>1, ExitStep DEF CancelStuckRandomness
<1>11. ASSUME NEW s \in emitted, ForfeitExpiredSession(s)
       PROVE  SessionStep
  <2>1. PICK quote \in Nat :
          FinalizeSession(s, "FORFEITED", ForfeitPayout(s, quote), balanceOf)
    BY <1>11 DEF ForfeitExpiredSession
  <2>2. /\ s \in CasinoSession /\ s.escrowedStake \in Nat /\ s.reservedProfit \in Nat
        /\ "FORFEITED" \in TerminalPhases
    BY <1>1 DEF CasinoSession, TerminalPhases
  <2>3. ForfeitPayout(s, quote) \in Nat
    <3> DEFINE maxAllowed == s.escrowedStake + s.reservedProfit
               clamped == IF quote > maxAllowed THEN maxAllowed ELSE quote
    <3>1. clamped \in Nat
      BY <2>2
    <3>2. ForfeitPayout(s, quote) = (clamped * 9000) \div 10000
      BY DEF ForfeitPayout, BASIS_POINTS, FORFEIT_WINNINGS_CUT_BPS
    <3> HIDE DEF clamped
    <3>3. QED BY <3>1, <3>2
  <2>4. QED BY <1>11, <2>1, <2>2, <2>3, ExitStep DEF ForfeitExpiredSession
<1>12. CASE UNCHANGED vars
  BY <1>12 DEF vars, OtherStep, IInv, TypeOK
<1>13. QED
  BY <1>2, <1>3, <1>4, <1>5, <1>7, <1>8, <1>9, <1>10, <1>11, <1>12, <1>14 DEF Next

-----------------------------------------------------------------------------
\* The invariant holds at deployment.
LEMMA InitIInv == Init => IInv
<1> SUFFICES ASSUME Init PROVE IInv
  OBVIOUS
<1>1. TypeOK
  <2>1. [maxEscrowStake |-> 0, maxReservedProfit |-> 0] \in Caps
    BY DEF Caps
  <2>2. <<>> \in Seq(Settlement) /\ 0 \in 0..MaxSessions
    BY ConstantsAssumption
  <2>3. QED BY <2>1, <2>2, ConstantsAssumption DEF Init, TypeOK
<1>2. CommitmentsOK /\ WithinQuotedCaps
  BY DEF Init, CommitmentsOK, WithinQuotedCaps, IsOpen
<1>3. SettledExactlyOnce
  BY DEF Init, SettledExactlyOnce, IsOpen, SessionIds
<1>4. QED BY <1>1, <1>2, <1>3 DEF IInv

\* And every step keeps it.
LEMMA NextIInv == IInv /\ [Next]_vars => IInv'
<1> SUFFICES ASSUME IInv, [Next]_vars PROVE IInv'
  OBVIOUS
<1>1. CASE SessionStep
  <2>1. PICK s \in CasinoSession, b \in [Accounts -> Nat], taken \in Nat, t \in CasinoSession :
          Stepped(t, s, b) /\ StepTypeOK /\ TrackNet(s) /\ StepContext(s, b, taken)
    BY <1>1 DEF SessionStep
  <2>2. TypeOK' /\ CommitmentsOK' /\ WithinQuotedCaps'
    BY <2>1, StepKeepsCaps
  <2>3. SettledExactlyOnce'
    BY <2>1, StepSettlesOnce
  <2>4. QED BY <2>2, <2>3 DEF IInv
<1>2. CASE OtherStep
  <2>1. CommitmentsOK' /\ WithinQuotedCaps' /\ SettledExactlyOnce'
    BY <1>2 DEF OtherStep, IInv, CommitmentsOK, WithinQuotedCaps, SettledExactlyOnce, IsOpen
  <2>2. QED BY <1>2, <2>1 DEF OtherStep, IInv
<1>3. QED BY <1>1, <1>2, NextStep

\* The inductive invariant holds in every state of every behaviour of the host.
THEOREM Invariance == Spec => []IInv
<1>1. QED BY InitIInv, NextIInv, PTL DEF Spec

\* Type correctness of the host, whatever the games return: in particular no
\* account of the token is ever overdrawn (TypeOK).
THEOREM TypeCorrect == Spec => []TypeOK
<1>1. QED BY Invariance, PTL DEF IInv

\* A session is settled exactly once, whatever stale calldata is echoed
\* (SettledExactlyOnce).
THEOREM SettledOnce == Spec => []SettledExactlyOnce
<1>1. QED BY Invariance, PTL DEF IInv

\* Over all the steps of a session, and however it ends, neither the player
\* nor the house loses more than the caps quoted when it opened
\* (WithinQuotedCaps).
THEOREM QuotedCapsHold == Spec => []WithinQuotedCaps
<1>1. QED BY Invariance, PTL DEF IInv

\* A session moves one step at a time on the terms it was opened with, and
\* never comes back once closed (StepByStep).
THEOREM SessionsMoveStepByStep == Spec => StepByStep
<1> DEFINE Moves ==
      \A i \in SessionIds :
        LET old == sessionCommitments[i]
            new == sessionCommitments'[i]
        IN  new # old /\ i <= currentSessionId =>
              /\ IsOpen(i)
              /\ new # NoCommitment =>
                   /\ new.step = old.step + 1
                   /\ \A f \in {"sessionId", "player", "game", "wagerBase", "gameData",
                                "maxEscrowStake", "maxReservedProfit", "riskMaxPayout"} : new[f] = old[f]
<1>1. ASSUME IInv, [Next]_vars PROVE Moves
  <2>1. CASE OtherStep
    BY <2>1 DEF OtherStep
  <2>2. CASE SessionStep
    <3>1. PICK s \in CasinoSession, b \in [Accounts -> Nat], taken \in Nat, t \in CasinoSession :
            Stepped(t, s, b) /\ StepContext(s, b, taken)
      BY <2>2 DEF SessionStep
    <3>2. /\ s.sessionId \in SessionIds /\ s # NoCommitment
          /\ sessionCommitments \in [SessionIds -> CasinoSession \cup {NoCommitment}]
          /\ currentSessionId \in Nat
      <4>1. s.sessionId \in SessionIds
        BY DEF CasinoSession
      <4>2. s # NoCommitment
        BY ConstantsAssumption
      <4>3. QED BY <4>1, <4>2, <1>1, ConstantsAssumption DEF IInv, TypeOK
    <3> SUFFICES ASSUME NEW i \in SessionIds, i <= currentSessionId,
                        sessionCommitments'[i] # sessionCommitments[i]
                 PROVE  /\ IsOpen(i)
                        /\ sessionCommitments'[i] # NoCommitment =>
                             /\ sessionCommitments'[i].step = sessionCommitments[i].step + 1
                             /\ \A f \in {"sessionId", "player", "game", "wagerBase",
                                          "gameData", "maxEscrowStake", "maxReservedProfit",
                                          "riskMaxPayout"} :
                                   sessionCommitments'[i][f] = sessionCommitments[i][f]
      BY DEF Moves
    <3>3. i = s.sessionId /\ sessionCommitments'[i] \in {t, NoCommitment}
      BY <3>1, <3>2 DEF Stepped, Waits, Closes
    <3>4. sessionCommitments[i] = s
      BY <3>1, <3>2, <3>3 DEF StepContext
    <3>5. IsOpen(i)
      BY <3>2, <3>4 DEF IsOpen
    <3>6. ASSUME sessionCommitments'[i] # NoCommitment
          PROVE  sessionCommitments'[i] = t /\ Waits(t, s, b)
      BY <3>1, <3>2, <3>3, <3>6 DEF Stepped, Closes
    <3>7. SameTerms(t, s)
      BY <3>1 DEF Stepped
    <3>8. \A f \in {"sessionId", "player", "game", "wagerBase", "gameData",
                  "maxEscrowStake", "maxReservedProfit", "riskMaxPayout"} : t[f] = s[f]
      BY <3>7 DEF SameTerms
    <3>9. Waits(t, s, b) => t.step = s.step + 1
      BY DEF Waits
    <3> HIDE DEF Moves
    <3>10. QED BY <3>4, <3>5, <3>6, <3>8, <3>9
  <2>3. QED BY <1>1, <2>1, <2>2, NextStep
<1>2. IInv /\ [Next]_vars => [Moves]_vars
  BY <1>1
<1>3. QED BY <1>2, Invariance, PTL DEF Spec, StepByStep, Moves

\* The status the refinement mapping gives the sessions.
Status ==
  [i \in SessionIds |-> IF i > currentSessionId THEN "new"
                        ELSE IF IsOpen(i) THEN "open" ELSE "closed"]

\* A step of one session opens it or advances it in SessionRisk.
LEMMA StepRefines ==
  ASSUME IInv, IInv', SessionStep
  PROVE  Promise!Next
<1>1. PICK s \in CasinoSession, b \in [Accounts -> Nat], taken \in Nat, t \in CasinoSession :
        Stepped(t, s, b) /\ StepTypeOK /\ TrackNet(s) /\ StepContext(s, b, taken)
  BY DEF SessionStep
<1> DEFINE i == s.sessionId
<1>2. /\ i \in SessionIds /\ s # NoCommitment /\ t # NoCommitment
      /\ sessionCommitments \in [SessionIds -> CasinoSession \cup {NoCommitment}]
      /\ net \in [SessionIds -> Int] /\ net' \in [SessionIds -> Int]
      /\ caps' \in [SessionIds -> Caps] /\ currentSessionId \in Nat
  <2>1. i \in SessionIds
    BY DEF CasinoSession
  <2>2. s # NoCommitment /\ t # NoCommitment
    BY ConstantsAssumption
  <2>3. MaxSessions \in Nat
    BY ConstantsAssumption
  <2>4. currentSessionId \in Nat
    BY <2>3 DEF IInv, TypeOK
  <2>5. QED BY <2>1, <2>2, <2>4 DEF IInv, TypeOK
<1>3. /\ \A j \in SessionIds \ {i} : sessionCommitments'[j] = sessionCommitments[j]
      /\ sessionCommitments'[i] \in {t, NoCommitment}
      /\ sessionCommitments'[i] = t => net'[i] <= 0
  <2>1. /\ \A j \in SessionIds \ {i} : sessionCommitments'[j] = sessionCommitments[j]
        /\ sessionCommitments'[i] \in {t, NoCommitment}
    BY <1>1, <1>2 DEF Stepped, Waits, Closes
  <2>2. sessionCommitments'[i] = t => net'[i] = -t.escrowedStake
    BY <1>2 DEF IInv, WithinQuotedCaps, IsOpen
  <2>3. t.escrowedStake \in Nat
    BY DEF CasinoSession
  <2>4. QED BY <2>1, <2>2, <2>3
<1> HIDE DEF i
<1>4. net' = [net EXCEPT ![i] = net'[i]]
  BY <1>1, <1>2 DEF TrackNet, i
<1>5. -caps'[i].maxEscrowStake <= net'[i] /\ net'[i] <= caps'[i].maxReservedProfit
  BY <1>2 DEF IInv, WithinQuotedCaps
<1>6. /\ net'[i] \in -caps'[i].maxEscrowStake..caps'[i].maxReservedProfit
      /\ sessionCommitments'[i] = t => net'[i] \in -caps'[i].maxEscrowStake..0
  <2>1. caps'[i].maxEscrowStake \in Nat /\ caps'[i].maxReservedProfit \in Nat /\ net'[i] \in Int
    BY <1>2 DEF Caps
  <2>2. QED BY <1>3, <1>5, <2>1
<1>7. i <= currentSessionId' /\ (\A j \in SessionIds \ {i} : j > currentSessionId' <=> j > currentSessionId)
  BY <1>1, <1>2 DEF StepContext, SessionIds, i
<1>8. Status' = [Status EXCEPT ![i] = IF sessionCommitments'[i] = t THEN "open" ELSE "closed"]
  <2>1. Status' = [j \in SessionIds |-> IF j > currentSessionId' THEN "new"
                     ELSE IF sessionCommitments'[j] # NoCommitment THEN "open" ELSE "closed"]
    BY DEF Status, IsOpen
  <2>2. ~(i > currentSessionId')
    BY <1>2, <1>7, ConstantsAssumption DEF SessionIds, IInv, TypeOK
  <2>3. /\ Status \in [SessionIds -> {"new", "open", "closed"}]
        /\ \A j \in SessionIds \ {i} : Status'[j] = Status[j]
    BY <1>3, <1>7, <2>1 DEF Status, IsOpen
  <2>4. Status'[i] = IF sessionCommitments'[i] = t THEN "open" ELSE "closed"
    BY <1>2, <1>3, <2>1, <2>2
  <2>5. Status' \in [SessionIds -> {"new", "open", "closed"}]
    BY <2>1
  <2> HIDE DEF Status
  <2>6. QED BY <1>2, <2>3, <2>4, <2>5
<1>9. Promise!Position(i, caps'[i])
  <2>1. CASE sessionCommitments'[i] = t
    BY <2>1, <1>4, <1>6, <1>8 DEF Promise!Position, Status
  <2>2. CASE sessionCommitments'[i] = NoCommitment
    BY <2>2, <1>2, <1>4, <1>6, <1>8 DEF Promise!Position, Status
  <2>3. QED BY <1>3, <2>1, <2>2
<1>10. CASE /\ sessionCommitments[i] = s /\ i <= currentSessionId
            /\ currentSessionId' = currentSessionId /\ caps' = caps
  <2>1. Status[i] = "open"
    BY <1>2, <1>10 DEF Status, IsOpen, SessionIds
  <2>2. Promise!Advance(i)
    <3>1. caps'[i] = caps[i]
      BY <1>10
    <3>2. Promise!Position(i, caps[i])
      BY <1>9, <3>1 DEF Promise!Position
    <3>3. QED BY <1>10, <2>1, <3>2 DEF Promise!Advance, Status
  <2>3. QED BY <1>2, <2>2 DEF Promise!Next
<1>11. CASE /\ i = currentSessionId + 1 /\ currentSessionId' = currentSessionId + 1
            /\ \E c \in Caps : caps' = [caps EXCEPT ![i] = c]
  <2>1. Status[i] = "new"
    <3>1. i > currentSessionId
      BY <1>2, <1>11
    <3>2. QED BY <1>2, <3>1 DEF Status
  <2>2. caps'[i] \in Promise!Bounds /\ caps' = [caps EXCEPT ![i] = caps'[i]]
    <3>1. caps'[i] \in Promise!Bounds
      BY <1>2 DEF Promise!Bounds, Caps
    <3>2. caps \in [SessionIds -> Caps]
      BY DEF IInv, TypeOK
    <3>3. QED BY <1>2, <1>11, <3>1, <3>2
  <2>3. Promise!Open(i)
    BY <1>9, <2>1, <2>2 DEF Promise!Open, Status
  <2>4. QED BY <1>2, <2>3 DEF Promise!Next
<1>12. QED BY <1>1, <1>10, <1>11 DEF StepContext, i

\* The host implements the promise of SessionRisk: whatever the games return,
\* every step opens, moves or closes one session within its quoted caps
\* (ImplementsSessionRisk).
THEOREM HostImplementsSessionRisk == Spec => ImplementsSessionRisk
<1>1. Init => Promise!Init
  <2> SUFFICES ASSUME Init PROVE Promise!Init
    OBVIOUS
  <2>1. Status = [i \in SessionIds |-> "new"]
    BY DEF Init, Status, SessionIds
  <2>2. QED BY <2>1 DEF Init, Promise!Init, Status
<1>2. IInv /\ [Next]_vars /\ IInv' => [Promise!Next]_<<Status, caps, net>>
  <2> SUFFICES ASSUME IInv, IInv', [Next]_vars
               PROVE  Promise!Next \/ UNCHANGED <<Status, caps, net>>
    OBVIOUS
  <2>1. CASE SessionStep
    BY <2>1, StepRefines
  <2>2. CASE OtherStep
    BY <2>2 DEF OtherStep, Status, IsOpen
  <2>3. QED BY <2>1, <2>2, NextStep
<1>3. QED BY <1>1, <1>2, Invariance, PTL DEF Spec, ImplementsSessionRisk, Promise!Spec, Status

-----------------------------------------------------------------------------
(* Money: NoUnsolicitedDebit, RefundedInFull and EscrowBacked.             *)

\* A settlement takes nothing from any player.
LEMMA FinalizeCharges ==
  ASSUME NEW s \in CasinoSession, NEW phase, NEW payout \in Nat,
         NEW b \in [Accounts -> Nat],
         FinalizeSession(s, phase, payout, b),
         NEW p \in Players
  PROVE  balanceOf'[p] >= b[p]
<1> DEFINE fromEscrow == IF payout > s.escrowedStake THEN s.escrowedStake ELSE payout
           fromVault == payout - fromEscrow
           escrowToVault == s.escrowedStake - fromEscrow
           b1 == Transfer(b, Host, s.player, fromEscrow)
           paid == Transfer(b1, Vault, s.player, fromVault)
<1>1. balanceOf' = Transfer(paid, Host, Vault, escrowToVault)
  BY DEF FinalizeSession
<1>2. /\ s.player \in Players /\ s.escrowedStake \in Nat
      /\ Players \subseteq Accounts /\ Host \in Accounts /\ Vault \in Accounts
      /\ Host \notin Players /\ Vault \notin Players
  BY ConstantsAssumption DEF CasinoSession, Accounts
<1>3. fromEscrow \in Nat /\ fromVault \in Nat /\ escrowToVault \in Nat
  BY <1>2
<1> HIDE DEF fromEscrow, fromVault, escrowToVault
<1>4. b1 \in [Accounts -> Int] /\ b1[p] >= b[p]
  <2>1. b1 = [b EXCEPT ![Host] = @ - fromEscrow, ![s.player] = @ + fromEscrow]
    BY DEF Transfer
  <2> HIDE DEF b1
  <2>2. QED BY <1>2, <1>3, <2>1
<1>5. paid \in [Accounts -> Int] /\ paid[p] >= b1[p]
  <2>1. paid = [b1 EXCEPT ![Vault] = @ - fromVault, ![s.player] = @ + fromVault]
    BY DEF Transfer
  <2> HIDE DEF b1, paid
  <2>2. QED BY <1>2, <1>3, <1>4, <2>1
<1>6. balanceOf'[p] = paid[p]
  <2>1. balanceOf' = [paid EXCEPT ![Host] = @ - escrowToVault, ![Vault] = @ + escrowToVault]
    BY <1>1 DEF Transfer
  <2> HIDE DEF paid
  <2>2. QED BY <1>2, <1>5, <2>1
<1> HIDE DEF b1, paid
<1>7. QED BY <1>2, <1>4, <1>5, <1>6

\* A step charges at most the session's own player, and only where the caller
\* of _processStepResult allows an increase of the escrow.
LEMMA StepCharges ==
  ASSUME NEW s \in CasinoSession, NEW r \in StepResult, NEW b \in [Accounts -> Nat],
         NEW q \in SUBSET CasinoSession, NEW allow \in BOOLEAN,
         ProcessStepResult(s, r, b, q, allow),
         balanceOf' \in [Accounts -> Nat],
         NEW p \in Players, balanceOf'[p] < b[p]
  PROVE  p = s.player /\ allow
<1> DEFINE next == ApplyStepDeltas(s, r)
           funded == Transfer(b, s.player, Host, r.escrowDelta)
<1>1. /\ StepDeltasAllowed(s, r, allow) /\ NoOverdraft(funded, {s.player, Host})
      /\ \/ balanceOf' = funded
         \/ /\ r.nextPhase \in TerminalPhases
            /\ FinalizeSession(next, r.nextPhase, r.payout, funded)
  BY DEF ProcessStepResult
<1>2. /\ s.player \in Players /\ r.escrowDelta \in Int /\ r.payout \in Nat
      /\ Players \subseteq Accounts /\ Host \in Accounts /\ Host \notin Players
  BY ConstantsAssumption DEF CasinoSession, StepResult, Accounts
<1>3. next \in CasinoSession
  BY <1>1, DeltasEffect
<1>4. /\ funded \in [Accounts -> Nat]
      /\ \A a \in Players : funded[a] < b[a] => a = s.player /\ r.escrowDelta > 0
  <2>1. /\ funded \in [Accounts -> Int]
        /\ funded[s.player] = b[s.player] - r.escrowDelta
        /\ \A a \in Accounts \ {s.player, Host} : funded[a] = b[a]
    BY <1>2 DEF Transfer
  <2> HIDE DEF funded
  <2>2. funded[s.player] >= 0 /\ funded[Host] >= 0
    BY <1>1 DEF NoOverdraft
  <2>3. \A a \in Accounts : funded[a] \in Nat
    BY <1>2, <2>1, <2>2
  <2>4. QED BY <1>2, <2>1, <2>3
<1> HIDE DEF next, funded
<1>5. balanceOf'[p] >= funded[p]
  <2>1. CASE balanceOf' = funded
    BY <1>2, <1>4, <2>1
  <2>2. CASE FinalizeSession(next, r.nextPhase, r.payout, funded)
    BY <1>2, <1>3, <1>4, <2>2, FinalizeCharges
  <2>3. QED BY <1>1, <2>1, <2>2
<1>6. balanceOf'[p] \in Int
  BY <1>2
<1>7. p = s.player /\ r.escrowDelta > 0
  BY <1>2, <1>4, <1>5, <1>6
<1>8. QED BY <1>1, <1>7 DEF StepDeltasAllowed

\* Only the session a step is given changes, and its request goes unless it is
\* asked for anew, which is one step further.
LEMMA StepMoves ==
  ASSUME TypeOK,
         NEW s \in CasinoSession, NEW r \in StepResult, NEW b \in [Accounts -> Nat],
         NEW q \in SUBSET CasinoSession, NEW allow \in BOOLEAN,
         ProcessStepResult(s, r, b, q, allow)
  PROVE  /\ \A i \in SessionIds :
              sessionCommitments'[i] # sessionCommitments[i] => i = s.sessionId
         /\ sessionCommitments'[s.sessionId] # NoCommitment =>
              sessionCommitments'[s.sessionId].player = s.player
         /\ s \notin q => s \notin requests'
         /\ balanceOf' \in [Accounts -> Nat]
<1>1. PICK t \in CasinoSession : Follows(t, s) /\ (Waits(t, s, b) \/ Closes(t, s, b))
  BY StepEffect
<1>2. StepTypeOK
  BY StepEffect
<1>3. /\ s.sessionId \in SessionIds
      /\ sessionCommitments \in [SessionIds -> CasinoSession \cup {NoCommitment}]
  BY DEF TypeOK, CasinoSession
<1>4. /\ sessionCommitments' = [sessionCommitments EXCEPT ![s.sessionId] = t]
         \/ sessionCommitments' = [sessionCommitments EXCEPT ![s.sessionId] = NoCommitment]
      /\ t.player = s.player
  BY <1>1 DEF Waits, Closes, Follows, SameTerms
<1>5. s \notin q => s \notin requests'
  <2> DEFINE next == ApplyStepDeltas(s, r)
             waiting == [next EXCEPT !.phase = r.nextPhase,
                                     !.deadlineBlock = block + RANDOMNESS_TIMEOUT_BLOCKS]
  <2>1. requests' = q \/ requests' = q \cup {waiting}
    BY DEF ProcessStepResult
  <2>2. StepDeltasAllowed(s, r, allow)
    BY DEF ProcessStepResult
  <2>3. next \in CasinoSession /\ next.step = s.step + 1
    BY <2>2, DeltasEffect DEF Follows
  <2> HIDE DEF next
  <2>4. waiting.step = s.step + 1
    BY <2>3 DEF CasinoSession
  <2>5. s.step \in Nat
    BY DEF CasinoSession
  <2> HIDE DEF waiting
  <2>6. QED BY <2>1, <2>4, <2>5
<1>6. QED BY <1>2, <1>3, <1>4, <1>5 DEF StepTypeOK

\* The same for an open session given to a step: it is its own commitment.
LEMMA OpenSessionMoves ==
  ASSUME IInv,
         NEW s \in CasinoSession, LoadSession(s), NEW r \in StepResult,
         NEW q \in SUBSET CasinoSession, NEW allow \in BOOLEAN,
         ProcessStepResult(s, r, balanceOf, q, allow)
  PROVE  /\ \A i \in SessionIds : sessionCommitments'[i] # sessionCommitments[i] =>
              i = s.sessionId /\ sessionCommitments[i] = s
         /\ s \notin q => s \notin requests'
         /\ IsOpen(s.sessionId)
         /\ sessionCommitments'[s.sessionId] # s
         /\ \A p \in Players : balanceOf'[p] < balanceOf[p] => p = s.player /\ allow
<1>1. TypeOK /\ balanceOf \in [Accounts -> Nat]
  BY DEF IInv, TypeOK
<1>2. /\ s.sessionId \in SessionIds /\ sessionCommitments[s.sessionId] = s
      /\ s # NoCommitment
  BY ConstantsAssumption DEF CasinoSession, LoadSession
<1>3. /\ \A i \in SessionIds :
           sessionCommitments'[i] # sessionCommitments[i] => i = s.sessionId
      /\ s \notin q => s \notin requests'
      /\ balanceOf' \in [Accounts -> Nat]
  BY <1>1, StepMoves
<1>4. \A p \in Players : balanceOf'[p] < balanceOf[p] => p = s.player /\ allow
  BY <1>1, <1>3, StepCharges
<1>5. sessionCommitments'[s.sessionId] # s
  <2>1. PICK t \in CasinoSession :
          Follows(t, s) /\ (Waits(t, s, balanceOf) \/ Closes(t, s, balanceOf))
    BY <1>1, StepEffect
  <2>2. sessionCommitments'[s.sessionId] \in {t, NoCommitment}
    BY <1>1, <1>2, <2>1 DEF Waits, Closes, TypeOK
  <2>3. t.step = s.step + 1 /\ s.step \in Nat
    BY <2>1 DEF Follows, CasinoSession
  <2>4. t # s
    BY <2>3
  <2>5. QED BY <1>2, <2>2, <2>4
<1>6. QED BY <1>2, <1>3, <1>4, <1>5 DEF IsOpen

\* An exit closes the session it is given and charges nobody.
LEMMA ExitMoves ==
  ASSUME IInv, NEW s \in CasinoSession, LoadSession(s),
         NEW phase \in TerminalPhases, NEW payout \in Nat,
         FinalizeSession(s, phase, payout, balanceOf)
  PROVE  /\ \A i \in SessionIds : sessionCommitments'[i] # sessionCommitments[i] =>
              i = s.sessionId /\ sessionCommitments[i] = s
         /\ \A p \in Players : ~(balanceOf'[p] < balanceOf[p])
         /\ balanceOf'[s.player] = balanceOf[s.player] + payout
         /\ net[s.sessionId] = -s.escrowedStake
<1>1. /\ TypeOK /\ balanceOf \in [Accounts -> Nat] /\ Players \subseteq Accounts
      /\ sessionCommitments \in [SessionIds -> CasinoSession \cup {NoCommitment}]
  BY DEF IInv, TypeOK, Accounts
<1>2. /\ s.sessionId \in SessionIds /\ sessionCommitments[s.sessionId] = s
      /\ s # NoCommitment
  BY ConstantsAssumption DEF CasinoSession, LoadSession
<1>3. /\ sessionCommitments' = [sessionCommitments EXCEPT ![s.sessionId] = NoCommitment]
      /\ balanceOf' \in [Accounts -> Nat]
      /\ balanceOf'[s.player] = balanceOf[s.player] + payout
  BY <1>1, FinalizeEffect
<1>4. \A p \in Players : balanceOf'[p] >= balanceOf[p]
  BY <1>1, FinalizeCharges
<1>5. \A p \in Players : ~(balanceOf'[p] < balanceOf[p])
  BY <1>1, <1>3, <1>4
<1>6. net[s.sessionId] = -s.escrowedStake
  BY <1>2 DEF IInv, WithinQuotedCaps, IsOpen
<1>7. \A i \in SessionIds : sessionCommitments'[i] # sessionCommitments[i] => i = s.sessionId
  BY <1>1, <1>2, <1>3
<1>8. QED BY <1>2, <1>3, <1>5, <1>6, <1>7

\* A forfeit pays a natural number of tokens.
LEMMA ForfeitPayoutType ==
  ASSUME NEW s \in CasinoSession, NEW quote \in Nat
  PROVE  ForfeitPayout(s, quote) \in Nat
<1> DEFINE maxAllowed == s.escrowedStake + s.reservedProfit
           clamped == IF quote > maxAllowed THEN maxAllowed ELSE quote
<1>1. s.escrowedStake \in Nat /\ s.reservedProfit \in Nat
  BY DEF CasinoSession
<1>2. clamped \in Nat
  BY <1>1
<1>3. ForfeitPayout(s, quote) = (clamped * 9000) \div 10000
  BY DEF ForfeitPayout, BASIS_POINTS, FORFEIT_WINNINGS_CUT_BPS
<1> HIDE DEF clamped
<1>4. QED BY <1>2, <1>3

\* openSession makes the next session, and charges nobody but its player.
LEMMA OpenSessionCharges ==
  ASSUME IInv, NEW p \in Players, NEW g \in Games, NEW v \in Accounts,
               NEW w \in Wagers, NEW d \in GameData,
         OpenSession(p, g, v, w, d)
  PROVE  LET i == currentSessionId + 1
         IN  /\ i \in SessionIds /\ i = currentSessionId'
             /\ \A j \in SessionIds : sessionCommitments'[j] # sessionCommitments[j] => j = i
             /\ sessionCommitments'[i] # NoCommitment => sessionCommitments'[i].player = p
             /\ \A a \in Players : balanceOf'[a] < balanceOf[a] => a = p
<1>1. /\ currentSessionId < MaxSessions /\ w <= balanceOf[p]
      /\ currentSessionId' = currentSessionId + 1
  BY DEF OpenSession
<1>2. PICK c \in Caps, risk \in RiskParams : \E r \in StepResult :
        ProcessStepResult(NewSession(p, g, w, d, c, risk), r,
                          Transfer(balanceOf, p, Host, w), requests, TRUE)
  BY DEF OpenSession
<1> DEFINE s == NewSession(p, g, w, d, c, risk)
           b == Transfer(balanceOf, p, Host, w)
<1>3. PICK r \in StepResult : ProcessStepResult(s, r, b, requests, TRUE)
  BY <1>2
<1>4. /\ Players \subseteq Accounts /\ Host \in Accounts /\ Host \notin Players
      /\ w \in Nat /\ MaxSessions \in Nat /\ EmptyState \in GameState
  BY ConstantsAssumption DEF Accounts
<1>5. /\ TypeOK /\ balanceOf \in [Accounts -> Nat] /\ currentSessionId \in 0..MaxSessions
      /\ requests \in SUBSET CasinoSession
  BY DEF IInv, TypeOK
<1>6. currentSessionId + 1 \in SessionIds
  BY <1>1, <1>4, <1>5 DEF SessionIds
<1>7. /\ b \in [Accounts -> Nat]
      /\ \A a \in Players : a # p => b[a] = balanceOf[a]
  <2>1. b = [balanceOf EXCEPT ![p] = @ - w, ![Host] = @ + w]
    BY DEF Transfer
  <2> HIDE DEF b
  <2>2. /\ b \in [Accounts -> Int] /\ b[p] = balanceOf[p] - w /\ b[Host] = balanceOf[Host] + w
        /\ \A a \in Accounts \ {p, Host} : b[a] = balanceOf[a]
    BY <1>4, <1>5, <2>1
  <2>3. \A a \in Accounts : b[a] \in Nat
    BY <1>1, <1>4, <1>5, <2>2
  <2>4. QED BY <1>4, <2>2, <2>3
<1>8. s \in CasinoSession /\ s.sessionId = currentSessionId + 1 /\ s.player = p
  <2>1. c.maxEscrowStake \in Nat /\ c.maxReservedProfit \in Nat /\ risk.maxPayout \in Nat
    BY DEF Caps, RiskParams
  <2>2. "NONE" \in SessionPhase
    BY DEF SessionPhase
  <2>3. QED BY <1>4, <1>6, <2>1, <2>2 DEF NewSession, CasinoSession
<1> HIDE DEF s, b
<1>9. /\ \A j \in SessionIds :
           sessionCommitments'[j] # sessionCommitments[j] => j = s.sessionId
      /\ sessionCommitments'[s.sessionId] # NoCommitment =>
           sessionCommitments'[s.sessionId].player = s.player
      /\ balanceOf' \in [Accounts -> Nat]
  BY <1>3, <1>5, <1>7, <1>8, StepMoves
<1>10. \A a \in Players : balanceOf'[a] < b[a] => a = s.player
  BY <1>3, <1>5, <1>7, <1>8, <1>9, StepCharges
<1>11. \A a \in Players : balanceOf'[a] < balanceOf[a] => a = p
  BY <1>7, <1>8, <1>10
<1>12. QED BY <1>1, <1>6, <1>8, <1>9, <1>11

-----------------------------------------------------------------------------
\* The host never takes tokens out of a player's wallet but by that player's own
\* transaction (NoUnsolicitedDebit): neither the router's callback nor an exit
\* anybody may call charges anyone.
THEOREM NobodyElseDebits == Spec => NoUnsolicitedDebit
<1> DEFINE Asked ==
      \A p \in Players :
        balanceOf'[p] < balanceOf[p] /\ SessionMoved =>
          \/ \E i \in SessionIds :
               /\ i = currentSessionId + 1 /\ i = currentSessionId'
               /\ sessionCommitments'[i] # NoCommitment => sessionCommitments'[i].player = p
          \/ \E i \in SessionIds :
               /\ IsOpen(i)
               /\ sessionCommitments'[i] # sessionCommitments[i]
               /\ sessionCommitments[i].player = p
               /\ sessionCommitments[i].phase = "WAITING_PLAYER_ACTION"
               /\ block <= sessionCommitments[i].deadlineBlock
<1>1. ASSUME IInv, [Next]_vars PROVE Asked
  <2>1. TypeOK /\ emitted \subseteq CasinoSession /\ requests \subseteq CasinoSession
    BY <1>1 DEF IInv, TypeOK
  <2> DEFINE Opened(p) ==
               \E i \in SessionIds :
                 /\ i = currentSessionId + 1 /\ i = currentSessionId'
                 /\ sessionCommitments'[i] # NoCommitment => sessionCommitments'[i].player = p
             Acted(p) ==
               \E i \in SessionIds :
                 /\ IsOpen(i)
                 /\ sessionCommitments'[i] # sessionCommitments[i]
                 /\ sessionCommitments[i].player = p
                 /\ sessionCommitments[i].phase = "WAITING_PLAYER_ACTION"
                 /\ block <= sessionCommitments[i].deadlineBlock
  <2> SUFFICES ASSUME NEW p \in Players, balanceOf'[p] < balanceOf[p], SessionMoved
               PROVE  Opened(p) \/ Acted(p)
    BY DEF Asked
  <2> HIDE DEF Asked
  <2>2. ASSUME UNCHANGED <<sessionCommitments, settlements>> PROVE FALSE
    BY <2>2 DEF SessionMoved
  <2>3. ASSUME NEW pl \in Players, NEW g \in Games, NEW v \in Accounts,
               NEW w \in Wagers, NEW d \in GameData,
               OpenSession(pl, g, v, w, d)
        PROVE  Opened(p)
    BY <1>1, <2>1, <2>3, OpenSessionCharges DEF Opened
  <2>4. ASSUME NEW pl \in Players, NEW s \in emitted, SubmitAction(pl, s)
        PROVE  Acted(p)
    <3>1. /\ s \in CasinoSession /\ LoadSession(s) /\ requests \in SUBSET CasinoSession
          /\ s.phase = "WAITING_PLAYER_ACTION" /\ block <= s.deadlineBlock
      BY <2>1, <2>4 DEF SubmitAction
    <3>2. PICK r \in StepResult : ProcessStepResult(s, r, balanceOf, requests, TRUE)
      BY <2>4 DEF SubmitAction
    <3>3. /\ IsOpen(s.sessionId) /\ sessionCommitments'[s.sessionId] # s /\ p = s.player
      BY <1>1, <3>1, <3>2, OpenSessionMoves
    <3>4. sessionCommitments[s.sessionId] = s /\ s.sessionId \in SessionIds
      BY <3>1 DEF LoadSession, CasinoSession
    <3>5. QED BY <3>1, <3>3, <3>4 DEF Acted
  <2>5. ASSUME NEW q \in requests, OnRandomnessFulfilled(q) PROVE FALSE
    <3>1. q \in CasinoSession /\ LoadSession(q) /\ requests \ {q} \in SUBSET CasinoSession
      BY <2>1, <2>5 DEF OnRandomnessFulfilled
    <3>2. PICK r \in StepResult : ProcessStepResult(q, r, balanceOf, requests \ {q}, FALSE)
      BY <2>5 DEF OnRandomnessFulfilled
    <3>3. QED BY <1>1, <3>1, <3>2, OpenSessionMoves
  <2>6. ASSUME NEW s \in emitted, CancelStuckRandomness(s) PROVE FALSE
    <3>1. /\ s \in CasinoSession /\ LoadSession(s) /\ s.escrowedStake \in Nat
          /\ "CANCELLED" \in TerminalPhases
      BY <2>1, <2>6 DEF CancelStuckRandomness, CasinoSession, TerminalPhases
    <3>2. QED BY <1>1, <2>6, <3>1, ExitMoves DEF CancelStuckRandomness
  <2>7. ASSUME NEW s \in emitted, ForfeitExpiredSession(s) PROVE FALSE
    <3>1. /\ s \in CasinoSession /\ LoadSession(s) /\ "FORFEITED" \in TerminalPhases
      BY <2>1, <2>7 DEF ForfeitExpiredSession, TerminalPhases
    <3>2. PICK quote \in Nat :
            FinalizeSession(s, "FORFEITED", ForfeitPayout(s, quote), balanceOf)
      BY <2>7 DEF ForfeitExpiredSession
    <3>3. QED BY <1>1, <3>1, <3>2, ExitMoves, ForfeitPayoutType
  <2>8. CASE UNCHANGED vars
    BY <2>2, <2>8 DEF vars
  <2>9. QED
    BY <1>1, <2>2, <2>3, <2>4, <2>5, <2>6, <2>7, <2>8
    DEF Next, MineBlock, RegisterGame, Mint, TransferTokens, FulfillmentLost
<1>2. IInv /\ [Next]_vars => [Asked]_vars
  BY <1>1
<1>3. QED BY <1>2, Invariance, PTL DEF Spec, NoUnsolicitedDebit, Asked

\* A session that leaves WAITING_RANDOMNESS without an answer from the router
\* leaves its player with what the player had before it opened (RefundedInFull).
THEOREM StuckDrawsAreRefunded == Spec => RefundedInFull
<1> DEFINE Refunded ==
      \A i \in SessionIds :
        /\ IsOpen(i) /\ sessionCommitments[i].phase = "WAITING_RANDOMNESS"
        /\ sessionCommitments'[i] # sessionCommitments[i]
        /\ requests' = requests
        => net'[i] = 0
<1>1. ASSUME IInv, [Next]_vars PROVE Refunded
  <2>1. /\ TypeOK /\ emitted \subseteq CasinoSession /\ requests \subseteq CasinoSession
        /\ balanceOf \in [Accounts -> Nat] /\ net \in [SessionIds -> Int]
    BY <1>1 DEF IInv, TypeOK
  <2> SUFFICES ASSUME NEW i \in SessionIds, IsOpen(i),
                      sessionCommitments[i].phase = "WAITING_RANDOMNESS",
                      sessionCommitments'[i] # sessionCommitments[i], requests' = requests
               PROVE  net'[i] = 0
    BY DEF Refunded
  <2> HIDE DEF Refunded
  <2>2. ASSUME UNCHANGED sessionCommitments PROVE FALSE
    BY <2>2
  <2>3. ASSUME NEW pl \in Players, NEW g \in Games, NEW v \in Accounts,
               NEW w \in Wagers, NEW d \in GameData,
               OpenSession(pl, g, v, w, d)
        PROVE  FALSE
    <3>1. i = currentSessionId + 1
      BY <1>1, <2>3, OpenSessionCharges
    <3>2. i > currentSessionId
      BY <2>1, <3>1 DEF TypeOK
    <3>3. QED BY <1>1, <3>2 DEF IInv, CommitmentsOK, IsOpen
  <2>4. ASSUME NEW pl \in Players, NEW s \in emitted, SubmitAction(pl, s)
        PROVE  FALSE
    <3>1. /\ s \in CasinoSession /\ LoadSession(s) /\ requests \in SUBSET CasinoSession
          /\ s.phase = "WAITING_PLAYER_ACTION"
      BY <2>1, <2>4 DEF SubmitAction
    <3>2. PICK r \in StepResult : ProcessStepResult(s, r, balanceOf, requests, TRUE)
      BY <2>4 DEF SubmitAction
    <3>3. sessionCommitments[i] = s
      BY <1>1, <3>1, <3>2, OpenSessionMoves
    <3>4. QED BY <3>1, <3>3
  <2>5. ASSUME NEW q \in requests, OnRandomnessFulfilled(q) PROVE FALSE
    <3>1. q \in CasinoSession /\ LoadSession(q) /\ requests \ {q} \in SUBSET CasinoSession
      BY <2>1, <2>5 DEF OnRandomnessFulfilled
    <3>2. PICK r \in StepResult : ProcessStepResult(q, r, balanceOf, requests \ {q}, FALSE)
      BY <2>5 DEF OnRandomnessFulfilled
    <3>3. q \notin requests'
      BY <1>1, <3>1, <3>2, OpenSessionMoves
    <3>4. QED BY <3>3
  <2>6. ASSUME NEW s \in emitted, CancelStuckRandomness(s) PROVE net'[i] = 0
    <3>1. /\ s \in CasinoSession /\ LoadSession(s) /\ s.escrowedStake \in Nat
          /\ "CANCELLED" \in TerminalPhases /\ s.player \in Accounts
          /\ FinalizeSession(s, "CANCELLED", s.escrowedStake, balanceOf) /\ TrackNet(s)
      BY <2>1, <2>6 DEF CancelStuckRandomness, CasinoSession, TerminalPhases, Accounts
    <3>2. /\ i = s.sessionId /\ net[s.sessionId] = -s.escrowedStake
          /\ balanceOf'[s.player] = balanceOf[s.player] + s.escrowedStake
      BY <1>1, <3>1, ExitMoves
    <3>3. net'[i] = net[i] + balanceOf'[s.player] - balanceOf[s.player]
      BY <2>1, <3>1, <3>2 DEF TrackNet
    <3>4. balanceOf[s.player] \in Nat
      BY <2>1, <3>1
    <3>5. QED BY <3>1, <3>2, <3>3, <3>4
  <2>7. ASSUME NEW s \in emitted, ForfeitExpiredSession(s) PROVE FALSE
    <3>1. /\ s \in CasinoSession /\ LoadSession(s) /\ "FORFEITED" \in TerminalPhases
          /\ s.phase = "WAITING_PLAYER_ACTION"
      BY <2>1, <2>7 DEF ForfeitExpiredSession, TerminalPhases
    <3>2. PICK quote \in Nat :
            FinalizeSession(s, "FORFEITED", ForfeitPayout(s, quote), balanceOf)
      BY <2>7 DEF ForfeitExpiredSession
    <3>3. sessionCommitments[i] = s
      BY <1>1, <3>1, <3>2, ExitMoves, ForfeitPayoutType
    <3>4. QED BY <3>1, <3>3
  <2>8. CASE UNCHANGED vars
    BY <2>2, <2>8 DEF vars
  <2>9. QED
    BY <1>1, <2>2, <2>3, <2>4, <2>5, <2>6, <2>7, <2>8
    DEF Next, MineBlock, RegisterGame, Mint, TransferTokens, FulfillmentLost
<1>2. IInv /\ [Next]_vars => [Refunded]_vars
  BY <1>1
<1>3. QED BY <1>2, Invariance, PTL DEF Spec, RefundedInFull, Refunded

-----------------------------------------------------------------------------
\* The accounts and the sessions are finite sets.
LEMMA FiniteAccounts ==
  /\ IsFiniteSet(Accounts) /\ IsFiniteSet(SessionIds)
  /\ Host \in Accounts /\ Vault \in Accounts /\ Players \subseteq Accounts
<1>1. IsFiniteSet(Players) /\ MaxSessions \in Nat
  BY ConstantsAssumption
<1>2. IsFiniteSet(Players \cup {Host})
  BY <1>1, FS_AddElement
<1>3. IsFiniteSet((Players \cup {Host}) \cup {Vault})
  BY <1>2, FS_AddElement
<1>4. Accounts = (Players \cup {Host}) \cup {Vault}
  BY DEF Accounts
<1>5. IsFiniteSet(SessionIds)
  BY <1>1, FS_Interval DEF SessionIds
<1>6. QED BY <1>3, <1>4, <1>5

\* Balances c are b with some tokens moved, and none made or lost.
TokensMoved(b, c, from, to, amount) ==
  /\ c \in [Accounts -> Int]
  /\ from = to => c = b
  /\ from # to => c[from] = b[from] - amount /\ c[to] = b[to] + amount
  /\ \A a \in Accounts \ {from, to} : c[a] = b[a]
  /\ SumFunction(c) = SumFunction(b)

\* That is what a transfer does.
LEMMA TransferMoves ==
  ASSUME NEW b \in [Accounts -> Int], NEW from \in Accounts, NEW to \in Accounts,
         NEW amount \in Int, NEW c, c = Transfer(b, from, to, amount)
  PROVE  TokensMoved(b, c, from, to, amount)
<1>1. c = [b EXCEPT ![from] = @ - amount, ![to] = @ + amount]
  BY DEF Transfer
<1>2. CASE from = to
  <2>1. c \in [Accounts -> Int] /\ c[from] = b[from] - amount + amount
        /\ \A a \in Accounts \ {from} : c[a] = b[a]
    BY <1>1, <1>2
  <2>2. \A a \in Accounts : c[a] = b[a]
    BY <2>1
  <2>3. c = b
    BY <2>1, <2>2
  <2>4. QED BY <1>2, <2>1, <2>3 DEF TokensMoved
<1>3. CASE from # to
  <2> DEFINE half == [b EXCEPT ![from] = @ - amount]
  <2>1. /\ c \in [Accounts -> Int]
        /\ c[from] = b[from] - amount /\ c[to] = b[to] + amount
        /\ \A a \in Accounts \ {from, to} : c[a] = b[a]
    BY <1>1, <1>3
  <2>2. /\ half \in [Accounts -> Int] /\ half[from] = b[from] - amount
        /\ \A a \in Accounts \ {from} : half[a] = b[a]
    OBVIOUS
  <2> HIDE DEF half
  <2>3. \A a \in Accounts \ {to} : c[a] = half[a]
    BY <2>1, <2>2
  <2>4. SumFunctionOnSet(half, Accounts) = SumFunctionOnSet(b, Accounts) + half[from] - b[from]
    BY <2>2, FiniteAccounts, SumUpdate
  <2>5. SumFunctionOnSet(c, Accounts) = SumFunctionOnSet(half, Accounts) + c[to] - half[to]
    BY <2>1, <2>2, <2>3, FiniteAccounts, SumUpdate
  <2>6. SumFunctionOnSet(b, Accounts) \in Int
    BY FiniteAccounts, SumType
  <2>7. half[to] = b[to]
    BY <1>3, <2>2
  <2>8. SumFunctionOnSet(c, Accounts) = SumFunctionOnSet(b, Accounts)
    BY <2>1, <2>2, <2>4, <2>5, <2>6, <2>7
  <2>9. SumFunction(c) = SumFunctionOnSet(c, Accounts) /\ SumFunction(b) = SumFunctionOnSet(b, Accounts)
    BY <2>1 DEF SumFunction
  <2>10. QED BY <1>3, <2>1, <2>8, <2>9 DEF TokensMoved
<1>4. QED BY <1>2, <1>3

\* _finalizeSession pays the escrow of the session out of the host, all of it,
\* and leaves the sum of the balances as it is.
LEMMA FinalizeEmptiesEscrow ==
  ASSUME NEW s \in CasinoSession, NEW phase, NEW payout \in Nat,
         NEW b \in [Accounts -> Nat], FinalizeSession(s, phase, payout, b)
  PROVE  /\ SumFunction(balanceOf') = SumFunction(b)
         /\ balanceOf'[Host] = b[Host] - s.escrowedStake
<1> DEFINE fromEscrow == IF payout > s.escrowedStake THEN s.escrowedStake ELSE payout
           fromVault == payout - fromEscrow
           escrowToVault == s.escrowedStake - fromEscrow
           b1 == Transfer(b, Host, s.player, fromEscrow)
           paid == Transfer(b1, Vault, s.player, fromVault)
<1>1. balanceOf' = Transfer(paid, Host, Vault, escrowToVault)
  BY DEF FinalizeSession
<1>2. /\ s.player \in Accounts /\ s.player # Host /\ s.player # Vault /\ Host # Vault
      /\ s.escrowedStake \in Nat
  BY ConstantsAssumption, FiniteAccounts DEF CasinoSession
<1>3. fromEscrow \in Int /\ fromVault \in Int /\ escrowToVault \in Int
      /\ b \in [Accounts -> Int]
  BY <1>2
<1>4. escrowToVault = s.escrowedStake - fromEscrow
  OBVIOUS
<1> HIDE DEF fromEscrow, fromVault, escrowToVault
<1>5. /\ b1 \in [Accounts -> Int] /\ b1[Host] = b[Host] - fromEscrow
      /\ SumFunction(b1) = SumFunction(b)
  <2>1. b1 = Transfer(b, Host, s.player, fromEscrow)
    OBVIOUS
  <2> HIDE DEF b1
  <2>2. TokensMoved(b, b1, Host, s.player, fromEscrow)
    BY <1>2, <1>3, <2>1, FiniteAccounts, TransferMoves
  <2>3. QED BY <1>2, <2>2 DEF TokensMoved
<1> HIDE DEF b1
<1>6. /\ paid \in [Accounts -> Int] /\ paid[Host] = b1[Host]
      /\ SumFunction(paid) = SumFunction(b1)
  <2>1. paid = Transfer(b1, Vault, s.player, fromVault)
    OBVIOUS
  <2> HIDE DEF paid
  <2>2. TokensMoved(b1, paid, Vault, s.player, fromVault)
    BY <1>2, <1>3, <1>5, <2>1, FiniteAccounts, TransferMoves
  <2>3. QED BY <1>2, <2>2, FiniteAccounts DEF TokensMoved
<1> HIDE DEF paid
<1>7. /\ balanceOf'[Host] = paid[Host] - escrowToVault
      /\ SumFunction(balanceOf') = SumFunction(paid)
  <2>1. TokensMoved(paid, balanceOf', Host, Vault, escrowToVault)
    BY <1>1, <1>2, <1>3, <1>6, FiniteAccounts, TransferMoves
  <2>2. QED BY <1>2, <2>1 DEF TokensMoved
<1>8. b[Host] \in Nat
  BY FiniteAccounts
<1>9. QED BY <1>2, <1>3, <1>4, <1>5, <1>6, <1>7, <1>8

\* What a commitment holds in escrow.
Held(c) == IF c # NoCommitment THEN c.escrowedStake ELSE 0

\* A step of session s from balances b, as the host's own balance sees it.
HostBooks(s, b) ==
  /\ SumFunction(balanceOf') = SumFunction(b)
  /\ balanceOf'[Host] = b[Host] - s.escrowedStake + Held(sessionCommitments'[s.sessionId])
  /\ \E c \in CasinoSession \cup {NoCommitment} :
       sessionCommitments' = [sessionCommitments EXCEPT ![s.sessionId] = c]

\* _processStepResult moves the host's balance with the session's escrow.
LEMMA StepBooks ==
  ASSUME TypeOK,
         NEW s \in CasinoSession, NEW r \in StepResult, NEW b \in [Accounts -> Nat],
         NEW q \in SUBSET CasinoSession, NEW allow \in BOOLEAN,
         ProcessStepResult(s, r, b, q, allow)
  PROVE  HostBooks(s, b)
<1> DEFINE next == ApplyStepDeltas(s, r)
           funded == Transfer(b, s.player, Host, r.escrowDelta)
           waiting(timeout) ==
             [next EXCEPT !.phase = r.nextPhase, !.deadlineBlock = block + timeout]
<1>1. StepDeltasAllowed(s, r, allow) /\ NoOverdraft(funded, {s.player, Host})
  BY DEF ProcessStepResult
<1>2. /\ next \in CasinoSession /\ next.sessionId = s.sessionId
      /\ next.escrowedStake = s.escrowedStake + r.escrowDelta
  BY <1>1, DeltasEffect DEF Follows, SameTerms
<1>3. /\ s.player \in Accounts /\ s.player # Host /\ s.sessionId \in SessionIds
      /\ s.escrowedStake \in Nat /\ next.escrowedStake \in Nat
      /\ r.escrowDelta \in Int /\ r.payout \in Nat /\ r.nextPhase \in SessionPhase
      /\ b[Host] \in Nat
      /\ sessionCommitments \in [SessionIds -> CasinoSession \cup {NoCommitment}]
  BY <1>2, ConstantsAssumption, FiniteAccounts DEF CasinoSession, StepResult, TypeOK
<1>4. /\ funded \in [Accounts -> Nat]
      /\ funded[Host] = b[Host] + r.escrowDelta
      /\ SumFunction(funded) = SumFunction(b)
  <2>0. funded = Transfer(b, s.player, Host, r.escrowDelta) /\ b \in [Accounts -> Int]
    OBVIOUS
  <2> HIDE DEF funded
  <2>1. /\ funded \in [Accounts -> Int]
        /\ SumFunction(funded) = SumFunction(b)
        /\ funded[s.player] = b[s.player] - r.escrowDelta
        /\ funded[Host] = b[Host] + r.escrowDelta
        /\ \A a \in Accounts \ {s.player, Host} : funded[a] = b[a]
    <3>1. TokensMoved(b, funded, s.player, Host, r.escrowDelta)
      BY <1>3, <2>0, FiniteAccounts, TransferMoves
    <3>2. QED BY <1>3, <3>1 DEF TokensMoved
  <2>2. funded[s.player] >= 0 /\ funded[Host] >= 0
    BY <1>1 DEF NoOverdraft
  <2>3. \A a \in Accounts : funded[a] \in Nat
    BY <1>3, <2>1, <2>2
  <2>4. QED BY <1>3, <2>1, <2>3, FiniteAccounts
<1> HIDE DEF next, funded
<1>5. ASSUME NEW timeout \in {RANDOMNESS_TIMEOUT_BLOCKS, ACTION_TIMEOUT_BLOCKS},
             CommitSession(waiting(timeout)), balanceOf' = funded
      PROVE  HostBooks(s, b)
  <2> DEFINE t == waiting(timeout)
  <2>1. block + timeout \in Nat
    <3>1. timeout \in Nat
      BY ConstantsAssumption
    <3>2. block \in Nat
      BY DEF TypeOK
    <3>3. QED BY <3>1, <3>2
  <2>2. /\ t \in CasinoSession /\ t.escrowedStake = next.escrowedStake
        /\ t.sessionId = s.sessionId
    BY <1>2, <1>3, <2>1 DEF CasinoSession
  <2>3. sessionCommitments' = [sessionCommitments EXCEPT ![s.sessionId] = t]
    BY <1>5, <2>2 DEF CommitSession
  <2> HIDE DEF t
  <2>4. Held(sessionCommitments'[s.sessionId]) = next.escrowedStake
    BY <1>3, <2>2, <2>3, ConstantsAssumption DEF Held
  <2>5. balanceOf'[Host] = b[Host] - s.escrowedStake + next.escrowedStake
    BY <1>2, <1>3, <1>4, <1>5
  <2>6. QED BY <1>4, <1>5, <2>2, <2>3, <2>4, <2>5 DEF HostBooks
<1>6. CASE /\ r.nextPhase = "WAITING_RANDOMNESS"
           /\ CommitSession(waiting(RANDOMNESS_TIMEOUT_BLOCKS))
           /\ balanceOf' = funded
  BY <1>5, <1>6
<1>7. CASE /\ r.nextPhase = "WAITING_PLAYER_ACTION"
           /\ CommitSession(waiting(ACTION_TIMEOUT_BLOCKS))
           /\ balanceOf' = funded
  BY <1>5, <1>7
<1>8. CASE FinalizeSession(next, r.nextPhase, r.payout, funded)
  <2>1. /\ SumFunction(balanceOf') = SumFunction(funded)
        /\ balanceOf'[Host] = funded[Host] - next.escrowedStake
    BY <1>2, <1>3, <1>4, <1>8, FinalizeEmptiesEscrow
  <2>2. sessionCommitments' = [sessionCommitments EXCEPT ![s.sessionId] = NoCommitment]
    BY <1>2, <1>8 DEF FinalizeSession
  <2>3. Held(sessionCommitments'[s.sessionId]) = 0
    BY <1>3, <2>2 DEF Held
  <2>4. balanceOf'[Host] = b[Host] - s.escrowedStake + 0
    BY <1>2, <1>3, <1>4, <2>1
  <2>5. QED BY <1>4, <2>1, <2>2, <2>3, <2>4 DEF HostBooks
<1>9. QED
  BY <1>6, <1>7, <1>8 DEF ProcessStepResult, next, funded

-----------------------------------------------------------------------------
\* The escrow of all the sessions, as a sum over a set and in the next state.
LEMMA EscrowedSum ==
  /\ Escrowed = SumFunctionOnSet([i \in SessionIds |-> Held(sessionCommitments[i])], SessionIds)
  /\ Escrowed' = SumFunctionOnSet([i \in SessionIds |-> Held(sessionCommitments'[i])], SessionIds)
<1>1. Escrowed = SumFunctionOnSet([i \in SessionIds |-> Held(sessionCommitments[i])], SessionIds)
  BY DEF Escrowed, SumFunction, EscrowOf, IsOpen, Held
<1>2. Escrowed' = SumFunctionOnSet([i \in SessionIds |-> Held(sessionCommitments'[i])], SessionIds)
  BY DEF Escrowed, SumFunction, EscrowOf, IsOpen, Held
<1>3. QED BY <1>1, <1>2

\* A commitment holds a natural number of tokens.
LEMMA HeldType ==
  ASSUME NEW c \in CasinoSession \cup {NoCommitment}
  PROVE  Held(c) \in Nat
BY DEF Held, CasinoSession

\* When one commitment changes, the escrow changes by what it holds.
LEMMA EscrowedChange ==
  ASSUME TypeOK, NEW i \in SessionIds, NEW c \in CasinoSession \cup {NoCommitment},
         sessionCommitments' = [sessionCommitments EXCEPT ![i] = c]
  PROVE  /\ Escrowed \in Int
         /\ Escrowed' = Escrowed + Held(sessionCommitments'[i]) - Held(sessionCommitments[i])
<1> DEFINE f == [j \in SessionIds |-> Held(sessionCommitments[j])]
           g == [j \in SessionIds |-> Held(sessionCommitments'[j])]
<1>1. sessionCommitments \in [SessionIds -> CasinoSession \cup {NoCommitment}]
  BY DEF TypeOK
<1>2. \A j \in SessionIds : sessionCommitments'[j] = IF j = i THEN c ELSE sessionCommitments[j]
  BY <1>1
<1>3. \A j \in SessionIds : f[j] \in Int
  BY <1>1, HeldType
<1>4. (\A j \in SessionIds \ {i} : g[j] = f[j]) /\ g[i] \in Int
  BY <1>2, HeldType
<1>5. f[i] = Held(sessionCommitments[i]) /\ g[i] = Held(sessionCommitments'[i])
  OBVIOUS
<1>6. Escrowed = SumFunctionOnSet(f, SessionIds) /\ Escrowed' = SumFunctionOnSet(g, SessionIds)
  BY EscrowedSum
<1> HIDE DEF f, g
<1>7. SumFunctionOnSet(g, SessionIds) = SumFunctionOnSet(f, SessionIds) + g[i] - f[i]
  BY <1>3, <1>4, FiniteAccounts, SumUpdate
<1>8. SumFunctionOnSet(f, SessionIds) \in Int
  BY <1>3, FiniteAccounts, SumType
<1>9. QED BY <1>5, <1>6, <1>7, <1>8

\* The host's balance moves with the escrow.
EscrowMoves == balanceOf'[Host] - balanceOf[Host] = Escrowed' - Escrowed

\* A step of a session from balances b, in which the host has been paid what
\* the session holds and its commitment does not yet say.
LEMMA StepKeepsSolvent ==
  ASSUME IInv, IInv', Solvent, NEW s \in CasinoSession, NEW b \in [Accounts -> Nat],
         HostBooks(s, b), SumFunction(b) = SumFunction(balanceOf),
         b[Host] = balanceOf[Host] + s.escrowedStake - Held(sessionCommitments[s.sessionId]),
         totalSupply' = totalSupply
  PROVE  Solvent' /\ EscrowMoves
<1> DEFINE i == s.sessionId
<1>1. /\ i \in SessionIds /\ s.escrowedStake \in Nat
      /\ balanceOf[Host] \in Nat /\ balanceOf'[Host] \in Nat
      /\ sessionCommitments[i] \in CasinoSession \cup {NoCommitment}
      /\ sessionCommitments'[i] \in CasinoSession \cup {NoCommitment}
  BY FiniteAccounts DEF CasinoSession, IInv, TypeOK
<1>2. PICK c \in CasinoSession \cup {NoCommitment} :
        sessionCommitments' = [sessionCommitments EXCEPT ![i] = c]
  BY DEF HostBooks
<1>3. /\ Escrowed \in Int
      /\ Escrowed' = Escrowed + Held(sessionCommitments'[i]) - Held(sessionCommitments[i])
  BY <1>1, <1>2, EscrowedChange DEF IInv
<1>4. Held(sessionCommitments[i]) \in Nat /\ Held(sessionCommitments'[i]) \in Nat
  BY <1>1, HeldType
<1>5. /\ SumFunction(balanceOf') = SumFunction(b)
      /\ balanceOf'[Host] = b[Host] - s.escrowedStake + Held(sessionCommitments'[i])
  BY DEF HostBooks
<1> HIDE DEF i
<1>6. balanceOf'[Host] = balanceOf[Host] - Held(sessionCommitments[i]) + Held(sessionCommitments'[i])
  BY <1>1, <1>4, <1>5 DEF i
<1>7. EscrowMoves
  BY <1>1, <1>3, <1>4, <1>6 DEF EscrowMoves
<1>8. SumFunction(balanceOf)' = totalSupply'
  BY <1>5 DEF Solvent
<1>9. balanceOf'[Host] >= Escrowed'
  BY <1>1, <1>3, <1>4, <1>6 DEF Solvent
<1>10. QED BY <1>7, <1>8, <1>9 DEF Solvent

\* A step that leaves the sessions alone, creates as many tokens as it adds to
\* the supply, and takes none from the host.
LEMMA RestKeepsSolvent ==
  ASSUME IInv, IInv', Solvent, UNCHANGED <<sessionCommitments, settlements>>,
         SumFunction(balanceOf') - SumFunction(balanceOf) = totalSupply' - totalSupply,
         balanceOf'[Host] >= balanceOf[Host]
  PROVE  Solvent' /\ ~SessionMoved
<1>1. ~SessionMoved
  BY DEF SessionMoved
<1>2. Escrowed' = Escrowed
  BY EscrowedSum
<1>3. /\ balanceOf \in [Accounts -> Nat] /\ balanceOf' \in [Accounts -> Nat]
      /\ totalSupply \in Nat /\ totalSupply' \in Nat
  BY DEF IInv, TypeOK
<1>4. SumFunction(balanceOf) \in Int /\ SumFunction(balanceOf') \in Int
  <2>1. SumFunction(balanceOf) = SumFunctionOnSet(balanceOf, Accounts)
        /\ SumFunction(balanceOf') = SumFunctionOnSet(balanceOf', Accounts)
    BY <1>3 DEF SumFunction
  <2>2. (\A a \in Accounts : balanceOf[a] \in Int) /\ (\A a \in Accounts : balanceOf'[a] \in Int)
    BY <1>3
  <2>3. QED BY <2>1, <2>2, FiniteAccounts, SumType
<1>5. SumFunction(balanceOf)' = totalSupply'
  BY <1>3, <1>4 DEF Solvent
<1>6. Escrowed \in Int
  <2> DEFINE f == [j \in SessionIds |-> Held(sessionCommitments[j])]
  <2>1. \A j \in SessionIds : f[j] \in Int
    BY HeldType DEF IInv, TypeOK
  <2>2. Escrowed = SumFunctionOnSet(f, SessionIds)
    BY EscrowedSum
  <2> HIDE DEF f
  <2>3. QED BY <2>1, <2>2, FiniteAccounts, SumType
<1>7. balanceOf'[Host] >= Escrowed'
  <2>1. balanceOf[Host] \in Int /\ balanceOf'[Host] \in Int
    BY <1>3, FiniteAccounts
  <2>2. QED BY <1>2, <1>6, <2>1 DEF Solvent
<1>8. QED BY <1>1, <1>5, <1>7 DEF Solvent

\* openSession, whose step starts from the balances with the wager taken.
LEMMA OpenKeepsSolvent ==
  ASSUME IInv, IInv', Solvent,
         NEW p \in Players, NEW g \in Games, NEW v \in Accounts,
         NEW w \in Wagers, NEW d \in GameData,
         OpenSession(p, g, v, w, d)
  PROVE  Solvent' /\ EscrowMoves
<1>1. /\ currentSessionId < MaxSessions /\ w <= balanceOf[p] /\ totalSupply' = totalSupply
      /\ currentSessionId' = currentSessionId + 1
  BY DEF OpenSession
<1> DEFINE b == Transfer(balanceOf, p, Host, w)
<1>2. PICK c \in Caps, risk \in RiskParams : \E r \in StepResult :
        ProcessStepResult(NewSession(p, g, w, d, c, risk), r, b, requests, TRUE)
  BY DEF OpenSession
<1> DEFINE s == NewSession(p, g, w, d, c, risk)
<1>3. PICK r \in StepResult : ProcessStepResult(s, r, b, requests, TRUE)
  BY <1>2
<1>4. /\ p \in Accounts /\ Host \in Accounts /\ p # Host
      /\ w \in Nat /\ MaxSessions \in Nat /\ EmptyState \in GameState
  BY ConstantsAssumption DEF Accounts
<1>5. /\ TypeOK /\ balanceOf \in [Accounts -> Nat] /\ currentSessionId \in 0..MaxSessions
      /\ requests \in SUBSET CasinoSession
  BY DEF IInv, TypeOK
<1>6. currentSessionId + 1 \in SessionIds
  BY <1>1, <1>4, <1>5 DEF SessionIds
<1>7. /\ b \in [Accounts -> Nat] /\ b[Host] = balanceOf[Host] + w
      /\ SumFunction(b) = SumFunction(balanceOf)
  <2>1. b = Transfer(balanceOf, p, Host, w) /\ balanceOf \in [Accounts -> Int]
    BY <1>5
  <2> HIDE DEF b
  <2>2. TokensMoved(balanceOf, b, p, Host, w)
    BY <1>4, <2>1, TransferMoves
  <2>3. /\ b \in [Accounts -> Int] /\ b[p] = balanceOf[p] - w /\ b[Host] = balanceOf[Host] + w
        /\ \A a \in Accounts \ {p, Host} : b[a] = balanceOf[a]
        /\ SumFunction(b) = SumFunction(balanceOf)
    BY <1>4, <2>2 DEF TokensMoved
  <2>4. \A a \in Accounts : b[a] \in Nat
    BY <1>1, <1>4, <1>5, <2>3
  <2>5. QED BY <2>3, <2>4
<1>8. s \in CasinoSession /\ s.sessionId = currentSessionId + 1 /\ s.escrowedStake = w
  <2>1. c.maxEscrowStake \in Nat /\ c.maxReservedProfit \in Nat /\ risk.maxPayout \in Nat
    BY DEF Caps, RiskParams
  <2>2. "NONE" \in SessionPhase
    BY DEF SessionPhase
  <2>3. QED BY <1>4, <1>6, <2>1, <2>2 DEF NewSession, CasinoSession
<1> HIDE DEF s, b
<1>9. HostBooks(s, b)
  BY <1>3, <1>5, <1>7, <1>8, StepBooks
<1>10. Held(sessionCommitments[s.sessionId]) = 0
  <2>1. currentSessionId + 1 > currentSessionId
    BY <1>5
  <2>2. QED BY <1>6, <1>8, <2>1 DEF IInv, CommitmentsOK, Held
<1>11. b[Host] = balanceOf[Host] + s.escrowedStake - Held(sessionCommitments[s.sessionId])
  <2>1. balanceOf[Host] \in Nat
    BY <1>4, <1>5
  <2>2. QED BY <1>4, <1>7, <1>8, <1>10, <2>1
<1>12. QED BY <1>1, <1>7, <1>8, <1>9, <1>11, StepKeepsSolvent

\* An open session, stepped or closed.
LEMMA OpenSessionKeepsSolvent ==
  ASSUME IInv, IInv', Solvent, NEW s \in CasinoSession, LoadSession(s),
         HostBooks(s, balanceOf), totalSupply' = totalSupply
  PROVE  Solvent' /\ EscrowMoves
<1>1. balanceOf \in [Accounts -> Nat] /\ balanceOf[Host] \in Nat /\ s.escrowedStake \in Nat
  BY FiniteAccounts DEF IInv, TypeOK, CasinoSession
<1>2. Held(sessionCommitments[s.sessionId]) = s.escrowedStake
  BY ConstantsAssumption DEF LoadSession, Held
<1>3. balanceOf[Host] = balanceOf[Host] + s.escrowedStake - Held(sessionCommitments[s.sessionId])
  BY <1>1, <1>2
<1>4. QED BY <1>1, <1>3, StepKeepsSolvent

\* An exit pays the escrow out, all of it.
LEMMA ExitBooks ==
  ASSUME TypeOK, NEW s \in CasinoSession, NEW phase, NEW payout \in Nat,
         FinalizeSession(s, phase, payout, balanceOf)
  PROVE  HostBooks(s, balanceOf)
<1>1. /\ balanceOf \in [Accounts -> Nat] /\ balanceOf[Host] \in Nat /\ s.escrowedStake \in Nat
      /\ s.sessionId \in SessionIds
      /\ sessionCommitments \in [SessionIds -> CasinoSession \cup {NoCommitment}]
  BY FiniteAccounts DEF TypeOK, CasinoSession
<1>2. /\ SumFunction(balanceOf') = SumFunction(balanceOf)
      /\ balanceOf'[Host] = balanceOf[Host] - s.escrowedStake
  BY <1>1, FinalizeEmptiesEscrow
<1>3. sessionCommitments' = [sessionCommitments EXCEPT ![s.sessionId] = NoCommitment]
  BY DEF FinalizeSession
<1>4. Held(sessionCommitments'[s.sessionId]) = 0
  BY <1>1, <1>3 DEF Held
<1>5. balanceOf'[Host] = balanceOf[Host] - s.escrowedStake + 0
  BY <1>1, <1>2
<1>6. QED BY <1>2, <1>3, <1>4, <1>5 DEF HostBooks

\* Every step keeps the host solvent and moves its balance with the escrow.
LEMMA NextSolvent ==
  ASSUME IInv, IInv', Solvent, [Next]_vars
  PROVE  Solvent' /\ (SessionMoved => EscrowMoves)
<1>1. /\ TypeOK /\ emitted \subseteq CasinoSession /\ requests \subseteq CasinoSession
      /\ balanceOf \in [Accounts -> Nat] /\ balanceOf \in [Accounts -> Int]
      /\ balanceOf' \in [Accounts -> Nat] /\ totalSupply \in Nat
  BY DEF IInv, TypeOK
<1>2. ASSUME UNCHANGED <<sessionCommitments, settlements, balanceOf, totalSupply>>
      PROVE  Solvent' /\ ~SessionMoved
  <2>1. balanceOf'[Host] >= balanceOf[Host] /\ totalSupply' - totalSupply = 0
    BY <1>1, <1>2, FiniteAccounts
  <2>2. Escrowed' = Escrowed
    BY <1>2, EscrowedSum
  <2>3. QED BY <1>2, <2>2 DEF Solvent, SessionMoved
<1>3. ASSUME NEW a \in Accounts, NEW n \in MintAmounts, Mint(a, n)
      PROVE  Solvent' /\ ~SessionMoved
  <2>1. n \in Nat
    BY ConstantsAssumption
  <2>2. /\ totalSupply' = totalSupply + n
        /\ balanceOf' = [balanceOf EXCEPT ![a] = @ + n]
        /\ UNCHANGED <<sessionCommitments, settlements>>
    BY <1>3 DEF Mint
  <2>3. /\ balanceOf'[a] = balanceOf[a] + n
        /\ \A x \in Accounts \ {a} : balanceOf'[x] = balanceOf[x]
    BY <1>1, <2>2
  <2>4. SumFunctionOnSet(balanceOf', Accounts)
          = SumFunctionOnSet(balanceOf, Accounts) + balanceOf'[a] - balanceOf[a]
    BY <1>1, <2>3, FiniteAccounts, SumUpdate
  <2>5. SumFunctionOnSet(balanceOf, Accounts) \in Int
    BY <1>1, FiniteAccounts, SumType
  <2>6. /\ SumFunction(balanceOf') = SumFunctionOnSet(balanceOf', Accounts)
        /\ SumFunction(balanceOf) = SumFunctionOnSet(balanceOf, Accounts)
    BY <1>1 DEF SumFunction
  <2>7. SumFunction(balanceOf') - SumFunction(balanceOf) = totalSupply' - totalSupply
    BY <1>1, <2>1, <2>2, <2>3, <2>4, <2>5, <2>6
  <2>8. balanceOf'[Host] >= balanceOf[Host]
    BY <1>1, <2>1, <2>3, FiniteAccounts
  <2>9. QED BY <2>2, <2>7, <2>8, RestKeepsSolvent
<1>4. ASSUME NEW from \in Accounts \ {Host}, NEW to \in Accounts, NEW n \in TransferAmounts,
             TransferTokens(from, to, n)
      PROVE  Solvent' /\ ~SessionMoved
  <2>1. n \in Nat
    BY ConstantsAssumption
  <2>2. /\ balanceOf' = Transfer(balanceOf, from, to, n)
        /\ UNCHANGED <<sessionCommitments, settlements, totalSupply>>
    BY <1>4 DEF TransferTokens
  <2>3. TokensMoved(balanceOf, balanceOf', from, to, n)
    BY <1>1, <2>1, <2>2, TransferMoves
  <2>4. SumFunction(balanceOf') = SumFunction(balanceOf)
    BY <2>3 DEF TokensMoved
  <2>5. balanceOf'[Host] >= balanceOf[Host]
    BY <1>1, <2>1, <2>3, FiniteAccounts DEF TokensMoved
  <2>6. Escrowed' = Escrowed
    BY <2>2, EscrowedSum
  <2>7. SumFunction(balanceOf') - SumFunction(balanceOf) = totalSupply' - totalSupply
    <3>1. SumFunction(balanceOf) \in Int
      BY <1>1 DEF Solvent
    <3>2. QED BY <1>1, <2>2, <2>4, <3>1
  <2>8. QED BY <2>2, <2>5, <2>7, RestKeepsSolvent
<1>5. ASSUME NEW s \in CasinoSession, LoadSession(s), NEW r \in StepResult,
             NEW q \in SUBSET CasinoSession, NEW allow \in BOOLEAN,
             ProcessStepResult(s, r, balanceOf, q, allow), totalSupply' = totalSupply
      PROVE  Solvent' /\ EscrowMoves
  <2>1. HostBooks(s, balanceOf)
    BY <1>1, <1>5, StepBooks
  <2>2. QED BY <1>5, <2>1, OpenSessionKeepsSolvent
<1>6. ASSUME NEW p \in Players, NEW s \in emitted, SubmitAction(p, s)
      PROVE  Solvent' /\ EscrowMoves
  <2>1. /\ s \in CasinoSession /\ LoadSession(s) /\ requests \in SUBSET CasinoSession
        /\ totalSupply' = totalSupply
    BY <1>1, <1>6 DEF SubmitAction
  <2>2. PICK r \in StepResult : ProcessStepResult(s, r, balanceOf, requests, TRUE)
    BY <1>6 DEF SubmitAction
  <2>3. QED BY <1>5, <2>1, <2>2
<1>7. ASSUME NEW q \in requests, OnRandomnessFulfilled(q)
      PROVE  Solvent' /\ EscrowMoves
  <2>1. /\ q \in CasinoSession /\ LoadSession(q) /\ requests \ {q} \in SUBSET CasinoSession
        /\ totalSupply' = totalSupply
    BY <1>1, <1>7 DEF OnRandomnessFulfilled
  <2>2. PICK r \in StepResult : ProcessStepResult(q, r, balanceOf, requests \ {q}, FALSE)
    BY <1>7 DEF OnRandomnessFulfilled
  <2>3. QED BY <1>5, <2>1, <2>2
<1>8. ASSUME NEW s \in emitted, CancelStuckRandomness(s)
      PROVE  Solvent' /\ EscrowMoves
  <2>1. /\ s \in CasinoSession /\ LoadSession(s) /\ s.escrowedStake \in Nat
        /\ FinalizeSession(s, "CANCELLED", s.escrowedStake, balanceOf)
        /\ totalSupply' = totalSupply
    BY <1>1, <1>8 DEF CancelStuckRandomness, CasinoSession
  <2>2. QED BY <1>1, <2>1, ExitBooks, OpenSessionKeepsSolvent
<1>9. ASSUME NEW s \in emitted, ForfeitExpiredSession(s)
      PROVE  Solvent' /\ EscrowMoves
  <2>1. s \in CasinoSession /\ LoadSession(s) /\ totalSupply' = totalSupply
    BY <1>1, <1>9 DEF ForfeitExpiredSession
  <2>2. PICK quote \in Nat :
          FinalizeSession(s, "FORFEITED", ForfeitPayout(s, quote), balanceOf)
    BY <1>9 DEF ForfeitExpiredSession
  <2>3. HostBooks(s, balanceOf)
    BY <1>1, <2>1, <2>2, ForfeitPayoutType, ExitBooks
  <2>4. QED BY <2>1, <2>3, OpenSessionKeepsSolvent
<1>10. CASE UNCHANGED vars
  BY <1>2, <1>10 DEF vars
<1>11. QED
  BY <1>2, <1>3, <1>4, <1>6, <1>7, <1>8, <1>9, <1>10, OpenKeepsSolvent
  DEF Next, MineBlock, RegisterGame, FulfillmentLost

\* The host is solvent at deployment: it owes nothing.
LEMMA InitSolvent == Init => Solvent
<1> SUFFICES ASSUME Init PROVE Solvent
  OBVIOUS
<1> DEFINE f == [j \in SessionIds |-> Held(sessionCommitments[j])]
<1>1. \A j \in SessionIds : f[j] = 0
  BY DEF Init, Held
<1>2. Escrowed = SumFunctionOnSet(f, SessionIds)
  BY EscrowedSum
<1> HIDE DEF f
<1>3. SumFunctionOnSet(f, SessionIds) = 0
  BY <1>1, FiniteAccounts, SumZero
<1>4. SumFunction(balanceOf) = totalSupply /\ balanceOf[Host] = 0
  BY ConstantsAssumption DEF Init
<1>5. QED BY <1>2, <1>3, <1>4 DEF Solvent

\* The host always holds what its open sessions have in escrow, and its balance
\* moves with the escrow in every transaction on a session (EscrowBacked): any
\* open session can be refunded, whatever the games return and the others do.
THEOREM StakesAreBacked == Spec => EscrowBacked
<1>1. IInv /\ IInv' /\ Solvent /\ [Next]_vars => Solvent' /\ (SessionMoved => EscrowMoves)
  BY NextSolvent
<1>2. Spec => []Solvent
  BY <1>1, InitSolvent, Invariance, PTL DEF Spec
<1>3. IInv /\ IInv' /\ Solvent /\ [Next]_vars => [SessionMoved => EscrowMoves]_vars
  BY <1>1
<1>4. Spec => [][SessionMoved => EscrowMoves]_vars
  BY <1>2, <1>3, Invariance, PTL DEF Spec
<1>5. QED BY <1>2, <1>4, PTL DEF EscrowBacked, EscrowMoves

=============================================================================
