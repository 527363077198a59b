---------------------------- MODULE SessionRows -----------------------------
(***************************************************************************)
(* What the host page makes of a session's events: the indexed row         *)
(* (simulator/src/session-store.ts), the flashblock patch                  *)
(* (simulator/src/flashblock-session-patch.ts), and the overlay of one     *)
(* onto the other.  Pure functions; HostSnapshot drives them.              *)
(*                                                                         *)
(* A game state is the step that produced it, and stands for the game      *)
(* data and the stake of that step too.  A random word is the nonce of the *)
(* request it answers, so a word filed under the wrong nonce shows.  The    *)
(* time of a result is the clock that told it: the page's, when the result *)
(* was pushed, or the block's.                                             *)
(***************************************************************************)
EXTENDS Integers, FiniteSets, Functions

Undefined == -1

\* settledAt: by Date.now(), or by the timestamp of the event.
PageClock == 1
BlockClock == 2

OpenPhases == {"WAITING_RANDOMNESS", "WAITING_PLAYER_ACTION"}
TerminalPhases == {"SETTLED", "FORFEITED", "CANCELLED"}

IsTerminalPhase(phase) == phase \in TerminalPhases

\* value ?? default
OrElse(value, default) == IF value = Undefined THEN default ELSE value

\* CasinoSessionChainEvent, one shape for the three kinds.  An advance to
\* WAITING_RANDOMNESS makes the request whose nonce is the advance's step.
Opened(i) ==
  [kind |-> "opened", id |-> i, step |-> Undefined, phase |-> "NONE",
   gameState |-> Undefined, payout |-> Undefined, randomness |-> Undefined]
Advanced(i, step, phase, randomness) ==
  [kind |-> "advanced", id |-> i, step |-> step, phase |-> phase,
   gameState |-> step, payout |-> Undefined, randomness |-> randomness]
Settled(i, phase, payout, gameState, randomness) ==
  [kind |-> "settled", id |-> i, step |-> Undefined, phase |-> phase,
   gameState |-> gameState, payout |-> payout, randomness |-> randomness]

MakesRequest(e) == e.phase = "WAITING_RANDOMNESS"

-----------------------------------------------------------------------------
\* A row without any event.  known: the player and the game are filled in.
InitialRow ==
  [known |-> FALSE, status |-> "open", phase |-> "NONE", step |-> Undefined,
   gameState |-> Undefined, encodedSession |-> Undefined,
   randomnessFulfilled |-> FALSE, randomnessRequests |-> <<>>, payout |-> Undefined,
   settledAt |-> Undefined]

\* The requests are a function from nonces to the word that answered, Undefined
\* while unfulfilled.  A fulfilled request is never downgraded.
UpsertRandomnessRequest(requests, nonce, word) ==
  [n \in DOMAIN requests \cup {nonce} |->
     IF n # nonce THEN requests[n]
     ELSE IF n \in DOMAIN requests THEN OrElse(requests[n], word) ELSE word]

EvolveAdvanced(row, e) ==
  LET answered == IF e.randomness = Undefined THEN row.randomnessRequests
                  ELSE UpsertRandomnessRequest(row.randomnessRequests, e.step - 1, e.randomness)
  IN  [row EXCEPT
         !.step = e.step, !.phase = e.phase, !.gameState = e.gameState,
         !.encodedSession = e.step,
         !.randomnessFulfilled = ~MakesRequest(e) /\ (e.randomness # Undefined \/ @),
         !.randomnessRequests =
            IF MakesRequest(e) THEN UpsertRandomnessRequest(answered, e.step, Undefined)
            ELSE answered]

EvolveSettled(row, e) ==
  [row EXCEPT
     !.known = TRUE, !.status = "settled", !.phase = e.phase, !.payout = e.payout,
     !.gameState = e.gameState, !.encodedSession = Undefined, !.settledAt = BlockClock,
     !.randomnessFulfilled = e.randomness # Undefined \/ @,
     !.randomnessRequests =
        IF e.randomness = Undefined THEN @
        ELSE UpsertRandomnessRequest(@, OrElse(row.step, 0), e.randomness)]

\* evolve: settled is absorbing for advances, and steps only go up.
Evolve(row, e) ==
  CASE e.kind = "opened" -> [row EXCEPT !.known = TRUE]
    [] e.kind = "advanced" ->
         IF row.status = "settled" \/ e.step <= row.step THEN row ELSE EvolveAdvanced(row, e)
    [] e.kind = "settled" -> EvolveSettled(row, e)

RowIsTerminal(row) == row.status = "settled" \/ IsTerminalPhase(row.phase)

-----------------------------------------------------------------------------
NoPatch ==
  [step |-> Undefined, phase |-> "NONE", gameState |-> Undefined,
   encodedSession |-> Undefined, requestNonce |-> Undefined,
   fulfilledNonce |-> Undefined, randomness |-> Undefined,
   settled |-> FALSE, payout |-> Undefined, settledAt |-> Undefined]

WithFulfillment(patch, nonce, word) ==
  [patch EXCEPT !.randomness = word, !.fulfilledNonce = OrElse(nonce, @)]

\* Mutant: the word is filed under the step it led to.
PatchAdvancedAtStep(patch, e) ==
  LET next == [patch EXCEPT !.step = e.step, !.phase = e.phase, !.gameState = e.gameState,
                            !.encodedSession = e.step]
      answered == IF e.randomness = Undefined THEN next
                  ELSE WithFulfillment(next, e.step, e.randomness)
  IN  IF MakesRequest(e) THEN [answered EXCEPT !.requestNonce = e.step] ELSE answered

PatchAdvanced(patch, e) ==
  LET next == [patch EXCEPT !.step = e.step, !.phase = e.phase, !.gameState = e.gameState,
                            !.encodedSession = e.step]
      answered == IF e.randomness = Undefined THEN next
                  ELSE WithFulfillment(next, e.step - 1, e.randomness)
  IN  IF MakesRequest(e) THEN [answered EXCEPT !.requestNonce = e.step] ELSE answered

PatchSettled(patch, e) ==
  LET next == [patch EXCEPT !.settled = TRUE, !.phase = e.phase, !.payout = e.payout,
                            !.gameState = e.gameState, !.settledAt = PageClock]
  IN  IF e.randomness = Undefined THEN next
      ELSE WithFulfillment(next, OrElse(patch.requestNonce, patch.step), e.randomness)

\* applyFlashblockEvent, on the patches of the sessions that have one.
ApplyFlashblockEvent(patches, e) ==
  LET current == IF e.id \in DOMAIN patches THEN patches[e.id] ELSE NoPatch
      with(next) == [i \in DOMAIN patches \cup {e.id} |-> IF i = e.id THEN next ELSE patches[i]]
  IN  CASE e.kind = "opened" -> with(current)
        [] e.kind = "advanced" ->
             IF current.settled \/ e.step <= current.step THEN patches
             ELSE with(PatchAdvanced(current, e))
        [] e.kind = "settled" ->
             IF current.settled THEN patches ELSE with(PatchSettled(current, e))

-----------------------------------------------------------------------------
OverlayStep(row, patch) ==
  IF patch.step <= row.step THEN row
  ELSE [row EXCEPT
          !.step = patch.step, !.phase = patch.phase, !.gameState = patch.gameState,
          !.encodedSession = patch.encodedSession,
          !.randomnessFulfilled = patch.requestNonce # patch.step /\ @]

\* Mutant: the game state of the settlement is left behind.
OverlaySettledWithoutState(row, patch) ==
  IF ~patch.settled THEN row
  ELSE [row EXCEPT !.status = "settled", !.phase = patch.phase, !.payout = patch.payout,
          !.settledAt = OrElse(@, patch.settledAt)]

OverlaySettled(row, patch) ==
  IF ~patch.settled THEN row
  ELSE [row EXCEPT
          !.status = "settled", !.phase = patch.phase, !.payout = patch.payout,
          !.gameState = patch.gameState, !.settledAt = OrElse(@, patch.settledAt)]

\* The latest fulfillment of the patch, unless the indexed row has it; the flag
\* is claimed only when it is not older than the row's current request.
OverlayFulfillment(merged, row, patch) ==
  LET nonces == DOMAIN row.randomnessRequests
      recorded == /\ patch.fulfilledNonce \in nonces
                  /\ row.randomnessRequests[patch.fulfilledNonce] # Undefined
      current == \A n \in nonces : n <= patch.fulfilledNonce
  IN  IF patch.fulfilledNonce = Undefined \/ recorded THEN merged
      ELSE [merged EXCEPT
              !.randomnessRequests =
                 UpsertRandomnessRequest(@, patch.fulfilledNonce, patch.randomness),
              !.randomnessFulfilled = (current /\ ~row.randomnessFulfilled) \/ @]

\* mergeFlashblockPatchIntoRow.
MergeFlashblockPatchIntoRow(row, patch) ==
  LET merged == IF RowIsTerminal(row) THEN row
                ELSE OverlaySettled(OverlayStep(row, patch), patch)
  IN  OverlayFulfillment(merged, row, patch)

RowRecordedFulfillment(row, nonce) ==
  IF DOMAIN row.randomnessRequests = {} THEN row.randomnessFulfilled
  ELSE nonce \in DOMAIN row.randomnessRequests /\ row.randomnessRequests[nonce] # Undefined

\* Mutant: a patch goes as soon as the session has a row.
CaughtUpWithAnyRow(row, patch) == patch.settled => RowIsTerminal(row)

\* pruneFlashblockPatches: the row has everything the patch has.
CaughtUp(row, patch) ==
  /\ row.step >= patch.step
  /\ patch.settled => RowIsTerminal(row)
  /\ patch.fulfilledNonce # Undefined => RowRecordedFulfillment(row, patch.fulfilledNonce)

PruneFlashblockPatches(patches, rows) ==
  Restrict(patches, {i \in DOMAIN patches :
                       ~(i \in DOMAIN rows /\ CaughtUp(rows[i], patches[i]))})

-----------------------------------------------------------------------------
\* What a source knows of the session's committed bytes: EncodedSessionSnapshot,
\* with an Undefined step for a candidate that is missing.  The bytes are the
\* step that committed them.
NoSnapshot == [step |-> Undefined, encodedSession |-> Undefined]

\* A patch or a row is a candidate once it has a step and its bytes.
EncodedSessionSnapshot(known, i) ==
  IF i \in DOMAIN known /\ Undefined \notin {known[i].step, known[i].encodedSession}
  THEN [step |-> known[i].step, encodedSession |-> known[i].encodedSession]
  ELSE NoSnapshot

\* rememberSessionSnapshots, for one of the 64 sessions it keeps: what an own receipt
\* tells replaces what is remembered unless that is as new.
RememberSessionSnapshot(remembered, snapshot) ==
  IF remembered.step >= snapshot.step THEN remembered ELSE snapshot

\* latestEncodedSession: of the candidates of the highest step, the first.
LatestEncodedSession(candidates) ==
  LET held == {n \in DOMAIN candidates : candidates[n].step # Undefined}
      newest == {n \in held : \A m \in held : candidates[m].step <= candidates[n].step}
      first == CHOOSE n \in newest : \A m \in newest : n <= m
  IN  IF held = {} THEN Undefined ELSE candidates[first].encodedSession

=============================================================================
