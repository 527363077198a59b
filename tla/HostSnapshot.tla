---------------------------- MODULE HostSnapshot ----------------------------
(***************************************************************************)
(* The sessions a game sees: simulator/src/use-host-snapshot.ts with the   *)
(* hooks that feed it (use-simulated-sessions.ts), the optimistic rows     *)
(* (optimistic-casino-session.ts) and the reconciliation that is to make   *)
(* the published list monotonic (monotonic-session-items.ts).              *)
(*                                                                         *)
(* The chain emits a session's events; each channel of the feed delivers   *)
(* them in its own time.  A render reads the rows, the patches and the     *)
(* optimistic rows as they are and publishes a snapshot; the pruning of    *)
(* the patches is an effect that runs after it.                            *)
(***************************************************************************)
EXTENDS SessionRows, Sequences, SequencesExt

CONSTANTS
  MaxSessions,     \* bound on the sessions of the player
  Payouts,         \* what a settled session may pay
  ListLimit,       \* the rows listByPlayerAndGame returns (50)
  Worlds           \* the worlds the page may find itself in

\* sessions and steps: bounds on the sessions and on the steps of each; bets: the
\* sessions opened from this page, by openSession; rough: whether a channel may
\* reorder (the lags were changed) and the wallet be disconnected; live: whether
\* the fairness of FairSpec holds.
ASSUME SnapshotAssumption ==
  /\ {MaxSessions, ListLimit} \subseteq Nat /\ Payouts \subseteq Nat
  /\ \A w \in Worlds : /\ w.sessions \in 0..MaxSessions /\ w.bets \subseteq 1..w.sessions
                       /\ w.steps \in Nat /\ {w.rough, w.live} \subseteq BOOLEAN

Sessions == 1..MaxSessions
Channels == {"flashblock", "indexed"}

VARIABLES
  chain,       \* per opened session, its committed step and phase, or its result
  transit,     \* per channel, the events not yet delivered, oldest first
  rows,        \* the session store
  patches,     \* the flashblock patches
  optimistic,  \* the optimistic sessions, newest first
  placed,      \* history: the bets placed
  ready,       \* walletStatus = "ready"
  rendered,    \* the rows of the last render
  pruning,     \* whether its prune effect is still to run
  publishedSettled, publishedOpen,  \* the memo of published items
  snapshot,    \* the items last published, in order
  world        \* the one of Worlds this is

vars == <<chain, transit, rows, patches, optimistic, placed, ready, rendered,
          pruning, publishedSettled, publishedOpen, snapshot, world>>

view == <<rendered, pruning, publishedSettled, publishedOpen, snapshot>>

page == <<rows, patches, optimistic, placed, ready, view, world>>

Init ==
  /\ chain = <<>>
  /\ transit = [c \in Channels |-> <<>>]
  /\ rows = <<>>
  /\ patches = <<>>
  /\ optimistic = <<>>
  /\ placed = {}
  /\ ready = TRUE
  /\ rendered = <<>>
  /\ pruning = FALSE
  /\ publishedSettled = <<>>
  /\ publishedOpen = <<>>
  /\ snapshot = <<>>
  /\ world \in Worlds

-----------------------------------------------------------------------------
\* The chain: CasinoHost as far as its events go.
Emitted(events) == transit' = [c \in Channels |-> transit[c] \o events]

OpenOnChain ==
  LET i == Len(chain) + 1
  IN  /\ i <= world.sessions
      /\ chain' = Append(chain, Advanced(i, 1, "WAITING_RANDOMNESS", Undefined))
      /\ Emitted(<<Opened(i), Advanced(i, 1, "WAITING_RANDOMNESS", Undefined)>>)
      /\ UNCHANGED page

\* The word of the request a session waits for, if it waits for one.
Answer(s) == IF s.phase = "WAITING_RANDOMNESS" THEN s.step ELSE Undefined

AdvanceOnChain(i) ==
  LET s == chain[i]
  IN  /\ s.kind = "advanced" /\ s.step < world.steps
      /\ \E phase \in OpenPhases :
           LET e == Advanced(i, s.step + 1, phase, Answer(s))
           IN  chain' = [chain EXCEPT ![i] = e] /\ Emitted(<<e>>)
      /\ UNCHANGED page

\* A game settles with a new state; a refund or a forfeit shows the last one.
SettleOnChain(i) ==
  LET s == chain[i]
  IN  /\ s.kind = "advanced"
      /\ \E payout \in Payouts :
           \E e \in {Settled(i, "SETTLED", payout, s.step + 1, Answer(s)),
                     Settled(i, "CANCELLED", payout, s.step, Undefined)} :
             chain' = [chain EXCEPT ![i] = e] /\ Emitted(<<e>>)
      /\ UNCHANGED page

-----------------------------------------------------------------------------
\* The rows a component renders with: the newest, none without a wallet.  Until
\* its player is known a row is in nobody's list.
SessionRows ==
  LET mine == {i \in DOMAIN rows : rows[i].known}
      newer(i) == Cardinality({j \in mine : j > i})
  IN  IF ready THEN Restrict(rows, {i \in mine : newer(i) < ListLimit}) ELSE <<>>

Row(i) == IF i \in DOMAIN rows THEN rows[i] ELSE InitialRow

\* Delivery of the n-th event in transit; a channel keeps the order of the
\* chain as long as its lag is not changed.
Deliver(c, n) ==
  /\ n \in 1..Len(transit[c])
  /\ n = 1 \/ world.rough
  /\ transit' = [transit EXCEPT ![c] = RemoveAt(@, n)]

\* sessionStore.applyEvent.
DeliverIndexed(n) ==
  /\ Deliver("indexed", n)
  /\ LET e == transit["indexed"][n]
     IN  rows' = [i \in DOMAIN rows \cup {e.id} |-> IF i = e.id THEN Evolve(Row(i), e) ELSE rows[i]]
  /\ UNCHANGED <<chain, patches, optimistic, placed, ready, view, world>>

\* An optimistic session of bet i is confirmed under the id of its session.
Confirm(i) ==
  optimistic' = [n \in DOMAIN optimistic |->
                   IF optimistic[n].bet = i THEN [optimistic[n] EXCEPT !.id = i]
                   ELSE optimistic[n]]

\* A pushed open confirms the bet whose transaction hash is known, and otherwise
\* waits for it.
HandleFlashblockSessionOpened(i) == Confirm(i) \/ UNCHANGED optimistic

\* The flashblock listener.
DeliverFlashblock(n) ==
  /\ Deliver("flashblock", n)
  /\ LET e == transit["flashblock"][n]
     IN  /\ patches' = ApplyFlashblockEvent(patches, e)
         /\ \/ e.kind = "opened" /\ HandleFlashblockSessionOpened(e.id)
            \/ e.kind # "opened" /\ UNCHANGED optimistic
  /\ UNCHANGED <<chain, rows, placed, ready, view, world>>

\* setPatches(prune): the effect of a render that saw new rows.
Prune ==
  /\ pruning
  /\ patches' = PruneFlashblockPatches(patches, rendered)
  /\ pruning' = FALSE
  /\ UNCHANGED <<chain, transit, rows, optimistic, placed, ready, rendered,
                 publishedSettled, publishedOpen, snapshot, world>>

-----------------------------------------------------------------------------
\* Lists are filtered and sorted by the rank of each member, which says of every
\* position of the new list what is there.  The members of K in an order: the pairs
\* of which the first comes before the second.
InOrder(K, before) ==
  [k \in 1..Cardinality(K) |->
     CHOOSE n \in K : Cardinality({m \in K : <<n, m>> \notin before}) = k]

Ascending(K) == InOrder(K, {p \in K \X K : p[1] < p[2]})

\* The members of a list at some of its positions.
AtPositions(list, K) == [k \in 1..Cardinality(K) |-> list[Ascending(K)[k]]]

\* An item of the snapshot.  id 0 is a `pending:` id.
Pending == 0

OptimisticItem(i) ==
  [id |-> Pending, bet |-> i, phase |-> "WAITING_RANDOMNESS", isSettled |-> FALSE,
   gameState |-> Undefined, payout |-> Undefined, settledAt |-> Undefined,
   randomness |-> Undefined]

\* The head of openSession: a new optimistic session, and those the indexed
\* feed has caught up with go.
PlaceBet(i) ==
  /\ i \in world.bets \ placed /\ ready
  /\ Len(chain) < i
  /\ placed' = placed \cup {i}
  /\ optimistic' = <<OptimisticItem(i)>>
       \o AtPositions(optimistic, {n \in DOMAIN optimistic : optimistic[n].id \notin DOMAIN rendered})
  /\ UNCHANGED <<chain, transit, rows, patches, ready, view, world>>

\* The receipt of the open, or its acceptance after the push, confirms it too.
Receipt(i) ==
  /\ i \in placed /\ i <= Len(chain)
  /\ Confirm(i) /\ optimistic' # optimistic
  /\ UNCHANGED <<chain, transit, rows, patches, placed, ready, view, world>>

\* The send fails, or only its reporting does: an unconfirmed session is removed.
BetFails(i) ==
  /\ \E n \in DOMAIN optimistic : optimistic[n].bet = i /\ optimistic[n].id = Pending
  /\ optimistic' = AtPositions(optimistic, {n \in DOMAIN optimistic : optimistic[n].bet # i})
  /\ UNCHANGED <<chain, transit, rows, patches, placed, ready, view, world>>

ToggleWallet ==
  /\ world.rough
  /\ ready' = ~ready
  /\ UNCHANGED <<chain, transit, rows, patches, optimistic, placed, view, world>>

-----------------------------------------------------------------------------
\* The item of a row: its randomness is the word of the latest fulfilled
\* request, or else what the patch knows.
ProjectRow(row, i) ==
  LET requests == row.randomnessRequests
      answered == {n \in DOMAIN requests : requests[n] # Undefined}
      latest == CHOOSE n \in answered : \A m \in answered : m <= n
  IN  [id |-> i, bet |-> Undefined, phase |-> row.phase,
       isSettled |-> RowIsTerminal(row), gameState |-> row.gameState, payout |-> row.payout,
       settledAt |-> row.settledAt,
       randomness |-> IF answered # {} THEN requests[latest]
                      ELSE IF i \in DOMAIN patches THEN patches[i].randomness ELSE Undefined]

ProjectedItem(seen, i) ==
  ProjectRow(IF i \in DOMAIN patches THEN MergeFlashblockPatchIntoRow(seen[i], patches[i])
             ELSE seen[i], i)

\* mergeFlashblockPatchIntoItem.
MergeFlashblockPatchIntoItem(item, patch) ==
  IF patch.settled
  THEN [item EXCEPT !.phase = patch.phase, !.payout = patch.payout, !.isSettled = TRUE,
                    !.gameState = patch.gameState, !.settledAt = OrElse(@, patch.settledAt),
                    !.randomness = OrElse(@, patch.randomness)]
  ELSE [item EXCEPT !.phase = IF patch.phase = "NONE" THEN @ ELSE patch.phase,
                    !.gameState = OrElse(patch.gameState, @),
                    !.randomness = OrElse(@, patch.randomness)]

PatchedOptimistic(seen, o) ==
  IF o.id \in DOMAIN seen \/ o.id \notin DOMAIN patches THEN o
  ELSE MergeFlashblockPatchIntoItem(o, patches[o.id])

\* The optimistic sessions on top of the rows that none of them stands for.
OnTopOf(visible, seen) ==
  LET others == DOMAIN seen \ {visible[n].id : n \in DOMAIN visible}
  IN  visible \o [k \in 1..Cardinality(others) |-> ProjectedItem(seen, Ascending(others)[k])]

\* Mutant: an indexed row does not shadow its optimistic session.
MergedItemsOptimisticFirst(seen) ==
  OnTopOf([n \in DOMAIN optimistic |-> PatchedOptimistic(seen, optimistic[n])], seen)

\* mergeCasinoSessionItems over the rows seen: an optimistic session is shown
\* until its row is past the NONE phase.
MergedItems(seen) ==
  LET patched == [n \in DOMAIN optimistic |-> PatchedOptimistic(seen, optimistic[n])]
      visible == {n \in DOMAIN patched :
                    LET id == patched[n].id
                    IN  id \notin DOMAIN seen \/ ProjectedItem(seen, id).phase = "NONE"}
  IN  OnTopOf(AtPositions(patched, visible), seen)

\* isCompleteSettledItem.
Complete(item) ==
  /\ item.isSettled /\ item.payout # Undefined
  /\ item.phase = "SETTLED" => item.gameState # Undefined

\* demoteToWaitingRandomness.
Demoted(item) ==
  [item EXCEPT !.phase = "WAITING_RANDOMNESS", !.isSettled = FALSE, !.payout = Undefined,
               !.settledAt = Undefined, !.gameState = Undefined]

\* Mutant: nothing published is remembered when an item is not complete.
ReconciledForgetfully(item, settledMemo) ==
  IF ~Complete(item) /\ (item.isSettled \/ IsTerminalPhase(item.phase)) THEN Demoted(item) ELSE item

\* What reconcileMonotonicSessionItems shows for an item.
Reconciled(item, settledMemo) ==
  IF Complete(item) THEN item
  ELSE IF item.id \in DOMAIN settledMemo THEN settledMemo[item.id]
  ELSE IF item.isSettled \/ IsTerminalPhase(item.phase) THEN Demoted(item)
  ELSE item

\* sessionOrdinal: a session that is not on the chain yet counts as the newest.
SessionOrdinal(id) == IF id = Pending THEN MaxSessions + 1 ELSE id

\* sortSessionItemsNewestFirst: pending first in their order, then by id, down.
NewestFirst(items) ==
  LET ordinal == [n \in DOMAIN items |-> SessionOrdinal(items[n].id)]
      newer == {p \in (DOMAIN items) \X (DOMAIN items) :
                  \/ ordinal[p[1]] > ordinal[p[2]]
                  \/ ordinal[p[1]] = ordinal[p[2]] /\ p[1] < p[2]}
  IN  [k \in 1..Cardinality(DOMAIN items) |-> items[InOrder(DOMAIN items, newer)[k]]]

\* The memo after some on-chain items of a list were published, by id.
Remember(memo, items, which) ==
  [i \in DOMAIN memo \cup {items[n].id : n \in which} |->
     IF \E n \in which : items[n].id = i THEN items[CHOOSE n \in which : items[n].id = i]
     ELSE memo[i]]

\* The memo and the list that merged items make with what was published.
Reconcile(merged, settledMemo, openMemo) ==
  LET items == [n \in DOMAIN merged |-> Reconciled(merged[n], settledMemo)]
      onChain == {n \in DOMAIN items : items[n].id # Pending}
      settled == Remember(settledMemo, items, {n \in onChain : Complete(items[n])})
      open == Remember(openMemo, items, {n \in onChain : ~Complete(items[n])})
      unsettled == Restrict(open, DOMAIN open \ DOMAIN settled)
      dropped == (DOMAIN settled \cup DOMAIN unsettled) \ {items[n].id : n \in DOMAIN items}
      kept == [k \in 1..Cardinality(dropped) |->
                 LET i == Ascending(dropped)[k]
                 IN  IF i \in DOMAIN settled THEN settled[i] ELSE unsettled[i]]
  IN  [settled |-> settled, open |-> unsettled, snapshot |-> NewestFirst(items \o kept)]

\* A memo without the sessions whose row seen has the result.
WithoutReleased(memo, seen) ==
  Restrict(memo, {i \in DOMAIN memo :
                    ~(i \in DOMAIN seen /\ RowIsTerminal(seen[i]) /\ seen[i].payout # Undefined)})

\* What a render with the rows seen publishes.
Published(seen) ==
  Reconcile(MergedItems(seen), WithoutReleased(publishedSettled, seen),
            WithoutReleased(publishedOpen, seen))

\* A render: reconcile the merged items with what was published, publish the
\* list, and leave the prune effect to run if the rows are new ones.
Render ==
  /\ ~pruning
  /\ \E seen \in {SessionRows} : \E published \in {Published(seen)} :
       /\ publishedSettled' = published.settled
       /\ publishedOpen' = published.open
       /\ snapshot' = published.snapshot
       /\ rendered' = seen
       /\ pruning' = (seen # rendered /\ DOMAIN seen # {})
  /\ UNCHANGED <<chain, transit, rows, patches, optimistic, placed, ready, world>>

\* The item of session i in a list of items.
Shown(items, i) == \E n \in DOMAIN items : items[n].id = i
ItemOf(items, i) == items[CHOOSE n \in DOMAIN items : items[n].id = i]

\* What the recorder of snapshot-trace.ts warns of when a list follows another.
SnapshotWarnings(before, after) ==
  LET settled == {i \in {before[n].id : n \in DOMAIN before} :
                    Shown(after, i) /\ ItemOf(before, i).isSettled}
      mutated == {i \in settled :
                    \/ ItemOf(after, i).gameState # ItemOf(before, i).gameState
                    \/ ItemOf(after, i).payout # ItemOf(before, i).payout
                    \/ ItemOf(after, i).settledAt # ItemOf(before, i).settledAt}
  IN  [what : {"VANISHED"}, id : {before[n].id : n \in DOMAIN before} \ {after[n].id : n \in DOMAIN after}]
        \cup [what : {"settled then unsettled"}, id : {i \in settled : ~ItemOf(after, i).isSettled}]
        \cup [what : {"MUTATED"}, id : {i \in mutated : ItemOf(after, i).isSettled}]
        \cup [what : {"regressed"},
               id : IF before # <<>> /\ after # <<>>
                         /\ SessionOrdinal(after[1].id) < SessionOrdinal(before[1].id)
                    THEN {before[1].id} ELSE {}]

\* The session bytes that submitAction and cancelStuckRandomness echo to the host;
\* Undefined stands for the throw of "hasn't synced yet".
ResolveEncodedSession(remembered, i) ==
  LatestEncodedSession(<<remembered, EncodedSessionSnapshot(patches, i),
                         EncodedSessionSnapshot(SessionRows, i)>>)

Deliveries == \E n \in 1..(world.sessions * (world.steps + 2)) : DeliverIndexed(n) \/ DeliverFlashblock(n)

Next ==
  \/ OpenOnChain
  \/ \E i \in DOMAIN chain : AdvanceOnChain(i) \/ SettleOnChain(i)
  \/ Deliveries
  \/ \E i \in world.bets : PlaceBet(i) \/ Receipt(i) \/ BetFails(i)
  \/ ToggleWallet
  \/ Prune
  \/ Render

Spec == Init /\ [][Next]_vars

\* <<Render>>_vars is enabled: a render would change what is published.
Outdated ==
  /\ world.live /\ ~pruning
  /\ \E seen \in {SessionRows} : \E published \in {Published(seen)} :
       <<seen, published>> # <<rendered, [settled |-> publishedSettled, open |-> publishedOpen,
                                          snapshot |-> snapshot]>>

\* The feed delivers, and React renders and runs its effects.  The last conjunct
\* is WF_vars(Render) written out: it spares TLC the evaluation of its ENABLED.
FairSpec ==
  /\ Spec
  /\ WF_vars(world.live /\ DeliverIndexed(1)) /\ WF_vars(world.live /\ DeliverFlashblock(1))
  /\ WF_vars(world.live /\ Prune)
  /\ []<>~Outdated \/ []<><<Render>>_vars

-----------------------------------------------------------------------------
\* A session is in the list once, however many layers know of it, and a result the
\* game is shown is the one the chain settled: phase, payout and game state
\* together, whichever layer it came from.
SettledAsOnChain ==
  \A n \in DOMAIN snapshot :
    LET item == snapshot[n]
    IN  /\ item.id # Pending => \A m \in DOMAIN snapshot : snapshot[m].id = item.id => m = n
        /\ item.isSettled =>
             /\ chain[item.id].kind = "settled"
             /\ item.phase = chain[item.id].phase /\ item.payout = chain[item.id].payout
             /\ item.gameState = chain[item.id].gameState

\* While the channels keep their order, a random word is filed under the request
\* it answers, in the row and in the patch laid over it: randomness verification
\* reads the proof by that request.
WordsAnswerTheirRequests ==
  \A i \in {j \in DOMAIN rows : ~world.rough} :
    LET merged == IF i \in DOMAIN patches THEN MergeFlashblockPatchIntoRow(rows[i], patches[i])
                  ELSE rows[i]
    IN  \A n \in DOMAIN merged.randomnessRequests :
          merged.randomnessRequests[n] \in {n, Undefined}

\* Only the time of session i's result changes: from the clock of the page to the
\* block's when the indexed row takes over from the push, and back only while the
\* row is not listed (the wallet is away, or ListLimit rows are newer).
OnlyItsTimeChanges(i) ==
  LET before == ItemOf(snapshot, i)
      after == ItemOf(snapshot', i)
  IN  /\ Shown(snapshot, i) /\ Shown(snapshot', i)
      /\ after.isSettled
      /\ <<after.phase, after.payout, after.gameState>> =
           <<before.phase, before.payout, before.gameState>>
      /\ after.settledAt = BlockClock \/ i \notin DOMAIN rendered'

\* "Any transition a game could visually trip on" (snapshot-trace.ts) does not
\* happen to a session of the chain but in one way, the settledAt of a result: a
\* later snapshot neither drops a session that an earlier one showed, nor takes a
\* result back or changes its phase, payout or game state, nor puts an older
\* session first, however the optimistic, pushed and indexed layers race, and with
\* the wallet disconnected in between.
ResultsStay ==
  [][\A warning \in SnapshotWarnings(snapshot, snapshot') :
       \/ warning.id = Pending
       \/ warning.what = "MUTATED" /\ OnlyItsTimeChanges(warning.id)]_vars

\* While the wallet stays ready and the channels keep their order, a session is
\* never shown with an older game state or an older random word than before,
\* settled or not.
NeverOlder ==
  [][\A i \in Sessions : ~world.rough /\ Shown(snapshot, i) /\ Shown(snapshot', i) =>
       /\ ItemOf(snapshot', i).gameState >= ItemOf(snapshot, i).gameState
       /\ ItemOf(snapshot', i).randomness >= ItemOf(snapshot, i).randomness]_vars

\* Every settled session is shown settled in the end, whichever of its events,
\* bets and renders came in which order (with ListLimit sessions at most).
EverySettlementShown ==
  \A i \in Sessions :
    world.live /\ i <= Len(chain) /\ chain[i].kind = "settled"
      ~> Shown(snapshot, i) /\ ItemOf(snapshot, i).isSettled

=============================================================================
