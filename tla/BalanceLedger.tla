--------------------------- MODULE BalanceLedger ----------------------------
(***************************************************************************)
(* The balance a game page shows: simulator/src/balance-hold.ts, driven by *)
(* use-round-ledger.ts and by the host methods of use-game-host.ts.        *)
(*                                                                         *)
(* The ledger outlives the page that drives it.  A bet debits it before    *)
(* its transaction is sent; the wallet on the chain follows when that is   *)
(* mined, gets the payout when the session settles, and the row and the    *)
(* pushed patch of the settlement arrive later still.  Every await of      *)
(* openSession, submitAction and runReconcile is a step boundary.          *)
(***************************************************************************)
EXTENDS Integers, FiniteSets, Functions

CONSTANTS
  Bets,              \* the sessions the player opens, each once
  Actions,           \* the calls of submitAction a game may make, each once: the bet it
                     \* acts on, the extra stake it pulls, 0 for none, and a number
  Deposit,           \* the wallet at the start
  Stake,             \* the wager of each
  Payouts,           \* what a session may pay
  Worlds             \* the worlds the page may find itself in

\* calls: the actions that may be sent; mounts and failures: bounds on the mounts of the
\* game host and on the balance reads that fail; early: whether a session may settle
\* before its open or action returned, or an action be sent to one that has;
\* hasty: whether the game acts on a session that the feed shows it before openSession
\* has returned; misreports: whether a transaction that was mined may be reported
\* failed; live: whether the run asks what must happen there.
ASSUME LedgerAssumption ==
  /\ IsFiniteSet(Bets) /\ IsFiniteSet(Actions)
  /\ \A a \in Actions : a.bet \in Bets /\ a.extra \in Nat
  /\ {Deposit, Stake} \subseteq Nat /\ Payouts \subseteq Nat
  /\ \A w \in Worlds : w.calls \subseteq Actions /\ {w.mounts, w.failures} \subseteq Nat
                       /\ {w.early, w.hasty, w.misreports, w.live} \subseteq BOOLEAN

\* Where extra stakes are pulled, the host stays and a session settles after its
\* open and action have returned; where it settles early, the host stays and is
\* told the truth, or no actions are sent.
Orderly(w) ==
  /\ (\A a \in w.calls : a.extra = 0) \/ (w.mounts = 1 /\ ~w.early)
  /\ ~w.early \/ (w.mounts = 1 /\ ~w.misreports) \/ w.calls = {}

None == -1

\* `open:` and `resume:` round keys.
RoundKey == {"open", "resume"} \X Bets

VARIABLES
  ledger,         \* the module state of balance-hold.ts
  reads,          \* its reconcile reads in flight, and what they have read
  mounted,        \* whether a game host is mounted, and how many have been
  mounts,
  raw,            \* rawBalance: the read at mount, None until it arrives
  tracked,        \* trackedRoundsRef: the round key of a session
  pendingReveal,  \* pendingRevealRef
  effectDue,      \* whether the effect of new session rows is still to run
  stage,          \* per bet, where its openSession and transaction are
  orphans,        \* the bets whose host was unmounted before openSession ended
  action,         \* and per action, where its submitAction and transaction are
  outcome,        \* per bet, the payout once the session settled
  pushed,         \* the settlements the flashblock patches know
  indexed,        \* the settlements the session rows know
  revealed,       \* the outcomes the game has presented
  wallet,         \* the player's balance on the chain
  failures,
  world           \* the one of Worlds this is

vars == <<ledger, reads, mounted, mounts, raw, tracked, pendingReveal, effectDue, stage, orphans,
          action, outcome, pushed, indexed, revealed, wallet, failures, world>>

rounds == <<tracked, pendingReveal>>
feed == <<pushed, indexed>>
host == <<mounted, mounts, raw>>
sends == <<stage, orphans, action>>
chain == <<outcome, wallet>>

\* "misreported": mined, but reported failed.
Stages == {"idle", "sending", "mined", "returned", "failed", "misreported"}

Init ==
  /\ ledger = [baseline |-> None, adjustment |-> 0, active |-> {}, epoch |-> 0, timer |-> FALSE]
  /\ reads = {}
  /\ mounted = TRUE /\ mounts = 1
  /\ raw = None
  /\ tracked = <<>>
  /\ pendingReveal = {}
  /\ effectDue = FALSE
  /\ stage = [b \in Bets |-> "idle"]
  /\ orphans = {}
  /\ action = [a \in Actions |-> "idle"]
  /\ outcome = [b \in Bets |-> None]
  /\ pushed = {} /\ indexed = {}
  /\ revealed = {}
  /\ wallet = Deposit
  /\ failures = 0
  /\ world \in Worlds

-----------------------------------------------------------------------------
\* balance-hold.ts.

\* Mutant: an in-flight read is not voided.
BetPlacedSameEpoch(l, key, stake) ==
  [l EXCEPT !.timer = FALSE, !.active = @ \cup {key}, !.adjustment = @ - stake]

BetPlaced(l, key, stake) ==
  [l EXCEPT !.epoch = @ + 1, !.timer = FALSE, !.active = @ \cup {key}, !.adjustment = @ - stake]

RefundStake(l, stake) == [l EXCEPT !.adjustment = @ + stake]

\* Mutant: no reconcile is scheduled.
RoundsEndQuietly(l, keys, payouts) ==
  LET ended == {b \in DOMAIN keys : keys[b] \in l.active}
  IN  [l EXCEPT !.active = @ \ Range(keys), !.adjustment = @ + SumFunctionOnSet(payouts, ended)]

\* roundRevealed, and roundClosed with no payout, for the rounds under keys[b] of
\* some bets b, as far as they are active: the last round to end arms the reconcile
\* timer.  No two bets share a key, so they may end in any order.
RoundsEnd(l, keys, payouts) ==
  LET ended == {b \in DOMAIN keys : keys[b] \in l.active}
  IN  [l EXCEPT !.active = @ \ Range(keys),
                !.adjustment = @ + SumFunctionOnSet(payouts, ended),
                !.timer = @ \/ (ended # {} /\ l.active \subseteq Range(keys))]

Nothing == [b \in Bets |-> 0]

\* The timer fires: a read starts unless a round is on or no host is mounted.
ReconcileTimer ==
  /\ ledger.timer
  /\ ledger' = [ledger EXCEPT !.timer = FALSE]
  /\ reads' = IF ledger.active = {} /\ mounted
              THEN reads \cup {[epoch |-> ledger.epoch, value |-> None]} ELSE reads
  /\ UNCHANGED <<host, rounds, effectDue, sends, chain, feed, revealed, failures, world>>

\* The chain answers a read; the answer is on its way.
ReadBalance(r) ==
  /\ r.value = None
  /\ reads' = (reads \ {r}) \cup {[r EXCEPT !.value = wallet]}
  /\ UNCHANGED <<ledger, host, rounds, effectDue, sends, chain, feed, revealed, failures, world>>

\* fetchTokenBalance answers undefined.
ReadFails(r) ==
  /\ failures < world.failures
  /\ failures' = failures + 1
  /\ reads' = reads \ {r}
  /\ UNCHANGED <<ledger, host, rounds, effectDue, sends, chain, feed, revealed, world>>

\* The answer is adopted, unless a bet was placed meanwhile.
Reconcile(r) ==
  /\ r.value # None
  /\ reads' = reads \ {r}
  /\ ledger' = IF ledger.epoch = r.epoch /\ ledger.active = {}
               THEN [ledger EXCEPT !.baseline = r.value, !.adjustment = 0] ELSE ledger
  /\ UNCHANGED <<host, rounds, effectDue, sends, chain, feed, revealed, failures, world>>

\* The balance read at mount arrives.
RawBalance ==
  /\ mounted /\ raw = None
  /\ raw' = wallet
  /\ UNCHANGED <<ledger, reads, mounted, mounts, rounds, effectDue, sends, chain, feed, revealed,
                 failures, world>>

\* A render seeds the baseline while nothing has happened.
SeedBaseline ==
  /\ mounted /\ ledger.baseline = None /\ raw # None
  /\ ledger.active = {} /\ ledger.adjustment = 0
  /\ ledger' = [ledger EXCEPT !.baseline = raw]
  /\ UNCHANGED <<reads, host, rounds, effectDue, sends, chain, feed, revealed, failures, world>>

\* useLedgeredBalance, before it is cut off at zero.
Displayed ==
  IF ledger.baseline # None THEN ledger.baseline + ledger.adjustment
  ELSE IF raw # None THEN raw + ledger.adjustment ELSE None

-----------------------------------------------------------------------------
\* use-round-ledger.ts.
Track(b, key) == tracked' = [c \in DOMAIN tracked \cup {b} |-> IF c = b THEN key ELSE tracked[c]]

\* endRound for the bets ended, with the payouts of the chain.
EndRounds(ended) ==
  /\ ledger' = RoundsEnd(ledger, Restrict(tracked, ended), outcome)
  /\ tracked' = Restrict(tracked, DOMAIN tracked \ ended)
  /\ pendingReveal' = pendingReveal \ ended

\* Mutant: every settled round is credited when its row arrives.
SettleTrackedRoundsUnrevealed ==
  /\ effectDue
  /\ effectDue' = FALSE
  /\ EndRounds(DOMAIN tracked \cap indexed)
  /\ UNCHANGED <<reads, host, sends, chain, feed, revealed, failures, world>>

\* The effect of new session rows: a settled round that was revealed, or that
\* paid nothing, ends; a win waits for its reveal.
SettleTrackedRounds ==
  /\ effectDue
  /\ effectDue' = FALSE
  /\ EndRounds({b \in DOMAIN tracked \cap indexed : b \in pendingReveal \/ outcome[b] = 0})
  /\ UNCHANGED <<reads, host, sends, chain, feed, revealed, failures, world>>

\* The host goes away: what it tracks is closed without a payout, and an
\* openSession in flight runs on.
Unmount ==
  /\ mounted /\ mounts < world.mounts
  /\ mounted' = FALSE
  /\ ledger' = RoundsEnd(ledger, tracked, Nothing)
  /\ tracked' = <<>> /\ pendingReveal' = {}
  /\ effectDue' = FALSE
  /\ orphans' = orphans \cup {b \in Bets : stage[b] \in {"sending", "mined"}}
  /\ pushed' = {}
  /\ raw' = None
  /\ UNCHANGED <<reads, mounts, stage, action, chain, indexed, revealed, failures, world>>

\* A new host, for the same account: the ledger is kept.
Mount ==
  /\ ~mounted
  /\ mounted' = TRUE /\ mounts' = mounts + 1
  /\ effectDue' = TRUE
  /\ UNCHANGED <<ledger, reads, raw, rounds, sends, chain, feed, revealed, failures, world>>

-----------------------------------------------------------------------------
\* use-game-host.ts.

\* openSession up to its first await; the page shows its balance by then.
OpenSession(b) ==
  /\ mounted /\ stage[b] = "idle"
  /\ ledger.baseline # None
  /\ ledger' = BetPlaced(ledger, <<"open", b>>, Stake)
  /\ stage' = [stage EXCEPT ![b] = "sending"]
  /\ UNCHANGED <<reads, host, rounds, effectDue, orphans, action, chain, feed, revealed,
                 failures, world>>

\* The open is tracked by the host that made it, if that is still there.
OpenTracked(b) ==
  /\ stage' = [stage EXCEPT ![b] = "returned"]
  /\ IF b \in orphans THEN UNCHANGED tracked ELSE Track(b, <<"open", b>>)
  /\ UNCHANGED <<ledger, pendingReveal>>

\* openSession's receipt arrives.
OpenReturns(b) ==
  /\ stage[b] = "mined"
  /\ OpenTracked(b)
  /\ UNCHANGED <<reads, host, effectDue, orphans, action, chain, feed, revealed, failures, world>>

\* The send fails: the stake is put back and the round closed, unless the pushed
\* open proves that the bet landed.
OpenFails(b) ==
  /\ stage[b] = "sending" \/ (stage[b] = "mined" /\ world.misreports)
  /\ \/ /\ stage[b] = "mined" /\ OpenTracked(b)
     \/ /\ stage' = [stage EXCEPT ![b] = IF @ = "mined" THEN "misreported" ELSE "failed"]
        /\ ledger' = RoundsEnd(RefundStake(ledger, Stake), [c \in {b} |-> <<"open", c>>], Nothing)
        /\ UNCHANGED rounds
  /\ UNCHANGED <<reads, host, effectDue, orphans, action, chain, feed, revealed, failures, world>>

\* Session b is open on the chain.
Live(b) == stage[b] \in {"mined", "returned", "misreported"} /\ outcome[b] = None

\* submitAction up to its await, for a session whose bytes the feed has shown: one this
\* host does not track is resumed.  A game acts on a round until it has presented its
\* outcome; most wait for openSession before they do.
SubmitAction(a) ==
  LET b == a.bet
      key == IF b \in DOMAIN tracked THEN tracked[b] ELSE <<"resume", b>>
      resumed == IF b \in DOMAIN tracked THEN ledger ELSE BetPlaced(ledger, key, 0)
  IN  /\ mounted /\ a \in world.calls /\ action[a] = "idle"
      /\ stage[b] \in {"returned", "misreported"} \/ (stage[b] = "mined" /\ world.hasty)
      /\ b \notin indexed \cup revealed
      /\ world.early \/ outcome[b] = None
      /\ Track(b, key)
      /\ ledger' = IF a.extra > 0 THEN BetPlaced(resumed, key, a.extra) ELSE resumed
      /\ action' = [action EXCEPT ![a] = "sending"]
      /\ UNCHANGED <<reads, host, pendingReveal, effectDue, stage, orphans, chain, feed, revealed,
                     failures, world>>

\* Its transaction is mined.
ActionMined(a) ==
  /\ action[a] = "sending" /\ Live(a.bet) /\ a.extra <= wallet
  /\ wallet' = wallet - a.extra
  /\ action' = [action EXCEPT ![a] = "mined"]
  /\ UNCHANGED <<ledger, reads, host, rounds, effectDue, stage, orphans, outcome, feed, revealed,
                 failures, world>>

\* Its receipt arrives.
ActionReturns(a) ==
  /\ action[a] = "mined"
  /\ action' = [action EXCEPT ![a] = "returned"]
  /\ UNCHANGED <<ledger, reads, host, rounds, effectDue, stage, orphans, chain, feed, revealed,
                 failures, world>>

\* The send fails, as it does once the session has moved on or settled: the extra stake
\* is put back, also if the transaction was mined and only its reporting failed.
ActionFails(a) ==
  /\ action[a] = "sending" \/ (action[a] = "mined" /\ world.misreports)
  /\ ledger' = RefundStake(ledger, a.extra)
  /\ action' = [action EXCEPT ![a] = IF @ = "mined" THEN "misreported" ELSE "failed"]
  /\ UNCHANGED <<reads, host, rounds, effectDue, stage, orphans, chain, feed, revealed,
                 failures, world>>

\* revealOutcome, once per session: dropped if the round is not tracked, queued
\* if neither the patch nor the row has the payout yet.
RevealOutcome(b) ==
  /\ mounted /\ outcome[b] # None /\ b \notin revealed
  /\ revealed' = revealed \cup {b}
  /\ IF b \notin DOMAIN tracked THEN UNCHANGED <<ledger, rounds>>
     ELSE IF b \in pushed \cup indexed THEN EndRounds({b})
     ELSE pendingReveal' = pendingReveal \cup {b} /\ UNCHANGED <<ledger, tracked>>
  /\ UNCHANGED <<reads, host, effectDue, sends, chain, feed, failures, world>>

-----------------------------------------------------------------------------
\* The chain and the feed.
OpenMined(b) ==
  /\ stage[b] = "sending" /\ Stake <= wallet
  /\ stage' = [stage EXCEPT ![b] = "mined"]
  /\ wallet' = wallet - Stake
  /\ UNCHANGED <<ledger, reads, host, rounds, effectDue, orphans, action, outcome, feed,
                 revealed, failures, world>>

Settle(b) ==
  /\ Live(b)
  /\ world.early \/ (/\ stage[b] # "mined"
                     /\ \A a \in Actions : a.bet = b => action[a] \notin {"sending", "mined"})
  /\ \E payout \in Payouts :
       outcome' = [outcome EXCEPT ![b] = payout] /\ wallet' = wallet + payout
  /\ UNCHANGED <<ledger, reads, host, rounds, effectDue, sends, feed, revealed, failures, world>>

PushSettlement(b) ==
  /\ mounted /\ outcome[b] # None /\ b \notin pushed
  /\ pushed' = pushed \cup {b}
  /\ UNCHANGED <<ledger, reads, host, rounds, effectDue, sends, chain, indexed, revealed, failures, world>>

IndexSettlement(b) ==
  /\ outcome[b] # None /\ b \notin indexed
  /\ indexed' = indexed \cup {b}
  /\ effectDue' = mounted
  /\ UNCHANGED <<ledger, reads, host, rounds, sends, chain, pushed, revealed, failures, world>>

Reconciling == ReconcileTimer \/ \E r \in reads : ReadBalance(r) \/ Reconcile(r)

Acting(a) == ActionMined(a) \/ ActionReturns(a) \/ ActionFails(a)

Next ==
  \/ Reconciling \/ RawBalance \/ SeedBaseline
  \/ SettleTrackedRounds \/ Unmount \/ Mount
  \/ \E r \in reads : ReadFails(r)
  \/ \E b \in Bets : \/ OpenSession(b) \/ OpenMined(b) \/ OpenReturns(b) \/ OpenFails(b)
                     \/ RevealOutcome(b) \/ Settle(b) \/ PushSettlement(b) \/ IndexSettlement(b)
  \/ \E a \in Actions : SubmitAction(a) \/ Acting(a)

Spec == Init /\ [][Next]_vars

\* Timers fire and reads are answered, React renders, transactions end one way or
\* the other, sessions settle, rows arrive, and the game reveals its wins.
FairSpec ==
  /\ Spec
  /\ WF_vars(world.live /\ (Reconciling \/ RawBalance \/ SeedBaseline \/ SettleTrackedRounds))
  /\ \A b \in Bets :
       WF_vars(world.live /\ (\/ OpenMined(b) \/ OpenReturns(b) \/ Settle(b) \/ IndexSettlement(b)
                             \/ (outcome[b] # 0 /\ RevealOutcome(b))))
  /\ \A a \in Actions : WF_vars(world.live /\ Acting(a))

-----------------------------------------------------------------------------
\* The stakes of bets and actions in some stage.
StakesIn(s) ==
  Stake * Cardinality({b \in Bets : stage[b] = s})
    + SumFunctionOnSet([a \in Actions |-> a.extra], {a \in Actions : action[a] = s})

\* Those whose transactions are on their way.
InFlight == StakesIn("sending")

\* The payouts on the chain that the game has not presented, or whose reveal has
\* not come through yet.
Hidden ==
  SumFunctionOnSet(outcome,
    {b \in Bets : /\ outcome[b] # None
                  /\ \/ b \notin revealed
                     \/ {<<"open", b>>, <<"resume", b>>} \cap ledger.active # {}})

\* The balance shown is what the wallet holds, less the stakes that are about to
\* leave and the payouts the game has not presented yet: no stake is counted
\* twice or forgotten, no payout is shown early, and no balance read that raced
\* a bet, a settlement or a reveal changes that.  (For one host that stays, is told the
\* truth, and whose game waits for openSession before it acts.)
DisplayFollowsTheGame ==
  world.mounts = 1 /\ ~world.misreports /\ ~world.hasty /\ Displayed # None =>
    Displayed = wallet - InFlight - Hidden

\* The stakes put back because a mined transaction was reported failed: wagers and
\* the extra stakes of actions.
PutBack == StakesIn("misreported")

\* Even across hosts that come and go, the ledger never shows money that the
\* wallet will not have once the transactions in flight are mined, except for
\* a stake that it was told had not left.
NeverAhead == Displayed # None => Displayed <= wallet - InFlight + PutBack

\* Once the player stops, the chain is read again and its balance adopted, with no
\* delta left over: this is what the reconcile is for, which is to catch the rest.
EventuallyReconciled ==
  <>[](world.live => mounted /\ ledger.baseline = wallet /\ ledger.adjustment = 0)

=============================================================================
