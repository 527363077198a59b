----------------------------- MODULE KlabakPage -----------------------------
(***************************************************************************)
(* examples/klabak/src/App.tsx with lib/useCasinoHost.ts: the claw         *)
(* machine page, from the pull to the line in the history, over a host     *)
(* that opens the sessions and shows their rows.                           *)
(*                                                                         *)
(* The page is a React component.  An effect is an action that is enabled  *)
(* by the state it reads, a timer one that may fire as late as it likes;   *)
(* the page renders between two of them.  The one place where it matters   *)
(* that it had not rendered yet is unrendered: an auto pull has started,   *)
(* and the key handler and the buttons still are those of the page before. *)
(*                                                                         *)
(* A pull has a number, and so has the session that it opens.              *)
(***************************************************************************)
EXTENDS KlabakTables, FiniteSets

CONSTANTS
  MaxPulls,      \* bound on the pulls of the player and of the queue
  AUTO_PULLS,    \* the length of the auto queue (10 in the page)
  Wager,         \* the wager in the input
  DemoStart,     \* DEMO_START_BALANCE
  CabinetIds,    \* the cabinets whose tab the player chooses
  DrawnTiers,    \* the tiers the chain may draw
  DemoWords,     \* the words browser randomness may give
  HISTORY_LINES, \* the lines that the history keeps (40 in the page)
  StoredShelf    \* the charms that localStorage holds when the page loads

ASSUME PageAssumption ==
  /\ {MaxPulls, AUTO_PULLS, DemoStart} \subseteq Nat /\ Wager \in Nat \ {0}
  /\ CabinetIds \subseteq 0..2 /\ 0 \in CabinetIds
  /\ DrawnTiers \subseteq 0..PageTierTop
  /\ HISTORY_LINES \in Nat \ {0}

\* allCharms: every tier but the slip leaves one.
Charms == CabinetIds \X (1..PageTierTop)

ASSUME ShelfAssumption == StoredShelf \in [Charms -> Nat]

\* The weights of a cabinet add up to PROB_SCALE: every word lands on a tier.
ASSUME DemoAssumption ==
  \A word \in DemoWords, c \in CabinetIds : PlayDemoRound(c, word) \in 0..PageTierTop

Pulls == 1..MaxPulls

\* round = null: the machine is at rest.
NoRound == [pull |-> 0, kind |-> "none", cabinetId |-> 0, status |-> "idle", sessionKey |-> 0,
            sessionId |-> 0,
            outcome |-> Undefined, payout |-> 0, revealed |-> FALSE]

Stopped == -1           \* autoLeft = null

RoundStatus == {"idle", "positioning", "descending", "gripping-wait", "gripping",
                "lifting", "dumping", "settled"}
BusyStatus == RoundStatus \ {"idle", "settled"}

\* The tier in the game state of a session that was cancelled (NO_TIER).
Cancelled == 255

\* What the snapshot says of a session besides its being over.
RowFields == {"gameState", "randomness", "payout"}

VARIABLES
  mode,          \* "connecting", "hosted" or "standalone"
  handshake,     \* the connection's promise: "pending", "resolved" or "failed"
  hostReady,     \* the host's wallet is ready and covers the wager
  cabinetId,     \* the selected tab
  round,
  booked,        \* history: every line booked, oldest first, with its pull
  collection,    \* charms on the shelf, by cabinet and tier
  demoBalance,
  error,         \* an error line is shown
  autoLeft,      \* remaining auto pulls, or Stopped
  settledRef,    \* the round that was booked last
  demoDue,       \* the demo pulls whose 1400 ms timer is pending
  unrendered,    \* an auto pull's setRound has not been rendered
  pulls,         \* the pulls made
  calls,         \* the openSession call of each pull
  gameData,      \* the cabinet that its session is opened for
  settled,       \* what the chain settled: a tier, Cancelled, or Undefined
  rows,          \* the terminal row the snapshot shows, as its fields
  reveals,       \* the revealOutcome calls made, oldest first
  doubled,       \* history: two pulls were made on one rendering
  refusedInQueue, \* history: a pull was refused while the auto queue was on
  strayed        \* history: a tab was chosen in the gap behind the round's auto pull

host == <<mode, handshake, hostReady>>
machine == <<round, booked, collection, demoBalance, error, settledRef, reveals>>
chain == <<calls, gameData, settled, rows>>
histories == <<doubled, refusedInQueue, strayed>>
vars == <<host, cabinetId, machine, autoLeft, demoDue, unrendered, pulls, chain, histories>>

\* Where a session's row is while it is not terminal.
Open == {"open"}

Init ==
  /\ mode = "connecting" /\ handshake = "pending" /\ hostReady = TRUE
  /\ cabinetId = 0
  /\ round = NoRound
  /\ booked = <<>>
  /\ collection = StoredShelf
  /\ demoBalance = DemoStart
  /\ error = FALSE
  /\ autoLeft = Stopped
  /\ settledRef = 0
  /\ demoDue = {}
  /\ unrendered = FALSE
  /\ pulls = 0
  /\ calls = [i \in Pulls |-> "none"]
  /\ gameData = [i \in Pulls |-> 0]
  /\ settled = [i \in Pulls |-> Undefined]
  /\ rows = [i \in Pulls |-> Open]
  /\ reveals = <<>>
  /\ doubled = FALSE
  /\ refusedInQueue = FALSE
  /\ strayed = FALSE

-----------------------------------------------------------------------------
(* useCasinoHost *)

HandshakeResolves ==
  /\ ~unrendered
  /\ handshake = "pending"
  /\ handshake' = "resolved"
  /\ mode' = "hosted"
  /\ UNCHANGED <<hostReady, cabinetId, machine, autoLeft, demoDue, unrendered, pulls, chain,
                 histories>>

HandshakeFails ==
  /\ ~unrendered
  /\ handshake = "pending"
  /\ handshake' = "failed"
  /\ mode' = "standalone"
  /\ UNCHANGED <<hostReady, cabinetId, machine, autoLeft, demoDue, unrendered, pulls, chain,
                 histories>>

\* handshakeTimeoutMs have passed.  The promise may still resolve later.
HandshakeTimesOut ==
  /\ ~unrendered
  /\ mode = "connecting"
  /\ mode' = "standalone"
  /\ UNCHANGED <<handshake, hostReady, cabinetId, machine, autoLeft, demoDue, unrendered,
                 pulls, chain, histories>>

\* A snapshot with another wallet status or balance.
HostReadiness ==
  /\ ~unrendered /\ mode = "hosted"
  /\ hostReady' = ~hostReady
  /\ UNCHANGED <<mode, handshake, cabinetId, machine, autoLeft, demoDue, unrendered, pulls,
                 chain, histories>>

-----------------------------------------------------------------------------
(* What the controls allow *)

Busy == round.status \in BusyStatus

\* walletReady and not insufficient.
Covered == IF mode = "hosted" THEN hostReady ELSE Wager <= demoBalance

CanPull == ~Busy /\ Covered /\ mode # "connecting"

IdleNow == round.status = "idle"

\* A tab is disabled once the page has rendered that the machine is busy.  A click
\* renders what was pending.
ChooseCabinet(c) ==
  /\ unrendered \/ ~Busy
  /\ mode # "connecting"
  /\ c # cabinetId
  /\ cabinetId' = c
  /\ strayed' = unrendered
  /\ unrendered' = FALSE
  /\ UNCHANGED <<host, machine, autoLeft, demoDue, pulls, chain, doubled, refusedInQueue>>

-----------------------------------------------------------------------------
\* openRound, up to its await: a demo round draws by itself 1400 ms later, a
\* hosted one asks for a session.
OpenRound ==
  /\ pulls < MaxPulls
  /\ pulls' = pulls + 1
  /\ error' = FALSE
  /\ round' = [pull |-> pulls + 1, kind |-> IF mode = "hosted" THEN "hosted" ELSE "demo",
               cabinetId |-> cabinetId, status |-> "positioning", sessionKey |-> 0,
               sessionId |-> 0, outcome |-> Undefined, payout |-> 0, revealed |-> FALSE]
  /\ IF mode = "hosted"
     THEN /\ calls' = [calls EXCEPT ![pulls + 1] = "pending"]
          /\ gameData' = [gameData EXCEPT ![pulls + 1] = cabinetId]
          /\ UNCHANGED demoDue
     ELSE /\ demoDue' = demoDue \cup {pulls + 1}
          /\ UNCHANGED <<calls, gameData>>
  /\ strayed' = FALSE
  /\ UNCHANGED <<host, cabinetId, booked, collection, demoBalance, settledRef, reveals,
                 settled, rows>>

\* Mutant: an error does not stop the queue.
AutoExhausted == autoLeft <= 0 \/ ~Covered

AutoMustStop == autoLeft <= 0 \/ error \/ ~Covered

\* Mutant: the guard is on the reveal, which demo rounds do not have.
NotBookedUntilRevealed == ~round.revealed

NotBooked == settledRef # round.pull

\* A settled round is to be booked.
BookDue == round.status = "settled" /\ round.outcome # Undefined /\ NotBooked

\* The button, Space or Enter.  The effects of the last rendering have run.
Pull ==
  /\ unrendered \/ (CanPull /\ ~(autoLeft # Stopped /\ AutoMustStop) /\ ~BookDue)
  /\ OpenRound
  /\ doubled' = (doubled \/ unrendered)
  /\ unrendered' = FALSE
  /\ UNCHANGED <<autoLeft, refusedInQueue>>

Render ==
  /\ unrendered
  /\ unrendered' = FALSE
  /\ UNCHANGED <<host, cabinetId, machine, autoLeft, demoDue, pulls, chain, histories>>

\* The queue's button, which is enabled while the queue is on: a click in the gap too.
ToggleAuto ==
  /\ autoLeft # Stopped \/ CanPull
  /\ autoLeft' = IF autoLeft = Stopped THEN AUTO_PULLS ELSE Stopped
  /\ refusedInQueue' = FALSE
  /\ unrendered' = FALSE
  /\ UNCHANGED <<host, cabinetId, machine, demoDue, pulls, chain, doubled, strayed>>

\* The first half of the auto effect.
AutoStops ==
  /\ ~unrendered
  /\ autoLeft # Stopped /\ AutoMustStop
  /\ autoLeft' = Stopped
  /\ refusedInQueue' = FALSE
  /\ UNCHANGED <<host, cabinetId, machine, demoDue, unrendered, pulls, chain, doubled, strayed>>

\* The second: its 380 ms timer.
AutoFires ==
  /\ ~unrendered
  /\ autoLeft # Stopped /\ ~AutoMustStop
  /\ IdleNow /\ CanPull
  /\ autoLeft' = autoLeft - 1
  /\ OpenRound
  /\ unrendered' = TRUE
  /\ UNCHANGED <<doubled, refusedInQueue>>

-----------------------------------------------------------------------------
(* The host's side of a pull *)

\* openSession returns.  The key goes to whatever round is current.
SessionOpens(i) ==
  /\ calls[i] = "pending"
  /\ calls' = [calls EXCEPT ![i] = "opened"]
  /\ round' = IF round = NoRound THEN NoRound ELSE [round EXCEPT !.sessionKey = i]
  /\ UNCHANGED <<host, cabinetId, booked, collection, demoBalance, error, settledRef,
                 reveals, autoLeft, demoDue, unrendered, pulls, gameData, settled, rows,
                 histories>>

\* openSession rejects: its catch, and clearTimers.
SessionRefused(i) ==
  /\ calls[i] = "pending" /\ settled[i] = Undefined
  /\ calls' = [calls EXCEPT ![i] = "refused"]
  /\ round' = NoRound
  /\ error' = TRUE
  /\ demoDue' = {}
  /\ refusedInQueue' = (autoLeft # Stopped)
  /\ UNCHANGED <<host, cabinetId, booked, collection, demoBalance, settledRef, reveals,
                 autoLeft, unrendered, pulls, gameData, settled, rows, doubled, strayed>>

\* The session ends on the chain, perhaps before its openSession has returned.
SessionSettles(i) ==
  /\ calls[i] \in {"pending", "opened"} /\ settled[i] = Undefined
  /\ \E result \in DrawnTiers \cup {Cancelled} :
       settled' = [settled EXCEPT ![i] = result]
  /\ UNCHANGED <<host, cabinetId, machine, autoLeft, demoDue, unrendered, pulls, calls,
                 gameData, rows, histories>>

\* Everything a terminal row comes to show.  A cancelled session has no word.
FullRow(i) == IF settled[i] = Cancelled THEN RowFields \ {"randomness"} ELSE RowFields

\* The snapshot shows it terminal, with the fields it has by then.
RowShows(i) ==
  /\ settled[i] # Undefined /\ rows[i] = Open
  /\ \E fields \in SUBSET FullRow(i) : rows' = [rows EXCEPT ![i] = fields]
  /\ UNCHANGED <<host, cabinetId, machine, autoLeft, demoDue, unrendered, pulls, calls,
                 gameData, settled, histories>>

RowCompletes(i) ==
  /\ settled[i] # Undefined /\ rows[i] # FullRow(i)
  /\ rows' = [rows EXCEPT ![i] = FullRow(i)]
  /\ UNCHANGED <<host, cabinetId, machine, autoLeft, demoDue, unrendered, pulls, calls,
                 gameData, settled, histories>>

-----------------------------------------------------------------------------
(* The settle effect *)

\* What a session cost is what every pull costs, and it pays on the cabinet that
\* it was opened for.
RowPayout(i) ==
  IF settled[i] = Cancelled THEN Wager ELSE PayoutFor(Wager, gameData[i], settled[i])

\* The tiers the page may take from a row: the game state's, or the word's, or the
\* payout's.  The state of a cancelled session still says that no tier is drawn,
\* and decodes to nothing; the word gives the tier that the contract drew from it
\* on the session's cabinet, and on another one any.
RowOutcomes(i) ==
  IF "gameState" \in rows[i] /\ settled[i] # Cancelled THEN {settled[i]}
  ELSE IF "randomness" \in rows[i]
       THEN IF round.cabinetId = gameData[i] THEN {settled[i]} ELSE 0..PageTierTop
  ELSE IF "payout" \in rows[i]
       THEN {OutcomeFromPayout(round.cabinetId, Wager, RowPayout(i))}
  ELSE {}

\* The effect looks at the row of a hosted round that has no outcome yet.
AwaitsOutcome ==
  /\ ~unrendered
  /\ round.kind = "hosted" /\ round.outcome = Undefined
  /\ round.sessionKey # 0 /\ rows[round.sessionKey] # Open

\* Mutant: any round without a state is given up.
AbnormalWithoutState(i) == "gameState" \notin rows[i]

\* A round that was not settled and has no state at all is given up.
Abnormal(i) == settled[i] = Cancelled /\ "gameState" \notin rows[i]

DropRound ==
  /\ AwaitsOutcome /\ Abnormal(round.sessionKey)
  /\ error' = TRUE
  /\ round' = NoRound
  /\ UNCHANGED <<host, cabinetId, booked, collection, demoBalance, settledRef, reveals,
                 autoLeft, demoDue, unrendered, pulls, chain, histories>>

OutcomeArrives ==
  /\ AwaitsOutcome /\ ~Abnormal(round.sessionKey)
  /\ LET i == round.sessionKey
     IN  \E tier \in RowOutcomes(i) :
           round' = [round EXCEPT
              !.outcome = tier,
              !.sessionId = i,
              !.payout = IF "payout" \in rows[i] THEN RowPayout(i)
                         ELSE PayoutFor(Wager, round.cabinetId, tier)]
  /\ UNCHANGED <<host, cabinetId, booked, collection, demoBalance, error, settledRef, reveals,
                 autoLeft, demoDue, unrendered, pulls, chain, histories>>

\* The demo timer of pull i: whatever round is current gets the outcome.
DemoDraws(i) ==
  /\ i \in demoDue
  /\ demoDue' = demoDue \ {i}
  /\ \E word \in DemoWords :
       round' = IF round = NoRound THEN NoRound
                ELSE [round EXCEPT !.outcome = PlayDemoRound(round.cabinetId, word)]
  /\ UNCHANGED <<host, cabinetId, booked, collection, demoBalance, error, settledRef, reveals,
                 autoLeft, unrendered, pulls, chain, histories>>

-----------------------------------------------------------------------------
(* The timeline *)

\* Where the drive effect's timer takes the round; a round that waits for its
\* outcome, and one that is over, stay.
NextStatus(r) ==
  CASE r.status = "positioning" -> "descending"
    [] r.status = "descending" -> "gripping-wait"
    [] r.status = "gripping-wait" /\ r.outcome # Undefined -> "gripping"
    [] r.status = "gripping" -> "lifting"
    [] r.status = "lifting" ->
         IF r.outcome # Undefined /\ IsSlip(cabinetId, r.outcome) THEN "settled" ELSE "dumping"
    [] r.status = "dumping" -> "settled"
    [] OTHER -> r.status

\* The demo timers of two pulls on one rendering are due at the same time, and so
\* both before the claw lifts what the first of them let it grip.
Advance ==
  /\ ~unrendered
  /\ NextStatus(round) # round.status
  /\ NextStatus(round) = "lifting" => demoDue = {}
  /\ round' = [round EXCEPT !.status = NextStatus(round)]
  /\ UNCHANGED <<host, cabinetId, booked, collection, demoBalance, error, settledRef, reveals,
                 autoLeft, demoDue, unrendered, pulls, chain, histories>>

\* The line of a round in the history: its cabinet and tier as the page keeps
\* them, with the pull and its session.
Line(r) ==
  [pull |-> r.pull, kind |-> r.kind, session |-> r.sessionId, cabinetId |-> r.cabinetId,
   tier |-> r.outcome]

\* The history of the page, the newest line first: all that is left of the lines.
history ==
  [k \in 1..(IF Len(booked) < HISTORY_LINES THEN Len(booked) ELSE HISTORY_LINES) |->
     booked[Len(booked) + 1 - k]]

\* Mutant: the session is the one whose key came last.
SessionByKey(r) == r.sessionKey

\* The session a settled round is about, read from its row.
SessionOf(r) == r.sessionId

\* The settle bookkeeping effect.
Book ==
  /\ ~unrendered
  /\ BookDue
  /\ settledRef' = round.pull
  /\ booked' = Append(booked, Line(round))
  /\ collection' = IF IsSlip(round.cabinetId, round.outcome) THEN collection
                   ELSE [collection EXCEPT ![<<round.cabinetId, round.outcome>>] = @ + 1]
  /\ demoBalance' = IF round.kind = "hosted" THEN demoBalance
                    ELSE demoBalance - Wager
                           + PayoutFor(Wager, round.cabinetId, round.outcome)
  /\ IF round.kind = "hosted" /\ round.sessionId # 0 /\ ~round.revealed
     THEN /\ round' = [round EXCEPT !.revealed = TRUE]
          /\ reveals' = Append(reveals, SessionOf(round))
     ELSE UNCHANGED <<round, reveals>>
  /\ UNCHANGED <<host, cabinetId, error, autoLeft, demoDue, unrendered, pulls, chain, histories>>

\* Its last timer.
BackToIdle ==
  /\ ~unrendered
  /\ round.status = "settled" /\ ~NotBooked
  /\ round' = [round EXCEPT !.status = "idle"]
  /\ UNCHANGED <<host, cabinetId, booked, collection, demoBalance, error, settledRef, reveals,
                 autoLeft, demoDue, unrendered, pulls, chain, histories>>

-----------------------------------------------------------------------------
Next ==
  \/ HandshakeResolves \/ HandshakeFails \/ HandshakeTimesOut \/ HostReadiness
  \/ \E c \in CabinetIds : ChooseCabinet(c)
  \/ Pull \/ Render \/ ToggleAuto \/ AutoStops \/ AutoFires
  \/ \E i \in Pulls : SessionOpens(i) \/ SessionRefused(i) \/ SessionSettles(i)
  \/ \E i \in Pulls : RowShows(i) \/ RowCompletes(i)
  \/ DropRound \/ OutcomeArrives
  \/ \E i \in Pulls : DemoDraws(i)
  \/ Advance \/ Book \/ BackToIdle

Spec == Init /\ [][Next]_vars

\* What the page does by itself.
PageStep == Render \/ DropRound \/ OutcomeArrives \/ Advance \/ Book \/ BackToIdle

\* Timers fire and effects run, and the row of a session that has ended becomes
\* complete.  Nothing is asked of the player, the chain or openSession.
Fairness == WF_vars(PageStep) /\ \A i \in Pulls : WF_vars(RowCompletes(i))

FairSpec == Spec /\ Fairness

-----------------------------------------------------------------------------
\* The claw comes up with nothing but what the chain drew: a line of the history
\* is about the session its own pull opened, unless two pulls were made on one
\* rendering, and shows the tier drawn for it, whichever of the row's fields had
\* arrived when the page looked.  And a session is revealed to the host once, after
\* it has ended and with its line in the history: the host counts a reveal as the
\* round's end.
RevealedAsDrawn ==
  /\ \A n \in DOMAIN booked :
       LET line == booked[n]
           ofItsCabinet == line.cabinetId = gameData[line.session]
       IN  line.kind = "hosted" =>
             /\ doubled \/ (line.session = line.pull /\ ofItsCabinet)
             /\ ofItsCabinet /\ settled[line.session] # Cancelled =>
                  line.tier = settled[line.session]
  /\ \A n \in DOMAIN reveals :
       /\ \A m \in DOMAIN reveals : reveals[m] = reveals[n] => m = n
       /\ settled[reveals[n]] # Undefined
       /\ \E k \in DOMAIN booked : booked[k].session = reveals[n]

DemoGain(line) ==
  IF line.kind = "hosted" THEN 0 ELSE PayoutFor(Wager, line.cabinetId, line.tier) - Wager

\* What the demo balance was after each line of the history.
DemoBalanceAfter[n \in 0..Len(booked)] ==
  IF n = 0 THEN DemoStart ELSE DemoBalanceAfter[n - 1] + DemoGain(booked[n])

\* Play money: the demo balance is what the lines of the history say, each
\* pull counted once.
DemoMoneyAddsUp ==
  /\ demoBalance = DemoBalanceAfter[Len(booked)]
  /\ \A m, n \in DOMAIN booked : booked[m].pull = booked[n].pull => m = n

\* "A win shows the prize its payout implies (the largest tier the payout can
\* fund)": no line shows a prize that the chain did not pay.  The row of a
\* cancelled session pays the wager back, and no tier is worth that little.
PrizeWasPaid ==
  \A n \in DOMAIN booked :
    LET line == booked[n]
    IN  line.kind = "hosted" =>
          PayoutFor(Wager, line.cabinetId, line.tier)
            <= IF settled[line.session] = Cancelled THEN Wager
               ELSE PayoutFor(Wager, gameData[line.session], settled[line.session])

\* Auto pulls stop "the moment a pull errors": once a pull is refused while the
\* queue is on, its own or one made by hand, the queue makes no other, unless a
\* second pull on the same rendering has cleared the error.
QueueStopsOnError ==
  [][autoLeft' = autoLeft - 1 /\ pulls' # pulls => ~refusedInQueue \/ doubled]_vars

\* Every session the player opened and the chain drew comes up in the history,
\* unless the page lost it to a second pull.
EverySessionComesUp ==
  \A i \in Pulls :
    calls[i] = "opened" /\ settled[i] \in 0..PageTierTop ~>
      doubled \/ \E n \in DOMAIN booked : booked[n].session = i

=============================================================================
