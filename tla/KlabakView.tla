----------------------------- MODULE KlabakView -----------------------------
(***************************************************************************)
(* What the claw machine page shows: the render of                         *)
(* examples/klabak/src/App.tsx with its components ClawMachine, Paytable,  *)
(* PrizeLadder and WinOverlay, read from the state of KlabakPage.  The     *)
(* machine is drawn for the cabinet whose tab is selected, the banner and  *)
(* the history for the cabinet of the round.                               *)
(***************************************************************************)
EXTENDS KlabakPage

\* A tier of a cabinet, as every part of the page prints it.
Prize(cabinet, tier) == [tier |-> tier, multiplier |-> MultiplierOf(cabinet, tier)]

TopMultiplier(cabinet) == MultiplierOf(cabinet, PageTierTop)

-----------------------------------------------------------------------------
(* The banner and the overlay *)

LastRound == round.status = "settled" /\ round.outcome # Undefined

\* What a settled round came to.  A demo round has no payout of its own.
Result ==
  [prize |-> Prize(round.cabinetId, round.outcome),
   won |-> ~IsSlip(round.cabinetId, round.outcome),
   payout |-> IF round.kind = "demo" THEN PayoutFor(Wager, round.cabinetId, round.outcome)
              ELSE round.payout,
   isDemo |-> round.kind = "demo",
   isJackpot |-> MultiplierOf(round.cabinetId, round.outcome) = TopMultiplier(round.cabinetId)]

NoPrize == "nothing"

\* A prize with its payout, a slip, or the name of the cabinet.
Banner ==
  IF ~LastRound THEN [says |-> "idle", prize |-> NoPrize, payout |-> 0]
  ELSE IF Result.won THEN [says |-> "win", prize |-> Result.prize, payout |-> Result.payout]
  ELSE [says |-> "slip", prize |-> NoPrize, payout |-> 0]

\* The glass is taken over while the win is celebrated.
OverlayShown(celebrate) == celebrate /\ LastRound /\ Result.won

OverlayTitle ==
  CASE Result.isJackpot -> "JACKPOT"
    [] ~Result.isJackpot /\ Result.prize.multiplier >= 6 * PageMultScale -> "MEGA WIN"
    [] OTHER -> "BIG WIN"

Overlay == [title |-> OverlayTitle, prize |-> Result.prize, payout |-> Result.payout]

-----------------------------------------------------------------------------
(* The machine *)

Slipped == LastRound /\ IsSlip(cabinetId, round.outcome)
Won == LastRound /\ ~IsSlip(cabinetId, round.outcome)
IsJackpot == Won /\ round.outcome = PageTierTop
InFlight == round.status \notin {"idle", "settled"}

ClawAt ==
  CASE round.status \in {"descending", "gripping", "gripping-wait"} -> "capsules"
    [] round.status \in {"lifting", "dumping"} -> "lifted"
    [] OTHER -> "rest"

GripperOpen == round.status \in {"idle", "positioning", "descending", "settled"}
Holding == round.status \in {"lifting", "dumping"}

\* The plate below the case: the tier that came up, on the cabinet that is
\* selected now, until the next pull.
ShowReadout == round.outcome # Undefined /\ ~InFlight

Plate ==
  IF ~ShowReadout THEN [says |-> "READY", prize |-> NoPrize]
  ELSE IF IsSlip(cabinetId, round.outcome) THEN [says |-> "SLIP", prize |-> NoPrize]
  ELSE [says |-> "PRIZE", prize |-> Prize(cabinetId, round.outcome)]

\* The case: the claw with what it holds, the gap in the row, what lies in the
\* chute, the next pull's number and the most that it can win.
Scene ==
  [claw |-> ClawAt, open |-> GripperOpen, held |-> Holding, gap |-> Holding,
   overChute |-> round.status = "dumping", inChute |-> Won, plate |-> Plate,
   jackpot |-> IsJackpot, tilt |-> Slipped, pullNumber |-> Len(history) + 1,
   grabToWin |-> TopMultiplier(cabinetId)]

-----------------------------------------------------------------------------
(* The controls *)

\* As rendered: behind an auto pull the buttons of the page before take a click yet.
TabsEnabled == ~Busy /\ mode # "connecting"
AimEnabled == ~Busy /\ mode # "connecting"

PullLabel ==
  CASE Busy -> "the claw is moving"
    [] ~Busy /\ ~Covered -> "not enough balance or wallet not ready"
    [] OTHER -> "pull the claw"

\* The bet, the balance that pays it and the button.
Deck ==
  [bet |-> ~Busy, pull |-> CanPull, label |-> PullLabel,
   auto |-> autoLeft # Stopped \/ CanPull, left |-> autoLeft]

-----------------------------------------------------------------------------
(* The panels *)

\* A line that is a win.
Held(line) == ~IsSlip(line.cabinetId, line.tier)

\* The share of the lines in the history that held, as a fraction.
HoldRate == <<Cardinality({n \in DOMAIN history : Held(history[n])}), Len(history)>>

BestGrip ==
  LET grips == {MultiplierOf(history[n].cabinetId, history[n].tier) : n \in DOMAIN history}
  IN  IF grips = {} THEN 0 ELSE CHOOSE best \in grips : \A grip \in grips : grip <= best

\* Its last twelve marks, the newest first.
Strip ==
  [k \in 1..(IF Len(history) < 12 THEN Len(history) ELSE 12) |->
     Held(history[k])]

Stats == [pulls |-> Len(history), held |-> HoldRate, best |-> BestGrip, last |-> Strip]

Owned(charm) == collection[charm] > 0

\* The shelf: the charms that were pulled, and how often.
Shelf == [charm \in Charms |-> [owned |-> Owned(charm), times |-> collection[charm]]]

CharmCount == Cardinality({charm \in Charms : Owned(charm)})

\* What the page declares, as parts per million.
PageDeclaredRtpPpm == 960000

\* A row of the paytable: chance, what it pays and what it adds to the return, in
\* units of 1 / (PROB_SCALE * MULT_SCALE).
PaytableRow(cabinet, tier) ==
  LET row == CabinetById(cabinet)[tier + 1]
  IN  [chance |-> row.weight, pays |-> row.multiplier,
       contribution |-> row.weight * row.multiplier]

\* The return that the table adds up to; what its last row prints, per cent; and what
\* the chip above it prints.
RtpPpm(cabinet) ==
  (PaytableRow(cabinet, 0).contribution + PaytableRow(cabinet, 1).contribution
     + PaytableRow(cabinet, 2).contribution + PaytableRow(cabinet, 3).contribution)
  \div PageMultScale

TotalPercent(cabinet) == RtpPpm(cabinet) \div 10000

ChipPercent(cabinet) == TotalPercent(cabinet) * 100

\* The board above the button: every rung that pays, its odds, and the top one
\* flagged; the slip is on it too.
PrizeLadder(cabinet) ==
  [tier \in {t \in 0..PageTierTop : t = 0 \/ ~IsSlip(cabinet, t)} |->
     [odds |-> CabinetById(cabinet)[tier + 1].weight,
      top |-> MultiplierOf(cabinet, tier) = TopMultiplier(cabinet)]]

-----------------------------------------------------------------------------
\* The claw plays the round it was pulled for: while it moves, the machine shows the
\* cabinet that the round was opened on, which no tab takes away but one that is chosen
\* before the page has rendered its auto pull; it carries a capsule to the chute only
\* when the round's own cabinet pays for the tier that was drawn, whichever it shows;
\* and it does not come to rest before something was drawn.
ClawPlaysTheRound ==
  /\ InFlight /\ ~strayed => cabinetId = round.cabinetId
  /\ Scene.overChute => round.outcome # Undefined /\ ~IsSlip(round.cabinetId, round.outcome)
  /\ round # NoRound /\ ~InFlight => round.outcome # Undefined

\* One story: once a round is booked, the banner tells the newest line of the
\* history, however many lines were cut off it, and so does the plate, until the player
\* looks at another cabinet; the plate says nothing of a round that the history does
\* not know, but in the moment before it is booked.
OneStory ==
  ShowReadout /\ ~NotBooked =>
    /\ history # <<>>
    /\ LET line == history[1]
       IN  /\ line = Line(round)
           /\ LastRound => (Banner.says = "win" <=> Held(line))
           /\ cabinetId = line.cabinetId =>
                /\ Plate.says = "PRIZE" <=> Held(line)
                /\ Held(line) => Plate.prize = Prize(line.cabinetId, line.tier)

\* The money in the banner is the money on the chain: the payout of the session that
\* the round's own pull opened, whichever of the row's fields had arrived when the
\* page looked, unless two pulls were made on one rendering.
BannerSaysWhatWasPaid ==
  LastRound /\ round.kind = "hosted" /\ ~doubled => Result.payout = RowPayout(round.pull)

\* The shelf is what it was when the page loaded, and since then a charm for every line
\* that was booked and held, those that the history has dropped included: what a player
\* is shown there outlives the history and the visit.
ShelfAddsUp ==
  \A c \in CabinetIds, t \in 1..PageTierTop :
    LET lines == {n \in DOMAIN booked : booked[n].cabinetId = c /\ booked[n].tier = t}
    IN  /\ Shelf[<<c, t>>].times = StoredShelf[<<c, t>>] + Cardinality(lines)
        /\ Shelf[<<c, t>>].owned <=>
             StoredShelf[<<c, t>>] > 0 \/ \E n \in lines : Held(booked[n])

=============================================================================
