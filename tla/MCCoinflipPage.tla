--------------------------- MODULE MCCoinflipPage ---------------------------
(***************************************************************************)
(* CoinflipPage with two coins of which one or both must come up, over     *)
(* words that throw none, one and two heads.                               *)
(***************************************************************************)
EXTENDS CoinflipView

Call(pickHeads, coinCount, minWins) ==
  [pickHeads |-> pickHeads, coinCount |-> coinCount, minWins |-> minWins]

MCBets == {Call(FALSE, 2, 2), Call(TRUE, 2, 1)}
MCWords == {4, 6, 7}

-----------------------------------------------------------------------------
(***************************************************************************)
(* Two worlds, told apart by a variable that never changes: in "refresh"   *)
(* the manifest and the limits change under a page that stays, in          *)
(* "remount" the page goes and comes again at any point.                   *)
(***************************************************************************)
VARIABLE world

MCVars == <<vars, world>>

MCInit == Init /\ world \in {"refresh", "remount"}

MCNext ==
  /\ Next
  /\ world = "refresh" => mounts' = mounts
  /\ world = "remount" => limit' = limit /\ manifest' = manifest /\ fastMode' = fastMode
  /\ UNCHANGED world

MCSpec == MCInit /\ [][MCNext]_MCVars /\ Fairness

=============================================================================
