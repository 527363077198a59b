-------------------------- MODULE MCBalanceLedger ---------------------------
(***************************************************************************)
(* BalanceLedger in the worlds the runs look at.                           *)
(***************************************************************************)
EXTENDS BalanceLedger

Call(bet, extra) == [bet |-> bet, extra |-> extra, call |-> 1]
MCActions == {Call(1, 0), Call(1, 2), Call(2, 0)}

\* One page that stays, where settlements race opens and reads fail; one that comes
\* and goes; one where mined transactions, of bets and of an action that pulls an extra
\* stake, are reported failed; one whose game does not wait for openSession; and one
\* where actions on a session overlap and follow each other, and the player stops.
MCRaces ==
  [calls |-> {}, mounts |-> 1, failures |-> 1, early |-> TRUE, hasty |-> FALSE,
   misreports |-> FALSE, live |-> FALSE]
MCMounts == [MCRaces EXCEPT !.calls = {Call(1, 0)}, !.mounts = 2, !.failures = 0, !.early = FALSE]
MCMisreports == [MCMounts EXCEPT !.calls = {Call(1, 2)}, !.mounts = 1, !.misreports = TRUE]
MCIdle == [MCMounts EXCEPT !.calls = MCActions, !.mounts = 1, !.live = TRUE]
MCHasty == [MCIdle EXCEPT !.calls = {Call(1, 0), Call(1, 2)}, !.hasty = TRUE, !.live = FALSE]
MCWorlds == {MCRaces, MCMounts, MCMisreports, MCHasty, MCIdle}

=============================================================================
