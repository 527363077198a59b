--------------------------- MODULE MCHostSnapshot ---------------------------
(***************************************************************************)
(* HostSnapshot in the worlds the run looks at.                            *)
(***************************************************************************)
EXTENDS HostSnapshot

World(sessions, steps, bets, rough, live) ==
  [sessions |-> sessions, steps |-> steps, bets |-> bets, rough |-> rough, live |-> live]

\* A session of several steps, calm; a short one bet from this page, and a longer one
\* that was not, in disorder; and two sessions one after the other, whose settlements
\* are awaited.
MCWorlds ==
  {World(1, 3, {1}, FALSE, FALSE), World(1, 1, {1}, TRUE, FALSE), World(1, 2, {}, TRUE, FALSE),
   World(2, 1, {2}, FALSE, TRUE)}

=============================================================================
