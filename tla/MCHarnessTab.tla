---- MODULE MCHarnessTab ----
EXTENDS HarnessTab
CONSTANTS good, pair, broken
MCFiles == <<"A.sol", "B.sol">>
MCContents == {good, pair, broken}
Game(name) ==
  [name |-> name, bytecode |-> TRUE, functions |-> {"quoteCaps", "onPlayerAction"}, arguments |-> FALSE]
Helper == [Game("Helper") EXCEPT !.functions = {"quoteCaps"}]
Interface == [Game("Interface") EXCEPT !.bytecode = FALSE]
Parameterised == [Game("Parameterised") EXCEPT !.arguments = TRUE]
MCSources ==
  good :> [errors |-> FALSE, contracts |-> <<Interface, Game("Game"), Helper>>] @@
  pair :> [errors |-> FALSE, contracts |-> <<Game("One"), Parameterised, Game("Two")>>] @@
  broken :> [errors |-> TRUE, contracts |-> <<>>]
\* Two edits of a folder that is watched; an edit among failures and other tools'
\* registrations; a node restarted among edits; a tab that is started and reloaded
\* across a restart; one whose fetches fail.
NodeWorld(before, boots, edits, others, failures) ==
  [before |-> before, boots |-> boots, edits |-> edits, others |-> others,
   failures |-> failures, tab |-> FALSE, starts |-> 0, reloads |-> 0]
TabWorld(boots, starts, reloads, failures) ==
  [before |-> {}, boots |-> boots, edits |-> 0, others |-> 0,
   failures |-> failures, tab |-> TRUE, starts |-> starts, reloads |-> reloads]
MCWorlds ==
  {NodeWorld({good}, 1, 2, 0, 0), NodeWorld({pair}, 1, 1, 1, 1), NodeWorld({good}, 2, 1, 0, 0),
   TabWorld(2, 1, 1, 0), TabWorld(2, 1, 0, 1)}
====
