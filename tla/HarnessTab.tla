----------------------------- MODULE HarnessTab -----------------------------
(***************************************************************************)
(* simulator/src/App.tsx, config.ts and createSimulatorRuntime of          *)
(* runtime.ts: a tab with the harness beside the local node.               *)
(*                                                                         *)
(* The tab polls deployed.json, takes the addresses of a new boot into its *)
(* configuration and starts the harness on them; starting is asynchronous, *)
(* and a restart cancels what an earlier one has under way.  The file it   *)
(* reads may be the one of a boot that is over, and answers may overtake   *)
(* each other.                                                             *)
(***************************************************************************)
EXTENDS LocalNode

CONSTANTS MaxFetches   \* fetches of deployed.json under way at a time

VARIABLES
  config,     \* the panel's configuration, in localStorage: host and game
  bootId,     \* the boot the poll has seen last, or 0
  fetches,    \* the answers under way
  detected,   \* the contracts shown in the panel
  applied,    \* appliedConfig, the number of its effect, 0 for none, and (history) whether it
              \* was started by hand before the first answer of the poll
  creating,   \* the calls of createSimulatorRuntime under way
  feeds,      \* the runtimes whose event feed runs
  runtime,    \* the one shown, or NoRuntime
  tabUsed     \* the bounds used up: starts, reloads, failures

tabVars == <<config, bootId, fetches, detected, applied, creating, feeds, runtime, tabUsed>>
allVars == <<vars, tabVars>>

NoRuntime == [effect |-> 0, host |-> 0, boot |-> 0]
NotApplied == [effect |-> 0, host |-> 0, game |-> 0, boot |-> 0, early |-> FALSE]

TabInit ==
  /\ Init
  /\ config = [host |-> 0, game |-> 0, boot |-> 0]
  /\ bootId = 0
  /\ fetches = {}
  /\ detected = NothingWritten
  /\ applied = NotApplied
  /\ creating = {}
  /\ feeds = {}
  /\ runtime = NoRuntime
  /\ tabUsed = [starts |-> 0, reloads |-> 0, failures |-> 0]

\* Mutant: saved addresses win.
WithSavedContracts(contracts) ==
  [host |-> IF config.host # 0 THEN config.host ELSE contracts.host,
   boot |-> IF config.host # 0 THEN config.boot ELSE contracts.boot,
   game |-> IF config.game # 0 THEN config.game ELSE contracts.host + 1]

\* withDetectedContracts: fresh infrastructure, and the game that is set already.  The
\* configuration remembers the boot its host is from.
WithDetectedContracts(contracts) ==
  [host |-> contracts.host, boot |-> contracts.boot,
   game |-> IF config.game # 0 THEN config.game ELSE contracts.host + 1]

\* setAppliedConfig with a new configuration: the clean-up of the effect stops the
\* runtime it created and cancels the one it is creating, and the effect runs anew.
Apply(c, early) ==
  LET effect == applied.effect + 1
  IN  /\ applied' = [effect |-> effect, early |-> early,
                      host |-> c.host, game |-> c.game, boot |-> c.boot]
      /\ feeds' = {r \in feeds : r.effect # applied.effect}
      /\ runtime' = IF runtime.effect = applied.effect THEN NoRuntime ELSE runtime
      /\ creating' = creating \union {[effect |-> effect, host |-> c.host, game |-> c.game, boot |-> c.boot]}

\* The poll sends a request; the server reads the file, if there is one.  Answers the tab
\* would drop, for it has them already, are left out.
Fetch ==
  /\ world.tab
  /\ written # NothingWritten
  /\ Cardinality(fetches) < MaxFetches /\ written \notin fetches
  /\ detected # written \/ bootId # written.boot
  /\ fetches' = fetches \union {written}
  /\ UNCHANGED <<vars, config, bootId, detected, applied, creating, feeds, runtime, tabUsed>>

\* Its answer: the first one and a new bootId are taken in, any other only updates the
\* picker.
OnContracts(contracts) ==
  /\ contracts \in fetches
  /\ fetches' = fetches \ {contracts}
  /\ detected' = contracts
  /\ LET rebooted == bootId # 0 /\ contracts.boot # bootId
         merged == WithDetectedContracts(contracts)
     IN  IF bootId # 0 /\ ~rebooted
         THEN UNCHANGED <<config, bootId, applied, creating, feeds, runtime>>
         ELSE /\ bootId' = contracts.boot
              /\ config' = merged
              /\ IF rebooted \/ applied.effect = 0
                 THEN Apply(merged, FALSE)
                 ELSE UNCHANGED <<applied, creating, feeds, runtime>>
  /\ UNCHANGED <<vars, tabUsed>>

\* The file is read half-written or the request fails: no contracts.
FetchFails(contracts) ==
  /\ tabUsed.failures < world.failures
  /\ contracts \in fetches
  /\ fetches' = fetches \ {contracts}
  /\ tabUsed' = [tabUsed EXCEPT !.failures = @ + 1]
  /\ UNCHANGED <<vars, config, bootId, detected, applied, creating, feeds, runtime>>

\* The developer picks a game in the panel, where it waits for a start.
PickGame ==
  /\ tabUsed.starts < world.starts
  /\ \E g \in detected.games :
       /\ config.game # g.game
       /\ config' = [config EXCEPT !.game = g.game]
  /\ UNCHANGED <<vars, bootId, fetches, detected, applied, creating, feeds, runtime, tabUsed>>

\* Start or restart the harness.  Without addresses the runtime is not created.
PressStart ==
  /\ tabUsed.starts < world.starts
  /\ config.host # 0
  /\ tabUsed' = [tabUsed EXCEPT !.starts = @ + 1]
  /\ Apply(config, bootId = 0)
  /\ UNCHANGED <<vars, config, bootId, fetches, detected>>

\* The page is reloaded: only the saved configuration is left.
Reload ==
  /\ tabUsed.reloads < world.reloads
  /\ tabUsed' = [tabUsed EXCEPT !.reloads = @ + 1]
  /\ bootId' = 0
  /\ fetches' = {}
  /\ detected' = NothingWritten
  /\ applied' = NotApplied
  /\ creating' = {}
  /\ feeds' = {}
  /\ runtime' = NoRuntime
  /\ UNCHANGED <<vars, config>>

Registered(game) == \E i \in DOMAIN registrations : registrations[i].game = game

\* createSimulatorRuntime registers a game its host does not know.
RegisterOnTheFly(r) ==
  /\ r \in creating
  /\ r.host = host /\ host \in chain.hosts /\ ~Registered(r.game)
  /\ chain' = [chain EXCEPT !.block = @ + 1]
  /\ registrations' = Append(registrations, [block |-> chain.block + 1, name |-> "Title", game |-> r.game])
  /\ UNCHANGED <<externals, host, boot, stage, nodeVars, written, histories, tabVars>>

\* Mutant: what a cancelled call created is kept.
RuntimeCreatedAnyway(r) ==
  /\ r \in creating
  /\ r.host \in chain.hosts /\ (r.host = host => Registered(r.game))
  /\ creating' = creating \ {r}
  /\ LET created == [effect |-> r.effect, host |-> r.host, boot |-> r.boot]
     IN  feeds' = feeds \union {created} /\ runtime' = created
  /\ UNCHANGED <<vars, config, bootId, fetches, detected, applied, tabUsed>>

\* It returns.  A call that was cancelled meanwhile stops what it created; the others
\* show it.
RuntimeCreated(r) ==
  /\ r \in creating
  /\ r.host \in chain.hosts /\ (r.host = host => Registered(r.game))
  /\ creating' = creating \ {r}
  /\ LET created == [effect |-> r.effect, host |-> r.host, boot |-> r.boot]
     IN  IF r.effect = applied.effect
         THEN feeds' = feeds \union {created} /\ runtime' = created
         ELSE UNCHANGED <<feeds, runtime>>
  /\ UNCHANGED <<vars, config, bootId, fetches, detected, applied, tabUsed>>

\* It throws, for its chain is gone: the panel says so until the next start.
RuntimeFails(r) ==
  /\ r \in creating
  /\ r.host \notin chain.hosts
  /\ creating' = creating \ {r}
  /\ UNCHANGED <<vars, config, bootId, fetches, detected, applied, feeds, runtime, tabUsed>>

-----------------------------------------------------------------------------
Polled == Fetch \/ \E c \in fetches : OnContracts(c)
Created == \E r \in creating : RegisterOnTheFly(r) \/ RuntimeCreated(r) \/ RuntimeFails(r)

TabNext ==
  \/ Next /\ UNCHANGED tabVars
  \/ Polled \/ Created
  \/ \E c \in fetches : FetchFails(c)
  \/ PickGame \/ PressStart \/ Reload

\* As LocalNode's, and the tab's timer goes on and its calls return.
TabFairness ==
  /\ WF_allVars((NodeBoots \/ SetUp) /\ UNCHANGED tabVars)
  /\ WF_allVars(Watching /\ UNCHANGED tabVars) /\ WF_allVars(Polling /\ UNCHANGED tabVars)
  /\ WF_allVars(Polled) /\ WF_allVars(Created)

TabSpec == TabInit /\ [][TabNext]_allVars /\ TabFairness

-----------------------------------------------------------------------------
(* Correctness.                                                            *)

\* At most one event feed runs, the one of the runtime that is shown, however many
\* starts, reboots and reloads overlap with the creation of a runtime: nothing shown
\* has been stopped, and no feed is left behind.
OneFeedAndShown ==
  feeds = {runtime} \ {NoRuntime}

\* simulator/README.md: a tab left open across a restart of the node never keeps the
\* previous chain's session feed.  Once the node is settled, the tab runs on the host of
\* deployed.json, or on nothing when it could not start.  Except where the developer has
\* pressed start on saved addresses before the first answer: that one does not restart.
TabFollowsTheNode ==
  <>[](world.tab /\ ~applied.early =>
         applied.boot = written.boot /\ \A r \in feeds : r.boot = written.boot)
=============================================================================
