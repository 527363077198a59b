----------------------------- MODULE LocalNode ------------------------------
(***************************************************************************)
(* simulator/local-node: the one-command local backend.                    *)
(*                                                                         *)
(* index.ts boots a chain or joins the one that runs, deploys a casino     *)
(* host and its first game, and keeps the list of games in deployed.json.  *)
(* game-contracts.ts compiles, deploys and registers what is dropped into  *)
(* contracts/; registered-games.ts follows the host's whitelist, so that   *)
(* games registered by other tools are listed too.  The node is one        *)
(* JavaScript thread: its steps end where the code awaits, and the         *)
(* developer, other tools and a crash act in between.                      *)
(*                                                                         *)
(* An address is the block of its deployment, a source text a constant     *)
(* and its hash the text itself.                                           *)
(***************************************************************************)
EXTENDS Integers, Sequences, FiniteSets, SequencesExt

CONSTANTS
  Files,      \* file names in contracts/, in the order of sort()
  Contents,   \* the texts a file may hold
  Sources,    \* what solc makes of each text: errors, or contracts in order
  NoFile,     \* no such file; no such text
  Worlds

\* A behaviour is bounded by its world: the number of boots, and of edits, games of
\* other tools and failed calls.
ASSUME NodeAssumption ==
  /\ IsInjective(Files) /\ NoFile \notin Contents \union ToSet(Files)
  /\ \A c \in Contents : Sources[c].errors \in BOOLEAN
  /\ \A w \in Worlds : {w.boots, w.edits, w.others, w.failures} \subseteq Nat

VARIABLES
  world,
  folder,          \* contracts/: the text of each file
  chain,           \* the chain at RPC_URL: which one it is, its height and its hosts
  host,            \* the casino host of this boot
  registrations,   \* its GameWhitelistUpdated logs
  boot,            \* BOOT_ID: the number of this boot
  stage,           \* "down", "setup", "scan" (the initial one), "watching"
  deployed,        \* watchGameContracts: per file the hash and the games of its entry
  sync,            \* its coroutine sync()
  watch,           \* its pending fs event, debounce timer and queued syncs
  names,           \* watchRegisteredGames: the game names, by address
  nextBlock,       \* and its cursor
  poll,            \* and its coroutine poll(): the block it has read, or Resting
  lists,           \* dynamicGames and registeredGames of index.ts
  written,         \* deployed.json
  used,            \* the bounds used up: edits, others, failures
  unwatched,       \* history: files changed since the listing of the initial scan
  failed,          \* history: the texts whose deployment failed, by file
  lastGood         \* history: per file the last games whose deployment succeeded

FileSet == ToSet(Files)
Resting == -1

nodeVars == <<deployed, sync, watch, names, nextBlock, poll, lists>>
externals == <<world, folder, used>>
histories == <<unwatched, failed, lastGood>>
vars == <<externals, chain, host, registrations, boot, stage, nodeVars, written, histories>>

-----------------------------------------------------------------------------
FreshChain(life) == [life |-> life, block |-> 0, hosts |-> {}]
NoEntry == [hash |-> NoFile, games |-> {}]
IdleSync ==
  [active |-> FALSE, todo |-> <<>>, changed |-> FALSE, file |-> NoFile, hash |-> NoFile,
   left |-> <<>>, games |-> {}, address |-> 0]
QuietWatch == [event |-> FALSE, debounce |-> FALSE, queue |-> 0]
NothingWritten == [boot |-> 0, host |-> 0, games |-> {}]

Init ==
  /\ world \in Worlds
  /\ folder \in [FileSet -> {NoFile} \union world.before]
  /\ used = [edits |-> 0, others |-> 0, failures |-> 0]
  /\ chain = FreshChain(1)
  /\ host = 0
  /\ registrations = <<>>
  /\ boot = 1
  /\ stage = "setup"
  /\ deployed = [f \in FileSet |-> NoEntry]
  /\ sync = IdleSync
  /\ watch = QuietWatch
  /\ names = <<>>
  /\ nextBlock = 0
  /\ poll = Resting
  /\ lists = [dynamic |-> {}, registered |-> {}]
  /\ written = NothingWritten
  /\ unwatched = {}
  /\ failed = {}
  /\ lastGood = [f \in FileSet |-> {}]

\* A contract is a game if it has the functions of the interface.
IsGame(contract) == {"quoteCaps", "onPlayerAction"} \subseteq contract.functions

\* deployGamesFromFile: the games of a text.  A contract without bytecode is not
\* deployable, one with constructor arguments is left to the developer.
GamesToDeploy(c) ==
  SelectSeq(Sources[c].contracts,
            LAMBDA contract : contract.bytecode /\ IsGame(contract) /\ ~contract.arguments)

\* The games of deployed.json keep where they are from: the node, a file or the host.
Coinflip == [name |-> "CoinflipGame", game |-> host + 1, from |-> "node"]

\* deployContract: its address.
NextAddress == chain.block + 1

\* listGames: the registered games are appended unless the address is known.
ListGames(dynamic, registered) ==
  LET games == {Coinflip} \union dynamic
  IN  games \union {r \in registered : \A g \in games : g.game # r.game}

WriteDeployed(dynamic, registered) ==
  written' = [boot |-> boot, host |-> host, games |-> ListGames(dynamic, registered)]

\* onGamesChanged of the folder: no list is written before the initial scan is done.
OnGamesChanged(dynamic, changed) ==
  /\ lists' = [lists EXCEPT !.dynamic = dynamic]
  /\ IF changed \/ stage = "scan"
     THEN WriteDeployed(dynamic, lists.registered)
     ELSE UNCHANGED written

\* onGamesChanged of the whitelist.
OnRegisteredChanged(registered) ==
  /\ lists' = [lists EXCEPT !.registered = registered]
  /\ WriteDeployed(lists.dynamic, registered)

CurrentGames == UNION {deployed[f].games : f \in FileSet}

ListSources == SelectSeq(Files, LAMBDA f : folder[f] # NoFile)

-----------------------------------------------------------------------------
(* The developer, the chain and other tools.                               *)

\* A file is dropped, edited or deleted.  fs.watch sees it once it watches.
ChangeFile(f, c) ==
  /\ used.edits < world.edits
  /\ folder[f] # c
  /\ used' = [used EXCEPT !.edits = @ + 1]
  /\ folder' = [folder EXCEPT ![f] = c]
  /\ watch' = [watch EXCEPT !.event = @ \/ stage = "watching"]
  /\ unwatched' = IF stage = "scan" THEN unwatched \union {f} ELSE unwatched
  /\ UNCHANGED <<world, chain, host, registrations, boot, stage, deployed, sync, names, nextBlock,
                 poll, lists, written, failed, lastGood>>

\* Another tool deploys a game and calls registerGame on the host.
OtherRegisters ==
  /\ used.others < world.others
  /\ stage \in {"scan", "watching"}
  /\ used' = [used EXCEPT !.others = @ + 1]
  /\ chain' = [chain EXCEPT !.block = @ + 2]
  /\ registrations' =
       Append(registrations, [block |-> chain.block + 2, name |-> "Title", game |-> chain.block + 1])
  /\ UNCHANGED <<world, folder, host, boot, stage, nodeVars, written, histories>>

\* The process ends: SIGINT, the exit of its chain, an uncaught error.  A chain of its
\* own ends with it; one that was running already goes on.
NodeStops ==
  /\ boot < world.boots
  /\ stage # "down"
  /\ stage' = "down"
  /\ sync' = IdleSync
  /\ watch' = QuietWatch
  /\ poll' = Resting
  /\ \E survives \in BOOLEAN :
       chain' = IF survives THEN chain ELSE FreshChain(chain.life + 1)
  /\ host' = 0
  /\ registrations' = <<>>
  /\ deployed' = [f \in FileSet |-> NoEntry]
  /\ names' = <<>>
  /\ nextBlock' = 0
  /\ lists' = [dynamic |-> {}, registered |-> {}]
  /\ unwatched' = {}
  /\ failed' = {}
  /\ lastGood' = [f \in FileSet |-> {}]
  /\ UNCHANGED <<externals, boot, written>>

\* main() starts again: a new BOOT_ID, and the old deployed.json still in place.
NodeBoots ==
  /\ stage = "down"
  /\ stage' = "setup"
  /\ boot' = boot + 1
  /\ UNCHANGED <<externals, chain, host, registrations, nodeVars, written, histories>>

-----------------------------------------------------------------------------
(* main().                                                                 *)

\* The awaits up to the initial scan: the host, then the CoinflipGame are deployed and
\* the game registered.  sync() begins: it lists the folder.
SetUp ==
  /\ stage = "setup"
  /\ stage' = "scan"
  /\ host' = NextAddress
  /\ chain' = [chain EXCEPT !.block = @ + 3, !.hosts = @ \union {host'}]
  /\ registrations' = <<[block |-> chain.block + 3, name |-> "CoinflipGame", game |-> chain.block + 2]>>
  /\ nextBlock' = chain.block
  /\ sync' = [IdleSync EXCEPT !.active = TRUE, !.todo = ListSources]
  /\ UNCHANGED <<externals, boot, deployed, watch, names, poll, lists, written, histories>>

\* The thread is inside sync(), not at one of its awaits.
Busy == sync.active /\ sync.file = NoFile

Entry(f, hash, games) == deployed' = [deployed EXCEPT ![f] = [hash |-> hash, games |-> games]]

\* Mutant: with no games.
RememberBrokenAlone(f, hash) == Entry(f, hash, {})

\* A broken revision is remembered with the games of the last good one.
RememberBroken(f, hash) == Entry(f, hash, deployed[f].games)

\* sync(), one file: it is skipped when it is gone or its hash is known.
SyncFile ==
  /\ Busy /\ sync.todo # <<>>
  /\ LET f == Head(sync.todo)
         c == folder[f]
         next == [sync EXCEPT !.todo = Tail(@)]
     IN  \/ /\ c = NoFile \/ deployed[f].hash = c
            /\ sync' = next
            /\ UNCHANGED <<deployed, lastGood>>
         \/ /\ c # NoFile /\ deployed[f].hash # c
            /\ Sources[c].errors
            /\ RememberBroken(f, c)
            /\ sync' = next
            /\ UNCHANGED lastGood
         \/ /\ c # NoFile /\ deployed[f].hash # c
            /\ ~Sources[c].errors /\ GamesToDeploy(c) = <<>>
            /\ Entry(f, c, {})
            /\ sync' = [next EXCEPT !.changed = TRUE]
            /\ lastGood' = [lastGood EXCEPT ![f] = {}]
         \/ /\ c # NoFile /\ deployed[f].hash # c
            /\ ~Sources[c].errors /\ GamesToDeploy(c) # <<>>
            /\ sync' = [next EXCEPT !.file = f, !.hash = c, !.left = GamesToDeploy(c), !.games = {}]
            /\ UNCHANGED <<deployed, lastGood>>
  /\ UNCHANGED <<externals, chain, host, registrations, boot, stage, watch, names, nextBlock, poll,
                 lists, written, unwatched, failed>>

\* deployGamesFromFile: the await of deployGame.
DeployGame ==
  /\ sync.file # NoFile /\ sync.address = 0
  /\ chain' = [chain EXCEPT !.block = @ + 1]
  /\ sync' = [sync EXCEPT !.address = NextAddress]
  /\ UNCHANGED <<externals, host, registrations, boot, stage, deployed, watch, names, nextBlock,
                 poll, lists, written, histories>>

\* The await of registerGame; after the last game the entry of the file is set.
RegisterGame ==
  /\ sync.file # NoFile /\ sync.address # 0
  /\ LET game == [name |-> Head(sync.left).name, game |-> sync.address, from |-> sync.file]
         games == sync.games \union {game}
         last == Len(sync.left) = 1
     IN  /\ registrations' = Append(registrations, [block |-> chain.block + 1, name |-> game.name, game |-> game.game])
         /\ IF last
            THEN /\ Entry(sync.file, sync.hash, games)
                 /\ lastGood' = [lastGood EXCEPT ![sync.file] = games]
                 /\ sync' = [IdleSync EXCEPT !.active = TRUE, !.todo = sync.todo, !.changed = TRUE]
            ELSE /\ sync' = [sync EXCEPT !.left = Tail(@), !.games = games, !.address = 0]
                 /\ UNCHANGED <<deployed, lastGood>>
  /\ chain' = [chain EXCEPT !.block = @ + 1]
  /\ UNCHANGED <<externals, host, boot, stage, watch, names, nextBlock, poll, lists, written,
                 unwatched, failed>>

\* One of the two throws: like a text that does not compile.
DeploymentFails ==
  /\ used.failures < world.failures
  /\ sync.file # NoFile
  /\ used' = [used EXCEPT !.failures = @ + 1]
  /\ RememberBroken(sync.file, sync.hash)
  /\ failed' = failed \union {<<sync.file, sync.hash>>}
  /\ sync' = [IdleSync EXCEPT !.active = TRUE, !.todo = sync.todo, !.changed = sync.changed]
  /\ UNCHANGED <<world, folder, chain, host, registrations, boot, stage, watch, names, nextBlock,
                 poll, lists, written, unwatched, lastGood>>

\* The end of a sync: onGamesChanged.  After the initial one deployed.json is written
\* for the first time, and the folder and the whitelist are watched from here on.
SyncEnd ==
  /\ Busy /\ sync.todo = <<>>
  /\ sync' = IdleSync
  /\ OnGamesChanged(IF sync.changed THEN CurrentGames ELSE lists.dynamic, sync.changed)
  /\ stage' = "watching"
  /\ UNCHANGED <<externals, chain, host, registrations, boot, deployed, watch, names, nextBlock,
                 poll, histories>>

-----------------------------------------------------------------------------
(* The watchers.                                                           *)

\* fs.watch calls back: the debounce timer starts anew.
OnWatch ==
  /\ ~Busy /\ watch.event
  /\ watch' = [watch EXCEPT !.event = FALSE, !.debounce = TRUE]
  /\ UNCHANGED <<externals, chain, host, registrations, boot, stage, deployed, sync, names,
                 nextBlock, poll, lists, written, histories>>

\* Mutant: a timer that fires during a sync starts none.
DebouncedWhenIdle ==
  /\ ~Busy /\ watch.debounce
  /\ watch' = [watch EXCEPT !.debounce = FALSE, !.queue = IF sync.active THEN @ ELSE @ + 1]
  /\ UNCHANGED <<externals, chain, host, registrations, boot, stage, deployed, sync, names,
                 nextBlock, poll, lists, written, histories>>

\* It fires: queue = queue.then(sync).
Debounced ==
  /\ ~Busy /\ watch.debounce
  /\ watch' = [watch EXCEPT !.debounce = FALSE, !.queue = @ + 1]
  /\ UNCHANGED <<externals, chain, host, registrations, boot, stage, deployed, sync, names,
                 nextBlock, poll, lists, written, histories>>

\* The next queued sync() begins: files that are gone lose their entry.
SyncStart ==
  /\ ~sync.active /\ watch.queue > 0
  /\ watch' = [watch EXCEPT !.queue = @ - 1]
  /\ LET stale == {f \in FileSet : folder[f] = NoFile /\ deployed[f] # NoEntry}
     IN  /\ deployed' = [f \in FileSet |-> IF f \in stale THEN NoEntry ELSE deployed[f]]
         /\ lastGood' = [f \in FileSet |-> IF f \in stale THEN {} ELSE lastGood[f]]
         /\ sync' = [IdleSync EXCEPT !.active = TRUE, !.todo = ListSources, !.changed = stale # {}]
  /\ unwatched' = {}
  /\ UNCHANGED <<externals, chain, host, registrations, boot, stage, names, nextBlock, poll, lists,
                 written, failed>>

\* poll(): getBlockNumber.  It returns early when there is no new block.
PollBlock ==
  /\ ~Busy /\ stage = "watching" /\ poll = Resting
  /\ chain.block >= nextBlock
  /\ poll' = chain.block
  /\ UNCHANGED <<externals, chain, host, registrations, boot, stage, deployed, sync, watch, names,
                 nextBlock, lists, written, histories>>

\* getContractEvents: the cursor moves past the range, and the names are told.
PollEvents ==
  /\ ~Busy /\ poll # Resting
  /\ LET logs == SelectSeq(registrations, LAMBDA r : r.block \in nextBlock..poll)
         now == FoldLeft(LAMBDA n, r : (r.game :> r.name) @@ n, names, logs)
         registered == {[name |-> now[a], game |-> a, from |-> "host"] : a \in DOMAIN now}
     IN  /\ names' = now
         /\ IF logs = <<>>
            THEN UNCHANGED <<lists, written>>
            ELSE OnRegisteredChanged(registered)
  /\ nextBlock' = poll + 1
  /\ poll' = Resting
  /\ UNCHANGED <<externals, chain, host, registrations, boot, stage, deployed, sync, watch, histories>>

\* Mutant: the range is given up.
PollGivesUp ==
  /\ used.failures < world.failures
  /\ ~Busy /\ poll # Resting
  /\ used' = [used EXCEPT !.failures = @ + 1]
  /\ nextBlock' = poll + 1
  /\ poll' = Resting
  /\ UNCHANGED <<world, folder, chain, host, registrations, boot, stage, deployed, sync, watch,
                 names, lists, written, histories>>

\* Either call fails: the next tick retries the same range.
PollFails ==
  /\ used.failures < world.failures
  /\ ~Busy /\ poll # Resting
  /\ used' = [used EXCEPT !.failures = @ + 1]
  /\ poll' = Resting
  /\ UNCHANGED <<world, folder, chain, host, registrations, boot, stage, deployed, sync, watch,
                 names, nextBlock, lists, written, histories>>

-----------------------------------------------------------------------------
Developer ==
  \/ \E f \in FileSet, c \in Contents \union {NoFile} : ChangeFile(f, c)
  \/ OtherRegisters
  \/ NodeStops

Watching == OnWatch \/ Debounced \/ SyncStart \/ SyncFile \/ DeployGame \/ RegisterGame \/ SyncEnd
Polling == PollBlock \/ PollEvents

Next ==
  \/ Developer
  \/ NodeBoots \/ SetUp
  \/ Watching \/ DeploymentFails
  \/ Polling \/ PollFails

\* A process that is up goes on: its timers fire and its calls return.
Fairness == WF_vars(NodeBoots \/ SetUp) /\ WF_vars(Watching) /\ WF_vars(Polling)

Spec == Init /\ [][Next]_vars /\ Fairness

-----------------------------------------------------------------------------
(* Correctness.                                                            *)

\* deployed.json never names a game of this boot before the initial scan is over;
\* between two syncs every file's last good deployment is in it, broken revisions and
\* failed deployments since then notwithstanding; and it lists no address twice,
\* though every game the node deploys also comes back as a registration on the host.
PickerIsComplete ==
  /\ \A g, h \in written.games : g.game = h.game => g = h
  /\ written.boot = boot =>
       /\ stage # "scan"
       /\ stage = "watching" /\ ~sync.active =>
            \A f \in FileSet : lastGood[f] \subseteq written.games

\* A text dropped or saved after the folder is watched goes live without a restart,
\* whatever was edited, compiled or queued meanwhile: if it stays in its file and its
\* deployment does not fail, its games are deployed and listed.
Live(f, c) ==
  /\ deployed[f].hash = c
  /\ deployed[f].games \subseteq written.games
  /\ {g.name : g \in deployed[f].games} = {g.name : g \in ToSet(GamesToDeploy(c))}
EditsGoLive ==
  \A f \in FileSet :
    []<>(stage = "watching" /\ f \notin unwatched =>
           \/ folder[f] = NoFile \/ Sources[folder[f]].errors
           \/ Live(f, folder[f]) \/ <<f, folder[f]>> \in failed)

\* Every game registered on the host, by whatever tool, is listed in the end, though
\* polls fail and overlap with deployments.
EveryGameIsListed ==
  []<>(stage = "watching" =>
         {registrations[i].game : i \in DOMAIN registrations} \subseteq
           {g.game : g \in written.games})

\* docs/LOCAL_SIMULATOR.md:75: deleting a file removes its games from the picker.  With
\* contracts/ empty and the watcher at rest, only the CoinflipGame and the games of
\* other tools should be left.  They are not: the host still has them registered.
DeletedGamesLeaveThePicker ==
  (/\ stage = "watching" /\ ~sync.active /\ watch = QuietWatch /\ unwatched = {}
   /\ \A f \in FileSet : folder[f] = NoFile) =>
    \A g \in written.games : g.name \in {"CoinflipGame", "Title"}
=============================================================================
