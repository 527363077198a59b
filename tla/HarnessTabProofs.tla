-------------------------- MODULE HarnessTabProofs --------------------------
(***************************************************************************)
(* What the local node lists and what a tab beside it runs, for any files, *)
(* texts, games, worlds and numbers of boots: PickerIsComplete and         *)
(* OneFeedAndShown.                                                        *)
(***************************************************************************)
EXTENDS HarnessTab, TLAPS

-----------------------------------------------------------------------------
(* The list of games.                                                      *)

\* No address twice.
Unique(games) == \A g, h \in games : g.game = h.game => g = h

\* The addresses of games that this boot deployed, up to the block k.
Between(games, k) == \A g \in games : g.game \in Nat /\ host + 1 < g.game /\ g.game <= k

Shaped(u) ==
  u = [active |-> u.active, todo |-> u.todo, changed |-> u.changed, file |-> u.file,
       hash |-> u.hash, left |-> u.left, games |-> u.games, address |-> u.address]
SyncShape == Shaped(sync)

Shapes ==
  /\ host \in Nat /\ boot \in Nat /\ written.boot \in Nat
  /\ chain = [life |-> chain.life, block |-> chain.block, hosts |-> chain.hosts]
  /\ chain.block \in Nat
  /\ stage \in {"down", "setup", "scan", "watching"}
  /\ deployed = [f \in FileSet |-> deployed[f]]
  /\ lastGood = [f \in FileSet |-> lastGood[f]]
  /\ lists = [dynamic |-> lists.dynamic, registered |-> lists.registered]
  /\ SyncShape /\ sync.address \in Nat

\* Nothing is deployed, watched or listed before the host is.
Quiet ==
  stage \in {"down", "setup"} =>
    /\ sync = IdleSync /\ watch = QuietWatch
    /\ lists = [dynamic |-> {}, registered |-> {}]
    /\ deployed = [f \in FileSet |-> NoEntry]

\* Where the games of the folder are: listed, deployed and in the hands of sync().
Deployments ==
  /\ Unique(CurrentGames \union sync.games) /\ Unique(lists.dynamic)
  /\ Between(CurrentGames \union sync.games \union lists.dynamic, chain.block)
  /\ sync.address # 0 =>
       /\ Between(CurrentGames \union sync.games, sync.address - 1)
       /\ host + 1 < sync.address /\ sync.address <= chain.block
  /\ \A f \in FileSet : lastGood[f] = deployed[f].games
  /\ ~sync.changed => lists.dynamic = CurrentGames

\* What is written is what is listed, once there is a list.
Written ==
  /\ Unique(lists.registered) /\ Unique(written.games)
  /\ written.boot <= boot
  /\ stage \in {"setup", "scan"} => written.boot < boot
  /\ stage = "watching" =>
       written.boot = boot /\ written.games = ListGames(lists.dynamic, lists.registered)

Stages ==
  /\ stage \in {"scan", "watching"} => host + 1 < chain.block
  /\ stage = "scan" => sync.active
  /\ poll # Resting => stage = "watching"
  /\ ~sync.active => sync = IdleSync

PickerInv == Shapes /\ Quiet /\ Deployments /\ Written /\ Stages

-----------------------------------------------------------------------------
(* The runtimes of the tab.                                                *)

\* A runtime is shown by the effect that runs now, and that one is creating none.
TabInv ==
  /\ feeds = {runtime} \ {NoRuntime}
  /\ applied.effect \in Nat
  /\ \A r \in creating : r.effect \in 1..applied.effect
  /\ \A r, s \in creating : r.effect = s.effect => r = s
  /\ runtime # NoRuntime =>
       /\ runtime.effect = applied.effect /\ runtime.effect > 0
       /\ \A r \in creating : r.effect # runtime.effect

-----------------------------------------------------------------------------
(* Sets of games.                                                          *)

LEMMA InCurrentGames ==
  /\ \A g : g \in CurrentGames <=> \E f \in FileSet : g \in deployed[f].games
  /\ \A g : g \in CurrentGames' <=> \E f \in FileSet : g \in deployed'[f].games
BY DEF CurrentGames

\* The games of other files stay.
LEMMA EntryGames ==
  ASSUME Shapes, NEW f, NEW hash, NEW games, Entry(f, hash, games)
  PROVE  /\ deployed' = [e \in FileSet |-> deployed'[e]]
         /\ \A e \in FileSet : deployed'[e].games = IF e = f THEN games ELSE deployed[e].games
         /\ CurrentGames' \subseteq CurrentGames \union games
<1>1. /\ deployed = [e \in FileSet |-> deployed[e]]
      /\ deployed' = [deployed EXCEPT ![f] = [hash |-> hash, games |-> games]]
  BY DEF Shapes, Entry
<1>2. \A e \in FileSet :
        deployed'[e] = IF e = f THEN [hash |-> hash, games |-> games] ELSE deployed[e]
  BY <1>1
<1>3. deployed' = [e \in FileSet |-> deployed'[e]]
  BY <1>1
<1>4. \A e \in FileSet : deployed'[e].games = IF e = f THEN games ELSE deployed[e].games
  BY <1>2
<1>5. CurrentGames' \subseteq CurrentGames \union games
  BY <1>4, InCurrentGames
<1> QED BY <1>3, <1>4, <1>5

\* A broken revision leaves the games as they are.
LEMMA BrokenGames ==
  ASSUME Shapes, NEW f, NEW hash, RememberBroken(f, hash)
  PROVE  /\ deployed' = [e \in FileSet |-> deployed'[e]]
         /\ \A e \in FileSet : deployed'[e].games = deployed[e].games
         /\ CurrentGames' = CurrentGames
<1>1. Entry(f, hash, deployed[f].games)
  BY DEF RememberBroken
<1>2. /\ deployed' = [e \in FileSet |-> deployed'[e]]
      /\ \A e \in FileSet :
           deployed'[e].games = IF e = f THEN deployed[f].games ELSE deployed[e].games
  BY <1>1, EntryGames
<1>3. \A e \in FileSet : deployed'[e].games = deployed[e].games
  BY <1>2
<1> QED BY <1>2, <1>3, InCurrentGames

\* The node's own game, the folder's and the rest of the whitelist.
LEMMA ListIsUnique ==
  ASSUME NEW dynamic, NEW registered, NEW k, Unique(dynamic), Unique(registered),
         Between(dynamic, k), host \in Nat
  PROVE  Unique(ListGames(dynamic, registered)) /\ dynamic \subseteq ListGames(dynamic, registered)
<1> DEFINE own == [name |-> "CoinflipGame", game |-> host + 1, from |-> "node"]
           games == {own} \union dynamic
<1>1. own.game = host + 1 /\ \A g \in dynamic : g.game # host + 1
  BY DEF Between
<1>2. ListGames(dynamic, registered) =
        games \union {r \in registered : \A g \in games : g.game # r.game}
  BY DEF ListGames, Coinflip
<1> HIDE DEF own
<1>3. Unique(games)
  BY <1>1 DEF Unique
<1> HIDE DEF games
<1>4. Unique(games \union {r \in registered : \A g \in games : g.game # r.game})
  BY <1>3 DEF Unique
<1>5. dynamic \subseteq games
  BY DEF games
<1> QED BY <1>2, <1>4, <1>5

LEMMA FewerAreUnique ==
  ASSUME NEW games, NEW fewer, fewer \subseteq games, NEW k
  PROVE  /\ Unique(games) => Unique(fewer)
         /\ Between(games, k) => Between(fewer, k)
BY DEF Unique, Between

LEMMA LaterAreBetween ==
  ASSUME NEW games, NEW k \in Nat, NEW m \in Nat, k <= m, Between(games, k)
  PROVE  Between(games, m)
BY DEF Between

-----------------------------------------------------------------------------
(* What the invariant is for.                                              *)

LEMMA PickerInvShows ==
  PickerInv => PickerIsComplete
<1> SUFFICES ASSUME PickerInv PROVE PickerIsComplete
  OBVIOUS
<1>1. Unique(written.games)
  BY DEF PickerInv, Written
<1>2. ASSUME written.boot = boot PROVE stage # "scan"
  BY <1>2 DEF PickerInv, Written, Shapes
<1>3. ASSUME stage = "watching", ~sync.active, NEW f \in FileSet
      PROVE  lastGood[f] \subseteq written.games
  <2>1. sync = IdleSync
    BY <1>3 DEF PickerInv, Stages
  <2>2. ~sync.changed
    BY <2>1 DEF IdleSync
  <2>3. lists.dynamic = CurrentGames /\ lastGood[f] = deployed[f].games
    BY <2>2 DEF PickerInv, Deployments
  <2>4. lastGood[f] \subseteq lists.dynamic
    BY <2>3, InCurrentGames
  <2>5. /\ Unique(lists.dynamic) /\ Unique(lists.registered) /\ host \in Nat
        /\ Between(lists.dynamic, chain.block)
    BY FewerAreUnique DEF PickerInv, Deployments, Written, Shapes, Between
  <2>6. lists.dynamic \subseteq ListGames(lists.dynamic, lists.registered)
    BY <2>5, ListIsUnique
  <2>7. written.games = ListGames(lists.dynamic, lists.registered)
    BY <1>3 DEF PickerInv, Written
  <2> QED BY <2>4, <2>6, <2>7
<1> QED BY <1>1, <1>2, <1>3 DEF PickerIsComplete, Unique

-----------------------------------------------------------------------------
(* Steps that deploy nothing.                                              *)

LEMMA NothingDeployed ==
  ASSUME PickerInv,
         UNCHANGED <<host, boot, stage, deployed, lastGood, sync, lists, written>>,
         chain' = [life |-> chain'.life, block |-> chain'.block, hosts |-> chain'.hosts],
         chain'.block \in Nat, chain.block <= chain'.block,
         stage \in {"down", "setup"} => watch' = QuietWatch,
         poll' # Resting => stage = "watching"
  PROVE  PickerInv'
<1>1. Shapes'
  BY DEF PickerInv, Shapes, SyncShape
<1>2. Quiet'
  BY DEF PickerInv, Quiet
<1>3. CurrentGames' = CurrentGames
  BY DEF CurrentGames
<1>4. chain.block \in Nat
  BY DEF PickerInv, Shapes
<1> DEFINE games == CurrentGames \union sync.games \union lists.dynamic
<1>5. Between(games, chain'.block)
  <2>1. Between(games, chain.block)
    BY DEF PickerInv, Deployments
  <2> HIDE DEF games
  <2> QED BY <1>4, <2>1, LaterAreBetween
<1>6. Deployments'
  <2>1. Between(games, chain.block)' 
    BY <1>3, <1>5 DEF Between
  <2>2. (sync.address # 0 =>
           /\ Between(CurrentGames \union sync.games, sync.address - 1)
           /\ host + 1 < sync.address /\ sync.address <= chain.block)'
    <3>1. sync.address \in Nat /\ host \in Nat
      BY DEF PickerInv, Shapes
    <3> QED BY <1>3, <1>4, <3>1 DEF PickerInv, Deployments, Between
  <2> QED BY <1>3, <2>1, <2>2 DEF PickerInv, Deployments, Unique
<1>7. Written'
  BY DEF PickerInv, Written, ListGames, Coinflip, Unique
<1>8. Stages'
  BY <1>4 DEF PickerInv, Stages, Shapes
<1> QED BY <1>1, <1>2, <1>6, <1>7, <1>8 DEF PickerInv

-----------------------------------------------------------------------------
(* Steps of a sync.                                                        *)

\* The folder's games after a step.
SyncedGames ==
  /\ Unique(CurrentGames \union sync.games)
  /\ Between(CurrentGames \union sync.games, chain.block)
  /\ sync.address # 0 =>
       /\ Between(CurrentGames \union sync.games, sync.address - 1)
       /\ host + 1 < sync.address /\ sync.address <= chain.block
  /\ \A f \in FileSet : lastGood[f] = deployed[f].games

LEMMA SyncKeeps ==
  ASSUME PickerInv, stage \in {"scan", "watching"},
         UNCHANGED <<host, boot, stage, lists, written, poll>>,
         chain' = [life |-> chain'.life, block |-> chain'.block, hosts |-> chain'.hosts],
         chain'.block \in Nat, chain.block <= chain'.block,
         deployed' = [f \in FileSet |-> deployed'[f]],
         lastGood' = [f \in FileSet |-> lastGood'[f]],
         SyncShape', sync'.address \in Nat, sync'.active,
         SyncedGames',
         ~sync'.changed => lists.dynamic = CurrentGames'
  PROVE  PickerInv'
<1>1. Shapes'
  BY DEF PickerInv, Shapes
<1>2. Quiet'
  BY DEF Quiet
<1>3. Deployments'
  <2>1. Between(lists.dynamic, chain.block) /\ chain.block \in Nat
    BY DEF PickerInv, Deployments, Shapes, Between
  <2>2. Between(lists.dynamic, chain'.block)
    BY <2>1, LaterAreBetween
  <2>3. Between(CurrentGames \union sync.games \union lists.dynamic, chain.block)'
    BY <2>2 DEF SyncedGames, Between
  <2>4. Unique(lists.dynamic)'
    BY DEF PickerInv, Deployments, Unique
  <2> QED BY <2>3, <2>4 DEF SyncedGames, Deployments
<1>4. Written'
  BY DEF PickerInv, Written, ListGames, Coinflip, Unique
<1>5. Stages'
  BY DEF PickerInv, Stages, Shapes
<1> QED BY <1>1, <1>2, <1>3, <1>4, <1>5 DEF PickerInv

\* A step after which the folder has no games it did not have.
LEMMA FewerAreSynced ==
  ASSUME PickerInv, UNCHANGED <<host, chain>>,
         CurrentGames' \union sync'.games \subseteq CurrentGames \union sync.games,
         sync'.address \in {0, sync.address},
         \A f \in FileSet : lastGood'[f] = deployed'[f].games
  PROVE  SyncedGames'
<1> DEFINE old == CurrentGames \union sync.games
           new == CurrentGames' \union sync'.games
<1>1. Unique(old) /\ Between(old, chain.block)
  BY DEF PickerInv, Deployments, Between
<1>2. sync.address # 0 =>
        /\ Between(old, sync.address - 1)
        /\ host + 1 < sync.address /\ sync.address <= chain.block
  BY DEF PickerInv, Deployments
<1>3. new \subseteq old
  OBVIOUS
<1> HIDE DEF old, new
<1>4. Unique(new) /\ Between(new, chain.block)
  BY <1>1, <1>3, FewerAreUnique
<1>5. sync.address # 0 => Between(new, sync.address - 1)
  BY <1>2, <1>3, FewerAreUnique
<1>6. (Unique(CurrentGames \union sync.games)
       /\ Between(CurrentGames \union sync.games, chain.block))'
  BY <1>4 DEF new, Unique, Between
<1>7. sync'.address # 0 =>
        /\ Between(CurrentGames \union sync.games, sync.address - 1)'
        /\ host' + 1 < sync'.address /\ sync'.address <= chain'.block
  <2> SUFFICES ASSUME sync'.address # 0
               PROVE  /\ Between(CurrentGames \union sync.games, sync.address - 1)'
                      /\ host' + 1 < sync'.address /\ sync'.address <= chain'.block
    OBVIOUS
  <2>1. sync'.address = sync.address
    OBVIOUS
  <2> QED BY <1>2, <1>5, <2>1 DEF new, Between
<1> QED BY <1>6, <1>7 DEF SyncedGames

\* What an assignment to parts of sync leaves alone.
Same(u, s) ==
  /\ Shaped(u) /\ u.active = s.active /\ u.address = s.address
  /\ u.games = s.games /\ u.changed = s.changed

LEMMA NextFile ==
  ASSUME NEW s, Shaped(s), NEW todo, NEW u, u = [s EXCEPT !.todo = todo]
  PROVE  Same(u, s)
BY DEF Shaped, Same

LEMMA Changed ==
  ASSUME NEW s, Shaped(s), NEW u, u = [s EXCEPT !.changed = TRUE]
  PROVE  /\ Shaped(u) /\ u.active = s.active /\ u.address = s.address
         /\ u.games = s.games /\ u.changed = TRUE
BY DEF Shaped

LEMMA Addressed ==
  ASSUME NEW s, Shaped(s), NEW address, NEW u, u = [s EXCEPT !.address = address]
  PROVE  /\ Shaped(u) /\ u.active = s.active /\ u.address = address
         /\ u.games = s.games /\ u.changed = s.changed
BY DEF Shaped

\* A sync is only at work on a host.
LEMMA SyncingOnAHost ==
  ASSUME PickerInv, sync.active \/ sync.file # NoFile \/ watch.queue > 0 \/ poll # Resting
  PROVE  stage \in {"scan", "watching"}
<1>1. CASE stage \in {"down", "setup"}
  <2>1. ~(sync.active \/ sync.file # NoFile \/ watch.queue > 0 \/ poll # Resting)
    BY <1>1 DEF PickerInv, Quiet, Stages, IdleSync, QuietWatch
  <2> QED BY <2>1
<1> QED BY <1>1 DEF PickerInv, Shapes

LEMMA SyncFileKeeps ==
  ASSUME PickerInv, SyncFile
  PROVE  PickerInv'
<1> DEFINE f == Head(sync.todo)
           c == folder[f]
           rest == Tail(sync.todo)
<1>1. /\ UNCHANGED <<host, boot, stage, lists, written, poll, chain>>
      /\ Busy /\ sync.active
  BY DEF SyncFile, Busy
<1>2. stage \in {"scan", "watching"}
  BY <1>1, SyncingOnAHost
<1>3. Shapes /\ SyncShape /\ sync.address \in Nat
  BY DEF PickerInv, Shapes
<1>4. /\ deployed = [e \in FileSet |-> deployed[e]] /\ lastGood = [e \in FileSet |-> lastGood[e]]
      /\ \A e \in FileSet : lastGood[e] = deployed[e].games
      /\ ~sync.changed => lists.dynamic = CurrentGames
      /\ chain = [life |-> chain.life, block |-> chain.block, hosts |-> chain.hosts]
      /\ chain.block \in Nat
  BY <1>3 DEF PickerInv, Deployments, Shapes
<1>5. ASSUME deployed' = [e \in FileSet |-> deployed'[e]],
             lastGood' = [e \in FileSet |-> lastGood'[e]],
             \A e \in FileSet : lastGood'[e] = deployed'[e].games,
             SyncShape', sync'.active = sync.active, sync'.address = sync.address,
             sync'.games \in {{}, sync.games},
             CurrentGames' \subseteq CurrentGames,
             ~sync'.changed => ~sync.changed /\ CurrentGames' = CurrentGames
      PROVE  PickerInv'
  <2>1. SyncedGames'
    BY <1>1, <1>5, FewerAreSynced
  <2>2. ~sync'.changed => lists.dynamic = CurrentGames'
    BY <1>4, <1>5
  <2>3. /\ chain' = [life |-> chain'.life, block |-> chain'.block, hosts |-> chain'.hosts]
        /\ chain'.block \in Nat /\ chain.block <= chain'.block
    BY <1>1, <1>4
  <2>4. sync'.active /\ sync'.address \in Nat
    BY <1>1, <1>3, <1>5
  <2> QED BY <1>1, <1>2, <1>5, <2>1, <2>2, <2>3, <2>4, SyncKeeps
<1>6. CASE sync' = [sync EXCEPT !.todo = rest] /\ UNCHANGED <<deployed, lastGood>>
  <2>1. /\ SyncShape' /\ sync'.active = sync.active /\ sync'.address = sync.address
        /\ sync'.games = sync.games /\ sync'.changed = sync.changed
    BY <1>3, <1>6, NextFile DEF SyncShape, Shaped, Same
  <2>2. CurrentGames' = CurrentGames
    BY <1>6 DEF CurrentGames
  <2> QED BY <1>4, <1>5, <1>6, <2>1, <2>2
<1>7. CASE RememberBroken(f, c) /\ sync' = [sync EXCEPT !.todo = rest] /\ UNCHANGED lastGood
  <2>1. /\ SyncShape' /\ sync'.active = sync.active /\ sync'.address = sync.address
        /\ sync'.games = sync.games /\ sync'.changed = sync.changed
    BY <1>3, <1>7, NextFile DEF SyncShape, Shaped, Same
  <2>2. /\ deployed' = [e \in FileSet |-> deployed'[e]]
        /\ \A e \in FileSet : deployed'[e].games = deployed[e].games
        /\ CurrentGames' = CurrentGames
    BY <1>3, <1>7, BrokenGames
  <2>3. lastGood' = [e \in FileSet |-> lastGood'[e]]
        /\ \A e \in FileSet : lastGood'[e] = deployed'[e].games
    BY <1>4, <1>7, <2>2
  <2> QED BY <1>5, <2>1, <2>2, <2>3
<1>8. CASE /\ Entry(f, c, {})
           /\ sync' = [[sync EXCEPT !.todo = rest] EXCEPT !.changed = TRUE]
           /\ lastGood' = [lastGood EXCEPT ![f] = {}]
  <2>1. /\ SyncShape' /\ sync'.active = sync.active /\ sync'.address = sync.address
        /\ sync'.games = sync.games /\ sync'.changed = TRUE
    <3> DEFINE next == [sync EXCEPT !.todo = rest]
    <3>1. Same(next, sync)
      BY <1>3, NextFile DEF SyncShape
    <3> HIDE DEF next
    <3>2. sync' = [next EXCEPT !.changed = TRUE]
      BY <1>8 DEF next
    <3>3. Shaped(sync')
      BY <3>1, <3>2, Changed DEF Same
    <3> QED BY <3>1, <3>2, <3>3, Changed DEF SyncShape, Shaped, Same
  <2>2. /\ deployed' = [e \in FileSet |-> deployed'[e]]
        /\ \A e \in FileSet : deployed'[e].games = IF e = f THEN {} ELSE deployed[e].games
        /\ CurrentGames' \subseteq CurrentGames
    <3>1. CurrentGames' \subseteq CurrentGames \union {}
      BY <1>3, <1>8, EntryGames
    <3>2. /\ deployed' = [e \in FileSet |-> deployed'[e]]
          /\ \A e \in FileSet : deployed'[e].games = IF e = f THEN {} ELSE deployed[e].games
      BY <1>3, <1>8, EntryGames
    <3> QED BY <3>1, <3>2
  <2>3. /\ lastGood' = [e \in FileSet |-> lastGood'[e]]
        /\ \A e \in FileSet : lastGood'[e] = IF e = f THEN {} ELSE lastGood[e]
    BY <1>4, <1>8
  <2>4. \A e \in FileSet : lastGood'[e] = deployed'[e].games
    BY <1>4, <2>2, <2>3
  <2> QED BY <1>5, <2>1, <2>2, <2>3, <2>4
<1>9. CASE /\ sync' = [[sync EXCEPT !.todo = rest] EXCEPT !.file = f, !.hash = c,
                         !.left = GamesToDeploy(c), !.games = {}]
           /\ UNCHANGED <<deployed, lastGood>>
  <2> DEFINE left == GamesToDeploy(c)
  <2> HIDE DEF left
  <2>0. sync' = [[sync EXCEPT !.todo = rest] EXCEPT !.file = f, !.hash = c,
                         !.left = left, !.games = {}]
    BY <1>9 DEF left
  <2>1. /\ SyncShape' /\ sync'.active = sync.active /\ sync'.address = sync.address
        /\ sync'.games = {} /\ sync'.changed = sync.changed
    <3> DEFINE next == [sync EXCEPT !.todo = rest]
    <3>1. Same(next, sync)
      BY <1>3, NextFile DEF SyncShape
    <3> HIDE DEF next
    <3>2. sync' = [next EXCEPT !.file = f, !.hash = c, !.left = left, !.games = {}]
      BY <2>0 DEF next
    <3> HIDE DEF f, c
    <3>3. /\ Shaped(sync') /\ sync'.active = next.active /\ sync'.address = next.address
          /\ sync'.games = {} /\ sync'.changed = next.changed
      BY <3>1, <3>2 DEF Same, Shaped
    <3> QED BY <3>1, <3>3 DEF SyncShape, Shaped, Same
  <2>2. CurrentGames' = CurrentGames
    BY <1>9 DEF CurrentGames
  <2> QED BY <1>4, <1>5, <1>9, <2>1, <2>2
<1> QED BY <1>6, <1>7, <1>8, <1>9 DEF SyncFile

LEMMA DeployGameKeeps ==
  ASSUME PickerInv, DeployGame
  PROVE  PickerInv'
<1>1. /\ UNCHANGED <<host, boot, stage, lists, written, poll, deployed, lastGood>>
      /\ sync.file # NoFile
      /\ sync' = [sync EXCEPT !.address = chain.block + 1]
      /\ chain' = [chain EXCEPT !.block = @ + 1]
  BY DEF DeployGame, NextAddress, histories
<1>2. stage \in {"scan", "watching"}
  BY <1>1, SyncingOnAHost
<1>3. /\ SyncShape /\ host \in Nat /\ chain.block \in Nat
      /\ chain = [life |-> chain.life, block |-> chain.block, hosts |-> chain.hosts]
  BY DEF PickerInv, Shapes
<1>4. /\ SyncShape' /\ sync'.active = sync.active /\ sync'.address = chain.block + 1
      /\ sync'.games = sync.games /\ sync'.changed = sync.changed
  <2>1. /\ Shaped(sync') /\ sync'.active = sync.active /\ sync'.address = chain.block + 1
        /\ sync'.games = sync.games /\ sync'.changed = sync.changed
    BY <1>1, <1>3, Addressed DEF SyncShape
  <2> QED BY <2>1 DEF SyncShape, Shaped
<1>5. sync.active
  <2>1. sync.file # NoFile
    BY <1>1
  <2>2. ~sync.active => sync = IdleSync
    BY DEF PickerInv, Stages
  <2> QED BY <2>1, <2>2 DEF IdleSync
<1>6. /\ chain' = [life |-> chain'.life, block |-> chain'.block, hosts |-> chain'.hosts]
      /\ chain'.block = chain.block + 1
  BY <1>1, <1>3
<1>7. CurrentGames' = CurrentGames
  BY <1>1 DEF CurrentGames
<1> DEFINE games == CurrentGames \union sync.games
<1>8. Unique(games) /\ Between(games, chain.block)
  BY DEF PickerInv, Deployments, Between
<1>9. Between(games, chain'.block) /\ Between(games, sync'.address - 1)
  <2> HIDE DEF games
  <2>1. sync'.address - 1 = chain.block
    BY <1>3, <1>4
  <2> QED BY <1>3, <1>6, <1>8, <2>1, LaterAreBetween
<1>10. SyncedGames'
  <2>1. host + 1 < sync'.address /\ sync'.address <= chain'.block
    BY <1>2, <1>3, <1>4, <1>6 DEF PickerInv, Stages
  <2>2. \A f \in FileSet : lastGood'[f] = deployed'[f].games
    BY <1>1 DEF PickerInv, Deployments
  <2>3. Unique(CurrentGames \union sync.games)'
    BY <1>4, <1>7, <1>8 DEF Unique
  <2>4. Between(CurrentGames \union sync.games, chain.block)'
    BY <1>1, <1>4, <1>7, <1>9 DEF Between
  <2>5. Between(CurrentGames \union sync.games, sync.address - 1)'
    BY <1>1, <1>4, <1>7, <1>9 DEF Between
  <2> QED BY <1>1, <2>1, <2>2, <2>3, <2>4, <2>5 DEF SyncedGames
<1>11. /\ deployed' = [f \in FileSet |-> deployed'[f]]
       /\ lastGood' = [f \in FileSet |-> lastGood'[f]]
  BY <1>1 DEF PickerInv, Shapes
<1>12. ~sync'.changed => lists.dynamic = CurrentGames'
  BY <1>4, <1>7 DEF PickerInv, Deployments
<1> QED BY <1>1, <1>2, <1>3, <1>4, <1>5, <1>6, <1>10, <1>11, <1>12, SyncKeeps

LEMMA RegisterGameKeeps ==
  ASSUME PickerInv, RegisterGame
  PROVE  PickerInv'
<1> DEFINE name == Head(sync.left).name
           game == [name |-> name, game |-> sync.address, from |-> sync.file]
           games == sync.games \union {game}
           old == CurrentGames \union sync.games
<1>1. /\ UNCHANGED <<host, boot, stage, lists, written, poll>>
      /\ sync.file # NoFile /\ sync.address # 0
      /\ chain' = [chain EXCEPT !.block = @ + 1]
  BY DEF RegisterGame
<1>2. stage \in {"scan", "watching"} /\ sync.active
  <2>1. ~sync.active => sync = IdleSync
    BY DEF PickerInv, Stages
  <2> QED BY <1>1, <2>1, SyncingOnAHost DEF IdleSync
<1>3. /\ Shapes /\ SyncShape /\ host \in Nat /\ chain.block \in Nat /\ sync.address \in Nat
      /\ chain = [life |-> chain.life, block |-> chain.block, hosts |-> chain.hosts]
      /\ deployed = [f \in FileSet |-> deployed[f]]
      /\ lastGood = [f \in FileSet |-> lastGood[f]]
      /\ \A f \in FileSet : lastGood[f] = deployed[f].games
      /\ ~sync.changed => lists.dynamic = CurrentGames
  BY DEF PickerInv, Shapes, Deployments
<1>4. /\ chain' = [life |-> chain'.life, block |-> chain'.block, hosts |-> chain'.hosts]
      /\ chain'.block = chain.block + 1
  BY <1>1, <1>3
<1>5. /\ Unique(old) /\ Between(old, sync.address - 1)
      /\ host + 1 < sync.address /\ sync.address <= chain.block
  BY <1>1 DEF PickerInv, Deployments
<1>6. game.game = sync.address
  OBVIOUS
<1> HIDE DEF game
<1>7. Unique(old \union {game}) /\ Between(old \union {game}, chain'.block)
  <2>1. \A g \in old : g.game \in Nat /\ g.game < sync.address
    BY <1>3, <1>5 DEF Between
  <2> HIDE DEF old
  <2>2. Unique(old \union {game})
    BY <1>5, <1>6, <2>1 DEF Unique
  <2>3. Between(old \union {game}, chain'.block)
    BY <1>3, <1>4, <1>5, <1>6, <2>1 DEF Between
  <2> QED BY <2>2, <2>3
<1>8. ASSUME deployed' = [f \in FileSet |-> deployed'[f]],
             lastGood' = [f \in FileSet |-> lastGood'[f]],
             \A f \in FileSet : lastGood'[f] = deployed'[f].games,
             SyncShape', sync'.active, sync'.address = 0,
             CurrentGames' \union sync'.games \subseteq old \union {game},
             ~sync'.changed => ~sync.changed /\ CurrentGames' = CurrentGames
      PROVE  PickerInv'
  <2> DEFINE new == CurrentGames' \union sync'.games
  <2>1. Unique(new) /\ Between(new, chain'.block)
    <3>1. new \subseteq old \union {game}
      BY <1>8
    <3> HIDE DEF new, old
    <3> QED BY <1>7, <3>1, FewerAreUnique
  <2>2. (Unique(CurrentGames \union sync.games)
         /\ Between(CurrentGames \union sync.games, chain.block))'
    BY <1>1, <2>1 DEF Unique, Between
  <2>3. SyncedGames'
    BY <1>8, <2>2 DEF SyncedGames
  <2>4. ~sync'.changed => lists.dynamic = CurrentGames'
    BY <1>3, <1>8
  <2>5. chain'.block \in Nat /\ chain.block <= chain'.block /\ sync'.address \in Nat
    BY <1>3, <1>4, <1>8
  <2> QED BY <1>1, <1>2, <1>4, <1>8, <2>3, <2>4, <2>5, SyncKeeps
<1>9. CASE /\ Entry(sync.file, sync.hash, games)
           /\ lastGood' = [lastGood EXCEPT ![sync.file] = games]
           /\ sync' = [IdleSync EXCEPT !.active = TRUE, !.todo = sync.todo, !.changed = TRUE]
  <2>1. /\ SyncShape' /\ sync'.active /\ sync'.address = 0
        /\ sync'.games = {} /\ sync'.changed
    <3> DEFINE todo == sync.todo
    <3>1. sync' = [IdleSync EXCEPT !.active = TRUE, !.todo = todo, !.changed = TRUE]
      BY <1>9
    <3> HIDE DEF todo
    <3> QED BY <3>1 DEF IdleSync, SyncShape, Shaped
  <2>2. /\ deployed' = [f \in FileSet |-> deployed'[f]]
        /\ \A f \in FileSet :
             deployed'[f].games = IF f = sync.file THEN games ELSE deployed[f].games
        /\ CurrentGames' \subseteq CurrentGames \union games
    <3> HIDE DEF games
    <3> QED BY <1>3, <1>9, EntryGames
  <2>3. /\ lastGood' = [f \in FileSet |-> lastGood'[f]]
        /\ \A f \in FileSet : lastGood'[f] = IF f = sync.file THEN games ELSE lastGood[f]
    BY <1>3, <1>9
  <2>4. \A f \in FileSet : lastGood'[f] = deployed'[f].games
    BY <1>3, <2>2, <2>3
  <2>5. CurrentGames' \union sync'.games \subseteq old \union {game}
    BY <2>1, <2>2
  <2> QED BY <1>8, <2>1, <2>2, <2>3, <2>4, <2>5
<1>10. CASE /\ sync' = [sync EXCEPT !.left = Tail(@), !.games = games, !.address = 0]
            /\ UNCHANGED <<deployed, lastGood>>
  <2> DEFINE left == Tail(sync.left)
  <2>1. sync' = [sync EXCEPT !.left = left, !.games = games, !.address = 0]
    BY <1>3, <1>10 DEF SyncShape, Shaped
  <2> HIDE DEF left
  <2>2. /\ SyncShape' /\ sync'.active = sync.active /\ sync'.address = 0
        /\ sync'.games = games /\ sync'.changed = sync.changed
    <3> HIDE DEF games
    <3> QED BY <1>3, <2>1 DEF SyncShape, Shaped
  <2>3. CurrentGames' = CurrentGames
    BY <1>10 DEF CurrentGames
  <2>4. CurrentGames' \union sync'.games \subseteq old \union {game}
    BY <2>2, <2>3
  <2> QED BY <1>2, <1>3, <1>8, <1>10, <2>2, <2>3, <2>4
<1> QED BY <1>9, <1>10 DEF RegisterGame, game

LEMMA DeploymentFailsKeeps ==
  ASSUME PickerInv, DeploymentFails
  PROVE  PickerInv'
<1> DEFINE todo == sync.todo
           changed == sync.changed
<1>1. /\ UNCHANGED <<host, boot, stage, lists, written, poll, chain, lastGood>>
      /\ sync.file # NoFile
      /\ RememberBroken(sync.file, sync.hash)
      /\ sync' = [IdleSync EXCEPT !.active = TRUE, !.todo = todo, !.changed = changed]
  BY DEF DeploymentFails
<1>2. stage \in {"scan", "watching"}
  BY <1>1, SyncingOnAHost
<1>3. /\ Shapes /\ chain.block \in Nat
      /\ chain = [life |-> chain.life, block |-> chain.block, hosts |-> chain.hosts]
      /\ lastGood = [f \in FileSet |-> lastGood[f]]
      /\ \A f \in FileSet : lastGood[f] = deployed[f].games
      /\ ~sync.changed => lists.dynamic = CurrentGames
  BY DEF PickerInv, Shapes, Deployments
<1>4. /\ SyncShape' /\ sync'.active /\ sync'.address = 0
      /\ sync'.games = {} /\ sync'.changed = changed
  <2> HIDE DEF todo, changed
  <2> QED BY <1>1 DEF IdleSync, SyncShape, Shaped
<1>5. /\ deployed' = [f \in FileSet |-> deployed'[f]]
      /\ \A f \in FileSet : deployed'[f].games = deployed[f].games
      /\ CurrentGames' = CurrentGames
  BY <1>1, <1>3, BrokenGames
<1>6. SyncedGames'
  <2>1. \A f \in FileSet : lastGood'[f] = deployed'[f].games
    BY <1>1, <1>3, <1>5
  <2> QED BY <1>1, <1>4, <1>5, <2>1, FewerAreSynced
<1>7. ~sync'.changed => lists.dynamic = CurrentGames'
  BY <1>3, <1>4, <1>5
<1>8. /\ chain' = [life |-> chain'.life, block |-> chain'.block, hosts |-> chain'.hosts]
      /\ chain'.block \in Nat /\ chain.block <= chain'.block
      /\ lastGood' = [f \in FileSet |-> lastGood'[f]]
      /\ sync'.address \in Nat
  BY <1>1, <1>3, <1>4
<1> QED BY <1>1, <1>2, <1>4, <1>5, <1>6, <1>7, <1>8, SyncKeeps

LEMMA SyncStartKeeps ==
  ASSUME PickerInv, SyncStart
  PROVE  PickerInv'
<1> DEFINE stale == {f \in FileSet : folder[f] = NoFile /\ deployed[f] # NoEntry}
           changed == stale # {}
           todo == ListSources
<1>1. /\ UNCHANGED <<host, boot, stage, lists, written, poll, chain>>
      /\ ~sync.active /\ watch.queue > 0
      /\ deployed' = [f \in FileSet |-> IF f \in stale THEN NoEntry ELSE deployed[f]]
      /\ lastGood' = [f \in FileSet |-> IF f \in stale THEN {} ELSE lastGood[f]]
      /\ sync' = [IdleSync EXCEPT !.active = TRUE, !.todo = todo, !.changed = changed]
  BY DEF SyncStart
<1>2. stage \in {"scan", "watching"}
  BY <1>1, SyncingOnAHost
<1>3. /\ Shapes /\ chain.block \in Nat
      /\ chain = [life |-> chain.life, block |-> chain.block, hosts |-> chain.hosts]
      /\ deployed = [f \in FileSet |-> deployed[f]]
      /\ \A f \in FileSet : lastGood[f] = deployed[f].games
      /\ sync = IdleSync
      /\ ~sync.changed => lists.dynamic = CurrentGames
  BY <1>1 DEF PickerInv, Shapes, Deployments, Stages
<1>4. /\ SyncShape' /\ sync'.active /\ sync'.address = 0
      /\ sync'.games = {} /\ sync'.changed = changed
  <2> HIDE DEF todo, changed
  <2> QED BY <1>1 DEF IdleSync, SyncShape, Shaped
<1> HIDE DEF todo
<1>5. \A f \in FileSet :
        deployed'[f].games = IF f \in stale THEN {} ELSE deployed[f].games
  BY <1>1 DEF NoEntry
<1>6. \A f \in FileSet : lastGood'[f] = deployed'[f].games
  BY <1>1, <1>3, <1>5
<1>7. CurrentGames' \subseteq CurrentGames
  BY <1>5, InCurrentGames
<1>8. SyncedGames'
  BY <1>1, <1>4, <1>6, <1>7, FewerAreSynced
<1>9. ~sync'.changed => lists.dynamic = CurrentGames'
  <2> SUFFICES ASSUME ~sync'.changed PROVE lists.dynamic = CurrentGames'
    OBVIOUS
  <2>1. \A f \in FileSet : deployed'[f].games = deployed[f].games
    BY <1>4, <1>5
  <2>2. CurrentGames' = CurrentGames
    BY <2>1, InCurrentGames
  <2> QED BY <1>3, <2>2 DEF IdleSync
<1>10. /\ chain' = [life |-> chain'.life, block |-> chain'.block, hosts |-> chain'.hosts]
       /\ chain'.block \in Nat /\ chain.block <= chain'.block
       /\ deployed' = [f \in FileSet |-> deployed'[f]]
       /\ lastGood' = [f \in FileSet |-> lastGood'[f]]
       /\ sync'.address \in Nat
  BY <1>1, <1>3, <1>4
<1> QED BY <1>1, <1>2, <1>4, <1>8, <1>9, <1>10, SyncKeeps

\* A list is written: what is shown from here on is what is listed.
LEMMA SyncEndKeeps ==
  ASSUME PickerInv, SyncEnd
  PROVE  PickerInv'
<1>1. /\ UNCHANGED <<host, boot, chain, poll, deployed, lastGood>>
      /\ sync.active /\ sync' = IdleSync /\ stage' = "watching"
      /\ OnGamesChanged(IF sync.changed THEN CurrentGames ELSE lists.dynamic, sync.changed)
  BY DEF SyncEnd, Busy, histories
<1>2. stage \in {"scan", "watching"}
  BY <1>1, SyncingOnAHost
<1>3. (IF sync.changed THEN CurrentGames ELSE lists.dynamic) = CurrentGames
  BY DEF PickerInv, Deployments
<1>4. OnGamesChanged(CurrentGames, sync.changed)
  BY <1>1, <1>3
<1>5. lists' = [dynamic |-> CurrentGames, registered |-> lists.registered]
  <2>1. lists' = [lists EXCEPT !.dynamic = CurrentGames]
    BY <1>4 DEF OnGamesChanged
  <2>2. lists = [dynamic |-> lists.dynamic, registered |-> lists.registered]
    BY DEF PickerInv, Shapes
  <2> QED BY <2>1, <2>2
<1>6. /\ written'.boot = boot
      /\ written'.games = ListGames(CurrentGames, lists.registered)
  <2>1. CASE sync.changed \/ stage = "scan"
    <3>1. written' = [boot |-> boot, host |-> host,
                      games |-> ListGames(CurrentGames, lists.registered)]
      BY <1>4, <2>1 DEF OnGamesChanged, WriteDeployed
    <3> QED BY <3>1
  <2>2. CASE ~(sync.changed \/ stage = "scan")
    <3>1. written' = written
      BY <1>4, <2>2 DEF OnGamesChanged
    <3>2. stage = "watching" /\ lists.dynamic = CurrentGames
      BY <1>2, <2>2 DEF PickerInv, Deployments
    <3> QED BY <3>1, <3>2 DEF PickerInv, Written
  <2> QED BY <2>1, <2>2
<1>7. CurrentGames' = CurrentGames
  BY <1>1 DEF CurrentGames
<1>8. Unique(CurrentGames) /\ Between(CurrentGames, chain.block)
  BY DEF PickerInv, Deployments, Unique, Between
<1>9. Unique(written'.games)
  BY <1>6, <1>8, ListIsUnique DEF PickerInv, Written, Shapes
<1>10. Shapes'
  <2>1. SyncShape' /\ sync'.address \in Nat
    BY <1>1 DEF SyncShape, Shaped, IdleSync
  <2>2. written'.boot \in Nat
    BY <1>6 DEF PickerInv, Shapes
  <2>3. (lists = [dynamic |-> lists.dynamic, registered |-> lists.registered])'
    BY <1>5
  <2> QED BY <1>1, <2>1, <2>2, <2>3 DEF PickerInv, Shapes
<1>11. Quiet'
  BY <1>1 DEF Quiet
<1>12. Deployments'
  <2>1. /\ sync'.games = {} /\ sync'.address = 0 /\ sync'.changed = FALSE
        /\ lists'.dynamic = CurrentGames
    BY <1>1, <1>5 DEF IdleSync
  <2>2. (Between(CurrentGames \union sync.games \union lists.dynamic, chain.block))'
    BY <1>1, <1>7, <1>8, <2>1 DEF Between
  <2>3. (Unique(CurrentGames \union sync.games) /\ Unique(lists.dynamic))'
    BY <1>7, <1>8, <2>1 DEF Unique
  <2>4. (\A f \in FileSet : lastGood[f] = deployed[f].games)'
    BY <1>1 DEF PickerInv, Deployments
  <2> QED BY <1>7, <2>1, <2>2, <2>3, <2>4 DEF Deployments
<1>13. Written'
  <2>1. Unique(lists.registered)' /\ Unique(written.games)'
    BY <1>5, <1>9 DEF PickerInv, Written, Unique
  <2>2. written'.games = ListGames(lists.dynamic, lists.registered)'
    BY <1>1, <1>5, <1>6 DEF ListGames, Coinflip
  <2>3. (written.boot = boot /\ written.boot <= boot)'
    BY <1>1, <1>6 DEF PickerInv, Shapes
  <2>4. stage' \notin {"setup", "scan"}
    BY <1>1
  <2> QED BY <2>1, <2>2, <2>3, <2>4 DEF Written
<1>14. Stages'
  BY <1>1, <1>2 DEF PickerInv, Stages
<1> QED BY <1>10, <1>11, <1>12, <1>13, <1>14 DEF PickerInv

-----------------------------------------------------------------------------
(* The whitelist.                                                          *)

\* A registration per address.
LEMMA RegisteredAreUnique ==
  ASSUME NEW now
  PROVE  Unique({[name |-> now[a], game |-> a, from |-> "host"] : a \in DOMAIN now})
BY DEF Unique

LEMMA PollEventsKeeps ==
  ASSUME PickerInv, PollEvents
  PROVE  PickerInv'
<1>1. /\ UNCHANGED <<host, boot, stage, chain, deployed, lastGood, sync, watch>>
      /\ poll # Resting /\ poll' = Resting
  BY DEF PollEvents, externals, histories
<1>2. stage = "watching"
  BY <1>1 DEF PickerInv, Stages
<1>3. CASE UNCHANGED <<lists, written>>
  <2>1. /\ chain = [life |-> chain.life, block |-> chain.block, hosts |-> chain.hosts]
        /\ chain.block \in Nat
    BY DEF PickerInv, Shapes
  <2>2. /\ chain' = [life |-> chain'.life, block |-> chain'.block, hosts |-> chain'.hosts]
        /\ chain'.block \in Nat /\ chain.block <= chain'.block
    BY <1>1, <2>1
  <2> QED BY <1>1, <1>2, <1>3, <2>2, NothingDeployed
<1>4. ASSUME NEW registered, Unique(registered), OnRegisteredChanged(registered)
      PROVE  PickerInv'
  <2>1. lists' = [dynamic |-> lists.dynamic, registered |-> registered]
    <3>1. lists' = [lists EXCEPT !.registered = registered]
      BY <1>4 DEF OnRegisteredChanged
    <3>2. lists = [dynamic |-> lists.dynamic, registered |-> lists.registered]
      BY DEF PickerInv, Shapes
    <3> QED BY <3>1, <3>2
  <2>2. written' = [boot |-> boot, host |-> host, games |-> ListGames(lists.dynamic, registered)]
    BY <1>4 DEF OnRegisteredChanged, WriteDeployed
  <2>3. CurrentGames' = CurrentGames
    BY <1>1 DEF CurrentGames
  <2>4. /\ Unique(lists.dynamic) /\ Between(lists.dynamic, chain.block)
        /\ host \in Nat /\ boot \in Nat
    BY DEF PickerInv, Deployments, Shapes, Between
  <2>5. Unique(ListGames(lists.dynamic, registered))
    BY <1>4, <2>4, ListIsUnique
  <2>6. Shapes'
    <3>1. written'.boot \in Nat
      BY <2>2, <2>4
    <3>2. (lists = [dynamic |-> lists.dynamic, registered |-> lists.registered])'
      BY <2>1
    <3> QED BY <1>1, <3>1, <3>2 DEF PickerInv, Shapes, SyncShape
  <2>7. Quiet'
    BY <1>1, <1>2 DEF Quiet
  <2>8. Deployments'
    <3>1. lists'.dynamic = lists.dynamic
      BY <2>1
    <3> QED BY <1>1, <2>3, <3>1 DEF PickerInv, Deployments, Unique, Between
  <2>9. Written'
    <3>1. Unique(lists.registered)' /\ Unique(written.games)'
      BY <1>4, <2>1, <2>2, <2>5 DEF Unique
    <3>2. (written.games = ListGames(lists.dynamic, lists.registered))'
      BY <1>1, <2>1, <2>2 DEF ListGames, Coinflip
    <3>3. (written.boot = boot /\ written.boot <= boot)'
      BY <1>1, <2>2, <2>4
    <3>4. stage' \notin {"setup", "scan"}
      BY <1>1, <1>2
    <3> QED BY <3>1, <3>2, <3>3, <3>4 DEF Written
  <2>10. Stages'
    BY <1>1, <1>2 DEF PickerInv, Stages
  <2> QED BY <2>6, <2>7, <2>8, <2>9, <2>10 DEF PickerInv
<1>5. UNCHANGED <<lists, written>>
      \/ \E now : OnRegisteredChanged(
           {[name |-> now[a], game |-> a, from |-> "host"] : a \in DOMAIN now})
  BY DEF PollEvents
<1> QED BY <1>3, <1>4, <1>5, RegisteredAreUnique

-----------------------------------------------------------------------------
(* The life of a node.                                                     *)

\* What a step needs to keep the invariant while nothing is deployed.
LEMMA NothingThere ==
  ASSUME sync' = IdleSync, lists' = [dynamic |-> {}, registered |-> {}],
         deployed' = [f \in FileSet |-> NoEntry], lastGood' = [f \in FileSet |-> {}]
  PROVE  /\ Deployments' /\ SyncShape' /\ sync'.address \in Nat
         /\ deployed' = [f \in FileSet |-> deployed'[f]]
         /\ lastGood' = [f \in FileSet |-> lastGood'[f]]
         /\ lists' = [dynamic |-> lists'.dynamic, registered |-> lists'.registered]
<1>1. /\ SyncShape' /\ sync'.games = {} /\ sync'.address = 0
      /\ lists'.dynamic = {} /\ lists'.registered = {}
  BY DEF SyncShape, Shaped, IdleSync
<1>2. /\ \A f \in FileSet : deployed'[f].games = {} /\ lastGood'[f] = {}
      /\ CurrentGames' = {}
  <2>1. \A f \in FileSet : deployed'[f].games = {} /\ lastGood'[f] = {}
    BY DEF NoEntry
  <2> QED BY <2>1, InCurrentGames
<1>3. Deployments'
  BY <1>1, <1>2 DEF Deployments, Unique, Between
<1> QED BY <1>1, <1>3

LEMMA InitHolds ==
  Init => PickerInv
<1> SUFFICES ASSUME Init PROVE PickerInv
  OBVIOUS
<1>1. /\ chain = FreshChain(1) /\ host = 0 /\ boot = 1 /\ stage = "setup"
      /\ deployed = [f \in FileSet |-> NoEntry] /\ sync = IdleSync /\ watch = QuietWatch
      /\ poll = Resting /\ lists = [dynamic |-> {}, registered |-> {}]
      /\ written = NothingWritten /\ lastGood = [f \in FileSet |-> {}]
  BY DEF Init
<1>2. \A f \in FileSet : deployed[f].games = {} /\ lastGood[f] = {}
  BY <1>1 DEF NoEntry
<1>3. CurrentGames = {}
  BY <1>2, InCurrentGames
<1>4. /\ SyncShape /\ sync.games = {} /\ sync.address = 0
      /\ lists.dynamic = {} /\ lists.registered = {}
  BY <1>1 DEF SyncShape, Shaped, IdleSync
<1>5. Shapes
  BY <1>1, <1>4 DEF Shapes, FreshChain, NothingWritten
<1>6. Quiet
  BY <1>1 DEF Quiet
<1>7. Deployments
  BY <1>2, <1>3, <1>4 DEF Deployments, Unique, Between
<1>8. Written
  BY <1>1, <1>4 DEF Written, Unique, NothingWritten
<1>9. Stages
  BY <1>1 DEF Stages
<1> QED BY <1>5, <1>6, <1>7, <1>8, <1>9 DEF PickerInv

LEMMA NodeStopsKeeps ==
  ASSUME PickerInv, NodeStops
  PROVE  PickerInv'
<1>1. /\ UNCHANGED <<boot, written>>
      /\ stage' = "down" /\ sync' = IdleSync /\ watch' = QuietWatch /\ poll' = Resting
      /\ chain' \in {chain, FreshChain(chain.life + 1)} /\ host' = 0
      /\ deployed' = [f \in FileSet |-> NoEntry]
      /\ lists' = [dynamic |-> {}, registered |-> {}] /\ lastGood' = [f \in FileSet |-> {}]
  BY DEF NodeStops
<1>2. /\ Deployments' /\ SyncShape' /\ sync'.address \in Nat
      /\ deployed' = [f \in FileSet |-> deployed'[f]]
      /\ lastGood' = [f \in FileSet |-> lastGood'[f]]
      /\ lists' = [dynamic |-> lists'.dynamic, registered |-> lists'.registered]
  BY <1>1, NothingThere
<1>3. /\ chain' = [life |-> chain'.life, block |-> chain'.block, hosts |-> chain'.hosts]
      /\ chain'.block \in Nat
  BY <1>1 DEF PickerInv, Shapes, FreshChain
<1>4. Shapes'
  BY <1>1, <1>2, <1>3 DEF PickerInv, Shapes
<1>5. Quiet'
  BY <1>1 DEF Quiet
<1>6. Written'
  BY <1>1 DEF PickerInv, Written, Unique
<1>7. Stages'
  BY <1>1 DEF Stages
<1> QED BY <1>2, <1>4, <1>5, <1>6, <1>7 DEF PickerInv

\* A new boot: deployed.json is an earlier one's.
LEMMA NodeBootsKeeps ==
  ASSUME PickerInv, NodeBoots
  PROVE  PickerInv'
<1>1. /\ UNCHANGED <<host, chain, deployed, sync, watch, poll, lists, written, lastGood>>
      /\ stage = "down" /\ stage' = "setup" /\ boot' = boot + 1
  BY DEF NodeBoots, nodeVars, histories
<1>2. Shapes'
  BY <1>1 DEF PickerInv, Shapes, SyncShape
<1>3. Quiet'
  BY <1>1 DEF PickerInv, Quiet
<1>4. Deployments'
  <2>1. CurrentGames' = CurrentGames
    BY <1>1 DEF CurrentGames
  <2> QED BY <1>1, <2>1 DEF PickerInv, Deployments, Unique, Between
<1>5. Written'
  BY <1>1 DEF PickerInv, Written, Shapes, Unique
<1>6. Stages'
  BY <1>1 DEF PickerInv, Stages
<1> QED BY <1>2, <1>3, <1>4, <1>5, <1>6 DEF PickerInv

LEMMA SetUpKeeps ==
  ASSUME PickerInv, SetUp
  PROVE  PickerInv'
<1> DEFINE todo == ListSources
<1>1. /\ UNCHANGED <<boot, deployed, watch, poll, lists, written, lastGood>>
      /\ stage = "setup" /\ stage' = "scan" /\ host' = chain.block + 1
      /\ chain' = [chain EXCEPT !.block = @ + 3, !.hosts = @ \union {host'}]
      /\ sync' = [IdleSync EXCEPT !.active = TRUE, !.todo = todo]
  BY DEF SetUp, NextAddress, histories
<1> HIDE DEF todo
<1>2. /\ chain = [life |-> chain.life, block |-> chain.block, hosts |-> chain.hosts]
      /\ chain.block \in Nat /\ boot \in Nat
      /\ deployed = [f \in FileSet |-> NoEntry]
      /\ lists = [dynamic |-> {}, registered |-> {}]
      /\ \A f \in FileSet : lastGood[f] = deployed[f].games
  BY <1>1 DEF PickerInv, Shapes, Quiet, Deployments
<1>3. /\ chain' = [life |-> chain'.life, block |-> chain'.block, hosts |-> chain'.hosts]
      /\ chain'.block = chain.block + 3
  <2> DEFINE hosts == chain.hosts \union {host'}
             block == chain.block + 3
  <2>1. chain' = [chain EXCEPT !.block = block, !.hosts = hosts]
    BY <1>1, <1>2
  <2> HIDE DEF hosts, block
  <2>2. /\ chain' = [life |-> chain'.life, block |-> chain'.block, hosts |-> chain'.hosts]
        /\ chain'.block = block
    BY <1>2, <2>1
  <2> QED BY <2>2 DEF block
<1>4. /\ SyncShape' /\ sync'.active /\ sync'.address = 0
      /\ sync'.games = {} /\ sync'.changed = FALSE
  BY <1>1 DEF SyncShape, Shaped, IdleSync
<1>5. CurrentGames' = {}
  <2>1. \A f \in FileSet : deployed'[f].games = {}
    BY <1>1, <1>2 DEF NoEntry
  <2> QED BY <2>1, InCurrentGames
<1>6. Shapes'
  BY <1>1, <1>2, <1>3, <1>4 DEF PickerInv, Shapes
<1>7. Quiet'
  BY <1>1 DEF Quiet
<1>8. Deployments'
  <2>1. lists'.dynamic = {}
    BY <1>1, <1>2
  <2>2. \A f \in FileSet : lastGood'[f] = deployed'[f].games
    BY <1>1, <1>2
  <2> QED BY <1>4, <1>5, <2>1, <2>2 DEF Deployments, Unique, Between
<1>9. Written'
  BY <1>1 DEF PickerInv, Written, Unique
<1>10. Stages'
  <2>1. host' + 1 < chain'.block
    BY <1>1, <1>2, <1>3
  <2>2. poll' = Resting
    BY <1>1 DEF PickerInv, Stages
  <2> QED BY <1>1, <1>4, <2>1, <2>2 DEF Stages
<1> QED BY <1>6, <1>7, <1>8, <1>9, <1>10 DEF PickerInv

\* The steps of the developer, of other tools, of the timers, and of the tab.
LEMMA TheRestDeploysNothing ==
  ASSUME PickerInv,
         \/ \E f \in FileSet, c \in Contents \union {NoFile} : ChangeFile(f, c)
         \/ OtherRegisters \/ OnWatch \/ Debounced \/ PollBlock \/ PollFails
         \/ \E r \in creating : RegisterOnTheFly(r)
         \/ UNCHANGED vars
  PROVE  PickerInv'
<1>1. /\ chain = [life |-> chain.life, block |-> chain.block, hosts |-> chain.hosts]
      /\ chain.block \in Nat
  BY DEF PickerInv, Shapes
<1>2. /\ stage \in {"down", "setup"} => watch = QuietWatch
      /\ poll # Resting => stage = "watching"
  BY DEF PickerInv, Quiet, Stages
<1>3. ASSUME UNCHANGED <<host, boot, stage, deployed, lastGood, sync, lists, written>>,
             UNCHANGED chain \/ \E n \in {1, 2} : chain' = [chain EXCEPT !.block = @ + n],
             stage \in {"down", "setup"} => watch' = QuietWatch,
             poll' # Resting => stage = "watching"
      PROVE  PickerInv'
  <2>1. /\ chain' = [life |-> chain'.life, block |-> chain'.block, hosts |-> chain'.hosts]
        /\ chain'.block \in Nat /\ chain.block <= chain'.block
    <3>1. CASE UNCHANGED chain
      BY <1>1, <3>1
    <3>2. ASSUME NEW n \in {1, 2}, chain' = [chain EXCEPT !.block = @ + n]
          PROVE  /\ chain' = [life |-> chain'.life, block |-> chain'.block, hosts |-> chain'.hosts]
                 /\ chain'.block \in Nat /\ chain.block <= chain'.block
      <4>1. /\ chain' = [life |-> chain'.life, block |-> chain'.block, hosts |-> chain'.hosts]
            /\ chain'.block = chain.block + n
        BY <1>1, <3>2
      <4> QED BY <1>1, <4>1
    <3> QED BY <1>3, <3>1, <3>2
  <2> QED BY <1>3, <2>1, NothingDeployed
<1>4. ASSUME NEW f \in FileSet, NEW c \in Contents \union {NoFile}, ChangeFile(f, c)
      PROVE  PickerInv'
  <2>1. /\ UNCHANGED <<host, boot, stage, deployed, lastGood, sync, lists, written, chain, poll>>
        /\ watch' = [watch EXCEPT !.event = @ \/ stage = "watching"]
    BY <1>4 DEF ChangeFile
  <2>2. stage \in {"down", "setup"} => watch' = QuietWatch
    <3> SUFFICES ASSUME stage \in {"down", "setup"} PROVE watch' = QuietWatch
      OBVIOUS
    <3>1. watch = QuietWatch /\ stage # "watching"
      BY <1>2
    <3>2. (watch.event \/ stage = "watching") = FALSE
      BY <3>1 DEF QuietWatch
    <3>3. watch' = [QuietWatch EXCEPT !.event = FALSE]
      BY <2>1, <3>1, <3>2
    <3> QED BY <3>3 DEF QuietWatch
  <2> QED BY <1>2, <1>3, <2>1, <2>2
<1>5. CASE OtherRegisters
  <2>1. /\ UNCHANGED <<host, boot, stage, deployed, lastGood, sync, lists, written, watch, poll>>
        /\ chain' = [chain EXCEPT !.block = @ + 2]
    BY <1>5 DEF OtherRegisters, nodeVars, histories
  <2> QED BY <1>2, <1>3, <2>1
<1>6. CASE OnWatch \/ Debounced
  <2>1. /\ UNCHANGED <<host, boot, stage, deployed, lastGood, sync, lists, written, chain, poll>>
        /\ watch.event \/ watch.debounce
    BY <1>6 DEF OnWatch, Debounced, histories
  <2>2. stage \notin {"down", "setup"}
    BY <1>2, <2>1 DEF QuietWatch
  <2> QED BY <1>2, <1>3, <2>1, <2>2
<1>7. CASE PollBlock \/ PollFails
  <2>1. /\ UNCHANGED <<host, boot, stage, deployed, lastGood, sync, lists, written, chain, watch>>
        /\ stage = "watching" \/ poll' = Resting
    BY <1>7 DEF PollBlock, PollFails, externals, histories
  <2> QED BY <1>2, <1>3, <2>1
<1>8. ASSUME NEW r \in creating, RegisterOnTheFly(r)
      PROVE  PickerInv'
  <2>1. /\ UNCHANGED <<host, boot, stage, deployed, lastGood, sync, lists, written, watch, poll>>
        /\ chain' = [chain EXCEPT !.block = @ + 1]
    BY <1>8 DEF RegisterOnTheFly, nodeVars, histories
  <2> QED BY <1>2, <1>3, <2>1
<1>9. CASE UNCHANGED vars
  <2>1. UNCHANGED <<host, boot, stage, deployed, lastGood, sync, lists, written, chain, watch, poll>>
    BY <1>9 DEF vars, nodeVars, histories
  <2> QED BY <1>2, <1>3, <2>1
<1> QED BY <1>4, <1>5, <1>6, <1>7, <1>8, <1>9

LEMMA NodeStepKeeps ==
  ASSUME PickerInv, Next \/ UNCHANGED vars
  PROVE  PickerInv'
<1>1. CASE Developer
  BY <1>1, NodeStopsKeeps, TheRestDeploysNothing DEF Developer
<1>2. CASE NodeBoots \/ SetUp
  BY <1>2, NodeBootsKeeps, SetUpKeeps
<1>3. CASE Watching \/ DeploymentFails
  BY <1>3, SyncStartKeeps, SyncFileKeeps, DeployGameKeeps, RegisterGameKeeps, SyncEndKeeps,
     DeploymentFailsKeeps, TheRestDeploysNothing DEF Watching
<1>4. CASE Polling \/ PollFails
  BY <1>4, PollEventsKeeps, TheRestDeploysNothing DEF Polling
<1>5. CASE UNCHANGED vars
  BY <1>5, TheRestDeploysNothing
<1> QED BY <1>1, <1>2, <1>3, <1>4, <1>5 DEF Next

-----------------------------------------------------------------------------
(* The tab.                                                                *)

\* The effect runs anew: its clean-up leaves no feed and no runtime.
LEMMA ApplyKeeps ==
  ASSUME TabInv, NEW c, NEW early, Apply(c, early)
  PROVE  TabInv'
<1> DEFINE effect == applied.effect + 1
           created == [effect |-> effect, host |-> c.host, game |-> c.game, boot |-> c.boot]
<1>1. /\ applied' = [effect |-> effect, early |-> early,
                      host |-> c.host, game |-> c.game, boot |-> c.boot]
      /\ feeds' = {r \in feeds : r.effect # applied.effect}
      /\ runtime' = IF runtime.effect = applied.effect THEN NoRuntime ELSE runtime
      /\ creating' = creating \union {created}
  BY DEF Apply
<1>2. created.effect = effect
  OBVIOUS
<1> HIDE DEF created
<1>3. /\ feeds = {runtime} \ {NoRuntime} /\ applied.effect \in Nat
      /\ \A r \in creating : r.effect \in 1..applied.effect
      /\ \A r, s \in creating : r.effect = s.effect => r = s
      /\ runtime # NoRuntime => runtime.effect = applied.effect
  BY DEF TabInv
<1>4. applied'.effect = effect /\ effect \in Nat /\ applied.effect < effect
  BY <1>1, <1>3
<1>5. runtime' = NoRuntime /\ feeds' = {}
  BY <1>1, <1>3
<1>6. \A r \in creating' : r.effect \in 1..effect
  BY <1>1, <1>2, <1>3, <1>4
<1>7. \A r, s \in creating' : r.effect = s.effect => r = s
  BY <1>1, <1>2, <1>3, <1>4
<1> QED BY <1>4, <1>5, <1>6, <1>7 DEF TabInv

LEMMA RuntimeCreatedKeeps ==
  ASSUME TabInv, NEW r \in creating, RuntimeCreated(r)
  PROVE  TabInv'
<1> DEFINE created == [effect |-> r.effect, host |-> r.host, boot |-> r.boot]
<1>1. /\ UNCHANGED applied
      /\ creating' = creating \ {r}
      /\ IF r.effect = applied.effect
         THEN feeds' = feeds \union {created} /\ runtime' = created
         ELSE UNCHANGED <<feeds, runtime>>
  BY DEF RuntimeCreated
<1>2. created.effect = r.effect
  OBVIOUS
<1> HIDE DEF created
<1>3. /\ feeds = {runtime} \ {NoRuntime} /\ applied.effect \in Nat
      /\ \A s \in creating : s.effect \in 1..applied.effect
      /\ \A s, t \in creating : s.effect = t.effect => s = t
      /\ runtime # NoRuntime =>
           /\ runtime.effect = applied.effect /\ runtime.effect > 0
           /\ \A s \in creating : s.effect # runtime.effect
  BY DEF TabInv
<1>4. /\ \A s \in creating' : s.effect \in 1..applied'.effect /\ s.effect # r.effect
      /\ \A s, t \in creating' : s.effect = t.effect => s = t
      /\ applied'.effect \in Nat
  BY <1>1, <1>3
<1>5. CASE r.effect = applied.effect
  <2>1. runtime = NoRuntime
    BY <1>3, <1>5
  <2>2. feeds' = {created} /\ runtime' = created
    BY <1>1, <1>3, <1>5, <2>1
  <2>3. created # NoRuntime /\ created.effect > 0
    BY <1>2, <1>3 DEF NoRuntime
  <2> QED BY <1>1, <1>2, <1>4, <1>5, <2>2, <2>3 DEF TabInv
<1>6. CASE r.effect # applied.effect
  BY <1>1, <1>3, <1>4, <1>6 DEF TabInv
<1> QED BY <1>5, <1>6

LEMMA TabStepKeeps ==
  ASSUME TabInv, TabNext \/ UNCHANGED allVars
  PROVE  TabInv'
<1>1. ASSUME UNCHANGED <<applied, creating, feeds, runtime>> PROVE TabInv'
  BY <1>1 DEF TabInv
<1>2. CASE (Next /\ UNCHANGED tabVars) \/ UNCHANGED allVars
  BY <1>1, <1>2 DEF tabVars, allVars
<1>3. CASE Polled
  <2>1. CASE Fetch
    BY <1>1, <2>1 DEF Fetch
  <2>2. ASSUME NEW c \in fetches, OnContracts(c) PROVE TabInv'
    <3>1. \/ UNCHANGED <<applied, creating, feeds, runtime>>
          \/ Apply(WithDetectedContracts(c), FALSE)
      BY <2>2 DEF OnContracts
    <3> QED BY <1>1, <3>1, ApplyKeeps
  <2> QED BY <1>3, <2>1, <2>2 DEF Polled
<1>4. ASSUME NEW r \in creating, RegisterOnTheFly(r) \/ RuntimeCreated(r) \/ RuntimeFails(r)
      PROVE  TabInv'
  <2>1. CASE RegisterOnTheFly(r)
    BY <1>1, <2>1 DEF RegisterOnTheFly, tabVars
  <2>2. CASE RuntimeCreated(r)
    BY <2>2, RuntimeCreatedKeeps
  <2>3. CASE RuntimeFails(r)
    <3>1. creating' = creating \ {r} /\ UNCHANGED <<applied, feeds, runtime>>
      BY <2>3 DEF RuntimeFails
    <3> QED BY <3>1 DEF TabInv
  <2> QED BY <1>4, <2>1, <2>2, <2>3
<1>5. CASE \E c \in fetches : FetchFails(c)
  BY <1>1, <1>5 DEF FetchFails
<1>6. CASE PickGame
  BY <1>1, <1>6 DEF PickGame
<1>7. CASE PressStart
  BY <1>7, ApplyKeeps DEF PressStart
<1>8. CASE Reload
  <2>1. /\ applied' = NotApplied /\ creating' = {} /\ feeds' = {} /\ runtime' = NoRuntime
    BY <1>8 DEF Reload
  <2> QED BY <2>1 DEF TabInv, NotApplied
<1> QED BY <1>2, <1>3, <1>4, <1>5, <1>6, <1>7, <1>8 DEF TabNext, Created

\* The tab leaves the node alone, but for a game it registers.
LEMMA PickerStepKeeps ==
  ASSUME PickerInv, TabNext \/ UNCHANGED allVars
  PROVE  PickerInv'
<1>1. ASSUME UNCHANGED vars PROVE PickerInv'
  BY <1>1, NodeStepKeeps
<1>2. CASE Next \/ UNCHANGED allVars
  BY <1>1, <1>2, NodeStepKeeps DEF allVars
<1>3. CASE Fetch \/ PickGame \/ PressStart \/ Reload
  BY <1>1, <1>3 DEF Fetch, PickGame, PressStart, Reload
<1>4. ASSUME NEW c, OnContracts(c) \/ FetchFails(c) PROVE PickerInv'
  BY <1>1, <1>4 DEF OnContracts, FetchFails
<1>5. ASSUME NEW r \in creating, RegisterOnTheFly(r) \/ RuntimeCreated(r) \/ RuntimeFails(r)
      PROVE  PickerInv'
  <2>1. CASE RegisterOnTheFly(r)
    BY <2>1, TheRestDeploysNothing
  <2>2. CASE RuntimeCreated(r) \/ RuntimeFails(r)
    BY <1>1, <2>2 DEF RuntimeCreated, RuntimeFails
  <2> QED BY <1>5, <2>1, <2>2
<1> QED BY <1>2, <1>3, <1>4, <1>5 DEF TabNext, Polled, Created

-----------------------------------------------------------------------------
(* Theorems.                                                               *)

\* What index.ts lists is what game-contracts.ts has deployed and registered-games.ts has
\* seen, between any two syncs and whatever is edited, registered, fails or crashes.
THEOREM NodeInvariant == TabSpec => []PickerInv
<1>1. TabInit => PickerInv
  BY InitHolds DEF TabInit
<1>2. PickerInv /\ [TabNext]_allVars => PickerInv'
  BY PickerStepKeeps
<1> QED BY <1>1, <1>2, PTL DEF TabSpec

\* Whatever is dropped, edited, deleted, registered or crashes, for any files, texts and
\* games: deployed.json lists every last good deployment once, and nothing of this boot
\* before the initial scan is over (writeDeployed of index.ts).
THEOREM PickerMissesNothing == TabSpec => []PickerIsComplete
BY NodeInvariant, PickerInvShows, PTL

\* However starts, reboots, reloads and returning calls overlap: one feed runs, the one
\* of the runtime that is shown (the effects of App.tsx).
THEOREM NoFeedIsLeftBehind == TabSpec => []OneFeedAndShown
<1>1. TabInit => TabInv
  BY DEF TabInit, TabInv, NotApplied
<1>2. TabInv /\ [TabNext]_allVars => TabInv'
  BY TabStepKeeps
<1>3. TabInv => OneFeedAndShown
  BY DEF TabInv, OneFeedAndShown
<1> QED BY <1>1, <1>2, <1>3, PTL DEF TabSpec

=============================================================================
