---------------------------- MODULE SessionFeed -----------------------------
(***************************************************************************)
(* simulator/src/session-events.ts: createSessionEventFeed.                *)
(*                                                                         *)
(* The feed polls the chain for the host's logs, one block range at a      *)
(* time, and hands every log on twice: on the flashblock channel after a   *)
(* short lag and on the indexed channel after a longer one.  The logs that *)
(* were there before it started are replayed on the indexed channel only.  *)
(* A log is its position on the chain.  Every await is a step boundary:    *)
(* the chain grows, timers fire and stop() may be called in between.       *)
(***************************************************************************)
EXTENDS Integers, Sequences, FiniteSets, SequencesExt

CONSTANTS
  MaxLogs,       \* bound on the logs of the chain
  MaxHead,       \* bound on the block height
  MaxFailures,   \* bound on the RPC calls that fail
  FailingCalls,  \* the calls that may: "range" (getBlockNumber, getLogs), "getBlock"
  Immediate,     \* the channels whose lag is zero
  LagsVary       \* whether the lags are changed while the feed runs

Channels == {"flashblock", "indexed"}

ASSUME FeedAssumption ==
  /\ {MaxLogs, MaxHead, MaxFailures} \subseteq Nat
  /\ FailingCalls \subseteq {"range", "getBlock"} /\ LagsVary \in BOOLEAN
  /\ Immediate \subseteq Channels

VARIABLES
  logs,       \* the chain: the block of each log, in log order
  head,       \* and its height
  stage,      \* where the feed's coroutine is
  fromBlock,  \* next block to poll
  toBlock,    \* last block of the range being processed
  todo,       \* the logs of that range still to be normalized
  seen,       \* the keys of normalize()
  timestamps, \* the cached blocks of blockTimestamp()
  pending,    \* per channel, the events whose timer has not fired, oldest first
  delivered,  \* per channel, the events the listeners have been given
  stopped,
  failures,
  failed,     \* history: the logs whose getBlock failed in a poll
  lagChanged  \* history: an event was given another lag than Immediate says

vars == <<logs, head, stage, fromBlock, toBlock, todo, seen, timestamps, pending,
          delivered, stopped, failures, failed, lagChanged>>

chain == <<logs, head>>
histories == <<failed, lagChanged>>

\* "start" and "fetch" wait for a range of logs, "replay" and "poll" are between
\* two logs of it, "replay await" and "poll await" wait for getBlock, "idle" for
\* the poll timer, and "dead" runs no more.
Stages ==
  {"start", "replay", "replay await", "idle", "fetch", "poll", "poll await", "dead"}

Init ==
  /\ logs \in {[i \in 1..n |-> 0] : n \in 0..1}
  /\ head = 0
  /\ stage = "start"
  /\ fromBlock = 0
  /\ toBlock = 0
  /\ todo = <<>>
  /\ seen = {}
  /\ timestamps = {}
  /\ pending = [c \in Channels |-> <<>>]
  /\ delivered = [c \in Channels |-> <<>>]
  /\ stopped = FALSE
  /\ failures = 0
  /\ failed = {}
  /\ lagChanged = FALSE

-----------------------------------------------------------------------------
\* The number of logs in the blocks up to b.
LogsUpTo(b) == Cardinality({i \in DOMAIN logs : logs[i] <= b})

\* The logs getLogs returns for a block range, in order: the log order of the chain
\* is that of its blocks.
GetLogs(first, last) ==
  LET before == LogsUpTo(first - 1)
  IN  [i \in 1..(LogsUpTo(last) - before) |-> before + i]

\* A call that may fail fails, a bounded number of times.
CallFails(call) ==
  /\ call \in FailingCalls
  /\ failures < MaxFailures
  /\ failures' = failures + 1

\* A block with at most two of the host's logs.
MineBlock ==
  /\ head < MaxHead
  /\ head' = head + 1
  /\ \E n \in 0..2 :
       /\ Len(logs) + n <= MaxLogs
       /\ logs' = logs \o [i \in 1..n |-> head + 1]
  /\ UNCHANGED <<stage, fromBlock, toBlock, todo, seen, timestamps, pending,
                 delivered, stopped, failures, histories>>

\* start(): the logs up to the current head.  stop() before they arrive ends it.
Start ==
  /\ stage = "start"
  /\ toBlock' = head
  /\ IF stopped
     THEN stage' = "dead" /\ UNCHANGED todo
     ELSE stage' = "replay" /\ todo' = GetLogs(0, head)
  /\ UNCHANGED <<chain, fromBlock, seen, timestamps, pending, delivered, stopped, failures, histories>>

\* An error in start() is swallowed by its caller, and nothing starts it again.
StartFails ==
  /\ stage = "start"
  /\ CallFails("range")
  /\ stage' = "dead"
  /\ UNCHANGED <<chain, fromBlock, toBlock, todo, seen, timestamps, pending, delivered, stopped, histories>>

Emit(k, channels) ==
  delivered' = [c \in Channels |-> IF c \in channels THEN Append(delivered[c], k)
                                  ELSE delivered[c]]

\* emitDelayed on both channels: at once where the lag is zero.
EmitDelayed(k) ==
  \E now \in IF LagsVary THEN SUBSET Channels ELSE {Immediate} :
    /\ Emit(k, now)
    /\ lagChanged' = (lagChanged \/ now # Immediate)
    /\ pending' = [c \in Channels |-> IF c \in now THEN pending[c] ELSE Append(pending[c], k)]

\* Mutant: an event whose block arrives after stop() is handed on.
HandOnRegardless(k, replaying) ==
  IF replaying THEN Emit(k, {"indexed"}) /\ UNCHANGED <<pending, lagChanged>>
  ELSE EmitDelayed(k)

\* Hand event k on: history at once to the indexed channel, a polled event to
\* both, unless the feed was stopped meanwhile.
HandOn(k, replaying) ==
  \/ replaying /\ Emit(k, {"indexed"}) /\ UNCHANGED <<pending, lagChanged>>
  \/ ~replaying /\ ~stopped /\ EmitDelayed(k)
  \/ ~replaying /\ stopped /\ UNCHANGED <<pending, delivered, lagChanged>>

\* Mutant: keys are not remembered.
NormalizeForgetfully(at, await) ==
  /\ stage = at /\ todo # <<>>
  /\ LET k == Head(todo)
     IN  \/ /\ logs[k] \in timestamps
            /\ todo' = Tail(todo)
            /\ HandOn(k, at = "replay")
            /\ UNCHANGED stage
         \/ /\ logs[k] \notin timestamps
            /\ stage' = await
            /\ UNCHANGED <<todo, pending, delivered, lagChanged>>
  /\ UNCHANGED <<chain, fromBlock, toBlock, seen, timestamps, stopped, failures, failed>>

\* normalize() on the next log: the key is remembered before the block's
\* timestamp is known, and a log with a known key is dropped.
Normalize(at, await) ==
  /\ stage = at /\ todo # <<>>
  /\ LET k == Head(todo)
     IN  \/ /\ k \in seen
            /\ todo' = Tail(todo)
            /\ UNCHANGED <<stage, seen, pending, delivered, lagChanged>>
         \/ /\ k \notin seen /\ logs[k] \in timestamps
            /\ seen' = seen \cup {k}
            /\ todo' = Tail(todo)
            /\ HandOn(k, at = "replay")
            /\ UNCHANGED stage
         \/ /\ k \notin seen /\ logs[k] \notin timestamps
            /\ seen' = seen \cup {k}
            /\ stage' = await
            /\ UNCHANGED <<todo, pending, delivered, lagChanged>>
  /\ UNCHANGED <<chain, fromBlock, toBlock, timestamps, stopped, failures, failed>>

\* getBlock answers.
BlockArrives(at, await) ==
  /\ stage = await
  /\ stage' = at
  /\ todo' = Tail(todo)
  /\ timestamps' = timestamps \cup {logs[Head(todo)]}
  /\ HandOn(Head(todo), at = "replay")
  /\ UNCHANGED <<chain, fromBlock, toBlock, seen, stopped, failures, failed>>

\* The poll timer is armed again, unless the feed was stopped.
NextStage == IF stopped THEN "dead" ELSE "idle"

\* getBlock fails: a poll gives the range up until the next tick, the replay
\* rejects start().
BlockFails ==
  /\ stage \in {"replay await", "poll await"}
  /\ CallFails("getBlock")
  /\ stage' = IF stage = "poll await" THEN NextStage ELSE "dead"
  /\ todo' = <<>>
  /\ failed' = IF stage = "poll await" THEN failed \cup {Head(todo)} ELSE failed
  /\ UNCHANGED <<chain, fromBlock, toBlock, seen, timestamps, pending, delivered, stopped,
                 lagChanged>>

\* The first poll runs at once, even after stop().
ReplayDone ==
  /\ stage = "replay" /\ todo = <<>>
  /\ fromBlock' = toBlock + 1
  /\ stage' = "fetch"
  /\ UNCHANGED <<chain, toBlock, todo, seen, timestamps, pending, delivered, stopped, failures, histories>>

PollTimer ==
  /\ stage = "idle"
  /\ stage' = "fetch"
  /\ UNCHANGED <<chain, fromBlock, toBlock, todo, seen, timestamps, pending, delivered,
                 stopped, failures, histories>>

\* One poll: getBlockNumber, and getLogs of the range up to it.
Poll ==
  /\ stage = "fetch"
  /\ IF head >= fromBlock
     THEN toBlock' = head /\ todo' = GetLogs(fromBlock, head) /\ stage' = "poll"
     ELSE stage' = NextStage /\ UNCHANGED <<toBlock, todo>>
  /\ UNCHANGED <<chain, fromBlock, seen, timestamps, pending, delivered, stopped, failures, histories>>

\* Either fails: nothing was consumed, and the timer is armed again.
PollFails ==
  /\ stage = "fetch"
  /\ CallFails("range")
  /\ stage' = NextStage
  /\ UNCHANGED <<chain, fromBlock, toBlock, todo, seen, timestamps, pending,
                 delivered, stopped, histories>>

\* Mutant: the range is taken to reach the height of the chain when it is done.
PollDoneAtHead ==
  /\ stage = "poll" /\ todo = <<>>
  /\ fromBlock' = head + 1
  /\ stage' = NextStage
  /\ UNCHANGED <<chain, toBlock, todo, seen, timestamps, pending, delivered, stopped, failures, histories>>

PollDone ==
  /\ stage = "poll" /\ todo = <<>>
  /\ fromBlock' = toBlock + 1
  /\ stage' = NextStage
  /\ UNCHANGED <<chain, toBlock, todo, seen, timestamps, pending, delivered, stopped, failures, histories>>

\* The timer of the n-th pending event of channel c fires; timers set with the
\* same lag fire in the order they were set.
Fire(c, n) ==
  /\ n \in 1..Len(pending[c])
  /\ n = 1 \/ LagsVary
  /\ ~stopped
  /\ pending' = [pending EXCEPT ![c] = RemoveAt(@, n)]
  /\ delivered' = [delivered EXCEPT ![c] = Append(@, pending[c][n])]
  /\ lagChanged' = (lagChanged \/ n # 1)
  /\ UNCHANGED <<chain, stage, fromBlock, toBlock, todo, seen, timestamps, stopped, failures,
                 failed>>

\* stop() clears the timers; a coroutine in the middle of an await runs on.
Stop ==
  /\ ~stopped
  /\ stopped' = TRUE
  /\ pending' = [c \in Channels |-> <<>>]
  /\ stage' = IF stage = "idle" THEN "dead" ELSE stage
  /\ UNCHANGED <<chain, fromBlock, toBlock, todo, seen, timestamps, delivered, failures, histories>>

Feed ==
  \/ Start
  \/ Normalize("replay", "replay await") \/ Normalize("poll", "poll await")
  \/ BlockArrives("replay", "replay await") \/ BlockArrives("poll", "poll await")
  \/ ReplayDone \/ PollTimer \/ Poll \/ PollDone

Next ==
  \/ MineBlock \/ Feed
  \/ StartFails \/ BlockFails \/ PollFails \/ Stop
  \/ \E c \in Channels, n \in 1..MaxLogs : Fire(c, n)

Spec == Init /\ [][Next]_vars

\* The event loop runs the coroutine and the timers.
FairSpec ==
  /\ Spec
  /\ WF_vars(Feed)
  /\ \A c \in Channels : WF_vars(Fire(c, 1))

-----------------------------------------------------------------------------
Got(c) == Range(delivered[c]) \cup Range(pending[c])

\* A retried range hands nothing on twice, so that the store, whose settle and open
\* handlers do not check for replays, sees every log at most once.  And until an event
\* is given another lag than those before it, each channel keeps the order of the chain,
\* across the replay, the polls and the retries: a session's opening before its end.
OnceAndInOrder ==
  \A c \in Channels :
    LET events == delivered[c] \o pending[c]
    IN  \A m, n \in 1..Len(events) :
          m < n => events[m] # events[n] /\ (lagChanged \/ events[m] < events[n])

\* A stopped feed is silent, whatever it was waiting for when it was stopped, but for
\* a replay under way: start() does not ask again, and the rest of the history still
\* goes out on the indexed channel.
SilentAfterStop ==
  [][stopped => /\ delivered'["flashblock"] = delivered["flashblock"]
                /\ delivered'["indexed"] # delivered["indexed"] =>
                     stage \in {"replay", "replay await"}]_vars

\* Nothing is lost: a log the feed will not poll again has been handed on.
\* This is what the comments in session-events.ts say of a failed poll.
NothingLost ==
  ~stopped => \A k \in 1..Len(logs) : logs[k] < fromBlock => k \in Got("indexed")

\* Every log reaches the store in the end, however many polls fail, unless the
\* feed is stopped, its start failed or the log's own block lookup did.
EveryLogArrives ==
  \A k \in 1..MaxLogs :
    k <= Len(logs) ~>
      \/ k \in Range(delivered["indexed"]) \cup failed
      \/ stopped
      \/ stage = "dead" /\ fromBlock = 0

=============================================================================
