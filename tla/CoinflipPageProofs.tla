------------------------- MODULE CoinflipPageProofs -------------------------
(***************************************************************************)
(* What the coinflip page is told, what lands on it and what it shows of   *)
(* that, for any bets, words, rounds and mounts: OnlyNewsIsPushed of the   *)
(* bridge, ShowsWhatLanded, and that coins, overlay and history pills tell *)
(* what the chain paid; and that the form and its Max button make only     *)
(* bets that the limits allow.                                             *)
(***************************************************************************)
EXTENDS CoinflipView, FiniteSetTheorems, TLAPS

-----------------------------------------------------------------------------
(* Coins.                                                                  *)

Picked(bet, coins) == {i \in DOMAIN coins : coins[i] = bet.pickHeads}

\* An outcome whose coins say what it says.
Consistent(bet, outcome) ==
  /\ outcome.bet = bet
  /\ DOMAIN outcome.coins = 1..bet.coinCount
  /\ outcome.pickedSideWins = Cardinality(Picked(bet, outcome.coins))
  /\ outcome.won = (outcome.pickedSideWins >= bet.minWins)

LEMMA BetFacts ==
  ASSUME NEW bet \in Bets
  PROVE  /\ bet.pickHeads \in BOOLEAN
         /\ bet.coinCount \in Nat
         /\ bet.minWins \in 1..bet.coinCount
         /\ MaxPayout(Wager, bet) \in Nat /\ MaxPayout(Wager, bet) > 0
<1>1. MaxPayout(Wager, bet) \in Nat \ {0}
  BY PayoutAssumption
<1>2. \A n \in Nat \ {0} : n \in Nat /\ n > 0
  OBVIOUS
<1> QED BY <1>1, <1>2, CoinflipAssumption

\* Counting the bits from 0, as the contract does, or the coins from 1.
LEMMA SameCount ==
  ASSUME NEW c \in Nat, NEW S \in SUBSET (0..(c - 1))
  PROVE  Cardinality({i \in 1..c : i - 1 \in S}) = Cardinality(S)
<1> DEFINE T == {i \in 1..c : i - 1 \in S}
           f == [i \in S |-> i + 1]
<1>1. IsFiniteSet(S)
  <2>1. IsFiniteSet(0..(c - 1))
    BY FS_Interval
  <2> QED BY <2>1, FS_Subset
<1>2. f \in [S -> T]
  OBVIOUS
<1>3. \A i, j \in S : f[i] = f[j] => i = j
  OBVIOUS
<1>4. \A t \in T : \E i \in S : f[i] = t
  <2> TAKE t \in T
  <2>1. t - 1 \in S /\ f[t - 1] = t
    OBVIOUS
  <2> QED BY <2>1
<1>5. f \in Bijection(S, T)
  BY <1>2, <1>3, <1>4 DEF Bijection, Injection, Surjection, IsInjective
<1>6. ExistsBijection(S, T)
  BY <1>5 DEF ExistsBijection
<1> QED BY <1>1, <1>6, FS_Bijection

\* The word of a draw throws as many hits on the page as on the contract.
LEMMA WordIsShown ==
  ASSUME NEW bet \in Bets, NEW word \in Words
  PROVE  LET outcome == OutcomeFromRandomness(bet, word)
         IN  /\ Consistent(bet, outcome)
             /\ ContractPayout(bet, word) = IF outcome.won THEN MaxPayout(Wager, bet) ELSE 0
<1> DEFINE c == bet.coinCount
           coins == [i \in 1..c |-> Heads(word, i - 1)]
           up == {i \in 1..c : Heads(word, i - 1)}
           same == {i \in 0..(c - 1) : Heads(word, i) = bet.pickHeads}
           wins == IF bet.pickHeads THEN Cardinality(up) ELSE c - Cardinality(up)
<1>1. c \in Nat /\ bet.pickHeads \in BOOLEAN /\ bet.minWins \in Nat
  BY BetFacts
<1>2. \A i : Heads(word, i) \in BOOLEAN
  BY DEF Heads
<1>3. Cardinality(Picked(bet, coins)) = Cardinality(same)
  <2>1. Picked(bet, coins) = {i \in 1..c : i - 1 \in same}
    BY <1>1 DEF Picked
  <2>2. c \in Nat /\ same \in SUBSET (0..(c - 1))
    BY <1>1
  <2> HIDE DEF c, same
  <2>3. Cardinality({i \in 1..c : i - 1 \in same}) = Cardinality(same)
    BY <2>2, SameCount
  <2> QED BY <2>1, <2>3
<1>4. wins = Cardinality(Picked(bet, coins))
  <2>1. CASE bet.pickHeads
    <3>1. Picked(bet, coins) = up
      BY <1>2, <2>1 DEF Picked
    <3> QED BY <2>1, <3>1
  <2>2. CASE ~bet.pickHeads
    <3>1. Picked(bet, coins) = (1..c) \ up
      BY <1>1, <1>2, <2>2 DEF Picked
    <3>2. IsFiniteSet(1..c) /\ Cardinality(1..c) = c
      <4> HIDE DEF c
      <4>1. c \in Int /\ 1 \in Int /\ c \in Nat
        BY <1>1
      <4>2. IsFiniteSet(1..c) /\ Cardinality(1..c) = IF 1 > c THEN 0 ELSE c - 1 + 1
        BY <4>1, FS_Interval
      <4> QED BY <4>1, <4>2
    <3>3. up \in SUBSET (1..c) /\ (1..c) \cap up = up
      OBVIOUS
    <3>4. IsFiniteSet(up)
      BY <3>2, <3>3, FS_Subset
    <3>5. Cardinality((1..c) \ up) = Cardinality(1..c) - Cardinality((1..c) \cap up)
      BY <3>2, <3>4, FS_Difference
    <3> QED BY <2>2, <3>1, <3>2, <3>3, <3>5
  <2> QED BY <1>1, <2>1, <2>2
<1>5. {i \in DOMAIN coins : coins[i]} = up
  BY <1>2
<1>6. OutcomeFromRandomness(bet, word) =
        [bet |-> bet, coins |-> coins, pickedSideWins |-> wins, won |-> wins >= bet.minWins]
  BY <1>5 DEF OutcomeFromRandomness
<1>7. ContractPayout(bet, word) = IF wins >= bet.minWins THEN MaxPayout(Wager, bet) ELSE 0
  BY <1>3, <1>4 DEF ContractPayout
<1>8. DOMAIN coins = 1..bet.coinCount
  OBVIOUS
<1> HIDE DEF coins, wins
<1> DEFINE outcome == [bet |-> bet, coins |-> coins, pickedSideWins |-> wins,
                       won |-> wins >= bet.minWins]
<1>9. Consistent(bet, outcome)
  BY <1>4, <1>8 DEF Consistent
<1>10. ContractPayout(bet, word) = IF outcome.won THEN MaxPayout(Wager, bet) ELSE 0
  BY <1>7
<1> QED BY <1>6, <1>9, <1>10

\* The faces made up from a result agree with it.
LEMMA ResultIsShown ==
  ASSUME NEW bet \in Bets, NEW won \in BOOLEAN
  PROVE  /\ Consistent(bet, OutcomeFromResult(bet, won))
         /\ OutcomeFromResult(bet, won).won = won
<1> DEFINE hits == IF won THEN bet.minWins ELSE bet.minWins - 1
           coins == [i \in 1..bet.coinCount |-> (i <= hits) = bet.pickHeads]
<1>1. /\ bet.pickHeads \in BOOLEAN /\ bet.coinCount \in Nat
      /\ bet.minWins \in 1..bet.coinCount
  BY BetFacts
<1>2. hits \in 0..bet.coinCount
  BY <1>1
<1>3. Picked(bet, coins) = 1..hits
  <2>1. \A i \in 1..bet.coinCount : (coins[i] = bet.pickHeads) = (i <= hits)
    <3> TAKE i \in 1..bet.coinCount
    <3>1. coins[i] = ((i <= hits) = bet.pickHeads)
      OBVIOUS
    <3>2. (i <= hits) \in BOOLEAN
      OBVIOUS
    <3> HIDE DEF coins, hits
    <3> QED BY <1>1, <3>1, <3>2
  <2>2. DOMAIN coins = 1..bet.coinCount
    OBVIOUS
  <2> HIDE DEF coins, hits
  <2> QED BY <1>1, <1>2, <2>1, <2>2 DEF Picked
<1>4. Cardinality(1..hits) = hits
  <2> HIDE DEF hits
  <2> QED BY <1>2, FS_Interval
<1>5. won = (hits >= bet.minWins)
  BY <1>1
<1>6. OutcomeFromResult(bet, won) =
        [bet |-> bet, coins |-> coins, pickedSideWins |-> hits, won |-> won]
  BY DEF OutcomeFromResult
<1>7. DOMAIN coins = 1..bet.coinCount
  OBVIOUS
<1> HIDE DEF coins, hits
<1> QED BY <1>3, <1>4, <1>5, <1>6, <1>7 DEF Consistent

-----------------------------------------------------------------------------
(* The bridge.                                                             *)

\* What the page has, what is on the way to it and what was pushed last.
News(latest, w, last) ==
  /\ \A i \in 1..(Len(w) - 1) : w[i] # w[i + 1]
  /\ w # <<>> => latest # w[1]
  /\ last = IF w = <<>> THEN latest ELSE w[Len(w)]

\* A frame has one handshake, when its iframe is there, and until it is over the page
\* has been told nothing.
OneHandshake ==
  /\ connection \in {"none", "handshake", "connected"}
  /\ guestApi = (connection = "connected")
  /\ "connect" \in due \/ ~iframe => connection = "none"
  /\ connection # "connected" => wire = <<>> /\ page.latest = NoSnapshot

BridgeInv ==
  /\ snapshot \in Snapshots
  /\ wire \in Seq(Snapshots)
  /\ page \in [loaded : BOOLEAN, hostApi : BOOLEAN, latest : Snapshots \cup {NoSnapshot}]
  /\ OneHandshake
  /\ News(page.latest, wire, lastPushed)

\* News is what OnlyNewsIsPushed says of a wire, and of an empty one besides.
LEMMA NewsIsPushed ==
  BridgeInv => OnlyNewsIsPushed
<1> SUFFICES ASSUME BridgeInv PROVE OnlyNewsIsPushed
  OBVIOUS
<1> DEFINE seen == <<page.latest>> \o wire
<1>1. wire \in Seq(Snapshots \cup {NoSnapshot}) /\ page.latest \in Snapshots \cup {NoSnapshot}
  BY DEF BridgeInv
<1>2. /\ Len(seen) = Len(wire) + 1 /\ Len(wire) \in Nat
      /\ \A i \in 1..(Len(wire) + 1) : seen[i] = IF i = 1 THEN page.latest ELSE wire[i - 1]
  BY <1>1
<1>3. News(page.latest, wire, lastPushed) /\ (wire # <<>> <=> Len(wire) > 0)
  BY <1>1 DEF BridgeInv
<1> HIDE DEF seen
<1>4. ASSUME NEW i \in 1..Len(wire) PROVE seen[i] # seen[i + 1]
  <2>1. seen[i + 1] = wire[i] /\ seen[i] = IF i = 1 THEN page.latest ELSE wire[i - 1]
    BY <1>2
  <2>2. CASE i = 1
    BY <1>2, <1>3, <2>1, <2>2 DEF News
  <2>3. CASE i # 1
    <3>1. i - 1 \in 1..(Len(wire) - 1) /\ (i - 1) + 1 = i
      BY <1>2, <2>3
    <3>2. wire[i - 1] # wire[(i - 1) + 1]
      BY <1>3, <3>1 DEF News
    <3> QED BY <2>1, <2>3, <3>1, <3>2
  <2> QED BY <2>2, <2>3
<1>5. wire # <<>> => seen[Len(seen)] = lastPushed
  BY <1>2, <1>3 DEF News
<1> QED BY <1>4, <1>5 DEF OnlyNewsIsPushed, seen

\* A push of something else than the last one.
LEMMA PushIsNews ==
  ASSUME NEW S, NEW w \in Seq(S), NEW s \in S, NEW latest, NEW last, News(latest, w, last),
         s # last
  PROVE  Append(w, s) \in Seq(S) /\ News(latest, Append(w, s), s)
<1>1. /\ Append(w, s) \in Seq(S) /\ Len(w) \in Nat /\ Len(Append(w, s)) = Len(w) + 1
      /\ \A i \in 1..(Len(w) + 1) : Append(w, s)[i] = IF i <= Len(w) THEN w[i] ELSE s
      /\ Append(w, s) # <<>>
      /\ w = <<>> <=> Len(w) = 0
  OBVIOUS
<1> DEFINE u == Append(w, s)
<1> HIDE DEF u
<1>2. /\ u \in Seq(S) /\ Len(w) \in Nat /\ Len(u) = Len(w) + 1 /\ u # <<>>
      /\ \A i \in 1..(Len(w) + 1) : u[i] = IF i <= Len(w) THEN w[i] ELSE s
      /\ w = <<>> <=> Len(w) = 0
  BY <1>1 DEF u
<1>3. News(latest, u, s)
  BY <1>2 DEF News
<1> QED BY <1>2, <1>3 DEF u

\* What was pushed first arrives first.
LEMMA ArrivalIsNews ==
  ASSUME NEW S, NEW w \in Seq(S), w # <<>>, NEW latest, NEW last, News(latest, w, last)
  PROVE  Head(w) \in S /\ Tail(w) \in Seq(S) /\ News(Head(w), Tail(w), last)
<1> DEFINE t == Tail(w)
<1>1. Len(w) \in Nat /\ Len(w) > 0 /\ Head(w) \in S /\ Head(w) = w[1]
  OBVIOUS
<1>2. t \in Seq(S) /\ Len(t) = Len(w) - 1 /\ \A i \in 1..Len(t) : t[i] = w[i + 1]
  OBVIOUS
<1> HIDE DEF t
<1>3. t = <<>> <=> Len(t) = 0
  BY <1>2
<1>4. ASSUME NEW i \in 1..(Len(t) - 1) PROVE t[i] # t[i + 1]
  <2>1. t[i] = w[i + 1] /\ t[i + 1] = w[(i + 1) + 1] /\ i + 1 \in 1..(Len(w) - 1)
    BY <1>1, <1>2
  <2> QED BY <2>1 DEF News
<1>5. t # <<>> => w[1] # t[1]
  <2> SUFFICES ASSUME t # <<>> PROVE w[1] # t[1]
    OBVIOUS
  <2>1. t[1] = w[1 + 1] /\ 1 \in 1..(Len(w) - 1)
    BY <1>1, <1>2, <1>3
  <2> QED BY <2>1 DEF News
<1>6. last = IF t = <<>> THEN w[1] ELSE t[Len(t)]
  BY <1>1, <1>2, <1>3 DEF News
<1>7. News(w[1], t, last)
  BY <1>4, <1>5, <1>6 DEF News
<1> QED BY <1>1, <1>2, <1>7 DEF t

LEMMA RenderKeepsBridge ==
  ASSUME BridgeInv, NEW s \in Snapshots, Render(s)
  PROVE  BridgeInv'
BY DEF BridgeInv, OneHandshake, News, Render

LEMMA RemountKeepsBridge ==
  ASSUME NEW s \in Snapshots, Remount(s)
  PROVE  BridgeInv'
<1>1. wire' = <<>> /\ wire' \in Seq(Snapshots)
  BY DEF Remount
<1>2. News(page.latest, wire, lastPushed)'
  BY <1>1 DEF Remount, News, BlankPage
<1> QED BY <1>1, <1>2 DEF BridgeInv, OneHandshake, Remount, BlankPage, Effects

LEMMA FlushKeepsBridge ==
  ASSUME BridgeInv, FlushEffects
  PROVE  BridgeInv'
<1>1. snapshot' \in Snapshots /\ page' = page /\ snapshot' = snapshot
  BY DEF BridgeInv, FlushEffects
<1>2. CASE PushDue
  <2>1. guestApi /\ connection = "connected" /\ ~ConnectDue
    BY <1>2 DEF BridgeInv, OneHandshake, PushDue, ConnectDue
  <2>2. lastPushed' = snapshot /\ wire' = Append(wire, snapshot)
    BY <1>2 DEF FlushEffects
  <2>3. wire' \in Seq(Snapshots) /\ News(page.latest, wire', lastPushed')
    BY <1>2, <2>2, PushIsNews DEF BridgeInv, PushDue
  <2> QED BY <1>1, <2>1, <2>3 DEF BridgeInv, OneHandshake, FlushEffects
<1>3. CASE ~PushDue
  BY <1>1, <1>3 DEF BridgeInv, OneHandshake, News, FlushEffects, ConnectDue
<1> QED BY <1>2, <1>3

LEMMA HandshakeKeepsBridge ==
  ASSUME BridgeInv, HandshakeResolves
  PROVE  BridgeInv'
<1>1. /\ page' = page /\ snapshot' = snapshot /\ due' = due /\ iframe' = iframe
      /\ connection' = "connected" /\ guestApi' = TRUE
      /\ lastPushed' = snapshot /\ wire' = Append(wire, snapshot)
  BY DEF HandshakeResolves, Greet
<1>2. /\ connection = "handshake" /\ wire = <<>> /\ page.latest = NoSnapshot
      /\ "connect" \notin due /\ iframe
  BY DEF HandshakeResolves, BridgeInv, OneHandshake
<1>3. lastPushed = NoSnapshot /\ snapshot # lastPushed
  BY <1>2, SnapshotAssumption DEF BridgeInv, News
<1>4. wire' \in Seq(Snapshots) /\ News(page.latest, wire', lastPushed')
  BY <1>1, <1>3, PushIsNews DEF BridgeInv
<1> QED BY <1>1, <1>2, <1>4 DEF BridgeInv, OneHandshake

LEMMA ArrivalKeepsBridge ==
  ASSUME BridgeInv, SetState
  PROVE  BridgeInv'
<1>1. /\ wire # <<>> /\ wire' = Tail(wire) /\ page' = [page EXCEPT !.latest = Head(wire)]
      /\ UNCHANGED <<iframe, snapshot, due, connection, guestApi, lastPushed>>
  BY DEF SetState
<1>2. /\ Head(wire) \in Snapshots /\ wire' \in Seq(Snapshots)
      /\ News(Head(wire), wire', lastPushed)
  BY <1>1, ArrivalIsNews DEF BridgeInv
<1>3. connection = "connected"
  BY <1>1 DEF BridgeInv, OneHandshake
<1>4. /\ page' \in [loaded : BOOLEAN, hostApi : BOOLEAN, latest : Snapshots \cup {NoSnapshot}]
      /\ page'.latest = Head(wire)
  BY <1>1, <1>2 DEF BridgeInv
<1> QED BY <1>1, <1>2, <1>3, <1>4 DEF BridgeInv, OneHandshake

LEMMA BridgeStepKeepsBridge ==
  ASSUME BridgeInv, BridgeStep
  PROVE  BridgeInv'
<1>1. CASE SetIframe
  BY <1>1 DEF BridgeInv, OneHandshake, News, SetIframe
<1>2. CASE PageLoads
  BY <1>2 DEF BridgeInv, OneHandshake, News, PageLoads
<1>3. CASE GuestResolves
  BY <1>3 DEF BridgeInv, OneHandshake, News, GuestResolves
<1> QED BY <1>1, <1>2, <1>3, FlushKeepsBridge, HandshakeKeepsBridge, ArrivalKeepsBridge
        DEF BridgeStep

-----------------------------------------------------------------------------
(* What the host knows and tells of the sessions.                          *)

SessionOk(c) ==
  /\ c.status \in {"none", "open", "settled", "cancelled"}
  /\ c.status # "none" => c.bet \in Bets
  /\ c.status = "settled" => c.word \in Words /\ c.payout = ContractPayout(c.bet, c.word)

ChainOk ==
  /\ chain = [n \in Sessions |-> chain[n]]
  /\ \A n \in Sessions : SessionOk(chain[n])

\* A row shows nothing that is not so.
RowTrue(row, c) ==
  /\ row.phase = "settled" => c.status = "settled"
  /\ row.phase = "cancelled" => c.status = "cancelled"
  /\ row.gameState = "final" \/ row.randomness => c.status = "settled"
  /\ row.payout => c.status \in {"settled", "cancelled"}

SnapshotTrue(s) == \A n \in Sessions : RowTrue(s.items[n], chain[n])

HostInv ==
  /\ ChainOk
  /\ vault \in Int /\ limit \in Int /\ manifest \in {"fallback", "served"}
  /\ rows \in [Sessions -> Rows]
  /\ \A n \in Sessions : RowTrue(rows[n], chain[n])

\* So does every snapshot that was rendered, pushed or received.
ToldTrue ==
  /\ SnapshotTrue(snapshot)
  /\ \A i \in 1..Len(wire) : SnapshotTrue(wire[i])
  /\ page.latest # NoSnapshot => SnapshotTrue(page.latest)

\* What landed for a session c that ended.
Landed(c, outcome, payout) ==
  c.status = "settled" =>
    /\ Consistent(c.bet, outcome)
    /\ outcome.won = (c.payout > 0)
    /\ payout = c.payout

\* The round has a session, with the bet it was placed with.
HasSession ==
  /\ round.key \in Sessions
  /\ chain[round.key].status # "none" /\ chain[round.key].bet = round.bet

CallInv ==
  \/ call.status = "sent"
  \/ /\ call.status = "opened" /\ call.session \in Sessions
     /\ chain[call.session].status # "none" /\ chain[call.session].bet = round.bet

RoundInv ==
  \/ round.status = "none" /\ call.status = "idle"
  \/ round.status = "opening" /\ round.bet \in Bets /\ CallInv
  \/ round.status = "waiting" /\ call.status = "idle" /\ HasSession
  \/ /\ round.status \in {"landing", "done"} /\ call.status = "idle" /\ HasSession
     /\ chain[round.key].status \in {"settled", "cancelled"}
     /\ round = [status |-> round.status, key |-> round.key, bet |-> round.bet,
                 outcome |-> round.outcome, payout |-> round.payout]
     /\ Landed(chain[round.key], round.outcome, round.payout)

CoinflipInv == BridgeInv /\ HostInv /\ ToldTrue /\ RoundInv

\* What ShowsWhatLanded says follows.
LEMMA InvariantShows ==
  CoinflipInv => OnlyNewsIsPushed /\ ShowsWhatLanded
<1> SUFFICES ASSUME CoinflipInv PROVE OnlyNewsIsPushed /\ ShowsWhatLanded
  OBVIOUS
<1>1. OnlyNewsIsPushed
  BY NewsIsPushed DEF CoinflipInv
<1>2. ASSUME round.status \in {"landing", "done"}, chain[round.key].status = "settled"
      PROVE  LET session == chain[round.key]
                 coins == round.outcome.coins
                 sameSide == {i \in DOMAIN coins : coins[i] = session.bet.pickHeads}
             IN  /\ DOMAIN coins = 1..session.bet.coinCount
                 /\ round.outcome.pickedSideWins = Cardinality(sameSide)
                 /\ (Cardinality(sameSide) >= session.bet.minWins) = round.outcome.won
                 /\ round.outcome.won = (session.payout > 0)
                 /\ round.payout = session.payout
  <2>1. Landed(chain[round.key], round.outcome, round.payout)
    BY <1>2 DEF CoinflipInv, RoundInv
  <2> QED BY <1>2, <2>1 DEF Landed, Consistent, Picked
<1>3. round.status \in {"waiting", "landing"} => round.key \notin Strip
  BY DEF Strip, RoundInFlight
<1> QED BY <1>1, <1>2, <1>3 DEF ShowsWhatLanded

\* What a snapshot is made of.
LEMMA PublishedIsTrue ==
  ASSUME NEW r \in [Sessions -> Rows], NEW m \in {"fallback", "served"}, NEW l \in Int
  PROVE  /\ Published(r, m, l) \in Snapshots
         /\ (\A n \in Sessions : RowTrue(r[n], chain[n])) => SnapshotTrue(Published(r, m, l))
BY DEF Published, Snapshots, SnapshotTrue

-----------------------------------------------------------------------------
(* Steps of the bridge.                                                    *)

\* No session changed.
LEMMA RenderKeepsTruth ==
  ASSUME ToldTrue, NEW s, SnapshotTrue(s), Render(s), UNCHANGED chain
  PROVE  ToldTrue'
BY DEF ToldTrue, SnapshotTrue, Render

LEMMA BridgeStepKeepsTruth ==
  ASSUME BridgeInv, ToldTrue, BridgeStep, UNCHANGED chain
  PROVE  ToldTrue'
<1>1. \A s : SnapshotTrue(s)' <=> SnapshotTrue(s)
  BY DEF SnapshotTrue
<1>2. wire \in Seq(Snapshots)
  BY DEF BridgeInv
<1>3. CASE UNCHANGED <<snapshot, wire>> /\ page'.latest = page.latest
  BY <1>1, <1>3 DEF ToldTrue, SnapshotTrue
<1>4. CASE wire' = Append(wire, snapshot) /\ UNCHANGED <<snapshot, page>>
  <2>1. \A i \in 1..Len(wire') : wire'[i] = snapshot \/ (i \in 1..Len(wire) /\ wire'[i] = wire[i])
    BY <1>2, <1>4
  <2> QED BY <1>1, <1>4, <2>1 DEF ToldTrue, SnapshotTrue
<1>5. CASE SetState
  <2>1. wire # <<>> /\ wire' = Tail(wire) /\ snapshot' = snapshot
    BY <1>5 DEF SetState
  <2>2. page'.latest = Head(wire)
    BY <1>5 DEF SetState, BridgeInv
  <2>3. Head(wire) = wire[1] /\ 1 \in 1..Len(wire)
    BY <1>2, <2>1
  <2>4. \A i \in 1..Len(wire') : i + 1 \in 1..Len(wire) /\ wire'[i] = wire[i + 1]
    BY <1>2, <2>1
  <2> QED BY <2>1, <2>2, <2>3, <2>4 DEF ToldTrue, SnapshotTrue
<1>6. CASE SetIframe
  BY <1>3, <1>6 DEF SetIframe
<1>7. CASE FlushEffects
  BY <1>3, <1>4, <1>7 DEF FlushEffects
<1>8. CASE HandshakeResolves
  BY <1>4, <1>8 DEF HandshakeResolves, Greet
<1>9. CASE PageLoads
  <2>1. page'.latest = page.latest
    BY <1>9 DEF PageLoads, BridgeInv
  <2> QED BY <1>3, <1>9, <2>1 DEF PageLoads
<1>10. CASE GuestResolves
  <2>1. page'.latest = page.latest
    BY <1>10 DEF GuestResolves, BridgeInv
  <2> QED BY <1>3, <1>10, <2>1 DEF GuestResolves
<1> QED BY <1>5, <1>6, <1>7, <1>8, <1>9, <1>10 DEF BridgeStep

LEMMA RemountKeepsTruth ==
  ASSUME NEW s, SnapshotTrue(s), Remount(s), UNCHANGED chain
  PROVE  ToldTrue'
<1>1. wire' = <<>> /\ Len(wire') = 0 /\ page'.latest = NoSnapshot /\ snapshot' = s
  BY DEF Remount, BlankPage
<1> QED BY <1>1 DEF ToldTrue, SnapshotTrue

-----------------------------------------------------------------------------
(* Steps of the chain.                                                     *)

\* Session n, not ended yet, goes on as c.
Advances(n, c) ==
  /\ chain' = [chain EXCEPT ![n] = c]
  /\ SessionOk(c) /\ c.status # "none"
  /\ chain[n].status \in {"none", "open"}
  /\ chain[n].status = "open" => c.bet = chain[n].bet

LEMMA AdvancedChain ==
  ASSUME HostInv, NEW n \in Sessions, NEW c, Advances(n, c)
  PROVE  /\ chain'[n] = c
         /\ \A k \in Sessions \ {n} : chain'[k] = chain[k]
         /\ ChainOk'
         /\ \A k \in Sessions : \A row : RowTrue(row, chain[k]) => RowTrue(row, chain'[k])
<1>1. chain = [k \in Sessions |-> chain[k]] /\ chain' = [chain EXCEPT ![n] = c]
  BY DEF HostInv, ChainOk, Advances
<1>2. /\ chain'[n] = c
      /\ \A k \in Sessions \ {n} : chain'[k] = chain[k]
      /\ chain' = [k \in Sessions |-> chain'[k]]
  BY <1>1
<1>3. ChainOk'
  BY <1>2 DEF HostInv, ChainOk, Advances
<1>4. ASSUME NEW row, NEW k \in Sessions, RowTrue(row, chain[k])
      PROVE  RowTrue(row, chain'[k])
  BY <1>2, <1>4 DEF RowTrue, Advances
<1> QED BY <1>2, <1>3, <1>4

LEMMA AdvanceKeeps ==
  ASSUME CoinflipInv, NEW n \in Sessions, NEW c, Advances(n, c), UNCHANGED bridgeVars
  PROVE  /\ BridgeInv' /\ ToldTrue'
         /\ \A k \in Sessions : RowTrue(rows[k], chain'[k])
<1>1. BridgeInv'
  BY DEF CoinflipInv, BridgeInv, OneHandshake, News, bridgeVars
<1>2. \A k \in Sessions : \A row : RowTrue(row, chain[k]) => RowTrue(row, chain'[k])
  BY AdvancedChain DEF CoinflipInv
<1>3. UNCHANGED <<snapshot, wire, page>>
  BY DEF bridgeVars
<1>4. \A s : SnapshotTrue(s) => \A k \in Sessions : RowTrue(s.items[k], chain'[k])
  BY <1>2 DEF SnapshotTrue
<1>5. ToldTrue'
  BY <1>3, <1>4 DEF CoinflipInv, ToldTrue, SnapshotTrue
<1> QED BY <1>1, <1>2, <1>5 DEF CoinflipInv, HostInv

\* The round does not notice.
LEMMA AdvanceKeepsRound ==
  ASSUME CoinflipInv, NEW n \in Sessions, NEW c, Advances(n, c), UNCHANGED <<round, call>>
  PROVE  RoundInv'
<1>1. /\ chain'[n] = c /\ c.status # "none"
      /\ chain[n].status = "open" => c.bet = chain[n].bet
      /\ chain[n].status \in {"none", "open"}
      /\ \A k \in Sessions \ {n} : chain'[k] = chain[k]
  BY AdvancedChain DEF CoinflipInv, Advances
<1>2. ASSUME NEW k \in Sessions, chain[k].status # "none"
      PROVE  chain'[k].status # "none" /\ chain'[k].bet = chain[k].bet
  BY <1>1, <1>2
<1>3. ASSUME NEW k \in Sessions, chain[k].status \in {"settled", "cancelled"}
      PROVE  chain'[k] = chain[k]
  BY <1>1, <1>3
<1>4. RoundInv
  BY DEF CoinflipInv
<1>5. CASE round.status = "none" /\ call.status = "idle"
  BY <1>5 DEF RoundInv
<1>6. CASE round.status = "opening" /\ round.bet \in Bets /\ CallInv
  BY <1>2, <1>6 DEF RoundInv, CallInv
<1>7. CASE round.status = "waiting" /\ call.status = "idle" /\ HasSession
  BY <1>2, <1>7 DEF RoundInv, HasSession
<1>8. CASE round.status \in {"landing", "done"}
  BY <1>3, <1>4, <1>8 DEF RoundInv, HasSession
<1> QED BY <1>4, <1>5, <1>6, <1>7, <1>8 DEF RoundInv

LEMMA PayoutType ==
  ASSUME NEW bet \in Bets, NEW word
  PROVE  ContractPayout(bet, word) \in Int
BY BetFacts DEF ContractPayout

LEMMA SettleKeeps ==
  ASSUME CoinflipInv, NEW n \in Sessions, SettleOnChain(n)
  PROVE  CoinflipInv'
<1>1. /\ chain[n].status = "open" /\ UNCHANGED bridgeVars
      /\ UNCHANGED <<rows, manifest, limit, round, call>>
  BY DEF SettleOnChain, gameVars
<1>2. SessionOk(chain[n]) /\ n \in DOMAIN chain
  BY DEF CoinflipInv, HostInv, ChainOk
<1>3. PICK w \in Words :
        /\ chain' = [chain EXCEPT ![n] = [status |-> "settled", bet |-> chain[n].bet, word |-> w,
                                          payout |-> ContractPayout(chain[n].bet, w)]]
        /\ vault' = vault + Wager - ContractPayout(chain[n].bet, w)
  BY <1>2 DEF SettleOnChain
<1> DEFINE c == [status |-> "settled", bet |-> chain[n].bet, word |-> w,
                 payout |-> ContractPayout(chain[n].bet, w)]
<1>4. Advances(n, c)
  BY <1>1, <1>2, <1>3 DEF Advances, SessionOk
<1>5. vault' \in Int
  <2>1. ContractPayout(chain[n].bet, w) \in Int
    BY <1>1, <1>2, PayoutType DEF SessionOk
  <2> QED BY <1>3, <2>1, CoinflipAssumption DEF CoinflipInv, HostInv
<1> HIDE DEF c
<1>6. BridgeInv' /\ ToldTrue' /\ \A k \in Sessions : RowTrue(rows[k], chain'[k])
  BY <1>1, <1>4, AdvanceKeeps
<1>7. ChainOk'
  BY <1>4, AdvancedChain DEF CoinflipInv
<1>8. RoundInv'
  BY <1>1, <1>4, AdvanceKeepsRound
<1> QED BY <1>1, <1>5, <1>6, <1>7, <1>8 DEF CoinflipInv, HostInv

LEMMA CancelKeeps ==
  ASSUME CoinflipInv, NEW n \in Sessions, CancelStuck(n)
  PROVE  CoinflipInv'
<1> DEFINE c == [status |-> "cancelled", bet |-> chain[n].bet, word |-> 0, payout |-> Wager]
<1>1. /\ chain[n].status = "open" /\ UNCHANGED bridgeVars
      /\ UNCHANGED <<vault, rows, manifest, limit, round, call>>
  BY DEF CancelStuck, gameVars
<1>2. SessionOk(chain[n]) /\ n \in DOMAIN chain
  BY DEF CoinflipInv, HostInv, ChainOk
<1>3. chain' = [chain EXCEPT ![n] = c]
  BY <1>2 DEF CancelStuck
<1>4. Advances(n, c)
  BY <1>1, <1>2, <1>3 DEF Advances, SessionOk
<1> HIDE DEF c
<1>5. BridgeInv' /\ ToldTrue' /\ \A k \in Sessions : RowTrue(rows[k], chain'[k])
  BY <1>1, <1>4, AdvanceKeeps
<1>6. ChainOk'
  BY <1>4, AdvancedChain DEF CoinflipInv
<1>7. RoundInv'
  BY <1>1, <1>4, AdvanceKeepsRound
<1> QED BY <1>1, <1>5, <1>6, <1>7 DEF CoinflipInv, HostInv

LEMMA OpenKeeps ==
  ASSUME CoinflipInv, HostOpens
  PROVE  CoinflipInv'
<1>1. PICK n \in Sessions :
        /\ chain[n].status = "none"
        /\ chain' = [chain EXCEPT ![n] = [status |-> "open", bet |-> round.bet]]
        /\ call' = [status |-> "opened", session |-> n]
  BY DEF HostOpens
<1> DEFINE c == [status |-> "open", bet |-> round.bet]
<1>2. /\ call.status = "sent" /\ UNCHANGED bridgeVars
      /\ UNCHANGED <<vault, rows, manifest, limit, round>>
  BY DEF HostOpens
<1>3. round.status = "opening" /\ round.bet \in Bets
  BY <1>2 DEF CoinflipInv, RoundInv
<1>4. Advances(n, c)
  BY <1>1, <1>3 DEF Advances, SessionOk
<1>5. c.status = "open" /\ c.bet = round.bet
  OBVIOUS
<1>6. chain' = [chain EXCEPT ![n] = c]
  BY <1>1
<1> HIDE DEF c
<1>7. BridgeInv' /\ ToldTrue' /\ \A k \in Sessions : RowTrue(rows[k], chain'[k])
  BY <1>2, <1>4, AdvanceKeeps
<1>8. ChainOk' /\ chain'[n] = c
  BY <1>4, AdvancedChain DEF CoinflipInv
<1>9. RoundInv'
  BY <1>1, <1>2, <1>3, <1>5, <1>8 DEF RoundInv, CallInv
<1> QED BY <1>2, <1>7, <1>8, <1>9 DEF CoinflipInv, HostInv

-----------------------------------------------------------------------------
(* Steps of the host's layers.                                             *)

LEMMA RoundIsKept ==
  ASSUME RoundInv, UNCHANGED <<chain, round, call>>
  PROVE  RoundInv'
BY DEF RoundInv, CallInv, HasSession

\* A render after a layer changed.
LEMMA HostRenders ==
  ASSUME CoinflipInv, HostInv', UNCHANGED <<chain, round, call>>,
         Render(Published(rows', manifest', limit'))
  PROVE  CoinflipInv'
<1> DEFINE s == Published(rows', manifest', limit')
<1>1. /\ rows' \in [Sessions -> Rows] /\ manifest' \in {"fallback", "served"} /\ limit' \in Int
      /\ \A n \in Sessions : RowTrue(rows'[n], chain[n])
  BY DEF HostInv
<1>2. s \in Snapshots /\ SnapshotTrue(s)
  BY <1>1, PublishedIsTrue
<1> HIDE DEF s
<1>3. Render(s)
  BY DEF s
<1>4. BridgeInv'
  BY <1>2, <1>3, RenderKeepsBridge DEF CoinflipInv
<1>5. ToldTrue'
  BY <1>2, <1>3, RenderKeepsTruth DEF CoinflipInv
<1>6. RoundInv'
  BY RoundIsKept DEF CoinflipInv
<1> QED BY <1>4, <1>5, <1>6 DEF CoinflipInv

LEMMA KnownRowsAreTrue ==
  ASSUME NEW n \in Sessions, ChainOk, NEW row \in KnownRows(n)
  PROVE  row \in Rows /\ RowTrue(row, chain[n])
<1>1. chain[n].status \in {"none", "open", "settled", "cancelled"}
  BY DEF ChainOk, SessionOk
<1>2. CASE chain[n].status = "none"
  <2>1. row = NoRow
    BY <1>2 DEF KnownRows
  <2> QED BY <2>1 DEF NoRow, Rows, RowTrue
<1>3. CASE chain[n].status = "open"
  BY <1>3 DEF KnownRows, Rows, RowTrue
<1>4. CASE chain[n].status = "settled"
  BY <1>4 DEF KnownRows, Rows, RowTrue
<1>5. CASE chain[n].status = "cancelled"
  BY <1>5 DEF KnownRows, Rows, RowTrue
<1> QED BY <1>1, <1>2, <1>3, <1>4, <1>5

LEMMA HostLearnsKeeps ==
  ASSUME CoinflipInv, NEW n \in Sessions, HostLearns(n)
  PROVE  CoinflipInv'
<1>1. PICK row \in KnownRows(n) : rows' = [rows EXCEPT ![n] = row]
  BY DEF HostLearns
<1>2. UNCHANGED <<chain, vault, manifest, limit, round, call>>
  BY DEF HostLearns, gameVars
<1>3. row \in Rows /\ RowTrue(row, chain[n])
  BY KnownRowsAreTrue DEF CoinflipInv, HostInv
<1>4. HostInv'
  BY <1>1, <1>2, <1>3 DEF CoinflipInv, HostInv, ChainOk
<1>5. Render(Published(rows', manifest', limit'))
  BY <1>2 DEF HostLearns
<1> QED BY <1>2, <1>4, <1>5, HostRenders

LEMMA LayersKeep ==
  ASSUME CoinflipInv, ManifestServed \/ RefreshLimits \/ Rebuild
  PROVE  CoinflipInv'
<1>1. CASE ManifestServed
  <2>1. /\ UNCHANGED <<chain, vault, rows, limit, round, call>> /\ manifest' = "served"
        /\ Render(Published(rows', manifest', limit'))
    BY <1>1 DEF ManifestServed, gameVars
  <2>2. HostInv'
    BY <2>1 DEF CoinflipInv, HostInv, ChainOk
  <2> QED BY <2>1, <2>2, HostRenders
<1>2. CASE RefreshLimits
  <2>1. /\ UNCHANGED <<chain, vault, rows, manifest, round, call>>
        /\ limit' = (vault * 100) \div 10000
        /\ Render(Published(rows', manifest', limit'))
    BY <1>2 DEF RefreshLimits, gameVars
  <2>2. limit' \in Int
    BY <2>1 DEF CoinflipInv, HostInv
  <2>3. HostInv'
    BY <2>1, <2>2 DEF CoinflipInv, HostInv, ChainOk
  <2> QED BY <2>1, <2>3, HostRenders
<1>3. CASE Rebuild
  <2>1. /\ UNCHANGED <<chain, vault, rows, manifest, limit, round, call>>
        /\ Render(Published(rows', manifest', limit'))
    BY <1>3 DEF Rebuild, hostVars, gameVars
  <2>2. HostInv'
    BY <2>1 DEF CoinflipInv, HostInv, ChainOk
  <2> QED BY <2>1, <2>2, HostRenders
<1> QED BY <1>1, <1>2, <1>3

LEMMA PageGoesKeeps ==
  ASSUME CoinflipInv, PageGoes
  PROVE  CoinflipInv'
<1> DEFINE s == Published(rows, "fallback", None)
<1>1. /\ UNCHANGED <<chain, vault, rows>> /\ manifest' = "fallback" /\ limit' = None
      /\ call' = NoCall /\ round' = NoRound
  BY DEF PageGoes
<1>2. HostInv'
  BY <1>1 DEF CoinflipInv, HostInv, ChainOk, None
<1>3. s \in Snapshots /\ SnapshotTrue(s)
  <2>1. rows \in [Sessions -> Rows] /\ \A n \in Sessions : RowTrue(rows[n], chain[n])
    BY DEF CoinflipInv, HostInv
  <2>2. "fallback" \in {"fallback", "served"} /\ None \in Int
    BY DEF None
  <2> QED BY <2>1, <2>2, PublishedIsTrue
<1> HIDE DEF s
<1>4. Remount(s)
  BY DEF PageGoes, s
<1>5. BridgeInv'
  BY <1>3, <1>4, RemountKeepsBridge
<1>6. ToldTrue'
  BY <1>1, <1>3, <1>4, RemountKeepsTruth
<1>7. RoundInv'
  BY <1>1 DEF RoundInv, NoRound, NoCall
<1> QED BY <1>2, <1>5, <1>6, <1>7 DEF CoinflipInv

LEMMA BridgeMovesKeeps ==
  ASSUME CoinflipInv, BridgeMoves
  PROVE  CoinflipInv'
<1>1. BridgeStep /\ UNCHANGED <<chain, vault, rows, manifest, limit, round, call>>
  BY DEF BridgeMoves, hostVars, gameVars
<1>2. BridgeInv'
  BY <1>1, BridgeStepKeepsBridge DEF CoinflipInv
<1>3. ToldTrue'
  BY <1>1, BridgeStepKeepsTruth DEF CoinflipInv
<1>4. RoundInv'
  BY <1>1, RoundIsKept DEF CoinflipInv
<1>5. HostInv'
  BY <1>1 DEF CoinflipInv, HostInv, ChainOk
<1> QED BY <1>2, <1>3, <1>4, <1>5 DEF CoinflipInv

-----------------------------------------------------------------------------
(* Steps of the game.                                                      *)

\* They leave the bridge and the host alone.
LEMMA GameLeavesTheRest ==
  ASSUME CoinflipInv, UNCHANGED hostVars, UNCHANGED bridgeVars
  PROVE  BridgeInv' /\ ToldTrue' /\ HostInv'
<1>1. BridgeInv'
  BY DEF CoinflipInv, BridgeInv, OneHandshake, News, bridgeVars
<1>2. ToldTrue'
  BY DEF CoinflipInv, ToldTrue, SnapshotTrue, bridgeVars, hostVars
<1>3. HostInv'
  BY DEF CoinflipInv, HostInv, ChainOk, hostVars
<1> QED BY <1>1, <1>2, <1>3

\* What lands: from the word in the settled state, from the word of the row, or from the
\* payout alone.
LEMMA WhatLands ==
  ASSUME CoinflipInv, round.status = "waiting", page.latest # NoSnapshot,
         NEW row, row = page.latest.items[round.key], Terminal(row.phase),
         NEW outcome \in RoundOutcome(row)
  PROVE  /\ chain[round.key].status \in {"settled", "cancelled"}
         /\ Landed(chain[round.key], outcome, PayoutShown(row, outcome))
<1> DEFINE c == chain[round.key]
<1>1. round.key \in Sessions /\ c.status # "none" /\ c.bet = round.bet
  BY DEF CoinflipInv, RoundInv, HasSession, CallInv
<1>2. RowTrue(row, c)
  BY <1>1 DEF CoinflipInv, ToldTrue, SnapshotTrue
<1>3. SessionOk(c)
  BY <1>1 DEF CoinflipInv, HostInv, ChainOk
<1>4. c.status \in {"settled", "cancelled"}
  BY <1>2 DEF RowTrue, Terminal
<1> SUFFICES ASSUME c.status = "settled"
             PROVE  /\ Consistent(c.bet, outcome)
                    /\ outcome.won = (c.payout > 0)
                    /\ PayoutShown(row, outcome) = c.payout
  BY <1>4 DEF Landed
<1>5. c.bet \in Bets /\ c.word \in Words /\ c.payout = ContractPayout(c.bet, c.word)
  BY <1>3 DEF SessionOk
<1>6. /\ MaxPayout(Wager, c.bet) \in Nat /\ MaxPayout(Wager, c.bet) > 0
  BY <1>5, BetFacts
<1> DEFINE drawn == OutcomeFromRandomness(c.bet, c.word)
<1>7. Consistent(c.bet, drawn) /\ c.payout = IF drawn.won THEN MaxPayout(Wager, c.bet) ELSE 0
  BY <1>5, WordIsShown
<1>8. c.payout \in Nat /\ (c.payout > 0) = drawn.won
  <2>1. drawn.won \in BOOLEAN
    BY <1>7 DEF Consistent
  <2> HIDE DEF drawn
  <2> QED BY <1>6, <1>7, <2>1
<1> DEFINE made == OutcomeFromResult(c.bet, c.payout > 0)
<1>9. Consistent(c.bet, made) /\ made.won = (c.payout > 0)
  <2>1. (c.payout > 0) \in BOOLEAN
    OBVIOUS
  <2> QED BY <1>5, <2>1, ResultIsShown
<1>10. outcome = drawn \/ (row.payout /\ outcome = made)
  BY <1>1 DEF RoundOutcome, DecodeGameState
<1> HIDE DEF drawn, made
<1>11. Consistent(c.bet, outcome) /\ outcome.won = (c.payout > 0) /\ outcome.bet = c.bet
  BY <1>7, <1>8, <1>9, <1>10 DEF Consistent
<1>12. PayoutShown(row, outcome) =
         IF row.payout /\ c.payout > 0 THEN c.payout
         ELSE IF outcome.won THEN MaxPayout(Wager, c.bet) ELSE 0
  BY <1>11 DEF PayoutShown
<1>13. PayoutShown(row, outcome) = c.payout
  <2>1. CASE c.payout > 0
    BY <1>7, <1>8, <1>11, <1>12, <2>1
  <2>2. CASE ~(c.payout > 0)
    BY <1>7, <1>8, <1>11, <1>12, <2>2
  <2> QED BY <2>1, <2>2
<1> QED BY <1>11, <1>13

LEMMA SettleRoundKeeps ==
  ASSUME CoinflipInv, SettleRound
  PROVE  RoundInv'
<1> DEFINE row == page.latest.items[round.key]
<1>1. /\ round.status = "waiting" /\ page.latest # NoSnapshot /\ Terminal(row.phase)
      /\ call' = call /\ chain' = chain
  BY DEF SettleRound, hostVars
<1>2. call.status = "idle" /\ HasSession
  BY <1>1 DEF CoinflipInv, RoundInv
<1>3. CASE round' = NoRound
  BY <1>1, <1>2, <1>3 DEF RoundInv, NoRound
<1>4. CASE round' # NoRound
  <2>1. PICK outcome \in RoundOutcome(row) :
          round' = [status |-> IF fastMode THEN "done" ELSE "landing",
                    key |-> round.key, bet |-> round.bet, outcome |-> outcome,
                    payout |-> PayoutShown(row, outcome)]
    BY <1>4 DEF SettleRound
  <2> DEFINE paid == PayoutShown(row, outcome)
             st == IF fastMode THEN "done" ELSE "landing"
  <2>2. /\ chain[round.key].status \in {"settled", "cancelled"}
        /\ Landed(chain[round.key], outcome, paid)
    BY <1>1, WhatLands
  <2>3. st \in {"landing", "done"}
    OBVIOUS
  <2>4. round' = [status |-> st, key |-> round.key, bet |-> round.bet, outcome |-> outcome,
                  payout |-> paid]
    BY <2>1
  <2> HIDE DEF paid, st, row
  <2>5. /\ round'.status = st /\ round'.key = round.key /\ round'.bet = round.bet
        /\ round'.outcome = outcome /\ round'.payout = paid
    BY <2>4
  <2>6. Landed(chain[round.key], round.outcome, round.payout)'
    BY <1>1, <2>2, <2>5 DEF Landed
  <2>7. HasSession'
    BY <1>1, <1>2, <2>5 DEF HasSession
  <2>8. /\ round'.status \in {"landing", "done"} /\ call'.status = "idle"
        /\ chain'[round'.key].status \in {"settled", "cancelled"}
        /\ round' = [status |-> round'.status, key |-> round'.key, bet |-> round'.bet,
                     outcome |-> round'.outcome, payout |-> round'.payout]
    BY <1>1, <1>2, <2>2, <2>3, <2>4, <2>5
  <2> QED BY <2>6, <2>7, <2>8 DEF RoundInv
<1> QED BY <1>3, <1>4

LEMMA LandingKeeps ==
  ASSUME CoinflipInv, FinishLanding
  PROVE  RoundInv'
<1>1. /\ round.status = "landing" /\ call' = call /\ chain' = chain
      /\ round' = [round EXCEPT !.status = "done"]
  BY DEF FinishLanding, hostVars
<1>2. /\ call.status = "idle" /\ HasSession
      /\ chain[round.key].status \in {"settled", "cancelled"}
      /\ round = [status |-> round.status, key |-> round.key, bet |-> round.bet,
                  outcome |-> round.outcome, payout |-> round.payout]
      /\ Landed(chain[round.key], round.outcome, round.payout)
  BY <1>1 DEF CoinflipInv, RoundInv
<1>3. round' = [status |-> "done", key |-> round.key, bet |-> round.bet,
                outcome |-> round.outcome, payout |-> round.payout]
  BY <1>1, <1>2
<1>4. /\ round'.status = "done" /\ round'.key = round.key /\ round'.bet = round.bet
      /\ round'.outcome = round.outcome /\ round'.payout = round.payout
  BY <1>3
<1>5. HasSession' /\ Landed(chain[round.key], round.outcome, round.payout)'
  BY <1>1, <1>2, <1>4 DEF HasSession, Landed
<1> QED BY <1>1, <1>2, <1>3, <1>4, <1>5 DEF RoundInv

LEMMA GameKeeps ==
  ASSUME CoinflipInv,
         \/ \E bet \in Bets : Bet(bet)
         \/ OpenReturns \/ OpenFails
         \/ SettleRound \/ FinishLanding \/ RevealOutcome \/ SetFastMode
  PROVE  CoinflipInv'
<1>1. UNCHANGED hostVars /\ UNCHANGED bridgeVars
  BY DEF Bet, OpenReturns, OpenFails, SettleRound, FinishLanding, RevealOutcome, SetFastMode
<1>2. BridgeInv' /\ ToldTrue' /\ HostInv'
  BY <1>1, GameLeavesTheRest
<1>3. RoundInv /\ chain' = chain
  BY <1>1 DEF CoinflipInv, hostVars
<1>4. ASSUME NEW bet \in Bets, Bet(bet) PROVE RoundInv'
  BY <1>4 DEF Bet, RoundInv, CallInv
<1>5. ASSUME OpenReturns PROVE RoundInv'
  <2>1. /\ call.status = "opened"
        /\ round' = [status |-> "waiting", key |-> call.session, bet |-> round.bet]
        /\ call' = [status |-> "idle", session |-> None]
    BY <1>5 DEF OpenReturns, NoCall
  <2>2. /\ call.session \in Sessions
        /\ chain[call.session].status # "none" /\ chain[call.session].bet = round.bet
    BY <1>3, <2>1 DEF RoundInv, CallInv
  <2>3. /\ round'.status = "waiting" /\ round'.key = call.session /\ round'.bet = round.bet
        /\ call'.status = "idle"
    BY <2>1
  <2>4. HasSession'
    BY <1>3, <2>2, <2>3 DEF HasSession
  <2> QED BY <2>3, <2>4 DEF RoundInv
<1>6. ASSUME OpenFails PROVE RoundInv'
  <2>1. round'.status = "none" /\ call'.status = "idle"
    BY <1>6 DEF OpenFails, NoRound, NoCall
  <2> QED BY <2>1 DEF RoundInv
<1>7. ASSUME RevealOutcome \/ SetFastMode PROVE RoundInv'
  <2>1. UNCHANGED <<chain, round, call>>
    BY <1>3, <1>7 DEF RevealOutcome, SetFastMode
  <2> QED BY <1>3, <2>1, RoundIsKept
<1>8. RoundInv'
  <2>1. SettleRound => RoundInv'
    BY SettleRoundKeeps
  <2>2. FinishLanding => RoundInv'
    BY LandingKeeps
  <2> QED BY <1>4, <1>5, <1>6, <1>7, <2>1, <2>2
<1> QED BY <1>2, <1>8 DEF CoinflipInv

-----------------------------------------------------------------------------
LEMMA InitCoinflip ==
  Init => CoinflipInv
<1> SUFFICES ASSUME Init PROVE CoinflipInv
  OBVIOUS
<1>1. HostInv
  <2>1. ChainOk
    BY DEF Init, ChainOk, SessionOk, NoSession
  <2>2. rows \in [Sessions -> Rows] /\ \A n \in Sessions : RowTrue(rows[n], chain[n])
    BY DEF Init, NoRow, Rows, RowTrue
  <2> QED BY <2>1, <2>2, CoinflipAssumption DEF Init, HostInv, None
<1>2. snapshot \in Snapshots /\ SnapshotTrue(snapshot)
  <2>1. snapshot = Published(rows, manifest, limit)
    BY DEF Init, BridgeInit
  <2> QED BY <1>1, <2>1, PublishedIsTrue DEF HostInv
<1>3. BridgeInv
  <2>1. /\ wire = <<>> /\ page = BlankPage /\ connection = "none" /\ guestApi = FALSE
        /\ iframe = FALSE /\ lastPushed = NoSnapshot
    BY DEF Init, BridgeInit
  <2>2. wire \in Seq(Snapshots) /\ Len(wire) = 0
    BY <2>1
  <2>3. News(page.latest, wire, lastPushed)
    BY <2>1, <2>2 DEF News, BlankPage
  <2> QED BY <1>2, <2>1, <2>2, <2>3 DEF BridgeInv, OneHandshake, BlankPage
<1>4. ToldTrue
  BY <1>2 DEF Init, BridgeInit, ToldTrue, BlankPage
<1>5. RoundInv
  BY DEF Init, RoundInv, NoRound, NoCall
<1> QED BY <1>1, <1>3, <1>4, <1>5 DEF CoinflipInv

LEMMA NextCoinflip ==
  CoinflipInv /\ [Next]_vars => CoinflipInv'
<1> SUFFICES ASSUME CoinflipInv, [Next]_vars PROVE CoinflipInv'
  OBVIOUS
<1>1. CASE UNCHANGED vars
  <2>1. UNCHANGED hostVars /\ UNCHANGED bridgeVars /\ UNCHANGED <<chain, round, call>>
    BY <1>1 DEF vars, hostVars, bridgeVars
  <2> QED BY <2>1, GameLeavesTheRest, RoundIsKept DEF CoinflipInv
<1>2. CASE \E n \in Sessions : SettleOnChain(n) \/ CancelStuck(n)
  BY <1>2, SettleKeeps, CancelKeeps
<1>3. CASE HostLearnsOf
  BY <1>3, HostLearnsKeeps DEF HostLearnsOf
<1> QED BY <1>1, <1>2, <1>3, BridgeMovesKeeps, PageGoesKeeps, LayersKeep, OpenKeeps, GameKeeps
        DEF Next

\* The invariant: the bridge has one handshake and its wire carries only news; every
\* snapshot anywhere is true of the chain as it is now; and the round in the page has
\* the session, the bet and the result it should.
THEOREM CoinflipInvariant ==
  Spec => []CoinflipInv
BY InitCoinflip, NextCoinflip, PTL DEF Spec

\* Between the harness and its frame, in whatever order renders, effects, the handshake
\* and messages come: no snapshot is pushed twice in a row, and the last one pushed is
\* the one remembered (use-game-bridge.ts).
THEOREM PushesAreNews ==
  Spec => []OnlyNewsIsPushed
<1>1. CoinflipInv => OnlyNewsIsPushed
  BY InvariantShows
<1> QED BY <1>1, CoinflipInvariant, PTL

\* What lands on the page of the coinflip example is what the contract drew and paid,
\* for any coins, words and wager, whichever parts of the row the page had.
THEOREM CoinsLandAsDrawn ==
  Spec => []ShowsWhatLanded
<1>1. CoinflipInv => ShowsWhatLanded
  BY InvariantShows
<1> QED BY <1>1, CoinflipInvariant, PTL

-----------------------------------------------------------------------------
(* What the page shows of a round that is done.                            *)

\* A cancelled session paid the wager back, and lands as its payout says.
Refunds ==
  /\ \A n \in Sessions : chain[n].status = "cancelled" => chain[n].payout = Wager
  /\ HasOutcome /\ chain[round.key].status = "cancelled" =>
       /\ round.outcome = OutcomeFromResult(round.bet, Wager > 0)
       /\ round.payout = Wager

\* Session n goes on to c, and none but a cancelled one pays the wager back.
GoesOn(n, c) ==
  /\ chain[n].status \in {"none", "open"}
  /\ chain' = [chain EXCEPT ![n] = c]
  /\ c.status = "cancelled" => c.payout = Wager
  /\ round' = round

\* Nothing that a round that landed rests on moves any more.
LEMMA AdvanceKeepsRefunds ==
  ASSUME CoinflipInv, Refunds, NEW n \in Sessions, NEW c, GoesOn(n, c)
  PROVE  Refunds'
<1>1. chain = [k \in Sessions |-> chain[k]]
  BY DEF CoinflipInv, HostInv, ChainOk
<1>2. /\ chain'[n] = c /\ \A k \in Sessions \ {n} : chain'[k] = chain[k]
      /\ chain[n].status \in {"none", "open"} /\ round' = round
      /\ c.status = "cancelled" => c.payout = Wager
  BY <1>1 DEF GoesOn
<1>3. \A k \in Sessions : chain'[k].status = "cancelled" => chain'[k].payout = Wager
  BY <1>2 DEF Refunds
<1>4. ASSUME HasOutcome PROVE chain'[round.key] = chain[round.key]
  <2>1. round.key \in Sessions /\ chain[round.key].status \in {"settled", "cancelled"}
    BY <1>4 DEF HasOutcome, CoinflipInv, RoundInv, HasSession
  <2> QED BY <1>2, <2>1
<1> QED BY <1>2, <1>3, <1>4 DEF Refunds, HasOutcome

\* A cancelled row has no word, so that its payout alone tells what lands.
LEMMA SettleRoundKeepsRefunds ==
  ASSUME CoinflipInv, Refunds, SettleRound
  PROVE  Refunds'
<1> DEFINE row == page.latest.items[round.key]
           c == chain[round.key]
<1>1. /\ round.status = "waiting" /\ page.latest # NoSnapshot /\ Terminal(row.phase)
      /\ chain' = chain
  BY DEF SettleRound, hostVars
<1>2. round.key \in Sessions /\ c.bet = round.bet /\ SessionOk(c) /\ c.status # "none"
  BY <1>1 DEF CoinflipInv, RoundInv, HasSession, HostInv, ChainOk
<1>3. RowTrue(row, c)
  BY <1>1, <1>2 DEF CoinflipInv, ToldTrue, SnapshotTrue
<1>4. CASE round' = NoRound
  BY <1>1, <1>4 DEF Refunds, HasOutcome, NoRound
<1>5. CASE round' # NoRound
  <2>1. PICK outcome \in RoundOutcome(row) :
          round' = [status |-> IF fastMode THEN "done" ELSE "landing",
                    key |-> round.key, bet |-> round.bet, outcome |-> outcome,
                    payout |-> PayoutShown(row, outcome)]
    BY <1>5 DEF SettleRound
  <2>2. /\ round'.key = round.key /\ round'.bet = round.bet /\ round'.outcome = outcome
        /\ round'.payout = PayoutShown(row, outcome)
    BY <2>1
  <2>3. ASSUME c.status = "cancelled"
        PROVE  /\ outcome = OutcomeFromResult(round.bet, Wager > 0)
               /\ PayoutShown(row, outcome) = Wager
    <3>1. row.gameState # "final" /\ ~row.randomness /\ c.payout = Wager
      BY <1>2, <1>3, <2>3 DEF RowTrue, Refunds
    <3>2. row.payout /\ outcome = OutcomeFromResult(round.bet, Wager > 0)
      BY <3>1 DEF RoundOutcome, DecodeGameState
    <3>3. round.bet \in Bets /\ (Wager > 0) \in BOOLEAN
      BY <1>2 DEF SessionOk
    <3>4. outcome.won = (Wager > 0)
      BY <3>2, <3>3, ResultIsShown
    <3>5. PayoutShown(row, outcome) =
            IF Wager > 0 THEN Wager ELSE IF outcome.won THEN MaxPayout(Wager, outcome.bet) ELSE 0
      BY <3>1, <3>2 DEF PayoutShown
    <3>6. Wager \in Nat
      BY CoinflipAssumption
    <3>7. CASE Wager > 0
      BY <3>2, <3>5, <3>7
    <3>8. CASE ~(Wager > 0)
      <4>1. ~outcome.won
        BY <3>4, <3>8
      <4> QED BY <3>2, <3>5, <3>6, <3>8, <4>1
    <3> QED BY <3>6, <3>7, <3>8
  <2> HIDE DEF row
  <2> QED BY <1>1, <2>2, <2>3 DEF Refunds
<1> QED BY <1>4, <1>5

LEMMA NextRefunds ==
  CoinflipInv /\ Refunds /\ [Next]_vars => Refunds'
<1> SUFFICES ASSUME CoinflipInv, Refunds, [Next]_vars PROVE Refunds'
  OBVIOUS
<1>1. ASSUME UNCHANGED <<chain, round>> PROVE Refunds'
  BY <1>1 DEF Refunds, HasOutcome
<1>2. ASSUME chain' = chain, round'.status \in {"none", "opening", "waiting"} PROVE Refunds'
  BY <1>2 DEF Refunds, HasOutcome
<1>3. CASE UNCHANGED vars
  BY <1>1, <1>3 DEF vars
<1>4. CASE BridgeMoves \/ ManifestServed \/ RefreshLimits \/ Rebuild \/ HostLearnsOf
  BY <1>1, <1>4 DEF BridgeMoves, ManifestServed, RefreshLimits, Rebuild, HostLearnsOf, HostLearns,
                    hostVars, gameVars
<1>5. CASE RevealOutcome \/ SetFastMode
  BY <1>1, <1>5 DEF RevealOutcome, SetFastMode, hostVars
<1>6. CASE PageGoes \/ OpenReturns \/ OpenFails
  BY <1>2, <1>6 DEF PageGoes, OpenReturns, OpenFails, hostVars, NoRound
<1>7. CASE \E bet \in Bets : Bet(bet)
  BY <1>2, <1>7 DEF Bet, hostVars
<1>8. ASSUME NEW n \in Sessions, SettleOnChain(n) PROVE Refunds'
  <2>1. PICK w \in Words :
          chain' = [chain EXCEPT ![n] = [status |-> "settled", bet |-> @.bet, word |-> w,
                                         payout |-> ContractPayout(chain[n].bet, w)]]
    BY <1>8 DEF SettleOnChain
  <2>2. n \in DOMAIN chain
    BY DEF CoinflipInv, HostInv, ChainOk
  <2>3. PICK c : c = [status |-> "settled", bet |-> chain[n].bet, word |-> w,
                      payout |-> ContractPayout(chain[n].bet, w)]
    OBVIOUS
  <2>4. c.status = "settled" /\ chain' = [chain EXCEPT ![n] = c]
    BY <2>1, <2>2, <2>3
  <2>5. chain[n].status \in {"none", "open"} /\ round' = round
    BY <1>8 DEF SettleOnChain, gameVars
  <2>6. c.status = "cancelled" => c.payout = Wager
    BY <2>4
  <2>7. GoesOn(n, c)
    BY <2>4, <2>5, <2>6 DEF GoesOn
  <2> QED BY <2>7, AdvanceKeepsRefunds
<1>9. ASSUME NEW n \in Sessions, CancelStuck(n) PROVE Refunds'
  <2>1. n \in DOMAIN chain
    BY DEF CoinflipInv, HostInv, ChainOk
  <2>2. PICK c : c = [status |-> "cancelled", bet |-> chain[n].bet, word |-> 0, payout |-> Wager]
    OBVIOUS
  <2>3. c.payout = Wager /\ chain' = [chain EXCEPT ![n] = c]
    BY <1>9, <2>1, <2>2 DEF CancelStuck
  <2>4. chain[n].status \in {"none", "open"} /\ round' = round
    BY <1>9 DEF CancelStuck, gameVars
  <2>5. c.status = "cancelled" => c.payout = Wager
    BY <2>3
  <2>6. GoesOn(n, c)
    BY <2>3, <2>4, <2>5 DEF GoesOn
  <2> QED BY <2>6, AdvanceKeepsRefunds
<1>10. CASE HostOpens
  <2>1. PICK n \in Sessions :
          /\ chain[n].status = "none"
          /\ chain' = [chain EXCEPT ![n] = [status |-> "open", bet |-> round.bet]]
    BY <1>10 DEF HostOpens
  <2>2. PICK c : c = [status |-> "open", bet |-> round.bet]
    OBVIOUS
  <2>3. c.status = "open" /\ chain' = [chain EXCEPT ![n] = c] /\ round' = round
    BY <1>10, <2>1, <2>2 DEF HostOpens
  <2>4. chain[n].status \in {"none", "open"} /\ (c.status = "cancelled" => c.payout = Wager)
    BY <2>1, <2>3
  <2>5. GoesOn(n, c)
    BY <2>3, <2>4 DEF GoesOn
  <2> QED BY <2>5, AdvanceKeepsRefunds
<1>11. CASE SettleRound
  BY <1>11, SettleRoundKeepsRefunds
<1>12. CASE FinishLanding
  <2>1. /\ round.status = "landing" /\ chain' = chain
        /\ round' = [round EXCEPT !.status = "done"]
    BY <1>12 DEF FinishLanding, hostVars
  <2>2. round = [status |-> round.status, key |-> round.key, bet |-> round.bet,
                 outcome |-> round.outcome, payout |-> round.payout]
    BY <2>1 DEF CoinflipInv, RoundInv
  <2>3. /\ round'.key = round.key /\ round'.bet = round.bet
        /\ round'.outcome = round.outcome /\ round'.payout = round.payout
    BY <2>1, <2>2
  <2> QED BY <2>1, <2>3 DEF Refunds, HasOutcome
<1> QED BY <1>3, <1>4, <1>5, <1>6, <1>7, <1>8, <1>9, <1>10, <1>11, <1>12 DEF Next

LEMMA RefundsInvariant ==
  Spec => [](CoinflipInv /\ Refunds)
<1>1. Init => Refunds
  BY DEF Init, Refunds, HasOutcome, NoSession, NoRound
<1>2. CoinflipInv /\ Refunds /\ [Next]_vars => (CoinflipInv /\ Refunds)'
  BY NextCoinflip, NextRefunds
<1>3. Init => CoinflipInv /\ Refunds
  BY <1>1, InitCoinflip
<1> QED BY <1>2, <1>3, PTL DEF Spec

\* A round that is done: its session has ended, and what landed is what it paid.
LEMMA DoneFacts ==
  ASSUME CoinflipInv, Refunds, round.status = "done"
  PROVE  /\ round.key \in Sessions /\ chain[round.key].bet = round.bet
         /\ round.bet \in Bets
         /\ chain[round.key].status \in {"settled", "cancelled"}
         /\ Consistent(round.bet, round.outcome) \/ chain[round.key].status = "cancelled"
         /\ round.outcome.bet = round.bet
         /\ round.outcome.won = (chain[round.key].payout > 0)
         /\ round.payout = chain[round.key].payout
<1> DEFINE c == chain[round.key]
<1>1. /\ round.key \in Sessions /\ c.status \in {"settled", "cancelled"} /\ c.bet = round.bet
      /\ Landed(c, round.outcome, round.payout)
  BY DEF CoinflipInv, RoundInv, HasSession
<1>2. round.bet \in Bets
  BY <1>1 DEF CoinflipInv, HostInv, ChainOk, SessionOk
<1>3. CASE c.status = "settled"
  <2>1. /\ Consistent(round.bet, round.outcome) /\ round.outcome.won = (c.payout > 0)
        /\ round.payout = c.payout
    BY <1>1, <1>3 DEF Landed
  <2>2. round.outcome.bet = round.bet
    BY <2>1 DEF Consistent
  <2> HIDE DEF c
  <2> QED BY <1>1, <1>2, <2>1, <2>2 DEF c
<1>4. CASE c.status = "cancelled"
  <2>1. /\ round.outcome = OutcomeFromResult(round.bet, Wager > 0)
        /\ round.payout = Wager /\ c.payout = Wager
    BY <1>1, <1>4 DEF Refunds, HasOutcome
  <2>2. (Wager > 0) \in BOOLEAN
    OBVIOUS
  <2> DEFINE made == OutcomeFromResult(round.bet, Wager > 0)
  <2>3. made.won = (Wager > 0) /\ made.bet = round.bet
    <3>1. Consistent(round.bet, made) /\ made.won = (Wager > 0)
      BY <1>2, <2>2, ResultIsShown
    <3> HIDE DEF made
    <3> QED BY <3>1 DEF Consistent
  <2>4. (c.payout > 0) = (Wager > 0)
    BY <2>1
  <2> HIDE DEF c
  <2> HIDE DEF made
  <2>5. round.outcome.won = (c.payout > 0) /\ round.payout = c.payout
    BY <2>1, <2>3, <2>4 DEF made
  <2>6. round.outcome.bet = round.bet
    BY <2>1, <2>3 DEF made
  <2> QED BY <1>1, <1>2, <1>4, <2>5, <2>6 DEF c
<1> QED BY <1>1, <1>3, <1>4

LEMMA CoinsFollow ==
  CoinflipInv /\ Refunds => CoinsTellTheResult
<1> SUFFICES ASSUME CoinflipInv, Refunds, NEW form \in Forms,
                    round.status = "done", chain[round.key].status = "settled"
             PROVE  LET coins == Coins(form)
                        hits == {i \in DOMAIN coins : coins[i].mark = "match"}
                    IN  /\ DOMAIN coins = 1..chain[round.key].bet.coinCount
                        /\ DOMAIN Badges = DOMAIN coins
                        /\ \A i \in DOMAIN coins : /\ Badges[i].mark = coins[i].mark
                                                   /\ Badges[i].heads = coins[i].heads
                        /\ Cardinality(hits) >= chain[round.key].bet.minWins
                             <=> chain[round.key].payout > 0
                        /\ HitsShown => round.outcome.pickedSideWins = Cardinality(hits)
  BY DEF CoinsTellTheResult
<1> DEFINE o == round.outcome
           coins == Coins(form)
           hits == {i \in DOMAIN coins : coins[i].mark = "match"}
<1>1. /\ chain[round.key].bet = round.bet /\ o.bet = round.bet
      /\ Consistent(round.bet, o) /\ o.won = (chain[round.key].payout > 0)
  BY DoneFacts
<1>2. StagePhase = "settled" /\ HasOutcome /\ StageBet(form) = round.bet
  BY DEF StagePhase, HasOutcome, StageBet
<1>3. coins = [i \in 1..round.bet.coinCount |->
                 [heads |-> o.coins[i], spins |-> FALSE, mark |-> Mark(round.bet, o.coins[i])]]
  BY <1>1, <1>2 DEF Coins, CoinCount
<1>4. DOMAIN o.coins = 1..round.bet.coinCount
  BY <1>1 DEF Consistent
<1>5. Badges = [i \in 1..round.bet.coinCount |->
                  [heads |-> o.coins[i], mark |-> Mark(round.bet, o.coins[i])]]
  BY <1>1, <1>4 DEF Badges
<1>6. hits = Picked(round.bet, o.coins)
  <2>1. \A i \in 1..round.bet.coinCount :
          coins[i].mark = "match" <=> o.coins[i] = round.bet.pickHeads
    BY <1>3 DEF Mark
  <2>2. DOMAIN coins = 1..round.bet.coinCount
    BY <1>3
  <2> HIDE DEF coins
  <2> QED BY <1>4, <2>1, <2>2 DEF Picked
<1>7. /\ DOMAIN coins = 1..round.bet.coinCount /\ DOMAIN Badges = 1..round.bet.coinCount
      /\ \A i \in 1..round.bet.coinCount : /\ Badges[i].mark = coins[i].mark
                                           /\ Badges[i].heads = coins[i].heads
  BY <1>3, <1>5
<1> HIDE DEF coins, hits
<1>8. /\ o.pickedSideWins = Cardinality(hits)
      /\ o.won = (Cardinality(hits) >= round.bet.minWins)
  BY <1>1, <1>6 DEF Consistent
<1>9. Cardinality(hits) >= chain[round.key].bet.minWins <=> chain[round.key].payout > 0
  BY <1>1, <1>8
<1> QED BY <1>1, <1>7, <1>8, <1>9 DEF coins, hits

LEMMA OverlayFollows ==
  CoinflipInv /\ Refunds => OverlayTellsThePayout
<1> SUFFICES ASSUME CoinflipInv, Refunds, round.status = "done"
             PROVE  LET session == chain[round.key]
                    IN  /\ session.status \in {"settled", "cancelled"}
                        /\ WinVisible(FALSE) <=> session.payout > 0
                        /\ WinOverlay = [multiplier |-> Multiplier(session.payout),
                                         net |-> session.payout - Wager, bet |-> session.bet]
                        /\ session.status = "cancelled" => WinOverlay.net = 0
  BY DEF OverlayTellsThePayout
<1>1. /\ chain[round.key].bet = round.bet /\ round.payout = chain[round.key].payout
      /\ chain[round.key].status \in {"settled", "cancelled"}
      /\ round.outcome.won = (chain[round.key].payout > 0) /\ round.key \in Sessions
  BY DoneFacts
<1>2. WinVisible(FALSE) <=> chain[round.key].payout > 0
  BY <1>1 DEF WinVisible
<1>3. WinOverlay = [multiplier |-> Multiplier(chain[round.key].payout),
                    net |-> chain[round.key].payout - Wager, bet |-> chain[round.key].bet]
  BY <1>1 DEF WinOverlay, WinNet
<1>4. ASSUME chain[round.key].status = "cancelled" PROVE WinOverlay.net = 0
  <2>1. chain[round.key].payout = Wager /\ Wager \in Nat
    BY <1>1, <1>4, CoinflipAssumption DEF Refunds
  <2> QED BY <1>3, <2>1
<1> QED BY <1>1, <1>2, <1>3, <1>4

LEMMA PillsFollow ==
  CoinflipInv /\ Refunds => PillsAgree
<1> SUFFICES ASSUME CoinflipInv, Refunds, round.status = "done", round.key \in Strip,
                    page.latest.items[round.key].payout
             PROVE  /\ Pills[round.key].multiplier = WinOverlay.multiplier
                    /\ WinVisible(FALSE) /\ chain[round.key].status = "settled" =>
                         (Pills[round.key].won <=> StatsStrip(round.bet, Wager).profitOnWin > 0)
  BY DEF PillsAgree
<1> DEFINE c == chain[round.key]
<1>1. /\ round.key \in Sessions /\ round.bet \in Bets /\ c.bet = round.bet
      /\ round.payout = c.payout /\ round.outcome.won = (c.payout > 0)
  BY DoneFacts
<1>2. Pills[round.key] = [multiplier |-> Multiplier(c.payout), won |-> c.payout > Wager]
  BY DEF Pills, Pill
<1>3. Pills[round.key].multiplier = WinOverlay.multiplier
  BY <1>1, <1>2 DEF WinOverlay
<1>4. ASSUME WinVisible(FALSE), c.status = "settled"
      PROVE  Pills[round.key].won <=> StatsStrip(round.bet, Wager).profitOnWin > 0
  <2>1. c.payout > 0
    BY <1>1, <1>4 DEF WinVisible
  <2>2. SessionOk(c)
    BY <1>1 DEF CoinflipInv, HostInv, ChainOk
  <2>3. c.payout = ContractPayout(round.bet, c.word)
    BY <1>1, <1>4, <2>2 DEF SessionOk
  <2>4. c.payout = MaxPayout(Wager, round.bet)
    BY <2>1, <2>3 DEF ContractPayout
  <2>5. MaxPayout(Wager, round.bet) \in Nat /\ Wager \in Nat
    BY <1>1, BetFacts, CoinflipAssumption
  <2>6. StatsStrip(round.bet, Wager).profitOnWin = MaxReservedProfit(Wager, round.bet)
    BY DEF StatsStrip
  <2>7. Pills[round.key].won <=> MaxPayout(Wager, round.bet) > Wager
    <3>1. Pills[round.key].won = (c.payout > Wager)
      BY <1>2
    <3> QED BY <2>4, <3>1
  <2>8. \A p \in Nat : (p > Wager) <=> (IF p > Wager THEN p - Wager ELSE 0) > 0
    BY <2>5
  <2>9. MaxReservedProfit(Wager, round.bet) =
          IF MaxPayout(Wager, round.bet) > Wager THEN MaxPayout(Wager, round.bet) - Wager ELSE 0
    BY DEF MaxReservedProfit
  <2>10. MaxReservedProfit(Wager, round.bet) > 0 <=> MaxPayout(Wager, round.bet) > Wager
    BY <2>5, <2>8, <2>9
  <2> QED BY <2>6, <2>7, <2>10
<1> QED BY <1>3, <1>4

\* The coins that lie on the stage of the coinflip example, and the badges below them,
\* are the throw that the contract paid for: marked hits suffice just when it paid.
THEOREM StageShowsTheThrow ==
  Spec => []CoinsTellTheResult
BY RefundsInvariant, CoinsFollow, PTL

\* The overlay of a win says what the chain paid, and comes up for nothing else; a round
\* that was cancelled and pays its wager back lands as a win with a net of nothing.
THEOREM OverlaySaysWhatWasPaid ==
  Spec => []OverlayTellsThePayout
BY RefundsInvariant, OverlayFollows, PTL

\* The history pill and the overlay of a round give one multiplier; the pill is green
\* just for a win that the strip below the stage promised a profit for.
THEOREM PillsMatchTheOverlay ==
  Spec => []PillsAgree
BY RefundsInvariant, PillsFollow, PTL

-----------------------------------------------------------------------------
(* The limits of the bet, and the form.                                    *)

\* Division rounds down.
LEMMA Quotient ==
  \A n \in Nat \ {0} : \A a \in Nat : \E q \in Nat : q = a \div n /\ n * q <= a /\ a < n * q + n
<1> SUFFICES ASSUME NEW n \in Nat, n > 0, NEW a \in Nat
             PROVE  \E q \in Nat : q = a \div n /\ n * q <= a /\ a < n * q + n
  OBVIOUS
<1>1. a % n \in 0..(n - 1) /\ a \div n \in Nat
  OBVIOUS
<1>2. a = n * (a \div n) + (a % n)
  OBVIOUS
<1> QED BY <1>1, <1>2

\* The multiplier in basis points is rounded up, and a payout down: in basis points of the
\* wager, no payout is more than the multiplier.
InBps(num, den) == (num * 10000 + den - 1) \div den
PaidOut(w, num, den) == (w * num) \div den
AtMost(p, w, bps) == p * 10000 <= w * bps

LEMMA PayoutInBps ==
  ASSUME NEW w \in Nat, NEW num \in Nat, NEW den \in Nat \ {0}
  PROVE  /\ InBps(num, den) \in Nat /\ PaidOut(w, num, den) \in Nat
         /\ AtMost(PaidOut(w, num, den), w, InBps(num, den))
<1> DEFINE x == w * num
           a == num * 10000 + den - 1
<1>1. x \in Nat /\ a \in Nat /\ a = num * 10000 + den - 1
  OBVIOUS
<1>a. a \in Nat
  BY <1>1
<1>x. x \in Nat
  BY <1>1
<1> HIDE DEF x, a
<1>2. PICK bps \in Nat : bps = a \div den /\ den * bps <= a /\ a < den * bps + den
  BY <1>a, Quotient, Zenon
<1>3. PICK p \in Nat : p = x \div den /\ den * p <= x /\ x < den * p + den
  BY <1>x, Quotient, Zenon
<1>4. num * 10000 <= den * bps
  <2> DEFINE d == den * bps
  <2>1. d \in Nat /\ a < d + den
    BY <1>2
  <2> HIDE DEF d
  <2>2. num * 10000 <= d
    BY <1>1, <2>1
  <2> QED BY <2>2 DEF d
<1>5. x * 10000 <= (w * bps) * den
  <2>1. w * (num * 10000) <= w * (den * bps)
    BY <1>4
  <2>2. w * (num * 10000) = (w * num) * 10000 /\ w * (den * bps) = (w * bps) * den
    BY <1>2
  <2> QED BY <2>1, <2>2 DEF x
<1> DEFINE y == w * bps
<1>6. y \in Nat /\ x * 10000 <= y * den
  BY <1>5
<1> HIDE DEF y
<1>7. p * 10000 <= y
  <2>1. (p * 10000) * den <= y * den
    <3>1. (p * 10000) * den = (den * p) * 10000
      OBVIOUS
    <3> DEFINE e == den * p
    <3>2. e \in Nat /\ e <= x
      BY <1>3
    <3> HIDE DEF e
    <3>3. e * 10000 <= x * 10000
      BY <1>1, <3>2
    <3>4. e * 10000 <= y * den
      <4> DEFINE z == y * den
      <4>1. z \in Nat /\ x * 10000 <= z
        BY <1>6
      <4> HIDE DEF z
      <4>2. e * 10000 <= z
        BY <1>1, <3>2, <3>3, <4>1
      <4> QED BY <4>2 DEF z
    <3> QED BY <3>1, <3>4 DEF e
  <2>2. \A c, d \in Int : c * den <= d * den => c <= d
    OBVIOUS
  <2> QED BY <1>6, <2>1, <2>2
<1>8. InBps(num, den) = bps /\ PaidOut(w, num, den) = p
  BY <1>2, <1>3 DEF a, x, InBps, PaidOut
<1> QED BY <1>7, <1>8 DEF y, AtMost

\* A wager within computeMaxWager reserves no more than the published limit.
LEMMA WithinMaxWager ==
  ASSUME NEW w \in Nat, NEW published \in Nat, NEW num \in Nat, NEW den \in Nat \ {0},
         \A max \in ComputeMaxWager(published, [numerator |-> num, denominator |-> den]) : w <= max
  PROVE  (w * num) \div den - w <= published
<1> DEFINE bps == InBps(num, den)
           p == PaidOut(w, num, den)
<1>a. bps \in Nat /\ p \in Nat /\ AtMost(p, w, bps)
  BY PayoutInBps, Zenon
<1>1. bps \in Nat /\ p \in Nat /\ p * 10000 <= w * bps
  BY <1>a DEF AtMost
<1>2. bps = (num * 10000 + den - 1) \div den /\ p = (w * num) \div den
  BY DEF InBps, PaidOut
<1> HIDE DEF bps, p
<1>3. published # None
  BY DEF None
<1>4. bps > 10000 => w <= (published * 10000) \div (bps - 10000)
  BY <1>1, <1>2, <1>3 DEF ComputeMaxWager
<1>5. p - w <= published
  <2>1. CASE bps <= 10000
    <3>1. w * bps <= w * 10000
      BY <1>1, <2>1
    <3> DEFINE y == w * bps
    <3>2. y \in Nat /\ y <= w * 10000 /\ p * 10000 <= y
      BY <1>1, <3>1
    <3> HIDE DEF y
    <3> QED BY <1>1, <3>2
  <2>2. CASE bps > 10000
    <3> DEFINE d == bps - 10000
               y == published * 10000
    <3>1. d \in Nat \ {0} /\ y \in Nat /\ w <= y \div d
      BY <1>1, <1>4, <2>2
    <3>2. w * bps = w * d + w * 10000
      BY <1>1
    <3> HIDE DEF d, y
    <3>3. PICK q \in Nat : q = y \div d /\ d * q <= y /\ y < d * q + d
      BY <3>1, Quotient, Zenon
    <3>4. w * d <= d * q
      BY <3>1, <3>3
    <3> DEFINE x == w * d
               z == d * q
    <3>5. x \in Nat /\ z \in Nat /\ x <= z /\ z <= y /\ p * 10000 <= x + w * 10000
      BY <1>1, <3>1, <3>2, <3>3, <3>4
    <3> HIDE DEF x, z
    <3>6. p * 10000 <= published * 10000 + w * 10000
      BY <1>1, <3>1, <3>5 DEF y
    <3> QED BY <1>1, <3>6
  <2> QED BY <1>1, <2>1, <2>2
<1> QED BY <1>2, <1>5

\* The wager that the Max button of the coinflip example fills in is covered by the
\* balance and within the house's limit, for every form, balance and limit, and so is any
\* below the platform's own: the page never offers a bet that it then refuses.
THEOREM MaxButtonFits ==
  ASSUME NEW form \in Forms, NEW balance \in Nat, page.latest.limit \in Nat \cup {None}
  PROVE  /\ LET w == SetMaxWager(balance, form)
            IN  ~InsufficientBalance(w, balance) /\ ~ExceedsRiskLimit(w, form)
         /\ \A w \in Nat : (\A max \in PlatformMaxWager(form) : w <= max)
                             => ~ExceedsRiskLimit(w, form)
<1> DEFINE ways == WinningWays(form.coinCount, form.minWins)
           throws == 2^form.coinCount
           published == page.latest.limit
           w == SetMaxWager(balance, form)
<1>1. ways \in Nat \ {0} /\ throws \in Nat \ {0}
  BY WaysAssumption
<1>2. \A v \in Nat : MaxPayout(v, form) = (v * 9800 * throws) \div (10000 * ways)
  BY DEF MaxPayout
<1>3. PayoutMultiplier(form) = [numerator |-> 9800 * throws, denominator |-> 10000 * ways]
  BY DEF PayoutMultiplier
<1> HIDE DEF ways, throws
<1> DEFINE num == 9800 * throws
           den == 10000 * ways
<1>4. num \in Nat /\ den \in Nat \ {0}
  BY <1>1
<1>5. \A v \in Nat : v * 9800 * throws = v * num
  BY <1>1
<1>6. /\ \A v \in Nat : MaxPayout(v, form) = (v * num) \div den
      /\ PayoutMultiplier(form) = [numerator |-> num, denominator |-> den]
  <2>1. \A v \in Nat : MaxPayout(v, form) = (v * 9800 * throws) \div den
    BY <1>2
  <2> HIDE DEF num, den
  <2> QED BY <1>3, <1>5, <2>1 DEF num, den
<1> HIDE DEF num, den
<1>7. ASSUME NEW v \in Nat, \A max \in PlatformMaxWager(form) : v <= max
      PROVE  ~ExceedsRiskLimit(v, form)
  <2>1. CASE published = None
    BY <2>1 DEF ExceedsRiskLimit
  <2>2. CASE published \in Nat
    <3>1. (v * num) \div den - v <= published
      BY <1>4, <1>6, <1>7, <2>2, WithinMaxWager DEF PlatformMaxWager
    <3>2. PICK p : p = (v * num) \div den
      OBVIOUS
    <3>3. p \in Nat
      <4> DEFINE x == v * num
      <4>1. x \in Nat
        BY <1>4
      <4> HIDE DEF x
      <4>2. PICK q \in Nat : q = x \div den /\ den * q <= x /\ x < den * q + den
        BY <1>4, <4>1, Quotient, Zenon
      <4> QED BY <3>2, <4>2 DEF x
    <3>4. MaxPayout(v, form) = p
      BY <1>6, <3>2
    <3>5. p - v <= published
      BY <3>1, <3>2
    <3>6. MaxReservedProfit(v, form) = IF p > v THEN p - v ELSE 0
      BY <3>4 DEF MaxReservedProfit
    <3>7. ~(MaxReservedProfit(v, form) > published)
      BY <2>2, <3>3, <3>5, <3>6
    <3> QED BY <3>7 DEF ExceedsRiskLimit
  <2> QED BY <2>1, <2>2
<1>8. w \in Nat /\ w <= balance /\ \A max \in PlatformMaxWager(form) : w <= max
  <2> DEFINE limits == PlatformMaxWager(form)
  <2>1. limits = {} \/ \E max \in Nat : limits = {max}
    <3> DEFINE bps == (num * 10000 + den - 1) \div den
    <3>1. limits = IF bps <= 10000 \/ published = None THEN {}
                   ELSE {(published * 10000) \div (bps - 10000)}
      BY <1>6 DEF PlatformMaxWager, ComputeMaxWager
    <3>2. bps \in Nat
      <4>1. InBps(num, den) \in Nat
        BY <1>4, PayoutInBps
      <4> QED BY <4>1 DEF InBps
    <3> HIDE DEF bps
    <3>3. CASE bps <= 10000 \/ published = None
      BY <3>1, <3>3
    <3>4. CASE ~(bps <= 10000 \/ published = None)
      <4> DEFINE x == published * 10000  d == bps - 10000
      <4>1. x \in Nat /\ d \in Nat \ {0}
        BY <3>2, <3>4
      <4>2. limits = {x \div d}
        BY <3>1, <3>4
      <4> HIDE DEF x, d, limits
      <4>3. PICK q \in Nat : q = x \div d /\ d * q <= x /\ x < d * q + d
        BY <4>1, Quotient, Zenon
      <4> QED BY <4>2, <4>3
    <3> QED BY <3>3, <3>4
  <2> DEFINE candidates == {balance} \cup limits
  <2>2. \E least \in candidates : \A candidate \in candidates : least <= candidate
    <3> HIDE DEF limits
    <3>1. CASE limits = {}
      BY <3>1
    <3>2. ASSUME NEW max \in Nat, limits = {max}
          PROVE  \E least \in candidates : \A candidate \in candidates : least <= candidate
      <4>1. CASE balance <= max
        BY <3>2, <4>1
      <4>2. CASE max <= balance
        BY <3>2, <4>2
      <4> QED BY <4>1, <4>2
    <3> QED BY <2>1, <3>1, <3>2
  <2>3. w = CHOOSE least \in candidates : \A candidate \in candidates : least <= candidate
    BY DEF SetMaxWager
  <2> HIDE DEF w, limits
  <2>4. w \in candidates /\ \A candidate \in candidates : w <= candidate
    BY <2>2, <2>3
  <2>5. candidates \subseteq Nat
    BY <2>1
  <2> QED BY <2>4, <2>5 DEF limits
<1> HIDE DEF w
<1>9. ~InsufficientBalance(w, balance)
  BY <1>8 DEF InsufficientBalance
<1>10. ~ExceedsRiskLimit(w, form)
  BY <1>7, <1>8
<1> QED BY <1>7, <1>9, <1>10 DEF w

\* However the pills and sliders of the form are moved, it stays a bet that the contract
\* takes: no more hits than coins.
THEOREM FormStaysABet ==
  ASSUME NEW form \in Forms
  PROVE  /\ \A heads \in BOOLEAN : SetSide(form, heads) \in Forms
         /\ \A coins \in 1..MAX_COIN_COUNT : SetCoins(form, coins) \in Forms
         /\ \A hits \in 1..form.coinCount : SetHits(form, hits) \in Forms
<1>1. MAX_COIN_COUNT \in Nat
  BY DEF MAX_COIN_COUNT
<1>2. /\ form = [pickHeads |-> form.pickHeads, coinCount |-> form.coinCount,
                 minWins |-> form.minWins]
      /\ form.pickHeads \in BOOLEAN /\ form.coinCount \in 1..MAX_COIN_COUNT
      /\ form.minWins \in 1..MAX_COIN_COUNT /\ form.minWins <= form.coinCount
  BY DEF Forms
<1>3. ASSUME NEW heads \in BOOLEAN PROVE SetSide(form, heads) \in Forms
  BY <1>2 DEF SetSide, Forms
<1>4. ASSUME NEW coins \in 1..MAX_COIN_COUNT PROVE SetCoins(form, coins) \in Forms
  <2> DEFINE hits == IF form.minWins <= coins THEN form.minWins ELSE coins
  <2>1. SetCoins(form, coins) = [pickHeads |-> form.pickHeads, coinCount |-> coins, minWins |-> hits]
    <3>1. SetCoins(form, coins) = [form EXCEPT !.coinCount = coins, !.minWins = hits]
      BY DEF SetCoins
    <3> HIDE DEF hits
    <3> QED BY <1>2, <3>1
  <2>2. hits \in 1..MAX_COIN_COUNT /\ hits <= coins
    BY <1>1, <1>2
  <2> HIDE DEF hits
  <2> QED BY <1>2, <2>1, <2>2 DEF Forms
<1>5. ASSUME NEW hits \in 1..form.coinCount PROVE SetHits(form, hits) \in Forms
  BY <1>1, <1>2 DEF SetHits, Forms
<1> QED BY <1>3, <1>4, <1>5

=============================================================================
